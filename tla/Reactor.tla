------------------------------ MODULE Reactor ------------------------------
(***************************************************************************)
(* The multi-reactor core of Icee: the listener thread accepts clients and *)
(* hands each one to a reactor (EventLooper); every reactor thread polls   *)
(* its own kqueue, runs the callback of each ready connection and, when    *)
(* the handler decides so, deletes that connection.                        *)
(*                                                                         *)
(* A Connection object is named after the one client socket it wraps, so   *)
(* an element of Conns is both.  A client connects at most once; a fresh   *)
(* client stands for a reconnect.  Descriptor NUMBERS (Fds) are reused by  *)
(* the kernel as soon as they are closed.                                  *)
(***************************************************************************)
EXTENDS Naturals, FiniteSets

CONSTANTS
  Conns,     \* client sockets / the Connection objects made for them
  Fds,       \* descriptor numbers the process may have open for clients
  Loopers,   \* the reactors, Acceptor::event_loopers_
  MayExit,   \* the reactors somebody calls SetExit on
  PollSize,  \* Poller::poll_size_, the events one Poll can return
  MaxInbuf,  \* bound: unread chunks the kernel holds for one socket
  None       \* no connection / no looper / no descriptor

ASSUME ReactorAssumption ==
  /\ Loopers # {} /\ MayExit \subseteq Loopers
  /\ PollSize \in Nat \ {0} /\ MaxInbuf \in Nat \ {0}
  /\ None \notin Conns \cup Fds \cup Loopers
  /\ {"free", "listener"} \cap Loopers = {}

VARIABLES
  \* the kernel: sockets, kqueue registrations, descriptor table
  sock,         \* idle -> queued (in the backlog) -> open -> closed
  inbuf,        \* chunks received and not read yet
  eof,          \* the peer closed or reset the connection
  edge,         \* an EV_CLEAR event is active and not yet delivered
  knote,        \* the looper whose kqueue holds this socket, or None
  fdTable,      \* descriptor number -> open socket
  \* the heap: Connection objects
  heap,         \* the objects that are allocated
  connFd,       \* socket_->fd_
  owner,        \* owner_looper_
  \* EventLooper
  connections,  \* connections_: per looper, descriptor number -> object
  latch,        \* latch_: "free", "listener" or the reactor that holds it
  exit,         \* exit_
  \* threads
  lpc, lconn,   \* listener: where it is, the connection it is handing over
  rpc,          \* reactor: where it is
  ready,        \* what Poll returned and loop() has not run yet
  cur,          \* the connection whose callback runs
  victim        \* the object DeleteConnection unlinked and is destroying

kernelVars == <<sock, inbuf, eof, edge, knote, fdTable>>
objectVars == <<heap, connFd, owner>>
looperVars == <<connections, latch, exit>>
listenerVars == <<lpc, lconn>>
reactorVars == <<rpc, ready, cur, victim>>
vars == <<kernelVars, objectVars, looperVars, listenerVars, reactorVars>>

Init ==
  /\ sock = [c \in Conns |-> "idle"]
  /\ inbuf = [c \in Conns |-> 0]
  /\ eof = [c \in Conns |-> FALSE]
  /\ edge = [c \in Conns |-> FALSE]
  /\ knote = [c \in Conns |-> None]
  /\ fdTable = [f \in Fds |-> None]
  /\ heap = {}
  /\ connFd = [c \in Conns |-> None]
  /\ owner = [c \in Conns |-> None]
  /\ connections = [l \in Loopers |-> [f \in Fds |-> None]]
  /\ latch = [l \in Loopers |-> "free"]
  /\ exit = [l \in Loopers |-> FALSE]
  /\ lpc = "poll" /\ lconn = None
  /\ rpc = [l \in Loopers |-> "top"]
  /\ ready = [l \in Loopers |-> {}]
  /\ cur = [l \in Loopers |-> None]
  /\ victim = [l \in Loopers |-> None]

Backlog == {c \in Conns : sock[c] = "queued"}
FreeFds == {f \in Fds : fdTable[f] = None}
Readable(c) == inbuf[c] > 0 \/ eof[c]
Connected(c) == sock[c] \in {"queued", "open"}

-----------------------------------------------------------------------------
(* The clients and the network.                                            *)

Connect(c) ==
  /\ sock[c] = "idle"
  /\ sock' = [sock EXCEPT ![c] = "queued"]
  /\ UNCHANGED <<inbuf, eof, edge, knote, fdTable>>
  /\ UNCHANGED <<objectVars, looperVars, listenerVars, reactorVars>>

\* Anything that makes a registered socket readable activates its event.
Trigger(c) == edge' = [edge EXCEPT ![c] = @ \/ knote[c] # None]

PeerSend(c) ==
  /\ Connected(c) /\ ~eof[c] /\ inbuf[c] < MaxInbuf
  /\ inbuf' = [inbuf EXCEPT ![c] = @ + 1]
  /\ Trigger(c)
  /\ UNCHANGED <<sock, eof, knote, fdTable>>
  /\ UNCHANGED <<objectVars, looperVars, listenerVars, reactorVars>>

PeerClose(c) ==
  /\ Connected(c) /\ ~eof[c]
  /\ eof' = [eof EXCEPT ![c] = TRUE]
  /\ Trigger(c)
  /\ UNCHANGED <<sock, inbuf, knote, fdTable>>
  /\ UNCHANGED <<objectVars, looperVars, listenerVars, reactorVars>>

\* A reset drops what was not read; in the backlog it removes the entry, which
\* leaves a listener that has already been told to accept with nothing to take.
PeerReset(c) ==
  /\ \/ /\ sock[c] = "queued"
        /\ sock' = [sock EXCEPT ![c] = "closed"]
     \/ /\ sock[c] = "open" /\ (~eof[c] \/ inbuf[c] > 0)
        /\ UNCHANGED sock
  /\ inbuf' = [inbuf EXCEPT ![c] = 0]
  /\ eof' = [eof EXCEPT ![c] = TRUE]
  /\ Trigger(c)
  /\ UNCHANGED <<knote, fdTable>>
  /\ UNCHANGED <<objectVars, looperVars, listenerVars, reactorVars>>

-----------------------------------------------------------------------------
(* The listener thread: listener_->loop() and Acceptor::BaseAcceptCallback *)

\* The listening socket is level-triggered: ready as long as somebody waits.
ListenerPoll ==
  /\ lpc = "poll" /\ Backlog # {}
  /\ lpc' = "accept"
  /\ UNCHANGED <<kernelVars, objectVars, looperVars, lconn, reactorVars>>

\* accept() on the blocking listening socket: the thread stays here while the
\* backlog is empty.  Out of descriptors it returns -1, and the callback returns.
AcceptFail ==
  /\ lpc = "accept" /\ Backlog # {} /\ FreeFds = {}
  /\ lpc' = "poll"
  /\ UNCHANGED <<kernelVars, objectVars, looperVars, lconn, reactorVars>>

\* The new Connection is built by the listener alone and given to rand()'s looper.
Accept(c, f, l) ==
  /\ lpc = "accept" /\ c \in Backlog /\ f \in FreeFds
  /\ sock' = [sock EXCEPT ![c] = "open"]
  /\ fdTable' = [fdTable EXCEPT ![f] = c]
  /\ heap' = heap \cup {c}
  /\ connFd' = [connFd EXCEPT ![c] = f]
  /\ owner' = [owner EXCEPT ![c] = l]
  /\ lpc' = "lock" /\ lconn' = c
  /\ UNCHANGED <<inbuf, eof, edge, knote, looperVars, reactorVars>>

\* EventLooper::AddConnection: lock latch_, register with the poller, insert.
AddLock ==
  /\ lpc = "lock"
  /\ latch[owner[lconn]] = "free"
  /\ latch' = [latch EXCEPT ![owner[lconn]] = "listener"]
  /\ lpc' = "register"
  /\ UNCHANGED <<kernelVars, objectVars, connections, exit, lconn, reactorVars>>

\* A second rand() for the looper the connection is registered with.
RegisterAnywhere ==
  /\ lpc = "register"
  /\ \E l \in Loopers : knote' = [knote EXCEPT ![lconn] = l]
  /\ edge' = [edge EXCEPT ![lconn] = Readable(lconn)]
  /\ lpc' = "insert"
  /\ UNCHANGED <<sock, inbuf, eof, fdTable, objectVars, looperVars, lconn, reactorVars>>

\* kevent(EV_ADD | EV_CLEAR): the event is active at once if there is something to read.
AddRegister ==
  /\ lpc = "register"
  /\ knote' = [knote EXCEPT ![lconn] = owner[lconn]]
  /\ edge' = [edge EXCEPT ![lconn] = Readable(lconn)]
  /\ lpc' = "insert"
  /\ UNCHANGED <<sock, inbuf, eof, fdTable, objectVars, looperVars, lconn, reactorVars>>

\* ~Connection, ~Socket: the object goes, its descriptor is closed, and the
\* kernel drops the registration with it.
Destroy(c) ==
  /\ heap' = heap \ {c}
  /\ fdTable' = [fdTable EXCEPT ![connFd[c]] = None]
  /\ sock' = [sock EXCEPT ![c] = "closed"]
  /\ knote' = [knote EXCEPT ![c] = None]
  /\ edge' = [edge EXCEPT ![c] = FALSE]

\* unordered_map::insert keeps an existing entry; the new object would then die here.
AddInsert ==
  LET l == owner[lconn]
      f == connFd[lconn]
  IN /\ lpc = "insert"
     /\ IF connections[l][f] = None
          THEN /\ connections' = [connections EXCEPT ![l][f] = lconn]
               /\ UNCHANGED <<heap, fdTable, sock, knote, edge>>
          ELSE /\ Destroy(lconn)
               /\ UNCHANGED connections
     /\ latch' = [latch EXCEPT ![l] = "free"]
     /\ lpc' = "poll" /\ lconn' = None
     /\ UNCHANGED <<inbuf, eof, connFd, owner, exit, reactorVars>>

ListenerStep ==
  \/ ListenerPoll \/ AcceptFail
  \/ \E c \in Conns, f \in Fds, l \in Loopers : Accept(c, f, l)
  \/ AddLock \/ AddRegister \/ AddInsert

-----------------------------------------------------------------------------
(* A reactor thread: EventLooper::loop and the connection's callback.      *)

LoopTop(l) ==
  /\ rpc[l] = "top"
  /\ rpc' = [rpc EXCEPT ![l] = IF exit[l] THEN "done" ELSE "poll"]
  /\ UNCHANGED <<kernelVars, objectVars, looperVars, listenerVars, ready, cur, victim>>

Active(l) == {c \in Conns : knote[c] = l /\ edge[c]}

\* kevent without a timeout.
PollForever(l) ==
  /\ rpc[l] = "poll" /\ Active(l) # {}
  /\ \E S \in SUBSET Active(l) :
       /\ \/ S = Active(l) /\ Cardinality(S) <= PollSize
          \/ Cardinality(S) = PollSize
       /\ ready' = [ready EXCEPT ![l] = S]
       /\ edge' = [c \in Conns |-> edge[c] /\ c \notin S]
  /\ rpc' = [rpc EXCEPT ![l] = "run"]
  /\ UNCHANGED <<sock, inbuf, eof, knote, fdTable, objectVars, looperVars,
                 listenerVars, cur, victim>>

\* kevent: the active events, at most PollSize of them, each delivered once
\* (EV_CLEAR); none when the three-second timeout expires.
Poll(l) ==
  /\ rpc[l] = "poll"
  /\ \E S \in SUBSET Active(l) :
       /\ \/ S = Active(l) /\ Cardinality(S) <= PollSize
          \/ Cardinality(S) = PollSize
       /\ ready' = [ready EXCEPT ![l] = S]
       /\ edge' = [c \in Conns |-> edge[c] /\ c \notin S]
  /\ rpc' = [rpc EXCEPT ![l] = "run"]
  /\ UNCHANGED <<sock, inbuf, eof, knote, fdTable, objectVars, looperVars,
                 listenerVars, cur, victim>>

RunCallback(l, c) ==
  /\ rpc[l] = "run" /\ c \in ready[l]
  /\ ready' = [ready EXCEPT ![l] = @ \ {c}]
  /\ cur' = [cur EXCEPT ![l] = c]
  /\ rpc' = [rpc EXCEPT ![l] = "recv"]
  /\ UNCHANGED <<kernelVars, objectVars, looperVars, listenerVars, victim>>

LoopEnd(l) ==
  /\ rpc[l] = "run" /\ ready[l] = {}
  /\ rpc' = [rpc EXCEPT ![l] = "top"]
  /\ UNCHANGED <<kernelVars, objectVars, looperVars, listenerVars, ready, cur, victim>>

\* A Recv that returns after the first chunk.
RecvChunkOnce(l) ==
  /\ rpc[l] = "recv" /\ inbuf[cur[l]] > 0
  /\ inbuf' = [inbuf EXCEPT ![cur[l]] = @ - 1]
  /\ rpc' = [rpc EXCEPT ![l] = "serve"]
  /\ UNCHANGED <<sock, eof, edge, knote, fdTable, objectVars, looperVars, listenerVars,
                 ready, cur, victim>>

\* Connection::Recv: read until recv() has nothing left ...
RecvChunk(l) ==
  /\ rpc[l] = "recv" /\ inbuf[cur[l]] > 0
  /\ inbuf' = [inbuf EXCEPT ![cur[l]] = @ - 1]
  /\ UNCHANGED <<sock, eof, edge, knote, fdTable, objectVars, looperVars, listenerVars,
                 reactorVars>>

\* A Recv that takes the end of the stream for EAGAIN.
RecvIgnoresEof(l) ==
  /\ rpc[l] = "recv" /\ inbuf[cur[l]] = 0
  /\ rpc' = [rpc EXCEPT ![l] = "serve"]
  /\ UNCHANGED <<kernelVars, objectVars, looperVars, listenerVars, ready, cur, victim>>

\* ... which is EAGAIN (serve what came) or the end of the stream (delete).
RecvReturn(l) ==
  /\ rpc[l] = "recv" /\ inbuf[cur[l]] = 0
  /\ rpc' = [rpc EXCEPT ![l] = IF eof[cur[l]] THEN "delete" ELSE "serve"]
  /\ UNCHANGED <<kernelVars, objectVars, looperVars, listenerVars, ready, cur, victim>>

\* The application's part of the handler ends by keeping the connection ...
ServeKeep(l) ==
  /\ rpc[l] = "serve"
  /\ rpc' = [rpc EXCEPT ![l] = "run"]
  /\ cur' = [cur EXCEPT ![l] = None]
  /\ UNCHANGED <<kernelVars, objectVars, looperVars, listenerVars, ready, victim>>

\* ... or by closing it (no_more_parse).
ServeClose(l) ==
  /\ rpc[l] = "serve"
  /\ rpc' = [rpc EXCEPT ![l] = "delete"]
  /\ UNCHANGED <<kernelVars, objectVars, looperVars, listenerVars, ready, cur, victim>>

\* DeleteConnection that does not wait for latch_.
DeleteWithoutLatch(l) ==
  /\ rpc[l] = "delete"
  /\ latch' = [latch EXCEPT ![owner[cur[l]]] = l]
  /\ rpc' = [rpc EXCEPT ![l] = "erase"]
  /\ UNCHANGED <<kernelVars, objectVars, connections, exit, listenerVars, ready, cur, victim>>

\* client_conn->GetLooper()->DeleteConnection(fd)
DeleteLock(l) ==
  /\ rpc[l] = "delete"
  /\ latch[owner[cur[l]]] = "free"
  /\ latch' = [latch EXCEPT ![owner[cur[l]]] = l]
  /\ rpc' = [rpc EXCEPT ![l] = "erase"]
  /\ UNCHANGED <<kernelVars, objectVars, connections, exit, listenerVars, ready, cur, victim>>

\* What find(fd) yields for the descriptor number the handler saved on entry.
Found(l) == connections[owner[cur[l]]][connFd[cur[l]]]

\* The object is destroyed, its map entry stays.
DeleteFindNoUnlink(l) ==
  /\ rpc[l] = "erase" /\ Found(l) # None
  /\ victim' = [victim EXCEPT ![l] = Found(l)]
  /\ rpc' = [rpc EXCEPT ![l] = "destroy"]
  /\ UNCHANGED <<kernelVars, objectVars, looperVars, listenerVars, ready, cur>>

DeleteFind(l) ==
  /\ rpc[l] = "erase"
  /\ IF Found(l) = None
       THEN /\ rpc' = [rpc EXCEPT ![l] = "unlock"]   \* return false
            /\ UNCHANGED <<connections, victim>>
       ELSE /\ victim' = [victim EXCEPT ![l] = Found(l)]
            /\ connections' = [connections EXCEPT ![owner[cur[l]]][connFd[cur[l]]] = None]
            /\ rpc' = [rpc EXCEPT ![l] = "destroy"]
  /\ UNCHANGED <<kernelVars, objectVars, latch, exit, listenerVars, ready, cur>>

\* The unlinked map node dies with the latch held; from close() on, the
\* listener may get the same descriptor number again.
DeleteDestroy(l) ==
  /\ rpc[l] = "destroy"
  /\ Destroy(victim[l])
  /\ victim' = [victim EXCEPT ![l] = None]
  /\ rpc' = [rpc EXCEPT ![l] = "unlock"]
  /\ UNCHANGED <<inbuf, eof, connFd, owner, looperVars, listenerVars, ready, cur>>

\* A handler that goes on after DeleteConnection instead of returning.
DeleteNoReturn(l) ==
  /\ rpc[l] = "unlock"
  /\ latch' = [latch EXCEPT ![owner[cur[l]]] = "free"]
  /\ rpc' = [rpc EXCEPT ![l] = "serve"]
  /\ UNCHANGED <<kernelVars, objectVars, connections, exit, listenerVars, ready, cur, victim>>

DeleteUnlock(l) ==
  /\ rpc[l] = "unlock"
  /\ latch' = [latch EXCEPT ![owner[cur[l]]] = "free"]
  /\ rpc' = [rpc EXCEPT ![l] = "run"]
  /\ cur' = [cur EXCEPT ![l] = None]
  /\ UNCHANGED <<kernelVars, objectVars, connections, exit, listenerVars, ready, victim>>

ReactorStep(l) ==
  \/ LoopTop(l) \/ Poll(l) \/ LoopEnd(l)
  \/ \E c \in Conns : RunCallback(l, c)
  \/ RecvChunk(l) \/ RecvReturn(l) \/ ServeKeep(l) \/ ServeClose(l)
  \/ DeleteLock(l) \/ DeleteFind(l) \/ DeleteDestroy(l) \/ DeleteUnlock(l)

SetExit(l) ==
  /\ l \in MayExit /\ ~exit[l]
  /\ exit' = [exit EXCEPT ![l] = TRUE]
  /\ UNCHANGED <<kernelVars, objectVars, connections, latch, listenerVars, reactorVars>>

-----------------------------------------------------------------------------
Next ==
  \/ \E c \in Conns : Connect(c) \/ PeerSend(c) \/ PeerClose(c) \/ PeerReset(c)
  \/ ListenerStep
  \/ \E l \in Loopers : ReactorStep(l) \/ SetExit(l)

Spec == Init /\ [][Next]_vars

-----------------------------------------------------------------------------
(* Properties.                                                             *)

ConnOrNone == Conns \cup {None}

\* Every variable holds a value of its type.
TypeOK ==
  /\ sock \in [Conns -> {"idle", "queued", "open", "closed"}]
  /\ inbuf \in [Conns -> 0..MaxInbuf]
  /\ eof \in [Conns -> BOOLEAN] /\ edge \in [Conns -> BOOLEAN]
  /\ knote \in [Conns -> Loopers \cup {None}]
  /\ fdTable \in [Fds -> ConnOrNone]
  /\ heap \in SUBSET Conns
  /\ connFd \in [Conns -> Fds \cup {None}]
  /\ owner \in [Conns -> Loopers \cup {None}]
  /\ connections \in [Loopers -> [Fds -> ConnOrNone]]
  /\ latch \in [Loopers -> {"free", "listener"} \cup Loopers]
  /\ exit \in [Loopers -> BOOLEAN]
  /\ lpc \in {"poll", "accept", "lock", "register", "insert"}
  /\ lconn \in ConnOrNone
  /\ rpc \in [Loopers -> {"top", "poll", "run", "recv", "serve", "delete", "erase",
                          "destroy", "unlock", "done"}]
  /\ ready \in [Loopers -> SUBSET Conns]
  /\ cur \in [Loopers -> ConnOrNone]
  /\ victim \in [Loopers -> ConnOrNone]

\* No pointer to a destroyed Connection is ever followed: neither the kqueue's
\* udata nor the vector Poll returned nor the argument of a running callback
\* outlives its object, although loop() runs the whole vector while its
\* callbacks delete connections.
NoUseAfterFree ==
  /\ \A c \in Conns : knote[c] # None => c \in heap
  /\ \A l \in Loopers :
       /\ ready[l] \subseteq heap
       /\ rpc[l] \in {"recv", "serve", "delete", "erase"} => cur[l] \in heap

\* A reactor deletes exactly the connection it handles: the descriptor number
\* the handler saved on entry still names it in the looper's map, although
\* registration comes before insertion in AddConnection and the kernel reuses numbers.
DeletesItsOwn ==
  \A l \in Loopers : rpc[l] = "erase" => owner[cur[l]] = l /\ Found(l) = cur[l]

\* Every Connection object has exactly one holder: the listener that builds it,
\* the map of the looper it belongs to, or the DeleteConnection that destroys it;
\* and while it exists the descriptor it wraps is open on its own socket.
OneHolder ==
  /\ \A c \in heap :
       /\ fdTable[connFd[c]] = c
       /\ \/ connections[owner[c]][connFd[c]] = c
          \/ lconn = c
          \/ \E l \in Loopers : victim[l] = c
  /\ \A l \in Loopers, f \in Fds :
       LET c == connections[l][f]
       IN c # None => c \in heap /\ owner[c] = l /\ connFd[c] = f

\* "One loop per thread": a connection is handled, or about to be, by its own
\* looper's thread only, so no two threads ever touch its buffers.
OneThreadPerConnection ==
  \A l \in Loopers : \A c \in ready[l] \cup ({cur[l]} \ {None}) : owner[c] = l

\* Edge triggering loses nothing: a registered socket with something to read has
\* an event coming, is in the vector being run, or is being read until EAGAIN.
NoLostEdge ==
  \A c \in Conns : knote[c] # None /\ Readable(c) =>
    \/ edge[c]
    \/ c \in ready[knote[c]]
    \/ /\ cur[knote[c]] = c
       /\ rpc[knote[c]] \in {"recv", "delete", "erase", "destroy"}

\* An accepted client is never dropped on the way to its looper: when AddConnection
\* inserts, the map has no entry under that descriptor number any more, because a
\* number is closed, and can be reused, only after its entry was unlinked.
AcceptedIsKept ==
  [][lpc = "insert" /\ lpc' = "poll" =>
       /\ lconn \in heap'
       /\ connections'[owner[lconn]][connFd[lconn]] = lconn]_vars

-----------------------------------------------------------------------------
(* The inductive invariant behind the safety properties.                   *)

Deleting(l) == rpc[l] \in {"erase", "destroy", "unlock"}

\* latch_ is held by whoever is inside AddConnection or DeleteConnection.
LatchInv ==
  /\ \A l \in Loopers : latch[l] = "listener" <=> lpc \in {"register", "insert"} /\ owner[lconn] = l
  /\ \A l \in Loopers : Deleting(l) <=> latch[l] = l
  /\ \A l, m \in Loopers : latch[l] = m => l = m

\* The connection the listener is handing over belongs to nobody else yet.
HandoverInv ==
  /\ lconn # None <=> lpc \in {"lock", "register", "insert"}
  /\ lconn # None => /\ lconn \in heap
                     /\ \A l \in Loopers, f \in Fds : connections[l][f] # lconn
                     /\ \A l \in Loopers : victim[l] # lconn
  /\ lpc \in {"lock", "register"} => knote[lconn] = None

\* Objects, open sockets and open descriptors are the same thing.
HeapInv ==
  /\ \A c \in Conns : c \in heap <=> sock[c] = "open"
  /\ \A c \in heap : connFd[c] \in Fds /\ owner[c] \in Loopers /\ fdTable[connFd[c]] = c
  /\ \A f \in Fds : fdTable[f] # None => fdTable[f] \in heap /\ connFd[fdTable[f]] = f

\* What DeleteConnection is destroying is the connection whose callback runs.
VictimInv ==
  \A l \in Loopers :
    /\ victim[l] # None <=> rpc[l] = "destroy"
    /\ victim[l] # None => /\ victim[l] = cur[l] /\ victim[l] \in heap
                           /\ connections[l][connFd[victim[l]]] # victim[l]

\* Registrations and the vector Poll returned name live connections of that looper.
PollInv ==
  /\ \A c \in Conns : knote[c] # None => c \in heap /\ owner[c] = knote[c]
  /\ \A c \in Conns : edge[c] => knote[c] # None
  /\ \A l \in Loopers : \A c \in ready[l] : knote[c] = l /\ cur[l] # c
  /\ \A l \in Loopers : rpc[l] \in {"top", "poll", "done"} => ready[l] = {}

\* The connection whose callback runs, up to and after its own deletion.
CurInv ==
  \A l \in Loopers :
    /\ cur[l] = None <=> rpc[l] \in {"top", "poll", "run", "done"}
    /\ rpc[l] \in {"recv", "serve", "delete", "erase", "destroy"} => knote[cur[l]] = l
    /\ rpc[l] = "unlock" => sock[cur[l]] = "closed" /\ owner[cur[l]] = l

\* The safety properties above, made inductive: the latch ties registration and
\* insertion together, and a descriptor is closed only after it left the map.
ReactorInv ==
  /\ TypeOK /\ LatchInv /\ HandoverInv /\ HeapInv /\ OneHolder /\ VictimInv /\ PollInv /\ CurInv
-----------------------------------------------------------------------------
(* Refinement.                                                             *)

\* What an application sees of a socket, and of a thread between the call of a
\* handler and the moment its connection is destroyed or the handler returns.
ServiceState == [c \in Conns |-> CASE sock[c] = "idle" -> "away"
                                   [] sock[c] = "queued" -> "waiting"
                                   [] sock[c] = "open" -> "served"
                                   [] OTHER -> "left"]
ServiceBusy == [l \in Loopers |-> IF rpc[l] = "unlock" THEN None ELSE cur[l]]

App == INSTANCE Service WITH Clients <- Conns, Threads <- Loopers,
                             state <- ServiceState, by <- owner, busy <- ServiceBusy

\* Seen by the application, listener and reactors are the service that Service.tla
\* specifies: one thread per client, one handler at a time, every accepted client let
\* go once and only by its own handler, whatever the order of registration and
\* insertion and however descriptor numbers are reused.
ImplementsService == App!Spec
=============================================================================
