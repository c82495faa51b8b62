----------------------------- MODULE IceeServer -----------------------------
(***************************************************************************)
(* core/icee_server.h, and http_server.cc's main() as its owner: the life  *)
(* of a server from its arguments to its destructor.  The reactors of      *)
(* Reactor.tla are the tasks of the pool of ThreadPool.tla: a reactor      *)
(* steps while a worker is inside its loop(), the listener steps while the *)
(* owner is inside Begin().                                                *)
(***************************************************************************)
EXTENDS Reactor, Sequences

CONSTANTS
  Workers,    \* the threads the machine can give the pool
  PortArgs,   \* what strtol makes of the first argument
  PortBase,   \* 2^16: a port is a uint16_t
  MaxClients  \* bound: clients that connect, by the number of threads asked for

VARIABLES
  threadNum, opc, done, queue, wpc, task, submitted, finished,   \* thread_pool_
  spc,         \* the owner: main, pool, reactors, submit, acceptor, watch, ready, serve,
               \* destroy (or unwind), teardown, gone; or the process has "exited"
  reactors,    \* reactors_, as the Acceptor knows them
  handler,     \* seted_On_handle_
  customAcb,   \* OnAccept was called: accept_callback_ is the application's
  lexit        \* listener_->exit_

poolVars == <<threadNum, opc, done, queue, wpc, task, submitted, finished>>
ownerVars == <<spc, reactors, handler, customAcb, lexit>>
serverVars == <<vars, poolVars, ownerVars>>

P == INSTANCE ThreadPool WITH Tasks <- Loopers

ServerInit ==
  /\ Init /\ P!Init
  /\ spc = "main" /\ reactors = {} /\ handler = FALSE /\ customAcb = FALSE /\ lexit = FALSE

-----------------------------------------------------------------------------
(* main() and the constructor.                                             *)

\* main() parses its arguments: the port is narrowed to 16 bits before it is tested.
Main(argc, port, dirExists) ==
  /\ spc = "main"
  /\ spc' = IF \/ argc > 3
               \/ argc >= 2 /\ port % PortBase = 0
               \/ argc = 3 /\ ~dirExists
              THEN "exited" ELSE "pool"
  /\ UNCHANGED <<vars, poolVars, reactors, handler, customAcb, lexit>>

\* Threads and loopers are made one after the other; which of the model values stands
\* for the next one does not matter.
Pick(S) == {x \in S : x = CHOOSE y \in S : TRUE}

MakePool ==
  /\ spc = "pool"
  /\ \/ (\E w \in Pick(Workers \ P!Built) : P!Build(w)) /\ UNCHANGED spc
     \/ P!BuiltAll /\ spc' = "reactors"
     \/ P!BuildFails /\ spc' = "unwind"
  /\ UNCHANGED <<vars, reactors, handler, customAcb, lexit>>

\* One reactor too many: i <= GetSize().
MakeReactorsOneMore ==
  /\ spc = "reactors" /\ spc' = "submit"
  /\ reactors' \in Pick({S \in SUBSET Loopers : Cardinality(S) = Cardinality(P!Built) + 1})
  /\ UNCHANGED <<vars, poolVars, handler, customAcb, lexit>>

\* A Poller that gets no kqueue calls exit().
NoKqueue ==
  /\ spc = "reactors" /\ spc' = "exited"
  /\ UNCHANGED <<vars, poolVars, reactors, handler, customAcb, lexit>>

\* As many reactors as the pool has threads.
MakeReactors ==
  /\ spc = "reactors" /\ spc' = "submit"
  /\ reactors' \in Pick({S \in SUBSET Loopers : Cardinality(S) = Cardinality(P!Built)})
  /\ UNCHANGED <<vars, poolVars, handler, customAcb, lexit>>

SubmitLoops ==
  /\ spc = "submit"
  /\ \/ (\E l \in Pick(reactors \ submitted) : P!Submit(l)) /\ UNCHANGED spc
     \/ reactors \subseteq submitted /\ spc' = "acceptor" /\ UNCHANGED poolVars
  /\ UNCHANGED <<vars, reactors, handler, customAcb, lexit>>

\* The Acceptor binds and listens; Bind throws when the address is taken: the
\* exception unwinds the members built so far, or nobody catches it and the
\* process ends.
MakeAcceptor ==
  /\ spc = "acceptor"
  /\ spc' \in {"watch", "unwind", "exited"}
  /\ UNCHANGED <<vars, poolVars, reactors, handler, customAcb, lexit>>

\* listener_ watches the listening socket, which clients can reach already.
AddAcceptor ==
  /\ spc = "watch" /\ spc' = "ready"
  /\ UNCHANGED <<vars, poolVars, reactors, handler, customAcb, lexit>>

-----------------------------------------------------------------------------
(* The owner uses the server.                                              *)

OnAccept ==
  /\ spc = "ready" /\ customAcb' = TRUE
  /\ UNCHANGED <<vars, poolVars, spc, reactors, handler, lexit>>

OnHandle ==
  /\ spc = "ready" /\ handler' = TRUE
  /\ UNCHANGED <<vars, poolVars, spc, reactors, customAcb, lexit>>

\* Begin throws unless OnHandle was called.
Begin ==
  /\ spc = "ready"
  /\ spc' \in IF handler THEN {"serve"} ELSE {"destroy", "exited"}
  /\ UNCHANGED <<vars, poolVars, reactors, handler, customAcb, lexit>>

\* Begin's loop has returned, or was never started: the server goes out of scope.
Leave ==
  /\ spc = "ready" \/ (spc = "serve" /\ lpc = "poll" /\ lexit)
  /\ spc' = "destroy"
  /\ UNCHANGED <<vars, poolVars, reactors, handler, customAcb, lexit>>

\* rand() % event_loopers_.size() with no looper: the division traps.
AcceptNowhere ==
  /\ spc = "serve" /\ lpc = "accept" /\ Backlog # {} /\ FreeFds # {} /\ reactors = {}
  /\ spc' = "exited"
  /\ UNCHANGED <<vars, poolVars, reactors, handler, customAcb, lexit>>

\* A custom callback that replaces the base one: nobody accepts any more.
ServeReplaced ==
  /\ spc = "serve" /\ ~(lpc = "poll" /\ lexit)
  /\ \/ ListenerPoll
     \/ ~customAcb /\ (AcceptFail \/ \E c \in Conns, f \in Fds, l \in reactors : Accept(c, f, l))
     \/ AddLock \/ AddRegister \/ AddInsert
  /\ IF lpc' = "poll" /\ customAcb THEN lexit' \in {lexit, TRUE} ELSE UNCHANGED lexit
  /\ UNCHANGED <<poolVars, spc, reactors, handler, customAcb>>

\* listener_->loop().  accept_callback_ runs whenever BaseAcceptCallback returned,
\* after a failed accept() too; an application may call SetExit from it, on the
\* looper of the connection it is given.
Serve ==
  /\ spc = "serve" /\ ~(lpc = "poll" /\ lexit)
  /\ \/ ListenerPoll \/ AcceptFail
     \/ \E c \in Conns, f \in Fds, l \in reactors : Accept(c, f, l)
     \/ AddLock \/ AddRegister \/ AddInsert
  /\ IF lpc' = "poll" /\ customAcb THEN lexit' \in {lexit, TRUE} ELSE UNCHANGED lexit
  /\ UNCHANGED <<poolVars, spc, reactors, handler, customAcb>>

\* The application may have kept that looper and call SetExit from another thread,
\* wherever the listener is: polling, asleep in accept(), handing over.
ListenerExits ==
  /\ spc = "serve" /\ customAcb /\ ~lexit
  /\ \E c \in Conns \ {lconn} : owner[c] # None    \* the callback has run
  /\ lexit' = TRUE
  /\ UNCHANGED <<vars, poolVars, spc, reactors, handler, customAcb>>

-----------------------------------------------------------------------------
(* The destructor: members in reverse order, thread_pool_ first.           *)

\* thread_pool_ declared before reactors_: the reactors die first.
DestroyReactorsFirst ==
  /\ spc \in {"destroy", "unwind"}
  /\ P!Destroy /\ spc' = "teardown"
  /\ UNCHANGED <<vars, reactors, handler, customAcb, lexit>>

DestroyPool ==
  /\ spc \in {"destroy", "unwind"}
  /\ \/ P!Destroy /\ UNCHANGED spc
     \/ P!Join /\ spc' = "teardown"
  /\ UNCHANGED <<vars, reactors, handler, customAcb, lexit>>

\* The listening socket is closed, the connections are forgotten.
TeardownForgets ==
  /\ spc = "teardown" /\ spc' = "gone"
  /\ connections' = [l \in Loopers |-> [f \in Fds |-> None]]
  /\ sock' = [c \in Conns |-> IF sock[c] = "queued" THEN "closed" ELSE sock[c]]
  /\ UNCHANGED <<inbuf, eof, edge, knote, fdTable, objectVars, latch, exit, listenerVars,
                 reactorVars, poolVars, reactors, handler, customAcb, lexit>>

\* listener_ and acceptor_ close the listening socket, which drops who still waits;
\* every reactor destroys the connections in its map and closes its kqueue.
Teardown ==
  LET held == {connections[l][f] : l \in reactors, f \in Fds} \ {None}
  IN /\ spc = "teardown" /\ spc' = "gone"
     /\ heap' = heap \ held
     /\ fdTable' = [f \in Fds |-> IF fdTable[f] \in held THEN None ELSE fdTable[f]]
     /\ sock' = [c \in Conns |-> IF c \in held \/ sock[c] = "queued" THEN "closed" ELSE sock[c]]
     /\ knote' = [c \in Conns |-> None]
     /\ edge' = [c \in Conns |-> FALSE]
     /\ connections' = [l \in Loopers |-> [f \in Fds |-> None]]
     /\ UNCHANGED <<inbuf, eof, connFd, owner, latch, exit, listenerVars, reactorVars,
                    poolVars, reactors, handler, customAcb, lexit>>

-----------------------------------------------------------------------------
(* The pool's threads and the clients.                                     *)

Alive == spc # "exited"

\* A worker between tasks, or one whose loop() returned.
Worker(w) ==
  /\ Alive
  /\ \/ P!TestDone(w) \/ P!TryPop(w)
     \/ wpc[w] = "run" /\ rpc[task[w]] = "done" /\ P!RunTask(w)
  /\ UNCHANGED <<vars, ownerVars>>

Running(l) == \E w \in Workers : wpc[w] = "run" /\ task[w] = l

Loop(l) == Alive /\ Running(l) /\ ReactorStep(l) /\ UNCHANGED <<poolVars, ownerVars>>

\* GetLooper() hands a reactor to the handlers of its connections; the application
\* may keep the pointer as long as the server lives, the connection being gone or
\* not, and call SetExit from any thread.
HandedOut(l) == \E c \in Conns : owner[c] = l /\ (knote[c] = l \/ sock[c] = "closed")

ApplicationExits(l) ==
  /\ spc \notin {"exited", "teardown", "gone"} /\ HandedOut(l) /\ SetExit(l)
  /\ UNCHANGED <<poolVars, ownerVars>>

\* The listening socket exists from MakeAcceptor to Teardown.
Client(c) ==
  /\ \/ /\ spc \in {"watch", "ready", "serve", "destroy"}
        /\ Cardinality({d \in Conns : sock[d] # "idle"}) < MaxClients[threadNum]
        /\ Connect(c)
     \/ Alive /\ (PeerSend(c) \/ PeerClose(c) \/ PeerReset(c))
  /\ UNCHANGED <<poolVars, ownerVars>>

Construct == MakePool \/ NoKqueue \/ MakeReactors \/ SubmitLoops \/ MakeAcceptor \/ AddAcceptor

ServerNext ==
  \/ \E argc \in 1..4, port \in PortArgs, dirExists \in BOOLEAN : Main(argc, port, dirExists)
  \/ Construct \/ OnAccept \/ OnHandle \/ Begin \/ Leave
  \/ Serve \/ ListenerExits \/ AcceptNowhere \/ DestroyPool \/ Teardown
  \/ \E w \in Workers : Worker(w)
  \/ \E l \in Loopers : Loop(l) \/ ApplicationExits(l)
  \/ \E c \in Conns : Client(c)

\* Every thread keeps running; what the owner configures and what clients do is up to them.
ServerFairness ==
  /\ WF_serverVars(Construct) /\ WF_serverVars(Serve \/ AcceptNowhere)
  /\ WF_serverVars(spc = "serve" /\ Leave) /\ WF_serverVars(DestroyPool \/ Teardown)
  /\ \A w \in Workers : WF_serverVars(Worker(w))
  /\ \A l \in Loopers : WF_serverVars(Loop(l))

ServerSpec == ServerInit /\ [][ServerNext]_serverVars /\ ServerFairness

-----------------------------------------------------------------------------
(* Properties.                                                             *)

\* "One loop per thread": the loop of a reactor is in the queue once, or run by one
\* worker, or over, or was dropped with the pool; no two threads run one reactor.
RunsOnce == P!RunsOnce

\* The reactors, done_ and the queue outlive every thread that uses them, also when
\* the constructor fails half way: members die in the reverse of their declaration.
MembersOutliveThreads ==
  spc \in {"teardown", "gone"} => \A w \in P!Built : wpc[w] = "exit" /\ task[w] = None

\* A destroyed server has given back every descriptor and every Connection, those
\* in the hands of loops that were dropped before they ever ran included.
NothingLeaks == spc = "gone" => heap = {} /\ FreeFds = Fds

\* Clients that never stop sending: Recv loops until EAGAIN, so one of them can
\* keep its reactor inside a single callback.
Flood == []<><<\E c \in Conns : inbuf'[c] > inbuf[c]>>_serverVars

\* The destructor, and a constructor that unwinds, return unless a running loop is
\* never told to exit: ~IceeServer itself tells none.
DestructorReturns ==
  Flood \/ ((opc = "join") ~> (\/ opc = "gone" \/ ~Alive
                                \/ [](\E l \in Loopers : Running(l) /\ ~exit[l])))

\* Every reactor gets a thread of its own although loops do not return, unless the
\* server is destroyed first.
EveryLoopRuns ==
  \A l \in Loopers : (l \in submitted) ~> (Running(l) \/ l \in finished \/ done \/ ~Alive)

\* What a client sent is read or its connection closed, whichever of registration
\* and arrival came first (edge triggering); unless clients flood the server, the
\* reactor is told to exit or the server goes away.
DataIsRead ==
  Flood \/ \A c \in Conns : (c \in heap /\ inbuf[c] > 0) ~>
             (inbuf[c] = 0 \/ c \notin heap \/ exit[owner[c]] \/ done \/ ~Alive)

\* A client that went away gives its descriptor back: its reactor sees the end of
\* the stream and deletes it; with the same exceptions.
EofReleases ==
  Flood \/ \A c \in Conns : (c \in heap /\ eof[c]) ~>
             (c \notin heap \/ exit[owner[c]] \/ done \/ ~Alive)

\* SetExit ends a reactor's loop and gives its thread back to the pool, even when no
\* event ever wakes the reactor again.  It ends the listener's loop too, from whatever
\* thread, unless the listener sleeps in accept() and no client ever comes: one that
\* was announced by Poll may have reset before it was accepted.
ExitStops ==
  /\ Flood \/ \A l \in Loopers : exit[l] ~> (~Running(l) \/ ~Alive)
  /\ lexit ~> (spc # "serve" \/ [](lpc = "accept" /\ Backlog = {}))

\* A client that waits is accepted or gives up, although the listening socket is
\* blocking and accept() may find nobody, or no descriptor; unless descriptors are
\* never given back, the listener is told to exit or the process ends.
ClientsAccepted ==
  \A c \in Conns : (spc = "serve" /\ sock[c] = "queued") ~>
                     (sock[c] # "queued" \/ [](FreeFds = {}) \/ lexit \/ ~Alive)
=============================================================================
