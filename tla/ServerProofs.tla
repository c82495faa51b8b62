---------------------------- MODULE ServerProofs ----------------------------
(***************************************************************************)
(* Proofs about Reactor and about IceeServer, for any number of threads,   *)
(* reactors, clients and descriptors and any moment at which the server is *)
(* given up.                                                               *)
(*                                                                         *)
(* The first part is about the reactor core alone.  ReactorInv is          *)
(* inductive; the safety properties follow.  One lemma per action shows    *)
(* that it keeps the invariant: first the conjuncts it does not disturb,   *)
(* then the others one by one.                                             *)
(*                                                                         *)
(* The second part is about the server.  Its step is a step of the reactor *)
(* core, of the pool or of the owner, so its invariant is ReactorInv, the  *)
(* pool's own and the few facts that tie the three together: who is in a   *)
(* handler is run by a worker, the listener rests outside Begin, and every *)
(* connection belongs to a reactor of this server.                         *)
(***************************************************************************)
EXTENDS IceeServer, SequenceTheorems, TLAPS

-----------------------------------------------------------------------------
(* What the invariant says about the two critical sections.                *)

\* What an assignment to one entry of connections_ does.
LEMMA MapUpdate ==
  ASSUME NEW S, NEW m \in [Loopers -> [Fds -> S]], NEW l \in Loopers, NEW f \in Fds, NEW v \in S
  PROVE  /\ [m EXCEPT ![l][f] = v] \in [Loopers -> [Fds -> S]]
         /\ \A k \in Loopers, g \in Fds :
              [m EXCEPT ![l][f] = v][k][g] = IF k = l /\ g = f THEN v ELSE m[k][g]
  OBVIOUS

\* The connection whose callback runs belongs to the looper that runs it.
LEMMA CurIsMine ==
  ASSUME ReactorInv, NEW l \in Loopers, cur[l] # None
  PROVE  /\ cur[l] \in Conns /\ owner[cur[l]] = l
         /\ rpc[l] # "unlock" => cur[l] \in heap /\ connFd[cur[l]] \in Fds
  BY ReactorAssumption DEF ReactorInv, TypeOK, ConnOrNone, CurInv, PollInv, HeapInv

\* When DeleteConnection looks its descriptor up, the map has the connection.
LEMMA FoundIsCur ==
  ASSUME ReactorInv, NEW l \in Loopers, rpc[l] = "erase"
  PROVE  cur[l] \in heap /\ owner[cur[l]] = l /\ connFd[cur[l]] \in Fds /\ Found(l) = cur[l]
<1>1. cur[l] # None /\ knote[cur[l]] = l /\ latch[l] = l
  BY DEF ReactorInv, CurInv, LatchInv, Deleting
<1>2. cur[l] \in heap /\ owner[cur[l]] = l /\ connFd[cur[l]] \in Fds
  BY <1>1, CurIsMine
<1>3. lconn # cur[l]
  BY <1>1, <1>2, ReactorAssumption DEF ReactorInv, TypeOK, HandoverInv, LatchInv
<1>4. ASSUME NEW m \in Loopers PROVE victim[m] # cur[l]
  BY <1>1, <1>2, CurIsMine DEF ReactorInv, VictimInv
<1> QED
  BY <1>2, <1>3, <1>4 DEF ReactorInv, OneHolder, Found

\* When AddConnection inserts, its descriptor number is free in the map.
LEMMA SlotIsFree ==
  ASSUME ReactorInv, lpc = "insert"
  PROVE  /\ lconn \in heap /\ owner[lconn] \in Loopers /\ connFd[lconn] \in Fds
         /\ connections[owner[lconn]][connFd[lconn]] = None
<1>1. lconn \in heap /\ owner[lconn] \in Loopers /\ connFd[lconn] \in Fds
  BY DEF ReactorInv, HandoverInv, HeapInv
<1> QED
  BY <1>1 DEF ReactorInv, HandoverInv, HeapInv, OneHolder

-----------------------------------------------------------------------------
(* Every action keeps the invariant.                                       *)

\* A client enters the backlog.
LEMMA ConnectKeeps ==
  ASSUME ReactorInv, NEW c \in Conns, Connect(c)
  PROVE  ReactorInv'
<1>1. TypeOK' /\ LatchInv' /\ HandoverInv' /\ HeapInv' /\ OneHolder' /\ VictimInv' /\ PollInv' /\ CurInv'
  BY DEF ReactorInv, TypeOK, LatchInv, HandoverInv, HeapInv, OneHolder, VictimInv, PollInv,
     CurInv, ConnOrNone, Deleting, Connect, objectVars, looperVars, listenerVars, reactorVars
<1> QED
  BY <1>1 DEF ReactorInv

\* A chunk arrives.
LEMMA PeerSendKeeps ==
  ASSUME ReactorInv, NEW c \in Conns, PeerSend(c)
  PROVE  ReactorInv'
<1>1. LatchInv' /\ HandoverInv' /\ HeapInv' /\ OneHolder' /\ VictimInv' /\ CurInv'
  BY DEF ReactorInv, LatchInv, HandoverInv, HeapInv, OneHolder, VictimInv, CurInv, Deleting,
     PeerSend, Connected, Trigger, objectVars, looperVars, listenerVars, reactorVars
<1>2. TypeOK'
  BY ReactorAssumption DEF ReactorInv, TypeOK, ConnOrNone, PeerSend, Trigger, objectVars,
     looperVars, listenerVars, reactorVars
<1>3. PollInv'
  BY DEF ReactorInv, TypeOK, PollInv, ConnOrNone, PeerSend, Trigger, objectVars, reactorVars
<1> QED
  BY <1>1, <1>2, <1>3 DEF ReactorInv

\* The peer closes.
LEMMA PeerCloseKeeps ==
  ASSUME ReactorInv, NEW c \in Conns, PeerClose(c)
  PROVE  ReactorInv'
<1>1. TypeOK' /\ LatchInv' /\ HandoverInv' /\ HeapInv' /\ OneHolder' /\ VictimInv' /\ CurInv'
  BY DEF ReactorInv, TypeOK, LatchInv, HandoverInv, HeapInv, OneHolder, VictimInv, CurInv,
     ConnOrNone, Deleting, PeerClose, Connected, Trigger, objectVars, looperVars,
     listenerVars, reactorVars
<1>2. PollInv'
  BY DEF ReactorInv, TypeOK, PollInv, ConnOrNone, PeerClose, Trigger, objectVars, reactorVars
<1> QED
  BY <1>1, <1>2 DEF ReactorInv

\* The peer resets.
LEMMA PeerResetKeeps ==
  ASSUME ReactorInv, NEW c \in Conns, PeerReset(c)
  PROVE  ReactorInv'
<1>1. LatchInv' /\ HandoverInv' /\ OneHolder' /\ VictimInv'
  BY DEF ReactorInv, LatchInv, HandoverInv, OneHolder, VictimInv, Deleting, PeerReset,
     Trigger, objectVars, looperVars, listenerVars, reactorVars
<1>2. TypeOK'
  <2>1. sock' \in [Conns -> {"idle", "queued", "open", "closed"}]
    BY DEF ReactorInv, TypeOK, PeerReset
  <2>2. inbuf' \in [Conns -> 0..MaxInbuf]
    BY ReactorAssumption DEF ReactorInv, TypeOK, PeerReset
  <2>3. eof' \in [Conns -> BOOLEAN] /\ edge' \in [Conns -> BOOLEAN]
    BY DEF ReactorInv, TypeOK, PeerReset, Trigger
  <2> QED
    BY <2>1, <2>2, <2>3 DEF ReactorInv, TypeOK, PeerReset, objectVars, looperVars, listenerVars, reactorVars
<1>3. HeapInv'
  BY DEF ReactorInv, TypeOK, HeapInv, ConnOrNone, PeerReset, objectVars
<1>4. PollInv'
  BY DEF ReactorInv, TypeOK, PollInv, ConnOrNone, PeerReset, Trigger, objectVars, reactorVars
<1>5. CurInv'
  BY DEF ReactorInv, TypeOK, CurInv, ConnOrNone, PeerReset, objectVars, reactorVars
<1> QED
  BY <1>1, <1>2, <1>3, <1>4, <1>5 DEF ReactorInv

\* The listening socket is ready.
LEMMA ListenerPollKeeps ==
  ASSUME ReactorInv, ListenerPoll
  PROVE  ReactorInv'
<1>1. TypeOK' /\ LatchInv' /\ HandoverInv' /\ HeapInv' /\ OneHolder' /\ VictimInv' /\ PollInv' /\ CurInv'
  BY DEF ReactorInv, TypeOK, LatchInv, HandoverInv, HeapInv, OneHolder, VictimInv, PollInv,
     CurInv, ConnOrNone, Deleting, ListenerPoll, kernelVars, objectVars, looperVars,
     reactorVars
<1> QED
  BY <1>1 DEF ReactorInv

\* Accept() returns -1.
LEMMA AcceptFailKeeps ==
  ASSUME ReactorInv, AcceptFail
  PROVE  ReactorInv'
<1>1. TypeOK' /\ LatchInv' /\ HandoverInv' /\ HeapInv' /\ OneHolder' /\ VictimInv' /\ PollInv' /\ CurInv'
  BY DEF ReactorInv, TypeOK, LatchInv, HandoverInv, HeapInv, OneHolder, VictimInv, PollInv,
     CurInv, ConnOrNone, Deleting, AcceptFail, kernelVars, objectVars, looperVars, reactorVars
<1> QED
  BY <1>1 DEF ReactorInv

\* A new object, alone in the listener's hands.
LEMMA AcceptKeeps ==
  ASSUME ReactorInv, NEW c \in Conns, NEW f \in Fds, NEW l \in Loopers, Accept(c, f, l)
  PROVE  ReactorInv'
<1>1. TypeOK' /\ LatchInv' /\ CurInv'
  BY DEF ReactorInv, TypeOK, LatchInv, CurInv, ConnOrNone, Deleting, Accept, Backlog, FreeFds,
     looperVars, reactorVars
<1>2. HandoverInv'
  BY ReactorAssumption DEF ReactorInv, HandoverInv, HeapInv, OneHolder, VictimInv, PollInv,
     Accept, Backlog, looperVars, reactorVars
<1>3. HeapInv'
  BY ReactorAssumption DEF ReactorInv, TypeOK, HeapInv, ConnOrNone, Accept, Backlog, FreeFds
<1>4. OneHolder'
  BY ReactorAssumption DEF ReactorInv, TypeOK, HandoverInv, HeapInv, OneHolder, ConnOrNone,
     Accept, Backlog, FreeFds, looperVars, reactorVars
<1>5. VictimInv'
  BY DEF ReactorInv, OneHolder, VictimInv, Accept, looperVars, reactorVars
<1>6. PollInv'
  BY DEF ReactorInv, HeapInv, PollInv, Accept, Backlog, reactorVars
<1> QED
  BY <1>1, <1>2, <1>3, <1>4, <1>5, <1>6 DEF ReactorInv

\* AddConnection takes the latch.
LEMMA AddLockKeeps ==
  ASSUME ReactorInv, AddLock
  PROVE  ReactorInv'
<1>1. HandoverInv' /\ HeapInv' /\ OneHolder' /\ VictimInv' /\ PollInv' /\ CurInv'
  BY DEF ReactorInv, HandoverInv, HeapInv, OneHolder, VictimInv, PollInv, CurInv, AddLock,
     kernelVars, objectVars, reactorVars
<1>2. TypeOK'
  BY DEF ReactorInv, TypeOK, HandoverInv, HeapInv, ConnOrNone, AddLock, kernelVars,
     objectVars, reactorVars
<1>3. LatchInv'
  BY ReactorAssumption DEF ReactorInv, TypeOK, LatchInv, ConnOrNone, Deleting, AddLock,
     objectVars, reactorVars
<1> QED
  BY <1>1, <1>2, <1>3 DEF ReactorInv

\* AddConnection registers with the poller.
LEMMA AddRegisterKeeps ==
  ASSUME ReactorInv, AddRegister
  PROVE  ReactorInv'
<1>1. LatchInv' /\ HandoverInv' /\ HeapInv' /\ OneHolder' /\ VictimInv'
  BY DEF ReactorInv, LatchInv, HandoverInv, HeapInv, OneHolder, VictimInv, Deleting,
     AddRegister, Readable, objectVars, looperVars, reactorVars
<1>2. TypeOK'
  BY DEF ReactorInv, TypeOK, HandoverInv, ConnOrNone, AddRegister, Readable, objectVars,
     looperVars, reactorVars
<1>3. PollInv'
  BY ReactorAssumption DEF ReactorInv, TypeOK, HandoverInv, HeapInv, PollInv, ConnOrNone,
     AddRegister, objectVars, reactorVars
<1>4. CurInv'
  BY ReactorAssumption DEF ReactorInv, HandoverInv, CurInv, AddRegister, objectVars,
     reactorVars
<1> QED
  BY <1>1, <1>2, <1>3, <1>4 DEF ReactorInv

\* AddConnection inserts and releases the latch.
LEMMA AddInsertKeeps ==
  ASSUME ReactorInv, AddInsert
  PROVE  ReactorInv'
<1> DEFINE L == owner[lconn]
           F == connFd[lconn]
<1>ins. /\ lpc = "insert" /\ lconn \in heap /\ L \in Loopers /\ F \in Fds /\ connections[L][F] = None
         /\ connections' = [connections EXCEPT ![L][F] = lconn]
         /\ latch' = [latch EXCEPT ![L] = "free"]
         /\ lpc' = "poll" /\ lconn' = None
         /\ UNCHANGED <<kernelVars, objectVars, exit, reactorVars>>
  BY SlotIsFree DEF AddInsert, kernelVars, objectVars
<1>upd. /\ connections' \in [Loopers -> [Fds -> ConnOrNone]]
         /\ \A k \in Loopers, g \in Fds :
              connections'[k][g] = IF k = L /\ g = F THEN lconn ELSE connections[k][g]
  <2> lconn \in ConnOrNone
    BY DEF ReactorInv, TypeOK
  <2> QED
    BY <1>ins, MapUpdate DEF ReactorInv, TypeOK
<1>1. TypeOK' /\ HandoverInv' /\ HeapInv' /\ OneHolder' /\ PollInv' /\ CurInv'
  BY <1>ins, <1>upd DEF ReactorInv, TypeOK, HandoverInv, HeapInv, OneHolder, PollInv, CurInv,
     ConnOrNone, kernelVars, objectVars, reactorVars
<1>2. LatchInv'
  BY <1>ins, ReactorAssumption DEF ReactorInv, TypeOK, LatchInv, ConnOrNone, Deleting,
     reactorVars
<1>3. VictimInv'
  BY <1>ins DEF ReactorInv, HandoverInv, VictimInv, objectVars, reactorVars
<1> QED
  BY <1>1, <1>2, <1>3 DEF ReactorInv

\* The test of exit_.
LEMMA LoopTopKeeps ==
  ASSUME ReactorInv, NEW l \in Loopers, LoopTop(l)
  PROVE  ReactorInv'
<1>1. TypeOK' /\ LatchInv' /\ HandoverInv' /\ HeapInv' /\ OneHolder' /\ VictimInv' /\ PollInv' /\ CurInv'
  BY DEF ReactorInv, TypeOK, LatchInv, HandoverInv, HeapInv, OneHolder, VictimInv, PollInv,
     CurInv, ConnOrNone, Deleting, LoopTop, kernelVars, objectVars, looperVars, listenerVars
<1> QED
  BY <1>1 DEF ReactorInv

\* Poll returns.
LEMMA PollKeeps ==
  ASSUME ReactorInv, NEW l \in Loopers, Poll(l)
  PROVE  ReactorInv'
<1>1. TypeOK' /\ LatchInv' /\ HandoverInv' /\ HeapInv' /\ OneHolder' /\ VictimInv' /\ CurInv'
  BY DEF ReactorInv, TypeOK, LatchInv, HandoverInv, HeapInv, OneHolder, VictimInv, CurInv,
     ConnOrNone, Deleting, Poll, Active, objectVars, looperVars, listenerVars
<1>2. PollInv'
  BY ReactorAssumption DEF ReactorInv, TypeOK, PollInv, CurInv, ConnOrNone, Poll, Active,
     objectVars
<1> QED
  BY <1>1, <1>2 DEF ReactorInv

\* The vector is done.
LEMMA LoopEndKeeps ==
  ASSUME ReactorInv, NEW l \in Loopers, LoopEnd(l)
  PROVE  ReactorInv'
<1>1. TypeOK' /\ LatchInv' /\ HandoverInv' /\ HeapInv' /\ OneHolder' /\ VictimInv' /\ PollInv' /\ CurInv'
  BY DEF ReactorInv, TypeOK, LatchInv, HandoverInv, HeapInv, OneHolder, VictimInv, PollInv,
     CurInv, ConnOrNone, Deleting, LoopEnd, kernelVars, objectVars, looperVars, listenerVars
<1> QED
  BY <1>1 DEF ReactorInv

\* The next callback.
LEMMA RunCallbackKeeps ==
  ASSUME ReactorInv, NEW l \in Loopers, NEW c \in Conns, RunCallback(l, c)
  PROVE  ReactorInv'
<1>1. TypeOK' /\ LatchInv' /\ HandoverInv' /\ HeapInv' /\ OneHolder' /\ VictimInv'
  BY DEF ReactorInv, TypeOK, LatchInv, HandoverInv, HeapInv, OneHolder, VictimInv, ConnOrNone,
     Deleting, RunCallback, kernelVars, objectVars, looperVars, listenerVars
<1>2. PollInv'
  BY DEF ReactorInv, TypeOK, PollInv, ConnOrNone, RunCallback, kernelVars, objectVars
<1>3. CurInv'
  BY DEF ReactorInv, TypeOK, PollInv, CurInv, ConnOrNone, RunCallback, kernelVars, objectVars
<1> QED
  BY <1>1, <1>2, <1>3 DEF ReactorInv

\* Recv() returns data.
LEMMA RecvChunkKeeps ==
  ASSUME ReactorInv, NEW l \in Loopers, RecvChunk(l)
  PROVE  ReactorInv'
<1>1. LatchInv' /\ HandoverInv' /\ HeapInv' /\ OneHolder' /\ VictimInv' /\ PollInv' /\ CurInv'
  BY DEF ReactorInv, LatchInv, HandoverInv, HeapInv, OneHolder, VictimInv, PollInv, CurInv,
     Deleting, RecvChunk, objectVars, looperVars, listenerVars, reactorVars
<1>2. TypeOK'
  <2>1. cur[l] \in Conns
    BY CurIsMine DEF ReactorInv, CurInv, RecvChunk
  <2>2. inbuf[cur[l]] - 1 \in 0..MaxInbuf
    BY <2>1, ReactorAssumption DEF ReactorInv, TypeOK, RecvChunk
  <2> QED
    BY <2>1, <2>2 DEF ReactorInv, TypeOK, RecvChunk, objectVars, looperVars, listenerVars, reactorVars
<1> QED
  BY <1>1, <1>2 DEF ReactorInv

\* Recv returns.
LEMMA RecvReturnKeeps ==
  ASSUME ReactorInv, NEW l \in Loopers, RecvReturn(l)
  PROVE  ReactorInv'
<1>1. HandoverInv' /\ HeapInv' /\ OneHolder'
  BY DEF ReactorInv, HandoverInv, HeapInv, OneHolder, RecvReturn, kernelVars, objectVars,
     looperVars, listenerVars
<1>2. TypeOK'
  BY DEF ReactorInv, TypeOK, ConnOrNone, RecvReturn, kernelVars, objectVars, looperVars,
     listenerVars
<1>3. LatchInv'
  BY DEF ReactorInv, LatchInv, Deleting, RecvReturn, kernelVars, objectVars, looperVars,
     listenerVars
<1>4. VictimInv'
  BY DEF ReactorInv, VictimInv, RecvReturn, kernelVars, objectVars, looperVars, listenerVars
<1>5. PollInv'
  BY DEF ReactorInv, PollInv, RecvReturn, kernelVars, objectVars, looperVars, listenerVars
<1>6. CurInv'
  BY DEF ReactorInv, CurInv, RecvReturn, kernelVars, objectVars, looperVars, listenerVars
<1> QED
  BY <1>1, <1>2, <1>3, <1>4, <1>5, <1>6 DEF ReactorInv

\* The handler keeps the connection.
LEMMA ServeKeepKeeps ==
  ASSUME ReactorInv, NEW l \in Loopers, ServeKeep(l)
  PROVE  ReactorInv'
<1>1. TypeOK' /\ LatchInv' /\ HandoverInv' /\ HeapInv' /\ OneHolder' /\ VictimInv'
  BY DEF ReactorInv, TypeOK, LatchInv, HandoverInv, HeapInv, OneHolder, VictimInv, ConnOrNone,
     Deleting, ServeKeep, kernelVars, objectVars, looperVars, listenerVars
<1>2. PollInv'
  BY ReactorAssumption DEF ReactorInv, TypeOK, PollInv, ConnOrNone, ServeKeep, kernelVars,
     objectVars
<1>3. CurInv'
  BY DEF ReactorInv, TypeOK, CurInv, ConnOrNone, ServeKeep, kernelVars, objectVars
<1> QED
  BY <1>1, <1>2, <1>3 DEF ReactorInv

\* The handler closes the connection.
LEMMA ServeCloseKeeps ==
  ASSUME ReactorInv, NEW l \in Loopers, ServeClose(l)
  PROVE  ReactorInv'
<1>1. HandoverInv' /\ HeapInv' /\ OneHolder'
  BY DEF ReactorInv, HandoverInv, HeapInv, OneHolder, ServeClose, kernelVars, objectVars,
     looperVars, listenerVars
<1>2. TypeOK'
  BY DEF ReactorInv, TypeOK, ConnOrNone, ServeClose, kernelVars, objectVars, looperVars,
     listenerVars
<1>3. LatchInv'
  BY DEF ReactorInv, LatchInv, Deleting, ServeClose, kernelVars, objectVars, looperVars,
     listenerVars
<1>4. VictimInv'
  BY DEF ReactorInv, VictimInv, ServeClose, kernelVars, objectVars, looperVars, listenerVars
<1>5. PollInv'
  BY DEF ReactorInv, PollInv, ServeClose, kernelVars, objectVars, looperVars, listenerVars
<1>6. CurInv'
  BY DEF ReactorInv, CurInv, ServeClose, kernelVars, objectVars, looperVars, listenerVars
<1> QED
  BY <1>1, <1>2, <1>3, <1>4, <1>5, <1>6 DEF ReactorInv

\* DeleteConnection takes the latch.
LEMMA DeleteLockKeeps ==
  ASSUME ReactorInv, NEW l \in Loopers, DeleteLock(l)
  PROVE  ReactorInv'
<1>own. owner[cur[l]] = l
  BY CurIsMine DEF ReactorInv, CurInv, DeleteLock
<1>1. TypeOK' /\ HandoverInv' /\ HeapInv' /\ OneHolder' /\ VictimInv' /\ PollInv' /\ CurInv'
  BY <1>own DEF ReactorInv, TypeOK, HandoverInv, HeapInv, OneHolder, VictimInv, PollInv,
     CurInv, ConnOrNone, DeleteLock, kernelVars, objectVars, listenerVars
<1>2. LatchInv'
  BY <1>own, ReactorAssumption DEF ReactorInv, TypeOK, LatchInv, ConnOrNone, Deleting,
     DeleteLock, objectVars, listenerVars
<1> QED
  BY <1>1, <1>2 DEF ReactorInv

\* DeleteConnection unlinks what it finds, which is its own connection.
LEMMA DeleteFindKeeps ==
  ASSUME ReactorInv, NEW l \in Loopers, DeleteFind(l)
  PROVE  ReactorInv'
<1> DEFINE C == cur[l]
           F == connFd[C]
<1>fnd. /\ rpc[l] = "erase" /\ C \in heap /\ F \in Fds /\ owner[C] = l /\ connections[l][F] = C
         /\ victim' = [victim EXCEPT ![l] = C]
         /\ connections' = [connections EXCEPT ![l][F] = None]
         /\ rpc' = [rpc EXCEPT ![l] = "destroy"]
         /\ UNCHANGED <<kernelVars, objectVars, latch, exit, listenerVars, ready, cur>>
  BY FoundIsCur, ReactorAssumption DEF DeleteFind, Found, ReactorInv, TypeOK
<1>upd. /\ connections' \in [Loopers -> [Fds -> ConnOrNone]]
         /\ \A k \in Loopers, g \in Fds :
              connections'[k][g] = IF k = l /\ g = F THEN None ELSE connections[k][g]
  <2> None \in ConnOrNone
    BY DEF ConnOrNone
  <2> QED
    BY <1>fnd, MapUpdate DEF ReactorInv, TypeOK
<1>1. TypeOK' /\ LatchInv' /\ HandoverInv' /\ HeapInv' /\ PollInv' /\ CurInv'
  BY <1>fnd DEF ReactorInv, TypeOK, LatchInv, HandoverInv, HeapInv, PollInv, CurInv,
     ConnOrNone, Deleting, kernelVars, objectVars, listenerVars
<1>2. OneHolder'
  BY <1>fnd, ReactorAssumption DEF ReactorInv, TypeOK, OneHolder, VictimInv, ConnOrNone,
     kernelVars, objectVars, listenerVars
<1>3. VictimInv'
  BY <1>fnd, ReactorAssumption DEF ReactorInv, TypeOK, VictimInv, ConnOrNone, objectVars
<1> QED
  BY <1>1, <1>2, <1>3 DEF ReactorInv

\* The object dies and its descriptor is closed.
LEMMA DeleteDestroyKeeps ==
  ASSUME ReactorInv, NEW l \in Loopers, DeleteDestroy(l)
  PROVE  ReactorInv'
<1>own. /\ victim[l] = cur[l] /\ victim[l] \in heap
         /\ owner[victim[l]] = l /\ connFd[victim[l]] \in Fds
  BY CurIsMine DEF ReactorInv, VictimInv, CurInv, DeleteDestroy
<1>1. LatchInv' /\ HandoverInv'
  BY DEF ReactorInv, LatchInv, HandoverInv, Deleting, DeleteDestroy, Destroy, looperVars,
     listenerVars
<1>2. TypeOK'
  BY DEF ReactorInv, TypeOK, HeapInv, VictimInv, ConnOrNone, DeleteDestroy, Destroy,
     looperVars, listenerVars
<1>3. HeapInv'
  BY DEF ReactorInv, TypeOK, HeapInv, VictimInv, ConnOrNone, DeleteDestroy, Destroy
<1>4. OneHolder'
  <2>1. ASSUME NEW c \in heap'
        PROVE  /\ fdTable'[connFd'[c]] = c
               /\ \/ connections'[owner'[c]][connFd'[c]] = c
                  \/ lconn' = c
                  \/ \E m \in Loopers : victim'[m] = c
    <3>1. c \in heap /\ c # victim[l] /\ connFd[c] # connFd[victim[l]]
      BY <1>own DEF ReactorInv, HeapInv, DeleteDestroy, Destroy
    <3>2. fdTable'[connFd'[c]] = c
      BY <3>1 DEF ReactorInv, TypeOK, HeapInv, DeleteDestroy, Destroy
    <3>3. ASSUME NEW m \in Loopers, victim[m] = c PROVE victim'[m] = c
      BY <3>1, <3>3 DEF ReactorInv, TypeOK, DeleteDestroy
    <3> QED
      BY <3>1, <3>2, <3>3 DEF ReactorInv, OneHolder, DeleteDestroy, looperVars, listenerVars
  <2>2. ASSUME NEW m \in Loopers, NEW f \in Fds, connections[m][f] # None
        PROVE  /\ connections[m][f] \in heap'
               /\ owner[connections[m][f]] = m /\ connFd[connections[m][f]] = f
    BY <1>own, <2>2 DEF ReactorInv, OneHolder, VictimInv, DeleteDestroy, Destroy
  <2> QED
    BY <2>1, <2>2 DEF OneHolder, DeleteDestroy, looperVars
<1>5. VictimInv'
  BY DEF ReactorInv, TypeOK, VictimInv, CurInv, ConnOrNone, DeleteDestroy, Destroy, looperVars
<1>6. PollInv'
  BY DEF ReactorInv, TypeOK, VictimInv, PollInv, CurInv, ConnOrNone, DeleteDestroy, Destroy
<1>7. CurInv'
  BY ReactorAssumption DEF ReactorInv, TypeOK, VictimInv, PollInv, CurInv, ConnOrNone,
     DeleteDestroy, Destroy
<1> QED
  BY <1>1, <1>2, <1>3, <1>4, <1>5, <1>6, <1>7 DEF ReactorInv

\* DeleteConnection releases the latch and the handler returns.
LEMMA DeleteUnlockKeeps ==
  ASSUME ReactorInv, NEW l \in Loopers, DeleteUnlock(l)
  PROVE  ReactorInv'
<1>own. owner[cur[l]] = l
  BY CurIsMine DEF ReactorInv, CurInv, DeleteUnlock
<1>1. TypeOK' /\ HandoverInv' /\ HeapInv' /\ OneHolder' /\ VictimInv'
  BY <1>own DEF ReactorInv, TypeOK, HandoverInv, HeapInv, OneHolder, VictimInv, ConnOrNone,
     DeleteUnlock, kernelVars, objectVars, listenerVars
<1>2. LatchInv'
  BY <1>own, ReactorAssumption DEF ReactorInv, TypeOK, LatchInv, ConnOrNone, Deleting,
     DeleteUnlock, objectVars, listenerVars
<1>3. PollInv'
  BY ReactorAssumption DEF ReactorInv, TypeOK, PollInv, ConnOrNone, DeleteUnlock, kernelVars,
     objectVars
<1>4. CurInv'
  BY DEF ReactorInv, TypeOK, CurInv, ConnOrNone, DeleteUnlock, kernelVars, objectVars
<1> QED
  BY <1>1, <1>2, <1>3, <1>4 DEF ReactorInv

\* SetExit.
LEMMA SetExitKeeps ==
  ASSUME ReactorInv, NEW l \in Loopers, SetExit(l)
  PROVE  ReactorInv'
<1>1. TypeOK' /\ LatchInv' /\ HandoverInv' /\ HeapInv' /\ OneHolder' /\ VictimInv' /\ PollInv' /\ CurInv'
  BY DEF ReactorInv, TypeOK, LatchInv, HandoverInv, HeapInv, OneHolder, VictimInv, PollInv,
     CurInv, ConnOrNone, Deleting, SetExit, kernelVars, objectVars, listenerVars, reactorVars
<1> QED
  BY <1>1 DEF ReactorInv

-----------------------------------------------------------------------------
(* The theorems.                                                           *)

\* The program starts with empty maps, no objects and free latches.
LEMMA InitReactorInv == Init => ReactorInv
  BY ReactorAssumption DEF Init, ReactorInv, TypeOK, ConnOrNone, LatchInv, Deleting, HandoverInv,
     HeapInv, OneHolder, VictimInv, PollInv, CurInv

\* No step of a client, the listener or a reactor breaks the invariant.
LEMMA NextReactorInv == ReactorInv /\ [Next]_vars => ReactorInv'
<1> SUFFICES ASSUME ReactorInv, [Next]_vars PROVE ReactorInv'
  OBVIOUS
<1>1. ASSUME NEW c \in Conns, Connect(c) \/ PeerSend(c) \/ PeerClose(c) \/ PeerReset(c)
      PROVE  ReactorInv'
  BY <1>1, ConnectKeeps, PeerSendKeeps, PeerCloseKeeps, PeerResetKeeps
<1>2. CASE ListenerStep
  BY <1>2, ListenerPollKeeps, AcceptFailKeeps, AcceptKeeps, AddLockKeeps, AddRegisterKeeps,
     AddInsertKeeps DEF ListenerStep
<1>3. ASSUME NEW l \in Loopers, ReactorStep(l) \/ SetExit(l) PROVE ReactorInv'
  BY <1>3, LoopTopKeeps, PollKeeps, LoopEndKeeps, RunCallbackKeeps, RecvChunkKeeps,
     RecvReturnKeeps, ServeKeepKeeps, ServeCloseKeeps, DeleteLockKeeps, DeleteFindKeeps,
     DeleteDestroyKeeps, DeleteUnlockKeeps, SetExitKeeps DEF ReactorStep
<1>4. CASE UNCHANGED vars
  BY <1>4 DEF vars, kernelVars, objectVars, looperVars, listenerVars, reactorVars, ReactorInv,
     TypeOK, ConnOrNone, LatchInv, Deleting, HandoverInv, HeapInv, OneHolder, VictimInv, PollInv, CurInv
<1> QED
  BY <1>1, <1>2, <1>3, <1>4 DEF Next

\* What ReactorInv says of the pointers to connections.
LEMMA PointersLive == ReactorInv => NoUseAfterFree
<1> SUFFICES ASSUME ReactorInv PROVE NoUseAfterFree
  OBVIOUS
<1>1. \A c \in Conns : knote[c] # None => c \in heap
  BY DEF ReactorInv, PollInv
<1>2. ASSUME NEW l \in Loopers PROVE ready[l] \subseteq heap
  BY <1>1, ReactorAssumption DEF ReactorInv, TypeOK, PollInv
<1>3. ASSUME NEW l \in Loopers, rpc[l] \in {"recv", "serve", "delete", "erase"}
      PROVE  cur[l] \in heap
  BY <1>3, CurIsMine DEF ReactorInv, CurInv
<1> QED
  BY <1>1, <1>2, <1>3 DEF NoUseAfterFree

\* What it says of the entry a deletion finds.
LEMMA FindsItsOwn == ReactorInv => DeletesItsOwn
  BY FoundIsCur DEF DeletesItsOwn

\* What it says of the threads that handle connections.
LEMMA HandledByOwner == ReactorInv => OneThreadPerConnection
<1> SUFFICES ASSUME ReactorInv, NEW l \in Loopers, NEW c \in ready[l] \cup ({cur[l]} \ {None})
             PROVE  owner[c] = l
  BY DEF OneThreadPerConnection
<1>1. CASE c \in ready[l]
  BY <1>1, ReactorAssumption DEF ReactorInv, TypeOK, PollInv
<1>2. CASE c = cur[l] /\ cur[l] # None
  BY <1>2, CurIsMine
<1> QED
  BY <1>1, <1>2

\* ReactorInv is an invariant of the reactor core: latch_, the maps, the heap,
\* the descriptor table and the kqueues stay consistent in every interleaving of
\* clients, listener and reactors.
THEOREM ReactorInvariant == Spec => []ReactorInv
  BY InitReactorInv, NextReactorInv, PTL DEF Spec

\* The variables of the reactor core keep their types.
THEOREM TypeCorrect == Spec => []TypeOK
<1>1. ReactorInv => TypeOK
  BY DEF ReactorInv
<1> QED
  BY <1>1, ReactorInvariant, PTL

\* No callback, no entry of the vector Poll returned and no kqueue registration
\* outlives its Connection object.
THEOREM UseAfterFreeFreedom == Spec => []NoUseAfterFree
  BY PointersLive, ReactorInvariant, PTL

\* DeleteConnection removes the connection whose handler called it, never
\* another one that got the same descriptor number.
THEOREM DeletionIsExact == Spec => []DeletesItsOwn
  BY FindsItsOwn, ReactorInvariant, PTL

\* Every Connection object has exactly one holder, and its descriptor is its own.
THEOREM Ownership == Spec => []OneHolder
<1>1. ReactorInv => OneHolder
  BY DEF ReactorInv
<1> QED
  BY <1>1, ReactorInvariant, PTL

\* One loop per thread: only the owner's thread handles a connection.
THEOREM ThreadConfinement == Spec => []OneThreadPerConnection
  BY HandledByOwner, ReactorInvariant, PTL

\* No step of the core loses an edge.
LEMMA NextKeepsEdges ==
  ASSUME ReactorInv, NoLostEdge, [Next]_vars
  PROVE  NoLostEdge'
<1>1. ASSUME NEW c \in Conns, Connect(c) PROVE NoLostEdge'
  BY <1>1 DEF NoLostEdge, Readable, Connect, reactorVars
<1>2. ASSUME NEW c \in Conns, PeerSend(c) PROVE NoLostEdge'
  <2>1. knote[c] # None => edge'[c]
    BY <1>2 DEF PeerSend, Trigger, ReactorInv, TypeOK
  <2>2. ASSUME NEW d \in Conns, d # c PROVE edge'[d] = edge[d] /\ inbuf'[d] = inbuf[d]
    BY <1>2, <2>2 DEF PeerSend, Trigger, ReactorInv, TypeOK
  <2> QED
    BY <1>2, <2>1, <2>2 DEF NoLostEdge, Readable, PeerSend, reactorVars
<1>3. ASSUME NEW c \in Conns, PeerClose(c) PROVE NoLostEdge'
  <2>1. knote[c] # None => edge'[c]
    BY <1>3 DEF PeerClose, Trigger, ReactorInv, TypeOK
  <2>2. ASSUME NEW d \in Conns, d # c PROVE edge'[d] = edge[d] /\ eof'[d] = eof[d]
    BY <1>3, <2>2 DEF PeerClose, Trigger, ReactorInv, TypeOK
  <2> QED
    BY <1>3, <2>1, <2>2 DEF NoLostEdge, Readable, PeerClose, reactorVars
<1>4. ASSUME NEW c \in Conns, PeerReset(c) PROVE NoLostEdge'
  <2>1. knote[c] # None => edge'[c]
    BY <1>4 DEF PeerReset, Trigger, ReactorInv, TypeOK
  <2>2. ASSUME NEW d \in Conns, d # c
        PROVE  edge'[d] = edge[d] /\ inbuf'[d] = inbuf[d] /\ eof'[d] = eof[d]
    BY <1>4, <2>2 DEF PeerReset, Trigger, ReactorInv, TypeOK
  <2> QED
    BY <1>4, <2>1, <2>2 DEF NoLostEdge, Readable, PeerReset, reactorVars
<1>5. CASE ListenerPoll \/ AcceptFail \/ AddLock \/ \E c \in Conns, f \in Fds, l \in Loopers : Accept(c, f, l)
  BY <1>5 DEF NoLostEdge, Readable, ListenerPoll, AcceptFail, AddLock, Accept, kernelVars, reactorVars
<1>6. CASE AddRegister
  <2>1. lconn \in Conns /\ edge'[lconn] = Readable(lconn)
    BY <1>6 DEF AddRegister, ReactorInv, TypeOK, HandoverInv
  <2>2. ASSUME NEW d \in Conns, d # lconn PROVE edge'[d] = edge[d] /\ knote'[d] = knote[d]
    BY <1>6, <2>1, <2>2 DEF AddRegister, ReactorInv, TypeOK
  <2>3. UNCHANGED <<inbuf, eof, ready, cur, rpc>>
    BY <1>6 DEF AddRegister, reactorVars
  <2>4. \A c \in Conns : Readable(c)' <=> Readable(c)
    BY <2>3 DEF Readable
  <2>5. ASSUME NEW c \in Conns, knote'[c] # None, Readable(c)
        PROVE  \/ edge'[c]
               \/ c \in ready[knote'[c]]
               \/ /\ cur[knote'[c]] = c
                  /\ rpc[knote'[c]] \in {"recv", "delete", "erase", "destroy"}
    <3>1. CASE c = lconn
      BY <2>1, <2>5, <3>1
    <3>2. CASE c # lconn
      BY <2>2, <2>5, <3>2 DEF NoLostEdge
    <3> QED
      BY <3>1, <3>2
  <2> QED
    BY <2>3, <2>4, <2>5 DEF NoLostEdge
<1>7. CASE AddInsert
  <2>1. UNCHANGED kernelVars /\ UNCHANGED reactorVars
    BY <1>7, SlotIsFree DEF AddInsert, kernelVars
  <2> QED
    BY <2>1 DEF NoLostEdge, Readable, kernelVars, reactorVars
<1>8. ASSUME NEW l \in Loopers, LoopTop(l) \/ LoopEnd(l) \/ SetExit(l) PROVE NoLostEdge'
  BY <1>8 DEF NoLostEdge, Readable, LoopTop, LoopEnd, SetExit, kernelVars, reactorVars, ReactorInv, TypeOK
<1>9. ASSUME NEW l \in Loopers, Poll(l) PROVE NoLostEdge'
  BY <1>9 DEF NoLostEdge, Readable, Poll, Active, ReactorInv, TypeOK, PollInv, CurInv
<1>10. ASSUME NEW l \in Loopers, NEW c \in Conns, RunCallback(l, c) PROVE NoLostEdge'
  BY <1>10, ReactorAssumption DEF NoLostEdge, Readable, RunCallback, kernelVars, ReactorInv, TypeOK, CurInv
<1>11. ASSUME NEW l \in Loopers, RecvChunk(l) PROVE NoLostEdge'
  BY <1>11 DEF NoLostEdge, Readable, RecvChunk, reactorVars, ReactorInv, TypeOK
<1>12. ASSUME NEW l \in Loopers, RecvReturn(l) PROVE NoLostEdge'
  BY <1>12 DEF NoLostEdge, Readable, RecvReturn, kernelVars, ReactorInv, TypeOK
<1>13. ASSUME NEW l \in Loopers, ServeKeep(l) \/ ServeClose(l) PROVE NoLostEdge'
  <2>1. rpc[l] = "serve" /\ UNCHANGED kernelVars /\ UNCHANGED ready
    BY <1>13 DEF ServeKeep, ServeClose
  <2>2. ASSUME NEW m \in Loopers, m # l PROVE rpc'[m] = rpc[m] /\ cur'[m] = cur[m]
    BY <1>13, <2>2 DEF ServeKeep, ServeClose, ReactorInv, TypeOK
  <2>3. ASSUME NEW c \in Conns, knote[c] # None, Readable(c)
        PROVE  \/ edge[c]
               \/ c \in ready[knote[c]]
               \/ /\ cur'[knote[c]] = c
                  /\ rpc'[knote[c]] \in {"recv", "delete", "erase", "destroy"}
    <3>1. knote[c] \in Loopers
      BY <2>3 DEF ReactorInv, TypeOK
    <3>2. CASE knote[c] = l
      BY <2>1, <2>3, <3>2 DEF NoLostEdge
    <3>3. CASE knote[c] # l
      BY <2>2, <2>3, <3>1, <3>3 DEF NoLostEdge
    <3> QED
      BY <3>2, <3>3
  <2> QED
    BY <2>1, <2>3 DEF NoLostEdge, Readable, kernelVars
<1>14. ASSUME NEW l \in Loopers, DeleteLock(l) PROVE NoLostEdge'
  BY <1>14 DEF NoLostEdge, Readable, DeleteLock, kernelVars, ReactorInv, TypeOK
<1>15. ASSUME NEW l \in Loopers, DeleteFind(l) PROVE NoLostEdge'
  BY <1>15, FoundIsCur, ReactorAssumption DEF NoLostEdge, Readable, DeleteFind, Found, kernelVars, ReactorInv, TypeOK
<1>16. ASSUME NEW l \in Loopers, DeleteDestroy(l) PROVE NoLostEdge'
  BY <1>16 DEF NoLostEdge, Readable, DeleteDestroy, Destroy, ReactorInv, TypeOK, VictimInv
<1>17. ASSUME NEW l \in Loopers, DeleteUnlock(l) PROVE NoLostEdge'
  BY <1>17 DEF NoLostEdge, Readable, DeleteUnlock, kernelVars, ReactorInv, TypeOK, CurInv
<1>18. CASE UNCHANGED vars
  BY <1>18 DEF NoLostEdge, Readable, vars, kernelVars, reactorVars
<1> QED
  BY <1>1, <1>2, <1>3, <1>4, <1>5, <1>6, <1>7, <1>8, <1>9, <1>10, <1>11, <1>12, <1>13, <1>14,
     <1>15, <1>16, <1>17, <1>18 DEF Next, ListenerStep, ReactorStep

\* Edge-triggered readiness is never lost: a registered socket with something
\* to read has an event pending, is in the vector being run, or is being read.
THEOREM EdgesAreKept == Spec => []NoLostEdge
<1>1. Init => NoLostEdge
  BY DEF Init, NoLostEdge
<1>2. ReactorInv /\ NoLostEdge /\ [Next]_vars => NoLostEdge'
  BY NextKeepsEdges
<1> QED
  BY <1>1, <1>2, ReactorInvariant, PTL DEF Spec

\* AddConnection never drops the connection it was given: the insertion finds
\* no entry under its descriptor number.
THEOREM HandoverKeeps == Spec => AcceptedIsKept
<1> DEFINE Kept == lpc = "insert" /\ lpc' = "poll" =>
                     /\ lconn \in heap'
                     /\ connections'[owner[lconn]][connFd[lconn]] = lconn
<1>1. ASSUME ReactorInv, [Next]_vars PROVE [Kept]_vars
  <2> SUFFICES ASSUME Next, lpc = "insert", lpc' = "poll"
               PROVE  lconn \in heap' /\ connections'[owner[lconn]][connFd[lconn]] = lconn
    BY <1>1
  <2>1. AddInsert
    BY DEF Next, ListenerStep, ListenerPoll, AcceptFail, Accept, AddLock, AddRegister, ReactorStep,
       Connect, PeerSend, PeerClose, PeerReset, LoopTop, Poll, LoopEnd, RunCallback, RecvChunk,
       RecvReturn, ServeKeep, ServeClose, DeleteLock, DeleteFind, DeleteDestroy, DeleteUnlock,
       SetExit, listenerVars
  <2>2. /\ lconn \in heap /\ owner[lconn] \in Loopers /\ connFd[lconn] \in Fds
        /\ connections[owner[lconn]][connFd[lconn]] = None
    BY <1>1, SlotIsFree
  <2>3. UNCHANGED heap /\ connections' = [connections EXCEPT ![owner[lconn]][connFd[lconn]] = lconn]
    BY <2>1, <2>2 DEF AddInsert
  <2> QED
    BY <1>1, <2>2, <2>3 DEF ReactorInv, TypeOK
<1> QED
  BY <1>1, ReactorInvariant, PTL DEF Spec, AcceptedIsKept

-----------------------------------------------------------------------------
(* The reactor core implements Service, for every number of clients,       *)
(* descriptors and reactors: every step of Reactor that an application can *)
(* see is one step of Service, every other leaves its three variables      *)
(* alone.  ReactorInv supplies what the steps need: a running handler's    *)
(* connection is open and its own, a fresh connection always enters the    *)
(* map, and a deletion always finds its connection.                        *)

\* What the mapping says of one socket and of one thread.
LEMMA MappedState ==
  ASSUME NEW c \in Conns
  PROVE  /\ sock[c] = "idle" => ServiceState[c] = "away"
         /\ sock[c] = "queued" => ServiceState[c] = "waiting"
         /\ sock[c] = "open" => ServiceState[c] = "served"
         /\ sock[c] = "closed" => ServiceState[c] = "left"
  BY DEF ServiceState

\* A step that changes one socket changes that client's state and no other.
LEMMA StateStep ==
  ASSUME TypeOK, NEW c \in Conns, NEW s \in {"queued", "open", "closed"},
         sock' = [sock EXCEPT ![c] = s]
  PROVE  ServiceState' = [ServiceState EXCEPT ![c] = CASE s = "queued" -> "waiting"
                                                        [] s = "open" -> "served"
                                                        [] OTHER -> "left"]
  BY DEF ServiceState, TypeOK

\* A step that leaves every socket, owner and handler alone is invisible.
LEMMA StateStutter ==
  ASSUME UNCHANGED sock
  PROVE  UNCHANGED ServiceState
  BY DEF ServiceState

LEMMA BusyStutter ==
  ASSUME UNCHANGED <<rpc, cur>>
  PROVE  UNCHANGED ServiceBusy
  BY DEF ServiceBusy

\* The thread of a step moves inside a handler, or outside of any.
LEMMA BusySame ==
  ASSUME TypeOK, NEW l \in Loopers, NEW p,
         rpc' = [rpc EXCEPT ![l] = p], UNCHANGED cur,
         rpc[l] # "unlock", p # "unlock"
  PROVE  UNCHANGED ServiceBusy
  BY DEF ServiceBusy, TypeOK

-----------------------------------------------------------------------------
\* Everyone is away and every thread is idle when the program starts.
LEMMA InitMaps == Init => App!Init
  BY ReactorAssumption DEF Init, App!Init, ServiceState, ServiceBusy

\* The clients: arrive, give up, or do what the service does not see.
LEMMA ClientMaps ==
  ASSUME ReactorInv, NEW c \in Conns, Connect(c) \/ PeerSend(c) \/ PeerClose(c) \/ PeerReset(c)
  PROVE  [App!Next]_(App!serviceVars)
<1>u. UNCHANGED owner /\ UNCHANGED ServiceBusy
  BY BusyStutter DEF Connect, PeerSend, PeerClose, PeerReset, objectVars, reactorVars
<1>t. TypeOK
  BY DEF ReactorInv
<1>1. CASE Connect(c)
  <2>1. ServiceState[c] = "away" /\ ServiceState' = [ServiceState EXCEPT ![c] = "waiting"]
    BY <1>1, <1>t, MappedState, StateStep DEF Connect
  <2>2. App!Arrive(c)
    BY <1>u, <2>1 DEF App!Arrive
  <2> QED
    BY <2>2 DEF App!Next
<1>2. CASE PeerReset(c) /\ sock[c] = "queued"
  <2>1. ServiceState[c] = "waiting" /\ ServiceState' = [ServiceState EXCEPT ![c] = "left"]
    BY <1>2, <1>t, MappedState, StateStep DEF PeerReset
  <2>2. App!GiveUp(c)
    BY <1>u, <2>1 DEF App!GiveUp
  <2> QED
    BY <2>2 DEF App!Next
<1>3. CASE UNCHANGED sock
  BY <1>3, <1>u, StateStutter DEF App!serviceVars
<1> QED
  BY <1>1, <1>2, <1>3 DEF PeerSend, PeerClose, PeerReset

\* The listener: accept() is the moment a client gets its thread; the handover
\* that follows is invisible because the insertion never drops the connection.
LEMMA ListenerMaps ==
  ASSUME ReactorInv, ListenerStep
  PROVE  [App!Next]_(App!serviceVars)
<1>u. UNCHANGED ServiceBusy
  BY BusyStutter DEF ListenerStep, ListenerPoll, AcceptFail, Accept, AddLock, AddRegister,
     AddInsert, reactorVars
<1>1. ASSUME NEW c \in Conns, NEW f \in Fds, NEW l \in Loopers, Accept(c, f, l)
      PROVE  App!Next
  <2>1. ServiceState[c] = "waiting" /\ ServiceState' = [ServiceState EXCEPT ![c] = "served"]
    BY <1>1, MappedState, StateStep DEF Accept, Backlog, ReactorInv
  <2>2. App!Take(c, l)
    BY <1>1, <1>u, <2>1 DEF App!Take, Accept
  <2> QED
    BY <2>2 DEF App!Next
<1>2. CASE ListenerPoll \/ AcceptFail \/ AddLock \/ AddRegister \/ AddInsert
  <2>1. UNCHANGED <<sock, owner>>
    BY <1>2, SlotIsFree DEF ListenerPoll, AcceptFail, AddLock, AddRegister, AddInsert,
       kernelVars, objectVars
  <2> QED
    BY <1>u, <2>1, StateStutter DEF App!serviceVars
<1> QED
  BY <1>1, <1>2 DEF ListenerStep

\* A reactor: the callback, the handler that keeps its connection, the one that
\* destroys it, and everything in between.
LEMMA ReactorMaps ==
  ASSUME ReactorInv, NEW l \in Loopers, ReactorStep(l) \/ SetExit(l)
  PROVE  [App!Next]_(App!serviceVars)
<1>t. TypeOK
  BY DEF ReactorInv
<1>1. ASSUME NEW c \in Conns, RunCallback(l, c) PROVE App!Next
  <2>1. /\ rpc[l] = "run" /\ cur[l] = None /\ owner[c] = l /\ sock[c] = "open"
    BY <1>1, ReactorAssumption DEF RunCallback, ReactorInv, TypeOK, CurInv, PollInv, HeapInv
  <2>2. ServiceBusy[l] = None /\ ServiceBusy' = [ServiceBusy EXCEPT ![l] = c]
    BY <1>1, <1>t, <2>1 DEF RunCallback, ServiceBusy, TypeOK
  <2>3. ServiceState[c] = "served" /\ UNCHANGED <<ServiceState, owner>>
    BY <1>1, <2>1, MappedState, StateStutter DEF RunCallback, kernelVars, objectVars
  <2>4. App!Handle(l, c)
    BY <2>1, <2>2, <2>3 DEF App!Handle
  <2> QED
    BY <2>4 DEF App!Next
<1>2. CASE ServeKeep(l)
  <2>1. rpc[l] = "serve" /\ cur[l] # None
    BY <1>2 DEF ServeKeep, ReactorInv, CurInv
  <2>2. ServiceBusy[l] # None /\ ServiceBusy' = [ServiceBusy EXCEPT ![l] = None]
    BY <1>2, <1>t, <2>1 DEF ServeKeep, ServiceBusy, TypeOK
  <2>3. UNCHANGED <<ServiceState, owner>>
    BY <1>2, StateStutter DEF ServeKeep, kernelVars, objectVars
  <2>4. App!Keep(l)
    BY <2>2, <2>3 DEF App!Keep
  <2> QED
    BY <2>4 DEF App!Next
<1>3. CASE DeleteDestroy(l)
  <2>1. rpc[l] = "destroy" /\ victim[l] = cur[l] /\ cur[l] \in heap /\ cur[l] \in Conns
    BY <1>3, CurIsMine DEF DeleteDestroy, ReactorInv, VictimInv, CurInv
  <2>2. sock[cur[l]] = "open" /\ cur[l] # None
    BY <2>1, ReactorAssumption DEF ReactorInv, HeapInv
  <2>3. ServiceBusy[l] = cur[l] /\ ServiceBusy' = [ServiceBusy EXCEPT ![l] = None]
    BY <1>3, <1>t, <2>1 DEF DeleteDestroy, ServiceBusy, TypeOK
  <2>4. ServiceState[cur[l]] = "served" /\ ServiceState' = [ServiceState EXCEPT ![cur[l]] = "left"]
    BY <1>3, <1>t, <2>1, <2>2, MappedState, StateStep DEF DeleteDestroy, Destroy
  <2>5. App!Release(l)
    BY <1>3, <2>2, <2>3, <2>4 DEF App!Release, DeleteDestroy
  <2> QED
    BY <2>5 DEF App!Next
<1>4. CASE DeleteUnlock(l)
  <2>1. UNCHANGED ServiceBusy
    BY <1>4, <1>t DEF DeleteUnlock, ServiceBusy, TypeOK
  <2> QED
    BY <1>4, <2>1, StateStutter DEF DeleteUnlock, kernelVars, objectVars, App!serviceVars
<1>5. CASE LoopTop(l) \/ Poll(l) \/ LoopEnd(l) \/ RecvReturn(l) \/ ServeClose(l) \/ DeleteLock(l) \/ DeleteFind(l)
  <2>1. UNCHANGED <<sock, owner, cur>>
    BY <1>5 DEF LoopTop, Poll, LoopEnd, RecvReturn, ServeClose, DeleteLock, DeleteFind,
       kernelVars, objectVars
  <2>2. \E p \in {"top", "poll", "run", "serve", "delete", "erase", "destroy", "done"} :
          rpc' = [rpc EXCEPT ![l] = p]
    <3>1. Found(l) # None \/ ~DeleteFind(l)
      BY FoundIsCur, ReactorAssumption DEF DeleteFind, ReactorInv, TypeOK
    <3> QED
      BY <1>5, <3>1 DEF LoopTop, Poll, LoopEnd, RecvReturn, ServeClose, DeleteLock, DeleteFind
  <2>3. rpc[l] # "unlock"
    BY <1>5 DEF LoopTop, Poll, LoopEnd, RecvReturn, ServeClose, DeleteLock, DeleteFind
  <2>4. UNCHANGED ServiceBusy
    BY <1>t, <2>1, <2>2, <2>3, BusySame
  <2> QED
    BY <2>1, <2>4, StateStutter DEF App!serviceVars
<1>6. CASE RecvChunk(l) \/ SetExit(l)
  BY <1>6, StateStutter, BusyStutter DEF RecvChunk, SetExit, kernelVars, objectVars, reactorVars,
     App!serviceVars
<1> QED
  BY <1>1, <1>2, <1>3, <1>4, <1>5, <1>6 DEF ReactorStep

\* Every step of the reactor core is a step of the service, or invisible to it.
LEMMA NextMaps == ReactorInv /\ [Next]_vars => [App!Next]_(App!serviceVars)
<1>1. ASSUME ReactorInv, UNCHANGED vars PROVE UNCHANGED App!serviceVars
  BY <1>1, StateStutter, BusyStutter DEF vars, kernelVars, objectVars, reactorVars, App!serviceVars
<1> QED
  BY <1>1, ClientMaps, ListenerMaps, ReactorMaps DEF Next

\* The listener, the reactors, their maps and latches, the kqueues and the reuse of
\* descriptor numbers together implement the service: one thread per client, one
\* handler at a time, each accepted client let go once and by its own handler.
THEOREM ReactorImplementsService == Spec => ImplementsService
  BY InitMaps, NextMaps, ReactorInvariant, PTL DEF Spec, ImplementsService, App!Spec

-----------------------------------------------------------------------------
(* The whole server.                                                       *)

\* The variables of the pool keep their types, and a worker has a task while it runs one.
PoolInv ==
  /\ queue \in Seq(Loopers) /\ submitted \subseteq Loopers /\ finished \subseteq submitted
  /\ wpc \in [Workers -> {"none", "test", "pop", "run", "exit"}]
  /\ task \in [Workers -> Loopers \cup {None}]
  /\ \A w \in Workers : task[w] # None <=> wpc[w] = "run"
  /\ P!RunsOnce

\* A reactor between its first and its last instruction is run by a worker.
LoopInv == \A l \in Loopers : rpc[l] \notin {"top", "done"} => Running(l)

OwnerInv ==
  /\ reactors \subseteq Loopers
  /\ \A c \in heap : owner[c] \in reactors
  /\ spc \in {"main", "pool", "reactors"} => heap = {}
  /\ spc \notin {"serve", "exited"} => lpc = "poll"
  /\ spc \in {"teardown", "gone"} => \A w \in Workers : wpc[w] \in {"none", "exit"}

\* The safety properties made inductive.
ServerInv == ReactorInv /\ PoolInv /\ LoopInv /\ OwnerInv /\ NothingLeaks

-----------------------------------------------------------------------------
(* The reactor core inside the server.                                     *)

\* While no reactor is in a handler and the listener is at rest, the maps of the
\* reactors hold every connection there is.
LEMMA MapsHoldAll ==
  ASSUME ReactorInv, OwnerInv, lpc = "poll", \A l \in Loopers : rpc[l] \in {"top", "done"}
  PROVE  {connections[l][f] : l \in reactors, f \in Fds} \ {None} = heap
<1> USE DEF ReactorInv
<1>1. lconn = None /\ \A l \in Loopers : victim[l] = None
  BY DEF HandoverInv, VictimInv
<1>2. ASSUME NEW c \in heap PROVE c \in {connections[l][f] : l \in reactors, f \in Fds} \ {None}
  <2>1. c \in Conns /\ c # None
    BY ReactorAssumption DEF TypeOK
  <2>2. connections[owner[c]][connFd[c]] = c
    BY <1>1, <2>1 DEF OneHolder
  <2>3. owner[c] \in reactors /\ connFd[c] \in Fds
    BY DEF OwnerInv, HeapInv
  <2> QED
    BY <2>1, <2>2, <2>3
<1>3. ASSUME NEW l \in reactors, NEW f \in Fds, connections[l][f] # None
      PROVE  connections[l][f] \in heap
  BY <1>3 DEF OneHolder, OwnerInv
<1> QED
  BY <1>2, <1>3, ReactorAssumption DEF TypeOK

\* ~EventLooper of every reactor, once all threads are gone, leaves an empty core.
LEMMA TeardownKeeps ==
  ASSUME ServerInv, Teardown
  PROVE  ReactorInv' /\ heap' = {} /\ FreeFds' = Fds
<1> USE DEF ServerInv
<1> DEFINE held == {connections[l][f] : l \in reactors, f \in Fds} \ {None}
<1>1. lpc = "poll" /\ \A l \in Loopers : rpc[l] \in {"top", "done"}
  <2>1. lpc = "poll"
    BY DEF Teardown, OwnerInv
  <2>2. ~ \E l \in Loopers : Running(l)
    BY DEF Teardown, OwnerInv, Running
  <2> QED
    BY <2>1, <2>2 DEF LoopInv
<1>2. held = heap
  BY <1>1, MapsHoldAll
<1>3. heap' = {}
  BY <1>2 DEF Teardown
<1>4. fdTable' = [f \in Fds |-> None]
  <2>1. \A f \in Fds : fdTable[f] # None => fdTable[f] \in heap
    BY DEF ReactorInv, HeapInv
  <2>2. fdTable' = [f \in Fds |-> IF fdTable[f] \in heap THEN None ELSE fdTable[f]]
    BY <1>2 DEF Teardown
  <2>3. \A f \in Fds : (IF fdTable[f] \in heap THEN None ELSE fdTable[f]) = None
    BY <2>1
  <2> QED
    BY <2>2, <2>3
<1>5. sock' = [c \in Conns |-> IF c \in heap \/ sock[c] = "queued" THEN "closed" ELSE sock[c]]
  BY <1>2 DEF Teardown
<1>6. /\ knote' = [c \in Conns |-> None] /\ edge' = [c \in Conns |-> FALSE]
      /\ connections' = [l \in Loopers |-> [f \in Fds |-> None]]
      /\ UNCHANGED <<inbuf, eof, connFd, owner, latch, exit, lpc, lconn, rpc, ready, cur, victim>>
  BY DEF Teardown, listenerVars, reactorVars
<1>7. lconn = None /\ \A l \in Loopers : victim[l] = None /\ cur[l] = None
  BY <1>1 DEF ReactorInv, HandoverInv, VictimInv, CurInv
<1>8. \A l \in Loopers : ready[l] = {}
  BY <1>1 DEF ReactorInv, PollInv
<1>9. TypeOK'
  BY <1>3, <1>4, <1>5, <1>6, ReactorAssumption DEF ReactorInv, TypeOK, ConnOrNone
<1>10. LatchInv' /\ HandoverInv'
  BY <1>1, <1>6, <1>7, ReactorAssumption DEF ReactorInv, LatchInv, HandoverInv, Deleting
<1>11. HeapInv'
  BY <1>3, <1>4, <1>5 DEF ReactorInv, HeapInv, TypeOK
<1>12. OneHolder' /\ VictimInv' /\ PollInv' /\ CurInv'
  BY <1>1, <1>3, <1>6, <1>7, <1>8 DEF ReactorInv, OneHolder, VictimInv, PollInv, CurInv
<1>13. FreeFds' = Fds
  BY <1>4 DEF FreeFds
<1> QED
  BY <1>3, <1>9, <1>10, <1>11, <1>12, <1>13 DEF ReactorInv

\* What a step of a reactor's thread may touch.
LEMMA LoopFrame ==
  ASSUME ReactorInv, NEW l \in Loopers, ReactorStep(l)
  PROVE  /\ heap' \subseteq heap /\ UNCHANGED <<owner, lpc, lconn>>
         /\ \A m \in Loopers \ {l} : rpc'[m] = rpc[m]
<1> USE DEF ReactorInv, TypeOK, kernelVars, objectVars, looperVars, listenerVars, reactorVars
<1>1. CASE \/ LoopTop(l) \/ Poll(l) \/ LoopEnd(l) \/ RecvChunk(l) \/ RecvReturn(l)
           \/ \E c \in Conns : RunCallback(l, c)
  BY <1>1 DEF LoopTop, Poll, LoopEnd, RecvChunk, RecvReturn, RunCallback
<1>2. CASE ServeKeep(l) \/ ServeClose(l) \/ DeleteLock(l) \/ DeleteUnlock(l)
  BY <1>2 DEF ServeKeep, ServeClose, DeleteLock, DeleteUnlock
<1>3. CASE DeleteFind(l)
  BY <1>3 DEF DeleteFind
<1>4. CASE DeleteDestroy(l)
  BY <1>4 DEF DeleteDestroy, Destroy
<1> QED
  BY <1>1, <1>2, <1>3, <1>4 DEF ReactorStep

\* What a client may touch.
LEMMA ClientFrame ==
  ASSUME NEW c \in Conns, Client(c)
  PROVE  UNCHANGED <<heap, owner, fdTable, lpc, lconn, rpc, poolVars, ownerVars>>
BY DEF Client, Connect, PeerSend, PeerClose, PeerReset, objectVars, looperVars, listenerVars,
       reactorVars

\* What listener_->loop() may touch: its new connection goes to a reactor of this server.
LEMMA ServeFrame ==
  ASSUME ReactorInv, OwnerInv, Serve
  PROVE  /\ spc = "serve" /\ UNCHANGED <<poolVars, spc, reactors, rpc>>
         /\ \A c \in heap' : owner'[c] \in reactors
<1> USE DEF kernelVars, objectVars, looperVars, listenerVars, reactorVars
<1>1. spc = "serve" /\ UNCHANGED <<poolVars, spc, reactors>>
  BY DEF Serve
<1>2. CASE ListenerPoll \/ AcceptFail \/ AddLock \/ AddRegister
  BY <1>1, <1>2 DEF ListenerPoll, AcceptFail, AddLock, AddRegister, OwnerInv
<1>3. CASE \E c \in Conns, f \in Fds, l \in reactors : Accept(c, f, l)
  BY <1>1, <1>3 DEF Accept, OwnerInv, ReactorInv, TypeOK
<1>4. CASE AddInsert
  BY <1>1, <1>4 DEF AddInsert, Destroy, OwnerInv
<1> QED
  BY <1>1, <1>2, <1>3, <1>4 DEF Serve

-----------------------------------------------------------------------------
(* The pool inside the server.                                             *)

\* ThreadPool::Submit: the loop goes to the end of the queue, where it is once.
LEMMA SubmitKeeps ==
  ASSUME PoolInv, NEW l \in Loopers, P!Submit(l)
  PROVE  PoolInv'
<1> USE DEF PoolInv, P!Submit
<1>1. /\ queue' \in Seq(Loopers) /\ submitted' = submitted \cup {l} /\ l \notin submitted
      /\ UNCHANGED <<wpc, task, finished>>
  OBVIOUS
<1>2. /\ Len(queue') = Len(queue) + 1 /\ queue'[Len(queue) + 1] = l
      /\ \A i \in 1..Len(queue) : queue'[i] = queue[i]
  OBVIOUS
<1>3. \A w \in Workers : task[w] # l
  BY ReactorAssumption DEF P!RunsOnce
<1>4. \A i \in 1..Len(queue) : queue[i] # l
  BY DEF P!RunsOnce
<1>5. \A i \in 1..Len(queue') : i \in 1..Len(queue) \/ i = Len(queue) + 1
  BY <1>2
<1>6. l \notin finished
  BY DEF PoolInv
<1> QED
  BY <1>1, <1>2, <1>3, <1>4, <1>5, <1>6 DEF P!RunsOnce

\* TryPop: the front of the queue leaves it and becomes the worker's in one step.
LEMMA TryPopKeeps ==
  ASSUME PoolInv, NEW w \in Workers, P!TryPop(w)
  PROVE  PoolInv'
<1> USE DEF PoolInv, P!TryPop
<1>1. CASE queue = <<>>
  <2>1. UNCHANGED <<queue, task, submitted, finished>> /\ wpc' = [wpc EXCEPT ![w] = "test"]
    BY <1>1
  <2> QED
    BY <2>1 DEF P!RunsOnce
<1>2. CASE queue # <<>>
  <2>1. /\ task' = [task EXCEPT ![w] = Head(queue)] /\ queue' = Tail(queue)
        /\ wpc' = [wpc EXCEPT ![w] = "run"] /\ wpc[w] = "pop"
        /\ UNCHANGED <<submitted, finished>>
    BY <1>2
  <2>2. /\ Head(queue) = queue[1] /\ Len(queue) \in Nat /\ Len(queue) # 0
        /\ queue' \in Seq(Loopers) /\ Len(queue') = Len(queue) - 1
        /\ \A i \in 1..Len(queue') : queue'[i] = queue[i + 1]
    BY <1>2, <2>1
  <2>3. queue[1] \in Loopers /\ queue[1] # None
    BY <2>2, ReactorAssumption
  <2>4. \A u \in Workers : task'[u] = IF u = w THEN queue[1] ELSE task[u]
    BY <2>1, <2>2
  <2>5. \A i \in 1..Len(queue') : i + 1 \in 1..Len(queue) /\ i + 1 # 1 /\ 1 \in 1..Len(queue)
    BY <2>2
  <2>6. /\ wpc' \in [Workers -> {"none", "test", "pop", "run", "exit"}]
        /\ task' \in [Workers -> Loopers \cup {None}]
        /\ \A u \in Workers : task'[u] # None <=> wpc'[u] = "run"
    BY <2>1, <2>2, <2>3
  <2>7. 1 \in 1..Len(queue)
    BY <2>2
  <2>8. \A i, j \in 1..Len(queue') : queue'[i] = queue'[j] => i = j
    <3> SUFFICES ASSUME NEW i \in 1..Len(queue'), NEW j \in 1..Len(queue'), queue'[i] = queue'[j]
                 PROVE  i = j
      OBVIOUS
    <3>1. queue[i + 1] = queue[j + 1] /\ i + 1 \in 1..Len(queue) /\ j + 1 \in 1..Len(queue)
      BY <2>2, <2>5
    <3>2. i + 1 = j + 1
      BY <3>1 DEF P!RunsOnce
    <3> QED
      BY <3>2
  <2>9. \A i \in 1..Len(queue') :
          queue'[i] \in submitted' \ finished' /\ \A u \in Workers : task'[u] # queue'[i]
    <3> SUFFICES ASSUME NEW i \in 1..Len(queue')
                 PROVE  queue'[i] \in submitted' \ finished' /\ \A u \in Workers : task'[u] # queue'[i]
      OBVIOUS
    <3>1. queue'[i] = queue[i + 1] /\ i + 1 \in 1..Len(queue) /\ i + 1 # 1
      BY <2>2, <2>5
    <3>2. queue[i + 1] # queue[1]
      BY <2>7, <3>1 DEF P!RunsOnce
    <3> QED
      BY <2>1, <2>4, <3>1, <3>2 DEF P!RunsOnce
  <2>10. \A u \in Workers : task'[u] # None =>
           task'[u] \in submitted' \ finished' /\ \A v \in Workers \ {u} : task'[v] # task'[u]
    BY <2>1, <2>4, <2>7 DEF P!RunsOnce
  <2> QED
    BY <2>1, <2>2, <2>6, <2>8, <2>9, <2>10 DEF P!RunsOnce
<1> QED
  BY <1>1, <1>2

\* A worker whose loop() returned holds nothing any more, and the loop is over.
LEMMA RunTaskKeeps ==
  ASSUME PoolInv, NEW w \in Workers, P!RunTask(w)
  PROVE  PoolInv'
<1> USE DEF PoolInv, P!RunTask
<1>1. /\ task' = [task EXCEPT ![w] = None] /\ wpc' = [wpc EXCEPT ![w] = "test"]
      /\ finished' = finished \cup {task[w]} /\ UNCHANGED <<queue, submitted>>
      /\ task[w] # None
  OBVIOUS
<1>2. \A i \in 1..Len(queue) : queue[i] # task[w] /\ queue[i] \in Loopers
  BY DEF P!RunsOnce
<1>3. \A u \in Workers : task'[u] = IF u = w THEN None ELSE task[u]
  BY <1>1
<1>4. \A u \in Workers : u # w /\ task[u] # None => task[u] # task[w]
  BY <1>1 DEF P!RunsOnce
<1>5. P!RunsOnce'
  BY <1>1, <1>2, <1>3, <1>4, ReactorAssumption DEF P!RunsOnce
<1>6. task[w] \in submitted
  BY <1>1 DEF P!RunsOnce
<1> QED
  BY <1>1, <1>5, <1>6

\* Any other step of the pool moves a thread that holds no task, or empties the queue.
LEMMA OtherPoolKeeps ==
  ASSUME PoolInv,
         \/ UNCHANGED poolVars \/ P!BuiltAll \/ P!BuildFails \/ P!Destroy \/ P!Join
         \/ \E w \in Workers : P!Build(w) \/ P!TestDone(w)
  PROVE  PoolInv'
<1>1. CASE UNCHANGED poolVars \/ P!BuiltAll \/ P!BuildFails \/ P!Destroy
  <2>1. UNCHANGED <<queue, submitted, finished, wpc, task>>
    BY <1>1 DEF poolVars, P!BuiltAll, P!BuildFails, P!Destroy
  <2> QED
    BY <2>1 DEF PoolInv, P!RunsOnce
<1>2. CASE P!Join
  <2>1. queue' = <<>> /\ UNCHANGED <<submitted, finished, wpc, task>>
    BY <1>2 DEF P!Join
  <2> QED
    BY <2>1 DEF PoolInv, P!RunsOnce
<1>3. ASSUME NEW w \in Workers, P!Build(w) \/ P!TestDone(w) PROVE PoolInv'
  <2>1. /\ UNCHANGED <<queue, submitted, finished, task>> /\ wpc[w] \in {"none", "test"}
        /\ \E p \in {"test", "pop", "exit"} : wpc' = [wpc EXCEPT ![w] = p]
    BY <1>3 DEF P!Build, P!TestDone
  <2> QED
    BY <2>1 DEF PoolInv, P!RunsOnce
<1> QED
  BY <1>1, <1>2, <1>3
-----------------------------------------------------------------------------
(* The inductive invariant, action by action.                              *)

LEMMA InitServerInv == ServerInit => ServerInv
<1> SUFFICES ASSUME ServerInit PROVE ServerInv
  OBVIOUS
<1>1. ReactorInv
  BY InitReactorInv DEF ServerInit
<1>2. PoolInv
  BY DEF ServerInit, P!Init, PoolInv, P!RunsOnce
<1>3. LoopInv /\ OwnerInv /\ NothingLeaks
  BY DEF ServerInit, Init, P!Init, LoopInv, OwnerInv, NothingLeaks
<1> QED
  BY <1>1, <1>2, <1>3 DEF ServerInv

\* Steps that leave the core alone keep its invariant.
LEMMA CoreRests == ASSUME ReactorInv, UNCHANGED vars PROVE ReactorInv'
BY NextReactorInv

\* A thread that is run by the pool goes on running when another worker moves.
LEMMA RunningKept ==
  ASSUME PoolInv, NEW w \in Workers, NEW l \in Loopers, Running(l),
         wpc[w] # "run" \/ task[w] # l,
         \A u \in Workers \ {w} : wpc'[u] = wpc[u] /\ task'[u] = task[u]
  PROVE  Running(l)'
BY DEF Running

\* The owner, before the pool is destroyed: no thread is taken away from a loop, and
\* the core rests.
LEMMA OwnerKeeps ==
  ASSUME ServerInv,
         \/ \E argc \in 1..4, port \in PortArgs, dirExists \in BOOLEAN : Main(argc, port, dirExists)
         \/ NoKqueue \/ MakeReactors \/ MakeAcceptor \/ AddAcceptor
         \/ OnAccept \/ OnHandle \/ Begin \/ Leave \/ AcceptNowhere \/ ListenerExits
  PROVE  ServerInv'
<1> USE DEF ServerInv
<1>1. UNCHANGED <<vars, poolVars>>
  BY DEF Main, NoKqueue, MakeReactors, MakeAcceptor, AddAcceptor, OnAccept, OnHandle, Begin,
         Leave, AcceptNowhere, ListenerExits
<1>2. UNCHANGED <<heap, owner, fdTable, lpc, rpc, wpc, task>>
  BY <1>1 DEF vars, kernelVars, objectVars, listenerVars, reactorVars, poolVars
<1>3. ReactorInv'
  BY <1>1, CoreRests
<1>4. PoolInv'
  BY <1>1, OtherPoolKeeps
<1>5. LoopInv'
  BY <1>2 DEF LoopInv, Running
<1>6. CASE MakeReactors
  <2>1. /\ spc = "reactors" /\ spc' = "submit" /\ reactors' \subseteq Loopers
    BY <1>6 DEF MakeReactors, Pick
  <2> QED
    BY <1>2, <1>3, <1>4, <1>5, <2>1 DEF OwnerInv, NothingLeaks
<1>7. CASE ~MakeReactors
  <2>1. /\ UNCHANGED reactors /\ spc' \notin {"teardown", "gone", "main", "reactors"}
        /\ \/ spc' = spc \/ spc' = "exited"
           \/ spc' = "pool" /\ spc = "main"
           \/ spc' \in {"watch", "unwind"} /\ spc = "acceptor"
           \/ spc' = "ready" /\ spc = "watch"
           \/ spc' \in {"serve", "destroy"} /\ spc = "ready"
           \/ spc' = "destroy" /\ lpc = "poll"
    BY <1>7 DEF Main, NoKqueue, MakeAcceptor, AddAcceptor, OnAccept, OnHandle, Begin,
           Leave, AcceptNowhere, ListenerExits
  <2> QED
    BY <1>2, <1>3, <1>4, <1>5, <2>1 DEF OwnerInv, NothingLeaks
<1> QED
  BY <1>6, <1>7

\* The pool's constructor: a new thread starts with no task.
LEMMA MakePoolKeeps == ASSUME ServerInv, MakePool PROVE ServerInv'
<1> USE DEF ServerInv
<1>1. UNCHANGED <<vars, reactors, task>> /\ spc = "pool" /\ spc' \in {"pool", "reactors", "unwind"}
  BY DEF MakePool, P!Build, P!BuiltAll, P!BuildFails
<1>2. UNCHANGED <<heap, owner, fdTable, lpc, rpc>>
  BY <1>1 DEF vars, kernelVars, objectVars, listenerVars, reactorVars
<1>3. ReactorInv'
  BY <1>1, CoreRests
<1>4. PoolInv'
  BY OtherPoolKeeps DEF MakePool, Pick
<1>5. \A w \in Workers : wpc[w] = "run" => wpc'[w] = "run"
  BY DEF MakePool, P!Build, P!BuiltAll, P!BuildFails, PoolInv
<1>6. LoopInv'
  BY <1>1, <1>2, <1>5 DEF LoopInv, Running
<1>7. OwnerInv' /\ NothingLeaks'
  BY <1>1, <1>2 DEF OwnerInv, NothingLeaks
<1> QED
  BY <1>3, <1>4, <1>6, <1>7

\* The reactors are given to the pool.
LEMMA SubmitLoopsKeeps == ASSUME ServerInv, SubmitLoops PROVE ServerInv'
<1> USE DEF ServerInv
<1>1. UNCHANGED <<vars, reactors, task, wpc>> /\ spc = "submit" /\ spc' \in {"submit", "acceptor"}
  BY DEF SubmitLoops, P!Submit, poolVars
<1>2. UNCHANGED <<heap, owner, fdTable, lpc, rpc>>
  BY <1>1 DEF vars, kernelVars, objectVars, listenerVars, reactorVars
<1>3. ReactorInv'
  BY <1>1, CoreRests
<1>4. PoolInv'
  BY SubmitKeeps, OtherPoolKeeps DEF SubmitLoops, Pick, OwnerInv
<1>5. LoopInv' /\ OwnerInv' /\ NothingLeaks'
  BY <1>1, <1>2 DEF LoopInv, Running, OwnerInv, NothingLeaks
<1> QED
  BY <1>3, <1>4, <1>5

\* ~ThreadPool: teardown is reached when every thread there was has exited.
LEMMA DestroyPoolKeeps == ASSUME ServerInv, DestroyPool PROVE ServerInv'
<1> USE DEF ServerInv
<1>1. /\ UNCHANGED <<vars, reactors, task, wpc>> /\ spc \in {"destroy", "unwind"}
      /\ spc' = spc \/ (spc' = "teardown" /\ P!Join)
  BY DEF DestroyPool, P!Destroy, P!Join
<1>2. UNCHANGED <<heap, owner, fdTable, lpc, rpc>>
  BY <1>1 DEF vars, kernelVars, objectVars, listenerVars, reactorVars
<1>3. ReactorInv'
  BY <1>1, CoreRests
<1>4. PoolInv'
  BY OtherPoolKeeps DEF DestroyPool
<1>5. spc' = "teardown" => \A w \in Workers : wpc[w] \in {"none", "exit"}
  BY <1>1 DEF P!Join, P!Built
<1>6. LoopInv' /\ OwnerInv' /\ NothingLeaks'
  BY <1>1, <1>2, <1>5 DEF LoopInv, Running, OwnerInv, NothingLeaks
<1> QED
  BY <1>3, <1>4, <1>6

\* The members go, all threads having exited.
LEMMA TeardownServerKeeps == ASSUME ServerInv, Teardown PROVE ServerInv'
<1>1. ReactorInv' /\ heap' = {} /\ FreeFds' = Fds
  BY TeardownKeeps
<1>2. /\ UNCHANGED <<poolVars, wpc, task, rpc, lpc, reactors>>
      /\ spc = "teardown" /\ spc' = "gone"
  BY DEF Teardown, poolVars, reactorVars, listenerVars
<1>3. PoolInv'
  BY <1>2, OtherPoolKeeps DEF ServerInv
<1>4. LoopInv' /\ OwnerInv' /\ NothingLeaks'
  BY <1>1, <1>2 DEF ServerInv, LoopInv, Running, OwnerInv, NothingLeaks
<1> QED
  BY <1>1, <1>3, <1>4 DEF ServerInv

\* listener_->loop().
LEMMA ServeKeeps == ASSUME ServerInv, Serve PROVE ServerInv'
<1> USE DEF ServerInv
<1>1. ReactorInv'
  <2>1. Next
    BY DEF Serve, Next, ListenerStep, OwnerInv
  <2> QED
    BY <2>1, NextReactorInv
<1>2. /\ spc = "serve" /\ UNCHANGED <<poolVars, wpc, task, spc, reactors, rpc>>
      /\ \A c \in heap' : owner'[c] \in reactors
  BY ServeFrame DEF poolVars
<1>3. PoolInv'
  BY <1>2, OtherPoolKeeps
<1>4. LoopInv' /\ OwnerInv' /\ NothingLeaks'
  BY <1>2 DEF LoopInv, Running, OwnerInv, NothingLeaks
<1> QED
  BY <1>1, <1>3, <1>4

\* A worker between tasks: it gives up a loop only when the loop has returned.
LEMMA WorkerKeeps == ASSUME ServerInv, NEW w \in Workers, Worker(w) PROVE ServerInv'
<1> USE DEF ServerInv
<1>1. UNCHANGED <<vars, spc, reactors>>
  BY DEF Worker, ownerVars
<1>2. UNCHANGED <<heap, owner, fdTable, lpc, rpc>>
  BY <1>1 DEF vars, kernelVars, objectVars, listenerVars, reactorVars
<1>3. ReactorInv'
  BY <1>1, CoreRests
<1>4. PoolInv'
  BY OtherPoolKeeps, TryPopKeeps, RunTaskKeeps DEF Worker
<1>5. /\ wpc[w] \in {"test", "pop"} \/ (wpc[w] = "run" /\ rpc[task[w]] = "done")
      /\ \A u \in Workers \ {w} : wpc'[u] = wpc[u] /\ task'[u] = task[u]
  BY DEF Worker, P!TestDone, P!TryPop, P!RunTask, PoolInv
<1>6. LoopInv'
  <2> SUFFICES ASSUME NEW l \in Loopers, rpc[l] \notin {"top", "done"} PROVE Running(l)'
    BY <1>2 DEF LoopInv
  <2>1. Running(l)
    BY DEF LoopInv
  <2>2. wpc[w] # "run" \/ task[w] # l
    BY <1>5
  <2> QED
    BY <1>5, <2>1, <2>2, RunningKept
<1>7. spc \notin {"teardown", "gone"}
  BY <1>5 DEF OwnerInv
<1>8. OwnerInv' /\ NothingLeaks'
  BY <1>1, <1>2, <1>7 DEF OwnerInv, NothingLeaks
<1> QED
  BY <1>3, <1>4, <1>6, <1>8

\* A reactor's own step: its thread is there, so the server is not gone.
LEMMA LoopKeeps == ASSUME ServerInv, NEW l \in Loopers, Loop(l) PROVE ServerInv'
<1> USE DEF ServerInv
<1>1. ReactorInv'
  <2>1. Next
    BY DEF Loop, Next
  <2> QED
    BY <2>1, NextReactorInv
<1>2. UNCHANGED <<poolVars, wpc, task, spc, reactors>> /\ Running(l)
  BY DEF Loop, poolVars, ownerVars
<1>3. /\ heap' \subseteq heap /\ UNCHANGED <<owner, lpc, lconn>>
      /\ \A m \in Loopers \ {l} : rpc'[m] = rpc[m]
  BY LoopFrame DEF Loop
<1>4. PoolInv'
  BY <1>2, OtherPoolKeeps
<1>5. LoopInv'
  BY <1>2, <1>3 DEF LoopInv, Running
<1>6. spc \notin {"teardown", "gone"}
  BY <1>2 DEF OwnerInv, Running
<1>7. OwnerInv' /\ NothingLeaks'
  BY <1>2, <1>3, <1>6 DEF OwnerInv, NothingLeaks
<1> QED
  BY <1>1, <1>4, <1>5, <1>7

\* SetExit from any thread, and the clients.
LEMMA OutsideKeeps ==
  ASSUME ServerInv, (\E l \in Loopers : ApplicationExits(l)) \/ (\E c \in Conns : Client(c))
  PROVE  ServerInv'
<1> USE DEF ServerInv
<1>1. ReactorInv'
  <2>1. Next
    BY DEF ApplicationExits, Client, Next
  <2> QED
    BY <2>1, NextReactorInv
<1>2. UNCHANGED <<heap, owner, fdTable, lpc, lconn, rpc, poolVars, ownerVars>>
  BY ClientFrame DEF ApplicationExits, SetExit, kernelVars, objectVars, listenerVars, reactorVars
<1>3. PoolInv'
  BY <1>2, OtherPoolKeeps
<1>4. LoopInv' /\ OwnerInv' /\ NothingLeaks'
  BY <1>2 DEF LoopInv, Running, OwnerInv, NothingLeaks, FreeFds, poolVars, ownerVars
<1> QED
  BY <1>1, <1>3, <1>4

LEMMA NextServerInv == ServerInv /\ [ServerNext]_serverVars => ServerInv'
<1> SUFFICES ASSUME ServerInv, [ServerNext]_serverVars PROVE ServerInv'
  OBVIOUS
<1>1. CASE UNCHANGED serverVars
  <2>1. UNCHANGED <<vars, poolVars, ownerVars>>
    BY <1>1 DEF serverVars
  <2>2. ReactorInv' /\ PoolInv'
    BY <2>1, CoreRests, OtherPoolKeeps DEF ServerInv
  <2>3. LoopInv' /\ OwnerInv' /\ NothingLeaks'
    BY <2>1 DEF ServerInv, LoopInv, Running, OwnerInv, NothingLeaks, FreeFds, poolVars, ownerVars,
                vars, kernelVars, objectVars, listenerVars, reactorVars
  <2> QED
    BY <2>2, <2>3 DEF ServerInv
<1>2. CASE \/ \E argc \in 1..4, port \in PortArgs, dirExists \in BOOLEAN : Main(argc, port, dirExists)
           \/ Construct \/ OnAccept \/ OnHandle \/ Begin \/ Leave \/ AcceptNowhere \/ ListenerExits
  BY <1>2, OwnerKeeps, MakePoolKeeps, SubmitLoopsKeeps DEF Construct
<1>3. CASE Serve \/ DestroyPool \/ Teardown
  BY <1>3, ServeKeeps, DestroyPoolKeeps, TeardownServerKeeps
<1>4. CASE \/ \E w \in Workers : Worker(w)
           \/ \E l \in Loopers : Loop(l) \/ ApplicationExits(l)
           \/ \E c \in Conns : Client(c)
  BY <1>4, WorkerKeeps, LoopKeeps, OutsideKeeps
<1> QED
  BY <1>1, <1>2, <1>3, <1>4 DEF ServerNext

-----------------------------------------------------------------------------
(* The theorems.                                                           *)

\* ServerInv holds throughout a server's life, whatever its owner and its clients do:
\* the reactor core keeps the invariant it has on its own also when its threads
\* come from the pool and its objects die with the server.
THEOREM ServerInvariant == ServerSpec => []ServerInv
<1>1. ServerInit => ServerInv
  BY InitServerInv
<1>2. ServerInv /\ [ServerNext]_serverVars => ServerInv'
  BY NextServerInv
<1> QED
  BY <1>1, <1>2, PTL DEF ServerSpec

\* Inside a server, whose reactors get their threads from the pool and whose
\* connections die with it, the core stays as safe as on its own: no dangling
\* pointer to a Connection, deletions are exact, one holder, one thread each.
THEOREM CoreSafeInServer ==
  ServerSpec => [](NoUseAfterFree /\ DeletesItsOwn /\ OneHolder /\ OneThreadPerConnection)
<1>1. ServerInv => NoUseAfterFree /\ DeletesItsOwn /\ OneHolder /\ OneThreadPerConnection
  BY PointersLive, FindsItsOwn, HandledByOwner DEF ServerInv, ReactorInv
<1> QED
  BY <1>1, ServerInvariant, PTL

\* Seen from the reactor core, a server's step is one of its own, none, or the teardown.
LEMMA CoreStep == ASSUME OwnerInv, [ServerNext]_serverVars PROVE [Next]_vars \/ Teardown
<1>1. CASE \/ UNCHANGED serverVars
           \/ \E argc \in 1..4, port \in PortArgs, dirExists \in BOOLEAN : Main(argc, port, dirExists)
           \/ Construct \/ OnAccept \/ OnHandle \/ Begin \/ Leave \/ AcceptNowhere \/ ListenerExits
           \/ DestroyPool
           \/ \E w \in Workers : Worker(w)
  <2>1. UNCHANGED vars
    BY <1>1 DEF serverVars, Main, Construct, MakePool, NoKqueue, MakeReactors, SubmitLoops,
                MakeAcceptor, AddAcceptor, OnAccept, OnHandle, Begin, Leave, AcceptNowhere,
                ListenerExits, DestroyPool, Worker
  <2> QED
    BY <2>1
<1>2. CASE Serve
  BY <1>2 DEF Serve, Next, ListenerStep, OwnerInv
<1>3. CASE (\E l \in Loopers : Loop(l) \/ ApplicationExits(l)) \/ (\E c \in Conns : Client(c))
  BY <1>3 DEF Loop, ApplicationExits, Client, Next
<1> QED
  BY <1>1, <1>2, <1>3 DEF ServerNext

\* In a server too, edge-triggered readiness is never lost, whichever of registration
\* and arrival came first and whenever the reactor got its thread.
THEOREM EdgesKeptInServer == ServerSpec => []NoLostEdge
<1>1. ServerInit => NoLostEdge
  BY DEF ServerInit, Init, NoLostEdge
<1>2. ServerInv /\ NoLostEdge /\ [ServerNext]_serverVars => NoLostEdge'
  <2>1. Teardown => NoLostEdge'
    BY DEF Teardown, NoLostEdge
  <2> QED
    BY <2>1, CoreStep, NextKeepsEdges DEF ServerInv
<1> QED
  BY <1>1, <1>2, ServerInvariant, PTL DEF ServerSpec

\* No reactor's loop is ever run by two threads, nor run again: ThreadPool::Submit and
\* the workers' TryPop hand every loop over once.
THEOREM OneThreadPerLoop == ServerSpec => []RunsOnce
<1>1. ServerInv => RunsOnce
  BY DEF ServerInv, PoolInv, RunsOnce
<1> QED
  BY <1>1, ServerInvariant, PTL

\* ~IceeServer destroys no member while a thread of the pool still uses it, also when
\* the constructor fails half way.
THEOREM JoinedBeforeTeardown == ServerSpec => []MembersOutliveThreads
<1>1. ServerInv => MembersOutliveThreads
  BY DEF ServerInv, PoolInv, OwnerInv, MembersOutliveThreads, P!Built
<1> QED
  BY <1>1, ServerInvariant, PTL

\* A destroyed server holds no descriptor and no Connection: with every loop returned
\* or never started, the reactors' maps hold all of them.
THEOREM GivesEverythingBack == ServerSpec => []NothingLeaks
<1>1. ServerInv => NothingLeaks
  BY DEF ServerInv
<1> QED
  BY <1>1, ServerInvariant, PTL
=============================================================================
