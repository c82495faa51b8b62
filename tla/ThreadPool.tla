----------------------------- MODULE ThreadPool -----------------------------
(***************************************************************************)
(* core/threadPool.h with core/joiner.h, and the queue as the pool uses it *)
(* (Push and TryPop, each one critical section).  The owner builds the     *)
(* pool thread by thread, submits tasks and destroys the pool; workers     *)
(* start as soon as they are built.  IceeServer.tla owns the pool and says *)
(* what the tasks are: EventLooper::loop, one per reactor.                 *)
(***************************************************************************)
EXTENDS Naturals, Sequences, FiniteSets

CONSTANTS
  Workers,     \* the threads there can be
  Tasks,       \* what is submitted, each at most once
  None         \* no task

VARIABLES
  threadNum,   \* thread_num, the constructor's argument
  opc,         \* owner: build -> use -> join -> gone
  done,        \* done_
  queue,       \* queue_
  wpc,         \* worker: none -> test -> pop -> run -> ... -> exit
  task,        \* the task a worker holds
  submitted, finished

vars == <<threadNum, opc, done, queue, wpc, task, submitted, finished>>

Init ==
  /\ threadNum \in 0..Cardinality(Workers)
  /\ opc = "build" /\ done = FALSE /\ queue = <<>>
  /\ wpc = [w \in Workers |-> "none"] /\ task = [w \in Workers |-> None]
  /\ submitted = {} /\ finished = {}

Built == {w \in Workers : wpc[w] # "none"}

-----------------------------------------------------------------------------
(* The owner.                                                              *)

Build(w) ==
  /\ opc = "build" /\ Cardinality(Built) < threadNum /\ wpc[w] = "none"
  /\ wpc' = [wpc EXCEPT ![w] = "test"]
  /\ UNCHANGED <<threadNum, opc, done, queue, task, submitted, finished>>

BuiltAll ==
  /\ opc = "build" /\ Cardinality(Built) = threadNum
  /\ opc' = "use"
  /\ UNCHANGED <<threadNum, done, queue, wpc, task, submitted, finished>>

\* A thread cannot be created: done_ is set, the exception leaves the
\* constructor and the members built so far are destroyed, joiner_ first.
BuildFails ==
  /\ opc = "build" /\ Cardinality(Built) < threadNum
  /\ done' = TRUE /\ opc' = "join"
  /\ UNCHANGED <<threadNum, queue, wpc, task, submitted, finished>>

Submit(t) ==
  /\ opc = "use" /\ t \notin submitted
  /\ submitted' = submitted \cup {t}
  /\ queue' = Append(queue, t)
  /\ UNCHANGED <<threadNum, opc, done, wpc, task, finished>>

\* A destructor that leaves done_ alone.
DestroyQuietly ==
  /\ opc = "use"
  /\ opc' = "join"
  /\ UNCHANGED <<threadNum, done, queue, wpc, task, submitted, finished>>

Destroy ==
  /\ opc = "use"
  /\ done' = TRUE /\ opc' = "join"
  /\ UNCHANGED <<threadNum, queue, wpc, task, submitted, finished>>

\* ~Joiner waits for one thread after the other, and so for all of them; then
\* threads_ and queue_ are destroyed, with whatever tasks are still queued.
Join ==
  /\ opc = "join" /\ \A w \in Built : wpc[w] = "exit"
  /\ opc' = "gone" /\ queue' = <<>>
  /\ UNCHANGED <<threadNum, done, wpc, task, submitted, finished>>

-----------------------------------------------------------------------------
(* worker_thread.                                                          *)

TestDone(w) ==
  /\ wpc[w] = "test"
  /\ wpc' = [wpc EXCEPT ![w] = IF done THEN "exit" ELSE "pop"]
  /\ UNCHANGED <<threadNum, opc, done, queue, task, submitted, finished>>

\* Reading the front in one critical section, popping it in another.
TryPopShared(w) ==
  /\ wpc[w] = "pop"
  /\ IF queue = <<>>
       THEN wpc' = [wpc EXCEPT ![w] = "test"] /\ UNCHANGED <<queue, task>>
       ELSE /\ task' = [task EXCEPT ![w] = Head(queue)]
            /\ wpc' = [wpc EXCEPT ![w] = "run"]
            /\ UNCHANGED queue
  /\ UNCHANGED <<threadNum, opc, done, submitted, finished>>

\* An empty queue makes the worker yield and look at done_ again.
TryPop(w) ==
  /\ wpc[w] = "pop"
  /\ IF queue = <<>>
       THEN wpc' = [wpc EXCEPT ![w] = "test"] /\ UNCHANGED <<queue, task>>
       ELSE /\ task' = [task EXCEPT ![w] = Head(queue)]
            /\ queue' = Tail(queue)
            /\ wpc' = [wpc EXCEPT ![w] = "run"]
  /\ UNCHANGED <<threadNum, opc, done, submitted, finished>>

\* The task returns; when it does is the task's own matter.
RunTask(w) ==
  /\ wpc[w] = "run"
  /\ finished' = finished \cup {task[w]}
  /\ task' = [task EXCEPT ![w] = None]
  /\ wpc' = [wpc EXCEPT ![w] = "test"]
  /\ UNCHANGED <<threadNum, opc, done, queue, submitted>>

-----------------------------------------------------------------------------
(* Properties.                                                             *)

\* A task is run by one worker, once: it is in the queue in one place, or held by
\* one worker, or finished, or was dropped with the queue.
RunsOnce ==
  /\ \A i, j \in 1..Len(queue) : queue[i] = queue[j] => i = j
  /\ \A i \in 1..Len(queue) :
       queue[i] \in submitted \ finished /\ \A w \in Workers : task[w] # queue[i]
  /\ \A w \in Workers : task[w] # None =>
       task[w] \in submitted \ finished /\ \A u \in Workers \ {w} : task[u] # task[w]
=============================================================================
