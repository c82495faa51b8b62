-------------------------- MODULE ThreadSafeQueue --------------------------
(***************************************************************************)
(* core/threadSafeQueue.h: a FIFO under one mutex, with consumers that     *)
(* either give up on an empty queue (TryPop) or wait on a condition        *)
(* variable (WaitAndPop).  Every critical section is one step; a consumer  *)
(* inside cond.wait is blocked, then notified, then awake with the mutex.  *)
(***************************************************************************)
EXTENDS Naturals, Sequences, FiniteSets

CONSTANTS
  Values,        \* the values pushed, each at most once
  Consumers      \* the threads that pop

ASSUME QueueAssumption == IsFiniteSet(Consumers)

VARIABLES
  queue,         \* m_queue
  blocked,       \* consumers asleep on m_cond
  notified,      \* consumers picked by notify_one that have not run yet
  pushed,        \* the values pushed so far, in that order
  popped         \* the values handed out, in that order

vars == <<queue, blocked, notified, pushed, popped>>

Init == queue = <<>> /\ blocked = {} /\ notified = {} /\ pushed = <<>> /\ popped = <<>>

Running == Consumers \ (blocked \cup notified)

\* Push without waking anybody.
PushSilently(v) ==
  /\ \A i \in 1..Len(pushed) : pushed[i] # v
  /\ pushed' = Append(pushed, v)
  /\ queue' = Append(queue, v)
  /\ UNCHANGED <<blocked, notified, popped>>

\* notify_one wakes one of the blocked consumers, if there is one.
Push(v) ==
  /\ \A i \in 1..Len(pushed) : pushed[i] # v
  /\ pushed' = Append(pushed, v)
  /\ queue' = Append(queue, v)
  /\ IF blocked = {}
       THEN UNCHANGED <<blocked, notified>>
       ELSE \E c \in blocked : blocked' = blocked \ {c} /\ notified' = notified \cup {c}
  /\ UNCHANGED popped

\* front() without pop().
PeekFront ==
  /\ queue # <<>>
  /\ popped' = Append(popped, Head(queue))
  /\ UNCHANGED <<queue, pushed>>

PopFront ==
  /\ queue # <<>>
  /\ popped' = Append(popped, Head(queue))
  /\ queue' = Tail(queue)
  /\ UNCHANGED pushed

\* A TryPop that finds the queue empty returns at once and changes nothing.
TryPop(c) ==
  /\ c \in Running
  /\ PopFront
  /\ UNCHANGED <<blocked, notified>>

\* WaitAndPop on an empty queue: releasing the mutex and falling asleep are one step.
WaitAndPop(c) ==
  /\ c \in Running /\ queue = <<>>
  /\ blocked' = blocked \cup {c}
  /\ UNCHANGED <<queue, notified, pushed, popped>>

\* A notified consumer gets the mutex back and tests the predicate again.
WakeUp(c) ==
  /\ c \in notified
  /\ notified' = notified \ {c}
  /\ \/ PopFront /\ UNCHANGED blocked
     \/ /\ queue = <<>>                    \* somebody was faster
        /\ blocked' = blocked \cup {c}
        /\ UNCHANGED <<queue, pushed, popped>>

\* cond.wait may also return by itself.
SpuriousWakeUp(c) ==
  /\ c \in blocked
  /\ PopFront
  /\ blocked' = blocked \ {c}
  /\ UNCHANGED notified

Next ==
  \/ \E v \in Values : Push(v)
  \/ \E c \in Consumers : TryPop(c) \/ WaitAndPop(c) \/ WakeUp(c) \/ SpuriousWakeUp(c)

Spec == Init /\ [][Next]_vars

\* A notified consumer runs; nobody has to push or pop, and no wake-up is spurious.
FairSpec == Spec /\ \A c \in Consumers : WF_vars(WakeUp(c))

-----------------------------------------------------------------------------
(* Properties.                                                             *)

\* Nothing is lost, delivered twice or overtaken, whichever consumer takes it:
\* what was handed out followed by what is still queued is what was pushed.
FifoOnce == popped \o queue = pushed

\* No wake-up is lost: while a consumer sleeps unnotified, every queued value
\* has a notified consumer on its way, even when TryPop steals values and
\* notified consumers go back to sleep.
NoLostWakeup == blocked # {} => Len(queue) <= Cardinality(notified)

\* Nobody sleeps for ever next to a queued value.
SleepersServed == (queue # <<>> /\ blocked # {}) ~> (queue = <<>> \/ blocked = {})
=============================================================================
