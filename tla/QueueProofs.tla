---------------------------- MODULE QueueProofs ----------------------------
(***************************************************************************)
(* Proofs about ThreadSafeQueue, for any values and any finite number of   *)
(* consumers.                                                              *)
(***************************************************************************)
EXTENDS ThreadSafeQueue, Lemmas

\* A consumer asleep is not on its way, and both are consumers.
SleepInv == blocked \subseteq Consumers /\ notified \subseteq Consumers /\ blocked \cap notified = {}

TypeOK ==
  /\ queue \in Seq(Values) /\ pushed \in Seq(Values) /\ popped \in Seq(Values)
  /\ SleepInv

\* The safety properties made inductive.
QueueInv == TypeOK /\ FifoOnce /\ NoLostWakeup

-----------------------------------------------------------------------------
\* What taking the front of the queue does, whichever consumer takes it.
LEMMA PopFrontKeeps ==
  ASSUME TypeOK, FifoOnce, PopFront
  PROVE  /\ queue' \in Seq(Values) /\ pushed' \in Seq(Values) /\ popped' \in Seq(Values)
         /\ FifoOnce' /\ Len(queue') = Len(queue) - 1 /\ Len(queue) \in Nat \ {0}
<1>1. queue # <<>> /\ queue \in Seq(Values) /\ popped \in Seq(Values)
  BY DEF TypeOK, PopFront
<1>2. Len(queue) \in Nat \ {0}
  BY <1>1, EmptySeq
<1> QED
  BY <1>1, <1>2, MoveFront DEF TypeOK, FifoOnce, PopFront

\* Sets of consumers are finite.
LEMMA SleepersFinite ==
  ASSUME SleepInv
  PROVE  /\ IsFiniteSet(notified) /\ Cardinality(notified) \in Nat
         /\ \A c \in Consumers \ notified : Cardinality(notified \cup {c}) = Cardinality(notified) + 1
         /\ \A c \in notified : Cardinality(notified \ {c}) = Cardinality(notified) - 1
<1>1. IsFiniteSet(notified)
  BY QueueAssumption, FS_Subset DEF SleepInv
<1> QED
  BY <1>1, FS_CardinalityType, FS_AddElement, FS_RemoveElement

-----------------------------------------------------------------------------
\* Push adds one value and, if somebody sleeps, puts one consumer on its way.
LEMMA PushKeeps ==
  ASSUME QueueInv, NEW v \in Values, Push(v)
  PROVE  QueueInv'
<1>1. queue' \in Seq(Values) /\ pushed' \in Seq(Values) /\ popped' \in Seq(Values)
  BY AppendProperties DEF QueueInv, TypeOK, Push
<1>2. SleepInv'
  BY DEF QueueInv, TypeOK, SleepInv, Push
<1>3. FifoOnce'
  BY ConcatAppend DEF QueueInv, TypeOK, FifoOnce, Push
<1>4. Len(queue) \in Nat /\ Len(queue') = Len(queue) + 1
  BY LenProperties, AppendProperties DEF QueueInv, TypeOK, Push
<1>5. NoLostWakeup'
  <2>1. CASE blocked = {}
    BY <2>1 DEF NoLostWakeup, Push
  <2>2. ASSUME NEW c \in blocked, blocked' = blocked \ {c}, notified' = notified \cup {c}
        PROVE  NoLostWakeup'
    BY <1>4, <2>2, SleepersFinite DEF QueueInv, TypeOK, SleepInv, NoLostWakeup
  <2> QED
    BY <2>1, <2>2 DEF Push
<1> QED
  BY <1>1, <1>2, <1>3, <1>5 DEF QueueInv, TypeOK

\* A consumer that did not wait takes a value somebody else was woken for.
LEMMA TryPopKeeps ==
  ASSUME QueueInv, NEW c \in Consumers, TryPop(c)
  PROVE  QueueInv'
<1>1. PopFront /\ UNCHANGED <<blocked, notified>>
  BY DEF TryPop
<1>2. SleepInv' /\ Cardinality(notified) \in Nat
  BY <1>1, SleepersFinite DEF QueueInv, TypeOK, SleepInv
<1>3. NoLostWakeup'
  BY <1>1, <1>2, PopFrontKeeps DEF QueueInv, NoLostWakeup
<1> QED
  BY <1>1, <1>2, <1>3, PopFrontKeeps DEF QueueInv, TypeOK

\* A consumer falls asleep beside an empty queue only.
LEMMA WaitAndPopKeeps ==
  ASSUME QueueInv, NEW c \in Consumers, WaitAndPop(c)
  PROVE  QueueInv'
<1>1. TypeOK' /\ FifoOnce'
  BY DEF QueueInv, TypeOK, SleepInv, FifoOnce, WaitAndPop, Running
<1>2. Len(queue') = 0 /\ Cardinality(notified') \in Nat
  BY SleepersFinite, EmptySeq DEF QueueInv, TypeOK, WaitAndPop
<1> QED
  BY <1>1, <1>2 DEF QueueInv, NoLostWakeup

\* A woken consumer takes a value, or finds none and sleeps again.
LEMMA WakeUpKeeps ==
  ASSUME QueueInv, NEW c \in Consumers, WakeUp(c)
  PROVE  QueueInv'
<1>1. SleepInv' /\ Cardinality(notified) \in Nat /\ Cardinality(notified') = Cardinality(notified) - 1
  BY SleepersFinite DEF QueueInv, TypeOK, SleepInv, WakeUp
<1>2. CASE PopFront /\ UNCHANGED blocked
  <2>1. NoLostWakeup'
    BY <1>1, <1>2, PopFrontKeeps DEF QueueInv, NoLostWakeup
  <2> QED
    BY <1>1, <1>2, <2>1, PopFrontKeeps DEF QueueInv, TypeOK
<1>3. CASE queue = <<>> /\ UNCHANGED <<queue, pushed, popped>>
  <2>1. Len(queue') = 0 /\ Cardinality(notified') \in Nat
    <3>1. SleepInv' => Cardinality(notified') \in Nat
      BY QueueAssumption, FS_Subset, FS_CardinalityType DEF SleepInv
    <3> QED
      BY <1>1, <1>3, <3>1, EmptySeq
  <2> QED
    BY <1>1, <1>3, <2>1 DEF QueueInv, TypeOK, FifoOnce, NoLostWakeup
<1> QED
  BY <1>2, <1>3 DEF WakeUp

\* A consumer that wakes by itself takes a value and leaves the sleepers.
LEMMA SpuriousWakeUpKeeps ==
  ASSUME QueueInv, NEW c \in Consumers, SpuriousWakeUp(c)
  PROVE  QueueInv'
<1>1. PopFront /\ blocked' = blocked \ {c} /\ UNCHANGED notified
  BY DEF SpuriousWakeUp
<1>2. SleepInv' /\ Cardinality(notified) \in Nat
  BY <1>1, SleepersFinite DEF QueueInv, TypeOK, SleepInv
<1>3. NoLostWakeup'
  BY <1>1, <1>2, PopFrontKeeps DEF QueueInv, NoLostWakeup
<1> QED
  BY <1>1, <1>2, <1>3, PopFrontKeeps DEF QueueInv, TypeOK

-----------------------------------------------------------------------------
\* QueueInv is an invariant of the queue: whatever the interleaving of pushes, polls,
\* sleeps, notifications and spurious wake-ups.
THEOREM QueueInvariant == Spec => []QueueInv
<1>1. Init => QueueInv
  <2>1. Init => TypeOK /\ NoLostWakeup
    BY DEF Init, TypeOK, SleepInv, NoLostWakeup
  <2>2. Init => FifoOnce
    BY ConcatEmptySeq, EmptySeq DEF Init, FifoOnce
  <2> QED
    BY <2>1, <2>2 DEF QueueInv
<1>2. QueueInv /\ [Next]_vars => QueueInv'
  <2>1. QueueInv /\ UNCHANGED vars => QueueInv'
    BY DEF QueueInv, TypeOK, SleepInv, FifoOnce, NoLostWakeup, vars
  <2> QED
    BY <2>1, PushKeeps, TryPopKeeps, WaitAndPopKeeps, WakeUpKeeps, SpuriousWakeUpKeeps DEF Next
<1> QED
  BY <1>1, <1>2, PTL DEF Spec

\* The queue is a FIFO for any number of producers and consumers: what Push was given
\* is what the pops handed out, in that order and once each, and then what is queued.
THEOREM Fifo == Spec => []FifoOnce
<1>1. QueueInv => FifoOnce
  BY DEF QueueInv
<1> QED
  BY <1>1, QueueInvariant, PTL

\* notify_one once per Push is enough: nobody sleeps beside a value that no woken
\* consumer is coming for.
THEOREM WakeUpsSuffice == Spec => []NoLostWakeup
<1>1. QueueInv => NoLostWakeup
  BY DEF QueueInv
<1> QED
  BY <1>1, QueueInvariant, PTL
=============================================================================
