---------------------------- MODULE LoggerProofs ----------------------------
(***************************************************************************)
(* Proofs about Logger, for any number of producers, any count threshold   *)
(* and any number of entries.                                              *)
(***************************************************************************)
EXTENDS Logger, Lemmas

\* The standby buffer as far as it is not written yet, and every entry pushed.
Standby == IF fpc = "written" THEN <<>> ELSE standby
All == (flushed \o Standby) \o front

TypeOK ==
  /\ front \in Seq(Nat) /\ standby \in Seq(Nat) /\ file \in Seq(Nat) /\ flushed \in Seq(Nat)
  /\ count \in Nat

\* Only the background thread between its swap and its reset has something in the
\* standby buffer: otherwise the swap would put old entries before new ones.
StandbyClear == fpc \notin {"write", "written"} => standby = <<>>

\* The safety property made inductive.
LoggerInv == TypeOK /\ StandbyClear /\ InOrderOnce

-----------------------------------------------------------------------------
\* A sequence of naturals that counts: 1, 2, 3 up to n.
Counts(s, n) == s \in Seq(Nat) /\ Len(s) = n /\ \A i \in 1..n : s[i] = i

\* The next number continues the count.
LEMMA CountsOn ==
  ASSUME NEW s, NEW n \in Nat, Counts(s, n)
  PROVE  Counts(Append(s, n + 1), n + 1)
<1>1. /\ Append(s, n + 1) \in Seq(Nat) /\ Len(Append(s, n + 1)) = n + 1
      /\ \A i \in 1..n : Append(s, n + 1)[i] = s[i]
      /\ Append(s, n + 1)[n + 1] = n + 1
  BY AppendProperties DEF Counts
<1> QED
  BY <1>1 DEF Counts

\* What is appended last is a suffix.
LEMMA ConcatSuffix ==
  ASSUME NEW S, NEW s \in Seq(S), NEW t \in Seq(S)
  PROVE  IsSuffix(t, s \o t)
<1> DEFINE u == s \o t
           m == Len(t)
           n == Len(s) + m
<1>1. u \in Seq(S) /\ Len(u) = n /\ Len(s) \in Nat /\ m \in Nat
  BY ConcatProperties, LenProperties
<1>2. Reverse(t) \in Seq(S) /\ Len(Reverse(t)) = m /\ \A i \in 1..m : Reverse(t)[i] = t[m - i + 1]
  BY <1>1, LenProperties DEF Reverse
<1>3. Reverse(u) \in Seq(S) /\ Len(Reverse(u)) = n /\ \A i \in 1..n : Reverse(u)[i] = u[n - i + 1]
  BY <1>1, LenProperties DEF Reverse
<1>4. \A i \in 1..m : Reverse(u)[i] = Reverse(t)[i]
  <2> TAKE i \in 1..m
  <2>1. n - i + 1 \in 1..n /\ ~(n - i + 1 <= Len(s)) /\ n - i + 1 - Len(s) = m - i + 1 /\ i \in 1..n
    BY <1>1
  <2>2. u[n - i + 1] = t[m - i + 1]
    BY <2>1, ConcatProperties
  <2> QED
    BY <1>2, <1>3, <2>1, <2>2
<1>5. SubSeq(Reverse(t), 1, m) = SubSeq(Reverse(u), 1, m)
  BY <1>1, <1>2, <1>3, <1>4
<1>6. m <= n
  BY <1>1
<1> QED
  BY <1>2, <1>3, <1>5, <1>6 DEF IsSuffix, IsPrefix

-----------------------------------------------------------------------------
\* A step that neither pushes nor writes keeps the property if it keeps the
\* sequence of all entries.
LEMMA SameEntries ==
  ASSUME LoggerInv, TypeOK', StandbyClear', count' = count, All' = All, IsSuffix(file', flushed')
  PROVE  LoggerInv'
BY DEF LoggerInv, InOrderOnce, All, Standby

\* A push gives the next number to the entry it appends to the front buffer.
LEMMA PushKeeps ==
  ASSUME LoggerInv, NEW p \in Producers, Push(p)
  PROVE  LoggerInv'
<1> USE DEF LoggerInv, TypeOK
<1>1. Standby \in Seq(Nat) /\ flushed \o Standby \in Seq(Nat) /\ All \in Seq(Nat)
  BY ConcatProperties DEF Standby, All
<1>2. front' \in Seq(Nat) /\ Standby' = Standby /\ flushed' = flushed /\ file' = file
  BY AppendProperties DEF Push, Standby
<1>3. All' = Append(All, count + 1)
  <2>1. All' = (flushed \o Standby) \o Append(front, count + 1)
    BY <1>2 DEF Push, All
  <2>2. front \in Seq(Nat) /\ count + 1 \in Nat
    OBVIOUS
  <2> DEFINE old == flushed \o Standby
  <2>3. old \o Append(front, count + 1) = Append(old \o front, count + 1)
    <3>1. old \in Seq(Nat)
      BY <1>1
    <3> HIDE DEF old, LoggerInv, TypeOK
    <3> QED
      BY <2>2, <3>1, ConcatAppend, SMTT(30)
  <2> QED
    BY <2>1, <2>3 DEF All
<1>4. Counts(All, count) /\ IsSuffix(file, flushed)
  BY <1>1 DEF InOrderOnce, All, Standby, Counts
<1>5. Counts(All', count')
  BY <1>3, <1>4, CountsOn DEF Push
<1>6. InOrderOnce'
  BY <1>2, <1>4, <1>5 DEF InOrderOnce, All, Standby, Counts
<1> QED
  BY <1>2, <1>6 DEF Push, StandbyClear

\* The swap takes the whole front buffer and leaves an empty one: the standby
\* buffer was clear.
LEMMA FlushSwapKeeps ==
  ASSUME LoggerInv, FlushSwap
  PROVE  LoggerInv'
<1> USE DEF LoggerInv, TypeOK
<1>1. TypeOK' /\ StandbyClear' /\ count' = count /\ IsSuffix(file', flushed')
  BY DEF FlushSwap, StandbyClear, InOrderOnce
<1>2. standby = <<>> /\ Standby = <<>> /\ flushed \o <<>> = flushed
  BY ConcatEmptySeq DEF FlushSwap, StandbyClear, Standby
<1>3. All = flushed \o front
  BY <1>2 DEF All
<1>4. CASE front # <<>>
  <2>1. Standby' = front /\ front' = <<>> /\ flushed' = flushed
    BY <1>2, <1>4 DEF FlushSwap, Standby
  <2>2. flushed \o front \in Seq(Nat)
    BY ConcatProperties
  <2>3. All' = All
    BY <1>3, <2>1, <2>2, ConcatEmptySeq DEF All
  <2> QED
    BY <1>1, <2>3, SameEntries
<1>5. CASE front = <<>>
  <2>1. All' = All
    BY <1>2, <1>5 DEF FlushSwap, All, Standby
  <2> QED
    BY <1>1, <2>1, SameEntries
<1> QED
  BY <1>4, <1>5

\* Writing moves the standby buffer behind what was written.
LEMMA FlushWriteKeeps ==
  ASSUME LoggerInv, FlushWrite
  PROVE  LoggerInv'
<1> USE DEF LoggerInv, TypeOK
<1>1. flushed' = flushed \o standby /\ flushed' \in Seq(Nat) /\ file' = standby
  BY ConcatProperties DEF FlushWrite, WriteLogsToFile
<1>2. IsSuffix(file', flushed')
  BY <1>1, ConcatSuffix
<1>3. TypeOK' /\ StandbyClear' /\ count' = count
  BY <1>1 DEF FlushWrite, StandbyClear
<1>4. Standby = standby /\ Standby' = <<>> /\ front' = front
  BY DEF FlushWrite, Standby
<1>5. All' = All
  BY <1>1, <1>4, ConcatEmptySeq DEF All
<1> QED
  BY <1>2, <1>3, <1>5, SameEntries

\* The reset forgets only what was written.
LEMMA ResetKeeps ==
  ASSUME LoggerInv, Flushed
  PROVE  LoggerInv'
<1>1. TypeOK' /\ StandbyClear' /\ count' = count /\ IsSuffix(file', flushed')
  BY DEF LoggerInv, TypeOK, Flushed, StandbyClear, InOrderOnce
<1>2. All' = All
  BY DEF Flushed, All, Standby
<1> QED
  BY <1>1, <1>2, SameEntries

\* Every other step leaves the buffers and the file alone, and none of them is
\* between the swap and the reset.
LEMMA OthersKeep ==
  ASSUME LoggerInv,
         UNCHANGED <<front, standby, file, flushed, count>>,
         \/ fpc' = fpc
         \/ fpc \notin {"write", "written"} /\ fpc' \notin {"write", "written"}
  PROVE  LoggerInv'
<1>1. TypeOK' /\ StandbyClear' /\ count' = count /\ IsSuffix(file', flushed')
  BY DEF LoggerInv, TypeOK, StandbyClear, InOrderOnce
<1>2. All' = All
  BY DEF All, Standby
<1> QED
  BY <1>1, <1>2, SameEntries

\* Every step keeps the invariant.
LEMMA StepKeeps ==
  ASSUME LoggerInv, [Next]_vars
  PROVE  LoggerInv'
<1>1. CASE TimePasses \/ SpuriousWakeUp
  BY <1>1, OthersKeep DEF TimePasses, SpuriousWakeUp
<1>2. ASSUME NEW p \in Producers, DoLog(p) \/ PushNotify(p)
      PROVE  LoggerInv'
  BY <1>2, OthersKeep DEF DoLog, PushNotify, GetInstance, NotifyOne
<1>3. ASSUME NEW p \in Producers, Push(p)
      PROVE  LoggerInv'
  BY <1>3, PushKeeps
<1>4. CASE FlushTest \/ FlushWait \/ FlushTestDone
  BY <1>4, OthersKeep DEF FlushTest, FlushWait, FlushTestDone
<1>5. CASE FlushSwap
  BY <1>5, FlushSwapKeeps
<1>6. CASE FlushWrite
  BY <1>6, FlushWriteKeeps
<1>7. CASE Flushed
  BY <1>7, ResetKeeps
<1>8. CASE SetDone \/ DestructorNotify \/ DestructorJoin
  BY <1>8, OthersKeep DEF SetDone, DestructorNotify, DestructorJoin, NotifyOne
<1>9. CASE UNCHANGED vars
  BY <1>9, OthersKeep DEF vars
<1> QED
  BY <1>1, <1>2, <1>3, <1>4, <1>5, <1>6, <1>7, <1>8, <1>9 DEF Next, Flusher

-----------------------------------------------------------------------------
\* The buffers are clear when they have to be, and lose, repeat and reorder
\* nothing, in every reachable state.
THEOREM LoggerInvariant == Spec => []LoggerInv
<1>1. Init => LoggerInv
  <2> SUFFICES ASSUME Init PROVE LoggerInv
    OBVIOUS
  <2>1. <<>> \in Seq(Nat) /\ Len(<<>>) = 0 /\ <<>> \o <<>> = <<>>
    BY EmptySeq, ConcatEmptySeq
  <2>2. IsSuffix(file, flushed)
    BY <2>1, ConcatSuffix DEF Init
  <2>3. InOrderOnce
    BY <2>1, <2>2 DEF Init, InOrderOnce
  <2> QED
    BY <2>1, <2>3 DEF Init, LoggerInv, TypeOK, StandbyClear
<1> QED
  BY <1>1, StepKeeps, PTL DEF Spec

\* Every entry is written once, in the order of the pushes, and the file holds the
\* last batch: DoLog, PushNewLog, LogWrite and ~Logger in any interleaving.
THEOREM WrittenInOrder == Spec => []InOrderOnce
<1>1. LoggerInv => InOrderOnce
  BY DEF LoggerInv
<1> QED
  BY <1>1, LoggerInvariant, PTL
=============================================================================
