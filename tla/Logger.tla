------------------------------- MODULE Logger -------------------------------
(***************************************************************************)
(* log/logger.cc: the double-buffered log.  Any thread pushes entries into *)
(* the front buffer under latch_; a background thread (LogWrite) swaps the *)
(* buffers and writes the standby one with the latch released; ~Logger     *)
(* sets done_ and notifies WITHOUT the latch, then joins.                  *)
(*                                                                         *)
(* Time is the one fact the code derives from it: whether more than        *)
(* TIME_THRESHOLD has passed since last_flush_.                            *)
(***************************************************************************)
EXTENDS Naturals, Sequences, FiniteSets, SequencesExt

CONSTANTS
  Producers,        \* the threads that call DoLog
  COUNT_THRESHOLD,
  MaxEntries,       \* bound: entries pushed in a behaviour
  MayDestroy        \* whether ~Logger runs (the program exits)

ASSUME LoggerAssumption ==
  COUNT_THRESHOLD \in Nat \ {0} /\ MaxEntries \in Nat /\ MayDestroy \in BOOLEAN

VARIABLES
  front,            \* front_log_entries_
  standby,          \* standby_buffer
  stale,            \* GetCurrentTime() - last_flush_ > TIME_THRESHOLD
  done,             \* done_
  latch,            \* latch_ is held by the background thread across steps
  ppc,              \* producer: idle -> push -> perhaps notify
  fpc,              \* background thread; none: there is no Logger yet
  dpc,              \* ~Logger: none -> notify -> join -> returned
  file,             \* what the log file holds
  flushed,          \* every entry written so far, in order
  count             \* entries pushed; an entry is the number of its push

vars == <<front, standby, stale, done, latch, ppc, fpc, dpc, file, flushed, count>>

Init ==
  /\ front = <<>> /\ standby = <<>> /\ stale = FALSE /\ done = FALSE /\ latch = FALSE
  /\ ppc = [p \in Producers |-> "idle"] /\ fpc = "none" /\ dpc = "none"
  /\ file = <<>> /\ flushed = <<>> /\ count = 0

TimePasses ==
  /\ fpc # "none" /\ ~stale /\ stale' = TRUE
  /\ UNCHANGED <<front, standby, done, latch, ppc, fpc, dpc, file, flushed, count>>

\* notify_one on cond_, whose only waiter is the background thread.
NotifyOne == fpc' = IF fpc = "blocked" THEN "lock" ELSE fpc

-----------------------------------------------------------------------------
(* DoLog and PushNewLog.                                                   *)

\* The first call makes the singleton, whose constructor starts the background thread.
GetInstance == fpc' = IF fpc = "none" THEN "lock" ELSE fpc

\* The entry is made, with its time, before the latch is asked for: the order of the
\* pushes need not be that of the times.
DoLog(p) ==
  /\ ppc[p] = "idle"
  /\ count + Cardinality({q \in Producers : ppc[q] = "push"}) < MaxEntries
  /\ ppc' = [ppc EXCEPT ![p] = "push"]
  /\ GetInstance
  /\ UNCHANGED <<front, standby, stale, done, latch, dpc, file, flushed, count>>

\* Notifying only when the count threshold is passed.
PushLate(p) ==
  /\ ppc[p] = "push" /\ ~latch
  /\ front' = Append(front, count + 1)
  /\ count' = count + 1
  /\ ppc' = [ppc EXCEPT ![p] = IF stale \/ Len(front) + 1 > COUNT_THRESHOLD
                               THEN "notify" ELSE "idle"]
  /\ UNCHANGED <<standby, stale, done, latch, fpc, dpc, file, flushed>>

Push(p) ==
  /\ ppc[p] = "push" /\ ~latch
  /\ front' = Append(front, count + 1)
  /\ count' = count + 1
  /\ ppc' = [ppc EXCEPT ![p] = IF stale \/ Len(front) + 1 >= COUNT_THRESHOLD
                               THEN "notify" ELSE "idle"]
  /\ UNCHANGED <<standby, stale, done, latch, fpc, dpc, file, flushed>>

PushNotify(p) ==
  /\ ppc[p] = "notify"
  /\ ppc' = [ppc EXCEPT ![p] = "idle"]
  /\ NotifyOne
  /\ UNCHANGED <<front, standby, stale, done, latch, dpc, file, flushed, count>>

-----------------------------------------------------------------------------
(* LogWrite.                                                               *)

ShouldFlush == done \/ stale \/ Len(front) >= COUNT_THRESHOLD

\* Take the latch and evaluate the predicate of cond_.wait ...
FlushTest ==
  /\ fpc = "lock" /\ ~latch
  /\ latch' = TRUE
  /\ fpc' = IF ShouldFlush THEN "swap" ELSE "wait"
  /\ UNCHANGED <<front, standby, stale, done, ppc, dpc, file, flushed, count>>

\* ... which, when false, releases the latch and falls asleep.
FlushWait ==
  /\ fpc = "wait"
  /\ latch' = FALSE /\ fpc' = "blocked"
  /\ UNCHANGED <<front, standby, stale, done, ppc, dpc, file, flushed, count>>

SpuriousWakeUp ==
  /\ fpc = "blocked" /\ fpc' = "lock"
  /\ UNCHANGED <<front, standby, stale, done, latch, ppc, dpc, file, flushed, count>>

\* Entries: swap the buffers and unlock.  None: test done_ with the latch held.
FlushSwap ==
  /\ fpc = "swap"
  /\ IF front # <<>>
       THEN /\ front' = standby /\ standby' = front
            /\ latch' = FALSE /\ fpc' = "write"
       ELSE /\ fpc' = "testDone"
            /\ UNCHANGED <<front, standby, latch>>
  /\ UNCHANGED <<stale, done, ppc, dpc, file, flushed, count>>

\* StreamWriter opens the day's file with trunc: it holds this batch only.
WriteLogsToFile(logs) == file' = logs

\* log_strategy_ is FlushToFile, called without the latch.
FlushWrite ==
  /\ fpc = "write" /\ fpc' = "written"
  /\ WriteLogsToFile(standby)
  /\ flushed' = flushed \o standby
  /\ UNCHANGED <<front, standby, stale, done, latch, ppc, dpc, count>>

\* The standby buffer is not cleared after it was written.
FlushedKeeps ==
  /\ fpc = "written" /\ fpc' = "testDone"
  /\ stale' = FALSE
  /\ UNCHANGED <<front, standby, done, latch, ppc, dpc, file, flushed, count>>

\* last_flush_ and standby_buffer are reset, still without the latch.
Flushed ==
  /\ fpc = "written" /\ fpc' = "testDone"
  /\ stale' = FALSE /\ standby' = <<>>
  /\ UNCHANGED <<front, done, latch, ppc, dpc, file, flushed, count>>

FlushTestDone ==
  /\ fpc = "testDone"
  /\ fpc' = IF done THEN "exited" ELSE "lock"
  /\ latch' = FALSE                       \* the scope ends, if it was still held
  /\ UNCHANGED <<front, standby, stale, done, ppc, dpc, file, flushed, count>>

Flusher == FlushTest \/ FlushWait \/ FlushSwap \/ FlushWrite \/ Flushed \/ FlushTestDone

-----------------------------------------------------------------------------
(* ~Logger.                                                                *)

SetDone ==
  /\ MayDestroy /\ fpc # "none" /\ dpc = "none"
  /\ done' = TRUE /\ dpc' = "notify"
  /\ UNCHANGED <<front, standby, stale, latch, ppc, fpc, file, flushed, count>>

DestructorNotify ==
  /\ dpc = "notify" /\ dpc' = "join"
  /\ NotifyOne
  /\ UNCHANGED <<front, standby, stale, done, latch, ppc, file, flushed, count>>

DestructorJoin ==
  /\ dpc = "join" /\ fpc = "exited"
  /\ dpc' = "returned"
  /\ UNCHANGED <<front, standby, stale, done, latch, ppc, fpc, file, flushed, count>>

-----------------------------------------------------------------------------
Next ==
  \/ TimePasses \/ SpuriousWakeUp
  \/ \E p \in Producers : DoLog(p) \/ Push(p) \/ PushNotify(p)
  \/ Flusher
  \/ SetDone \/ DestructorNotify \/ DestructorJoin

Spec == Init /\ [][Next]_vars

\* Time passes, a DoLog or ~Logger that has begun goes on and the background
\* thread runs; nobody has to log again, and no wake-up is spurious.
FairSpec ==
  /\ Spec
  /\ WF_vars(TimePasses) /\ WF_vars(Flusher)
  /\ \A p \in Producers : WF_vars(Push(p) \/ PushNotify(p))
  /\ WF_vars(DestructorNotify \/ DestructorJoin)

-----------------------------------------------------------------------------
(* Properties.                                                             *)

\* The two buffers lose, repeat and reorder nothing: what was handed to the log
\* strategy, then the standby buffer unless it was just written, then the front
\* buffer, is every entry in the order of the pushes; and what is in the file,
\* which each flush truncates, is the end of what was written.
InOrderOnce ==
  LET all == flushed \o (IF fpc = "written" THEN <<>> ELSE standby) \o front
  IN /\ Len(all) = count /\ \A i \in 1..count : all[i] = i
     /\ IsSuffix(file, flushed)

\* A front buffer that reaches the count threshold is flushed, unless the
\* logger is being destroyed.
FullIsFlushed == (Len(front) >= COUNT_THRESHOLD) ~> (Len(front) < COUNT_THRESHOLD \/ done)

\* Every entry is written after a while, with or without further entries.
EveryEntryFlushed == \A n \in 1..MaxEntries : (count >= n) ~> (Len(flushed) >= n)

\* ~Logger returns: it gets its background thread back.
DestructorReturns == (dpc = "join") ~> (dpc = "returned")
=============================================================================
