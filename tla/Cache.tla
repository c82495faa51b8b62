------------------------------- MODULE Cache -------------------------------
(***************************************************************************)
(* core/cache.cc: an identifier -> node map and an intrusive doubly linked *)
(* list between two dummy nodes that keeps the LRU order, under one        *)
(* shared_mutex.  TryLoad holds it SHARED although a hit rewrites the      *)
(* list, so its pointer reads and writes are separate steps here; what     *)
(* runs under the exclusive lock is one step per call of EvitOne.          *)
(*                                                                         *)
(* mapping_ holds the only shared_ptr to a node, so a node is named after  *)
(* its identifier and is alive as long as the map has it; a dead node's    *)
(* fields are None and 0.                                                  *)
(***************************************************************************)
EXTENDS Integers, Sequences, FiniteSets, SequencesExt, FiniteSetsExt

CONSTANTS
  Keys,            \* resource identifiers (paths)
  Sizes,           \* the sizes a resource can have when it is read
  Capacity,        \* capacity_
  IntMax,          \* the largest value of an int
  Readers,         \* threads that call TryLoad
  Writers,         \* threads that call TryInsert
  Header, Tailer,      \* dummy_header_, dummy_tailer_
  None

Threads == Readers \cup Writers
Nodes == Keys \cup {Header, Tailer}

ASSUME CacheAssumption ==
  /\ IsFiniteSet(Keys) /\ Sizes \subseteq Nat /\ IntMax \in Nat /\ Capacity \in 0..IntMax
  /\ Header # Tailer /\ {Header, Tailer} \cap Keys = {}
  /\ None \notin Nodes \cup Threads

VARIABLES
  next, prev,      \* the link fields of the nodes
  mapping,         \* mapping_: the identifiers present
  size,            \* data_.size() of each node
  currentSize,     \* current_size_
  readers, writer, \* latch_: who holds it shared, who holds it exclusively
  pc, key, need,   \* per thread: where it is, its identifier, its source.size()
  pre, nxt         \* per thread: the pointers RemoveFromList / AppendToEndOfList read

listVars == <<next, prev, mapping, size, currentSize>>
latchVars == <<readers, writer>>
argVars == <<key, need>>
localVars == <<pre, nxt>>
vars == <<listVars, latchVars, pc, argVars, localVars>>

\* Conversion of a size_t, or of a sum of them, to a two's complement int.
ToInt(n) == ((n + IntMax + 1) % (2 * (IntMax + 1))) - (IntMax + 1)

Init ==
  /\ next = [x \in Nodes |-> IF x = Header THEN Tailer ELSE None]
  /\ prev = [x \in Nodes |-> IF x = Tailer THEN Header ELSE None]
  /\ mapping = {} /\ size = [k \in Keys |-> 0] /\ currentSize = 0
  /\ readers = {} /\ writer = None
  /\ pc = [t \in Threads |-> "idle"]
  /\ key = [t \in Threads |-> None] /\ need = [t \in Threads |-> 0]
  /\ pre = [t \in Threads |-> None] /\ nxt = [t \in Threads |-> None]

Goto(t, from, to) == pc[t] = from /\ pc' = [pc EXCEPT ![t] = to]

\* The call returns and its locals are gone.
Return(t, from) ==
  /\ Goto(t, from, "idle")
  /\ key' = [key EXCEPT ![t] = None] /\ need' = [need EXCEPT ![t] = 0]
  /\ pre' = [pre EXCEPT ![t] = None] /\ nxt' = [nxt EXCEPT ![t] = None]

-----------------------------------------------------------------------------
(* TryLoad, under the shared lock.                                         *)

LoadLock(t, k) ==
  /\ t \in Readers /\ writer = None
  /\ Goto(t, "idle", "find")
  /\ readers' = readers \cup {t}
  /\ key' = [key EXCEPT ![t] = k]
  /\ UNCHANGED <<listVars, writer, need, localVars>>

LoadMiss(t) ==
  /\ key[t] \notin mapping
  /\ Return(t, "find")
  /\ readers' = readers \ {t}
  /\ UNCHANGED <<listVars, writer>>

\* A hit: Serialize the data, then RemoveFromList reads both links ...
LoadHit(t) ==
  /\ key[t] \in mapping
  /\ Goto(t, "find", "unlinkNext")
  /\ pre' = [pre EXCEPT ![t] = prev[key[t]]]
  /\ nxt' = [nxt EXCEPT ![t] = next[key[t]]]
  /\ UNCHANGED <<listVars, latchVars, argVars>>

\* ... and joins the neighbours.
UnlinkNext(t) ==
  /\ Goto(t, "unlinkNext", "unlinkPrev")
  /\ next' = [next EXCEPT ![pre[t]] = nxt[t]]
  /\ UNCHANGED <<prev, mapping, size, currentSize, latchVars, argVars, localVars>>

UnlinkPrev(t) ==
  /\ Goto(t, "unlinkPrev", "readTail")
  /\ prev' = [prev EXCEPT ![nxt[t]] = pre[t]]
  /\ UNCHANGED <<next, mapping, size, currentSize, latchVars, argVars, localVars>>

\* AppendToEndOfList: the last node, the node's own links, then the two outer ones.
ReadTail(t) ==
  /\ Goto(t, "readTail", "setOwn")
  /\ pre' = [pre EXCEPT ![t] = prev[Tailer]]
  /\ UNCHANGED <<listVars, latchVars, argVars, nxt>>

SetOwn(t) ==
  /\ Goto(t, "setOwn", "linkLast")
  /\ prev' = [prev EXCEPT ![key[t]] = pre[t]]
  /\ next' = [next EXCEPT ![key[t]] = Tailer]
  /\ UNCHANGED <<mapping, size, currentSize, latchVars, argVars, localVars>>

LinkLast(t) ==
  /\ Goto(t, "linkLast", "linkTail")
  /\ next' = [next EXCEPT ![pre[t]] = key[t]]
  /\ UNCHANGED <<prev, mapping, size, currentSize, latchVars, argVars, localVars>>

\* An append that forgets the back link of the dummy tail.
LinkTailForgotten(t) ==
  /\ Goto(t, "linkTail", "unlock")
  /\ UNCHANGED <<listVars, latchVars, argVars, localVars>>

LinkTail(t) ==
  /\ Goto(t, "linkTail", "unlock")
  /\ prev' = [prev EXCEPT ![Tailer] = key[t]]
  /\ UNCHANGED <<next, mapping, size, currentSize, latchVars, argVars, localVars>>

LoadUnlock(t) ==
  /\ Return(t, "unlock")
  /\ readers' = readers \ {t}
  /\ UNCHANGED <<listVars, writer>>

Load(t) ==
  \/ LoadMiss(t) \/ LoadHit(t) \/ UnlinkNext(t) \/ UnlinkPrev(t)
  \/ ReadTail(t) \/ SetOwn(t) \/ LinkLast(t) \/ LinkTail(t) \/ LoadUnlock(t)

-----------------------------------------------------------------------------
(* TryInsert, under the exclusive lock.                                    *)

InsertLock(t, k, n) ==
  /\ t \in Writers /\ writer = None /\ readers = {}
  /\ Goto(t, "idle", "check")
  /\ writer' = t
  /\ key' = [key EXCEPT ![t] = k]
  /\ need' = [need EXCEPT ![t] = n]
  /\ UNCHANGED <<listVars, readers, localVars>>

\* Present already, or larger than the whole cache.
Rejected(t) == key[t] \in mapping \/ ToInt(need[t]) > Capacity

InsertReject(t) ==
  /\ Rejected(t)
  /\ Return(t, "check")
  /\ writer' = None
  /\ UNCHANGED <<listVars, readers>>

InsertAdmit(t) ==
  /\ ~Rejected(t)
  /\ Goto(t, "check", "evict")
  /\ UNCHANGED <<listVars, latchVars, argVars, localVars>>

\* An off-by-one in the test for room.
MustEvictLess(t) == Capacity - currentSize < ToInt(need[t]) - 1 /\ mapping # {}

MustEvict(t) == Capacity - currentSize < ToInt(need[t]) /\ mapping # {}

\* An eviction that forgets RemoveFromList: the dead node stays linked.
EvitOneKeepsLinks(t) ==
  LET first == next[Header]
  IN /\ pc[t] = "evict" /\ MustEvict(t)
     /\ first \in mapping
     /\ mapping' = mapping \ {first}
     /\ size' = [size EXCEPT ![first] = 0]
     /\ currentSize' = ToInt(currentSize - size[first])
     /\ UNCHANGED <<next, prev, latchVars, pc, argVars, localVars>>

\* An eviction from the wrong end of the list.
EvitNewest(t) ==
  LET last == prev[Tailer]
  IN /\ pc[t] = "evict" /\ MustEvict(t)
     /\ last \in mapping
     /\ next' = [next EXCEPT ![prev[last]] = next[last], ![last] = None]
     /\ prev' = [prev EXCEPT ![next[last]] = prev[last], ![last] = None]
     /\ mapping' = mapping \ {last}
     /\ size' = [size EXCEPT ![last] = 0]
     /\ currentSize' = ToInt(currentSize - size[last])
     /\ UNCHANGED <<latchVars, pc, argVars, localVars>>

EvitOne(t) ==
  LET first == next[Header]
  IN /\ pc[t] = "evict" /\ MustEvict(t)
     /\ first \in mapping              \* the two assertions; else the writer never ends
     /\ next' = [next EXCEPT ![prev[first]] = next[first], ![first] = None]
     /\ prev' = [prev EXCEPT ![next[first]] = prev[first], ![first] = None]
     /\ mapping' = mapping \ {first}
     /\ size' = [size EXCEPT ![first] = 0]
     /\ currentSize' = ToInt(currentSize - size[first])
     /\ UNCHANGED <<latchVars, pc, argVars, localVars>>

\* CacheNode(identifier, data): the node takes a copy of the source.
NewNode(k, n) == size' = [size EXCEPT ![k] = n]

\* The new node, AppendToEndOfList and the map entry; the lock is released.
InsertAppend(t) ==
  /\ ~MustEvict(t)
  /\ Return(t, "evict")
  /\ prev' = [prev EXCEPT ![key[t]] = prev[Tailer], ![Tailer] = key[t]]
  /\ next' = [[next EXCEPT ![key[t]] = Tailer] EXCEPT ![prev[Tailer]] = key[t]]
  /\ NewNode(key[t], need[t])
  /\ currentSize' = ToInt(currentSize + ToInt(need[t]))
  /\ mapping' = mapping \cup {key[t]}
  /\ writer' = None
  /\ UNCHANGED readers

Insert(t) == InsertReject(t) \/ InsertAdmit(t) \/ EvitOne(t) \/ InsertAppend(t)

\* Clear takes no lock: its caller has to be alone.
Clear ==
  /\ readers = {} /\ writer = None
  /\ prev' = [x \in Nodes |-> IF x = Tailer THEN Header ELSE None]
  /\ next' = [x \in Nodes |-> IF x = Header THEN Tailer ELSE None]
  /\ mapping' = {} /\ size' = [k \in Keys |-> 0] /\ currentSize' = 0
  /\ UNCHANGED <<latchVars, pc, argVars, localVars>>

-----------------------------------------------------------------------------
Next ==
  \/ \E t \in Threads, k \in Keys : LoadLock(t, k)
  \/ \E t \in Threads, k \in Keys, n \in Sizes : InsertLock(t, k, n)
  \/ \E t \in Threads : Load(t) \/ Insert(t)
  \/ Clear

Spec == Init /\ [][Next]_vars

\* A thread inside the cache keeps running; getting the lock is not promised.
FairSpec == Spec /\ \A t \in Threads : WF_vars(Load(t) \/ Insert(t))

-----------------------------------------------------------------------------
(* The list as a sequence.                                                 *)

\* The identifiers met from node x on along link, for as long as there can be any.
Chain(link, x) ==
  LET n == Cardinality(Keys)
      at[i \in 0..n] ==
        IF i = 0 THEN x
        ELSE LET y == at[i - 1] IN IF y \in Keys THEN link[y] ELSE y
  IN [i \in 1..Cardinality({j \in 0..n : at[j] \in Keys}) |-> at[i - 1]]

Forward == Chain(next, next[Header])

Busy == \E t \in Threads : pc[t] \notin {"idle", "find", "check", "unlock"}

\* Position i of the list that holds s between its two dummy nodes.
At(s, i) == IF i = 0 THEN Header ELSE IF i = Len(s) + 1 THEN Tailer ELSE s[i]

\* The links lead from dummy to dummy through s, and back.
Linked(s) == \A i \in 0..Len(s) : next[At(s, i)] = At(s, i + 1) /\ prev[At(s, i + 1)] = At(s, i)

-----------------------------------------------------------------------------
(* Properties.                                                             *)

\* The list and the map agree whenever no call is rewriting them: between the two
\* dummy nodes the list holds exactly the cached identifiers, each once, and the
\* back links mirror the forward ones.
ListMatchesMap == ~Busy => \E s \in SetToSeqs(mapping) : Linked(s)

\* current_size_ is what the cached resources add up to, and that is never more
\* than the capacity, in the middle of TryInsert too.
WithinCapacity ==
  /\ currentSize = MapThenSumSet(LAMBDA k : size[k], mapping)
  /\ currentSize <= Capacity

\* A thread that got the lock gives it back: the eviction loop ends.
HoldersFinish == \A t \in Threads : (t \in readers \/ writer = t) ~> (t \notin readers /\ writer # t)

\* The LRU order a caller may rely on: a hit counts from its first write, an
\* admitted insertion from its admission on.
Moving == {t \in Threads : pc[t] \in {"unlinkPrev", "readTail", "setOwn", "linkLast", "linkTail"}}
Admitted == {t \in Threads : pc[t] = "evict"}

\* The operators of LRU, here for Fit.
L == INSTANCE LRU WITH order <- <<>>, size <- <<>>

absOrder ==
  IF Moving # {}
    THEN LET k == key[CHOOSE t \in Moving : TRUE]
         IN Append(RemoveFirst(Forward, k), k)
  ELSE IF Admitted # {}
    THEN LET t == CHOOSE u \in Admitted : TRUE
         IN Append(L!Fit(Forward, size, need[t]), key[t])
  ELSE Forward

absSize ==
  LET sz == IF Admitted = {} THEN size
            ELSE LET t == CHOOSE u \in Admitted : TRUE IN [size EXCEPT ![key[t]] = need[t]]
  IN [k \in Keys |-> IF k \in ToSet(absOrder) THEN sz[k] ELSE 0]

\* With one thread loading, the cache behaves as the abstract LRU cache: a hit
\* makes its entry the most recent one, and an insertion evicts the oldest
\* entries only, one at a time and no more than it has to.
Abstract == INSTANCE LRU WITH order <- absOrder, size <- absSize
ImplementsLRU == Abstract!Spec
=============================================================================
