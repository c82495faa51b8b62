-------------------------------- MODULE LRU --------------------------------
(***************************************************************************)
(* What a Cache promises its callers: a least-recently-used cache of a     *)
(* fixed capacity.  Each call is one step; eviction takes the oldest       *)
(* entries and no more of them than the new one needs.                     *)
(***************************************************************************)
EXTENDS Integers, Sequences, SequencesExt, FiniteSetsExt

CONSTANTS Keys, Capacity, Sizes

VARIABLES order,   \* the cached identifiers, least recently used first
          size     \* the size of each cached identifier, 0 for the others

lruVars == <<order, size>>

Init == order = <<>> /\ size = [k \in Keys |-> 0]

\* What the entries of s take up.
Total(s, sz) == MapThenSumSet(LAMBDA k : sz[k], ToSet(s))

\* The most recent entries of s that leave room for n.
Fit(s, sz, n) ==
  LET from == Min({i \in 1..Len(s) + 1 : Total(SubSeq(s, i, Len(s)), sz) <= Capacity - n})
  IN SubSeq(s, from, Len(s))

Load(k) ==
  /\ k \in ToSet(order)
  /\ order' = Append(RemoveFirst(order, k), k)
  /\ UNCHANGED size

Insert(k, n) ==
  /\ k \notin ToSet(order) /\ n <= Capacity
  /\ order' = Append(Fit(order, size, n), k)
  /\ size' = [x \in Keys |-> CASE x = k -> n
                              [] x \in ToSet(Fit(order, size, n)) -> size[x]
                              [] OTHER -> 0]

Clear == order' = <<>> /\ size' = [k \in Keys |-> 0]

Next ==
  \/ \E k \in Keys : Load(k)
  \/ \E k \in Keys, n \in Sizes : Insert(k, n)
  \/ Clear

Spec == Init /\ [][Next]_lruVars
=============================================================================
