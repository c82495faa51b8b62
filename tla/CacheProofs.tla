---------------------------- MODULE CacheProofs ----------------------------
(***************************************************************************)
(* Proofs about Cache, for any identifiers, sizes, capacity and threads.   *)
(*                                                                         *)
(* Who is inside the cache and with which identifier does not depend on    *)
(* the links, so the account of the sizes is right for any number of       *)
(* loading threads.  The list is only right when no two of them overlap:   *)
(* the second part follows one loading thread through its six writes.      *)
(*                                                                         *)
(* The third part shows that Cache implements LRU.  ListInv names the list *)
(* at every stage of a hit or of an insertion, so what the mapping walks   *)
(* and fits is known, and all but three actions show nothing of it.        *)
(***************************************************************************)
EXTENDS Cache, Lemmas

-----------------------------------------------------------------------------
(* The conversions to int that the cache makes.                            *)

LEMMA ModSmall ==
  ASSUME NEW a \in Nat, NEW b \in Nat, a < b
  PROVE  a % b = a
  OBVIOUS

\* An int holds every size up to IntMax.
LEMMA ToIntSmall ==
  ASSUME NEW n \in 0..IntMax
  PROVE  ToInt(n) = n
<1>1. n + IntMax + 1 \in Nat /\ 2 * (IntMax + 1) \in Nat /\ n + IntMax + 1 < 2 * (IntMax + 1)
  BY CacheAssumption
<1>2. (n + IntMax + 1) % (2 * (IntMax + 1)) = n + IntMax + 1
  BY <1>1, ModSmall
<1> QED
  BY <1>2, CacheAssumption DEF ToInt

LEMMA ToIntType ==
  ASSUME NEW n \in Int
  PROVE  ToInt(n) \in Int
<1> DEFINE b == 2 * (IntMax + 1)
<1>1. b \in Nat /\ b > 0 /\ n + IntMax + 1 \in Int
  BY CacheAssumption
<1>2. (n + IntMax + 1) % b \in Int
  <2> HIDE DEF b
  <2> QED
    BY <1>1
<1> QED
  BY <1>2, CacheAssumption DEF ToInt

-----------------------------------------------------------------------------
(* Who is inside the cache.                                                *)

\* A hit, from the moment its node was found.
Hit == {"unlinkNext", "unlinkPrev", "readTail", "setOwn", "linkLast", "linkTail", "unlock"}

TypeInv ==
  /\ next \in [Nodes -> Nodes \cup {None}] /\ prev \in [Nodes -> Nodes \cup {None}]
  /\ mapping \subseteq Keys /\ IsFiniteSet(mapping)
  /\ size \in [Keys -> Nat]
  /\ readers \subseteq Threads /\ writer \in Threads \cup {None}
  /\ pc \in [Threads -> {"idle", "find", "check", "evict"} \cup Hit]
  /\ key \in [Threads -> Keys \cup {None}] /\ need \in [Threads -> Nat]
  /\ pre \in [Threads -> Nodes \cup {None}] /\ nxt \in [Threads -> Nodes \cup {None}]

\* latch_ is held by who is inside, exclusively by who inserts.
LatchInv ==
  /\ \A t \in Threads : t \in readers <=> pc[t] \in {"find"} \cup Hit
  /\ \A t \in Threads : writer = t <=> pc[t] \in {"check", "evict"}
  /\ writer # None => readers = {}
  /\ readers \subseteq Readers

\* What a call has found out about its identifier stays true until it returns.
CallInv ==
  \A t \in Threads :
    /\ pc[t] # "idle" => key[t] \in Keys
    /\ pc[t] \in Hit => key[t] \in mapping
    /\ pc[t] \in {"check", "evict"} => need[t] \in Sizes
    /\ pc[t] = "evict" => key[t] \notin mapping /\ ToInt(need[t]) <= Capacity

CoreInv == TypeInv /\ LatchInv /\ CallInv

LEMMA InitCore == Init => CoreInv
<1> SUFFICES ASSUME Init PROVE CoreInv
  OBVIOUS
<1>1. TypeInv
  BY CacheAssumption, FS_EmptySet DEF Init, TypeInv, Nodes
<1>2. LatchInv /\ CallInv
  BY CacheAssumption DEF Init, LatchInv, CallInv, Hit
<1> QED
  BY <1>1, <1>2 DEF CoreInv

\* A step inside TryLoad that neither takes nor releases the lock.
LEMMA HitStep ==
  ASSUME CoreInv, NEW t \in Threads, NEW from \in {"find"} \cup Hit, NEW to \in Hit,
         Goto(t, from, to), key[t] \in mapping,
         UNCHANGED <<mapping, size, currentSize, latchVars, argVars>>,
         next' \in [Nodes -> Nodes \cup {None}], prev' \in [Nodes -> Nodes \cup {None}],
         pre' \in [Threads -> Nodes \cup {None}], nxt' \in [Threads -> Nodes \cup {None}]
  PROVE  CoreInv'
<1> USE DEF CoreInv
<1>1. pc[t] = from /\ pc' = [pc EXCEPT ![t] = to] /\ UNCHANGED <<readers, writer, key, need, mapping, size>>
  BY DEF Goto, latchVars, argVars
<1>2. TypeInv'
  BY <1>1 DEF TypeInv
<1>3. from \notin {"idle", "check", "evict"} /\ to \notin {"idle", "find", "check", "evict"}
  BY DEF Hit
<1>4. \A u \in Threads : pc'[u] = IF u = t THEN to ELSE pc[u]
  BY <1>1 DEF TypeInv
<1>5. LatchInv'
  BY <1>1, <1>3, <1>4 DEF LatchInv
<1>6. CallInv'
  BY <1>1, <1>3, <1>4 DEF CallInv, TypeInv
<1> QED
  BY <1>2, <1>5, <1>6

\* Every step of TryLoad keeps CoreInv.
LEMMA LoadCore ==
  ASSUME CoreInv, NEW t \in Threads, Load(t)
  PROVE  CoreInv'
<1> USE DEF CoreInv
<1>1. CASE LoadMiss(t) \/ LoadUnlock(t)
  <2>1. /\ pc[t] \in {"find", "unlock"} /\ pc' = [pc EXCEPT ![t] = "idle"] /\ readers' = readers \ {t}
        /\ key' = [key EXCEPT ![t] = None] /\ need' = [need EXCEPT ![t] = 0]
        /\ pre' = [pre EXCEPT ![t] = None] /\ nxt' = [nxt EXCEPT ![t] = None]
        /\ UNCHANGED <<next, prev, mapping, size, writer>>
    BY <1>1 DEF LoadMiss, LoadUnlock, Return, Goto, listVars
  <2>2. TypeInv'
    BY <2>1 DEF TypeInv
  <2>3. LatchInv'
    BY <2>1 DEF LatchInv, TypeInv, Hit
  <2>4. CallInv'
    BY <2>1 DEF CallInv, TypeInv, Hit
  <2> QED
    BY <2>2, <2>3, <2>4
<1>2. CASE LoadHit(t) \/ ReadTail(t)
  <2>1. UNCHANGED <<next, prev, mapping, size, currentSize, latchVars, argVars>>
    BY <1>2 DEF LoadHit, ReadTail, listVars
  <2>2. pre' \in [Threads -> Nodes \cup {None}] /\ nxt' \in [Threads -> Nodes \cup {None}]
    BY <1>2 DEF LoadHit, ReadTail, TypeInv, Goto, CallInv, Nodes
  <2>3. key[t] \in mapping
    BY <1>2 DEF LoadHit, ReadTail, Goto, CallInv, Hit
  <2>4. Goto(t, "find", "unlinkNext") \/ Goto(t, "readTail", "setOwn")
    BY <1>2 DEF LoadHit, ReadTail
  <2> QED
    BY <2>1, <2>2, <2>3, <2>4, HitStep DEF Hit, TypeInv
<1>3. CASE UnlinkNext(t) \/ UnlinkPrev(t) \/ SetOwn(t) \/ LinkLast(t) \/ LinkTail(t)
  <2>1. /\ UNCHANGED <<mapping, size, currentSize, latchVars, argVars, pre, nxt>>
        /\ \/ Goto(t, "unlinkNext", "unlinkPrev") \/ Goto(t, "unlinkPrev", "readTail")
           \/ Goto(t, "setOwn", "linkLast") \/ Goto(t, "linkLast", "linkTail")
           \/ Goto(t, "linkTail", "unlock")
    BY <1>3 DEF UnlinkNext, UnlinkPrev, SetOwn, LinkLast, LinkTail, localVars
  <2>2. key[t] \in mapping /\ key[t] \in Nodes /\ Tailer \in Nodes
    BY <2>1 DEF Goto, CallInv, Hit, TypeInv, Nodes
  <2>3. next' \in [Nodes -> Nodes \cup {None}] /\ prev' \in [Nodes -> Nodes \cup {None}]
    BY <1>3, <2>2 DEF UnlinkNext, UnlinkPrev, SetOwn, LinkLast, LinkTail, TypeInv
  <2> QED
    BY <2>1, <2>2, <2>3, HitStep DEF Hit, TypeInv
<1> QED
  BY <1>1, <1>2, <1>3 DEF Load

\* Taking the lock, shared or exclusively.
LEMMA LockCore ==
  ASSUME CoreInv, NEW t \in Threads, NEW k \in Keys,
         LoadLock(t, k) \/ \E n \in Sizes : InsertLock(t, k, n)
  PROVE  CoreInv'
<1> USE DEF CoreInv
<1>1. CASE LoadLock(t, k)
  <2>1. /\ t \in Readers /\ writer = None /\ pc[t] = "idle" /\ pc' = [pc EXCEPT ![t] = "find"]
        /\ readers' = readers \cup {t} /\ key' = [key EXCEPT ![t] = k]
        /\ UNCHANGED <<next, prev, mapping, size, writer, need, pre, nxt>>
    BY <1>1 DEF LoadLock, Goto, listVars, localVars
  <2>2. TypeInv'
    BY <2>1 DEF TypeInv
  <2>3. LatchInv' /\ CallInv'
    BY <2>1 DEF LatchInv, CallInv, TypeInv, Hit
  <2> QED
    BY <2>2, <2>3
<1>2. ASSUME NEW n \in Sizes, InsertLock(t, k, n) PROVE CoreInv'
  <2>1. /\ writer = None /\ readers = {} /\ pc[t] = "idle" /\ pc' = [pc EXCEPT ![t] = "check"]
        /\ writer' = t /\ key' = [key EXCEPT ![t] = k] /\ need' = [need EXCEPT ![t] = n]
        /\ UNCHANGED <<next, prev, mapping, size, readers, pre, nxt>>
    BY <1>2 DEF InsertLock, Goto, listVars, localVars
  <2>2. TypeInv'
    BY <2>1, CacheAssumption DEF TypeInv
  <2>3. LatchInv' /\ CallInv'
    BY <2>1, CacheAssumption DEF LatchInv, CallInv, TypeInv, Hit
  <2> QED
    BY <2>2, <2>3
<1> QED
  BY <1>1, <1>2

\* While a thread inserts, nobody else is inside.
LEMMA WriterAlone ==
  ASSUME CoreInv, NEW t \in Threads, pc[t] \in {"check", "evict"}
  PROVE  writer = t /\ readers = {} /\ \A u \in Threads \ {t} : pc[u] = "idle"
BY CacheAssumption DEF CoreInv, TypeInv, LatchInv, Hit

\* Every step of TryInsert keeps CoreInv.
LEMMA InsertCore ==
  ASSUME CoreInv, NEW t \in Threads, Insert(t)
  PROVE  CoreInv'
<1> USE DEF CoreInv
<1>1. pc[t] \in {"check", "evict"}
  BY DEF Insert, InsertReject, InsertAdmit, EvitOne, InsertAppend, Return, Goto
<1>2. writer = t /\ readers = {} /\ (\A u \in Threads \ {t} : pc[u] = "idle") /\ key[t] \in Keys
      /\ need[t] \in Sizes
  BY <1>1, WriterAlone DEF CallInv
<1>3. CASE InsertReject(t) \/ InsertAppend(t)
  <2>1. /\ pc' = [pc EXCEPT ![t] = "idle"] /\ writer' = None /\ readers' = readers
        /\ key' = [key EXCEPT ![t] = None] /\ need' = [need EXCEPT ![t] = 0]
        /\ pre' = [pre EXCEPT ![t] = None] /\ nxt' = [nxt EXCEPT ![t] = None]
    BY <1>3 DEF InsertReject, InsertAppend, Return, Goto
  <2>2. /\ mapping' \subseteq Keys /\ IsFiniteSet(mapping') /\ size' \in [Keys -> Nat]
        /\ next' \in [Nodes -> Nodes \cup {None}] /\ prev' \in [Nodes -> Nodes \cup {None}]
    <3>1. CASE InsertReject(t)
      BY <3>1 DEF InsertReject, listVars, TypeInv
    <3>2. CASE InsertAppend(t)
      <4>1. mapping' = mapping \cup {key[t]} /\ size' = [size EXCEPT ![key[t]] = need[t]]
        BY <3>2 DEF InsertAppend, NewNode
      <4>2. IsFiniteSet(mapping')
        BY <4>1, FS_AddElement DEF TypeInv
      <4>3. next' \in [Nodes -> Nodes \cup {None}] /\ prev' \in [Nodes -> Nodes \cup {None}]
        BY <1>2, <3>2 DEF InsertAppend, TypeInv, Nodes
      <4> QED
        BY <1>2, <4>1, <4>2, <4>3, CacheAssumption DEF TypeInv
    <3> QED
      BY <1>3, <3>1, <3>2
  <2>3. TypeInv'
    BY <2>1, <2>2 DEF TypeInv
  <2>4. \A u \in Threads : pc'[u] = "idle"
    BY <1>2, <2>1 DEF TypeInv
  <2>5. LatchInv'
    BY <1>2, <2>1, <2>4, CacheAssumption DEF LatchInv, Hit
  <2>6. CallInv'
    BY <2>4 DEF CallInv, Hit
  <2> QED
    BY <2>3, <2>5, <2>6
<1>4. CASE InsertAdmit(t)
  <2>1. /\ pc' = [pc EXCEPT ![t] = "evict"] /\ ~Rejected(t)
        /\ UNCHANGED <<next, prev, mapping, size, readers, writer, key, need, pre, nxt>>
    BY <1>4 DEF InsertAdmit, Goto, listVars, latchVars, argVars, localVars
  <2>2. TypeInv'
    BY <2>1 DEF TypeInv
  <2>3. ToInt(need[t]) \in Int /\ ~(ToInt(need[t]) > Capacity) => ToInt(need[t]) <= Capacity
    BY CacheAssumption
  <2>4. ToInt(need[t]) \in Int
    <3>1. need[t] \in Int
      BY DEF TypeInv
    <3> QED
      BY <3>1, ToIntType
  <2>5. LatchInv' /\ CallInv'
    BY <1>1, <1>2, <2>1, <2>3, <2>4 DEF LatchInv, CallInv, TypeInv, Hit, Rejected
  <2> QED
    BY <2>2, <2>5
<1>5. CASE EvitOne(t)
  <2>1. /\ next[Header] \in mapping /\ mapping' = mapping \ {next[Header]}
        /\ size' = [size EXCEPT ![next[Header]] = 0] /\ pc[t] = "evict"
        /\ UNCHANGED <<pc, readers, writer, key, need, pre, nxt>>
    BY <1>5 DEF EvitOne, latchVars, argVars, localVars
  <2>2. next' \in [Nodes -> Nodes \cup {None}] /\ prev' \in [Nodes -> Nodes \cup {None}]
    BY <1>5, <2>1 DEF EvitOne, TypeInv, Nodes
  <2>3. IsFiniteSet(mapping') /\ mapping' \subseteq Keys /\ size' \in [Keys -> Nat]
    BY <2>1, FS_RemoveElement DEF TypeInv
  <2>4. TypeInv'
    BY <2>1, <2>2, <2>3 DEF TypeInv
  <2>5. LatchInv' /\ CallInv'
    BY <1>2, <2>1 DEF LatchInv, CallInv, Hit
  <2> QED
    BY <2>4, <2>5
<1> QED
  BY <1>3, <1>4, <1>5 DEF Insert

LEMMA ClearCore == ASSUME CoreInv, Clear PROVE CoreInv'
<1> USE DEF CoreInv
<1>1. /\ readers = {} /\ writer = None /\ mapping' = {} /\ size' = [k \in Keys |-> 0]
      /\ prev' = [x \in Nodes |-> IF x = Tailer THEN Header ELSE None]
      /\ next' = [x \in Nodes |-> IF x = Header THEN Tailer ELSE None]
      /\ UNCHANGED <<readers, writer, pc, key, need, pre, nxt>>
  BY DEF Clear, latchVars, argVars, localVars
<1>2. TypeInv'
  BY <1>1, FS_EmptySet DEF TypeInv, Nodes
<1>3. \A t \in Threads : pc[t] = "idle"
  BY <1>1, CacheAssumption DEF LatchInv, TypeInv, Hit
<1>4. LatchInv' /\ CallInv'
  BY <1>1, <1>3 DEF LatchInv, CallInv, Hit
<1> QED
  BY <1>2, <1>4

LEMMA NextCore == CoreInv /\ [Next]_vars => CoreInv'
<1> SUFFICES ASSUME CoreInv, [Next]_vars PROVE CoreInv'
  OBVIOUS
<1>1. CASE UNCHANGED vars
  BY <1>1 DEF vars, listVars, latchVars, argVars, localVars, CoreInv, TypeInv, LatchInv, CallInv
<1> QED
  BY <1>1, LockCore, LoadCore, InsertCore, ClearCore DEF Next

\* The lock, the threads and the identifiers they hold fit together in every
\* interleaving, racing loads included.
THEOREM CoreInvariant == Spec => []CoreInv
  BY InitCore, NextCore, PTL DEF Spec

-----------------------------------------------------------------------------
(* The account of the sizes, for files of less than 2 GiB.                 *)

\* Every resource is smaller than an int can say.
Small == Sizes \subseteq 0..IntMax

Account == currentSize = SumOver(size, mapping) /\ currentSize \in 0..Capacity

\* Evicting: what the cache gives back is what the entry had added.
LEMMA EvitOneAccount ==
  ASSUME CoreInv, Account, NEW t \in Threads, EvitOne(t)
  PROVE  Account'
<1> DEFINE e == next[Header]
<1>1. /\ e \in mapping /\ mapping' = mapping \ {e} /\ size' = [size EXCEPT ![e] = 0]
      /\ currentSize' = ToInt(currentSize - size[e])
  BY DEF EvitOne
<1> HIDE DEF e
<1>2. IsFiniteSet(mapping) /\ (\A k \in mapping : size[k] \in Nat) /\ IsFiniteSet(mapping \ {e})
  BY FS_RemoveElement DEF CoreInv, TypeInv
<1>3. SumOver(size, mapping \ {e}) \in Nat /\ SumOver(size, mapping) = size[e] + SumOver(size, mapping \ {e})
  <2>1. e \in mapping
    BY <1>1
  <2>2. SumOver(size, mapping \ {e}) \in Nat
    BY <1>2, <2>1, SumRemove
  <2>3. SumOver(size, mapping) = size[e] + SumOver(size, mapping \ {e})
    BY <1>2, <2>1, SumRemove
  <2> QED
    BY <2>2, <2>3
<1>4. currentSize - size[e] = SumOver(size, mapping \ {e}) /\ currentSize - size[e] \in 0..Capacity
  BY <1>1, <1>2, <1>3, CacheAssumption DEF Account
<1>5. currentSize' = SumOver(size, mapping \ {e})
  BY <1>1, <1>4, ToIntSmall, CacheAssumption
<1>6. SumOver(size', mapping \ {e}) = SumOver(size, mapping \ {e})
  <2>1. \A k \in mapping \ {e} : size'[k] = size[k]
    BY <1>1 DEF CoreInv, TypeInv
  <2> QED
    BY <1>2, <2>1, SumSame
<1> QED
  BY <1>1, <1>4, <1>5, <1>6 DEF Account

\* Inserting: the loop has made room, and neither conversion nor sum leaves int.
LEMMA InsertAppendAccount ==
  ASSUME Small, CoreInv, Account, NEW t \in Threads, InsertAppend(t)
  PROVE  Account'
<1> DEFINE k == key[t]
           n == need[t]
<1>1. /\ pc[t] = "evict" /\ ~MustEvict(t)
      /\ mapping' = mapping \cup {k} /\ size' = [size EXCEPT ![k] = n]
      /\ currentSize' = ToInt(currentSize + ToInt(n))
  BY DEF InsertAppend, Return, Goto, NewNode
<1>2. k \in Keys /\ k \notin mapping /\ n \in 0..IntMax /\ ToInt(n) <= Capacity
  BY <1>1 DEF CoreInv, CallInv, Small
<1>3. ToInt(n) = n
  BY <1>2, ToIntSmall
<1>4. IsFiniteSet(mapping) /\ IsFiniteSet(mapping') /\ mapping' \ {k} = mapping /\ k \in mapping'
  BY <1>1, <1>2, FS_AddElement DEF CoreInv, TypeInv
<1>5. (\A x \in mapping' : size'[x] \in Nat) /\ size'[k] = n /\ \A x \in mapping : size'[x] = size[x]
  BY <1>1, <1>2 DEF CoreInv, TypeInv
<1>6. n + currentSize <= Capacity
  <2>1. CASE mapping = {}
    <3>1. currentSize = 0
      BY <2>1, SumEmpty DEF Account
    <3> QED
      BY <1>2, <1>3, <3>1, CacheAssumption
  <2>2. CASE mapping # {}
    <3>1. ~(Capacity - currentSize < n)
      BY <1>1, <1>3, <2>2 DEF MustEvict
    <3> QED
      BY <1>2, <3>1, CacheAssumption DEF Account
  <2> QED
    BY <2>1, <2>2
<1>7. currentSize + n \in 0..IntMax /\ currentSize + n \in 0..Capacity
  BY <1>2, <1>6, CacheAssumption DEF Account
<1>8. currentSize' = currentSize + n
  BY <1>1, <1>3, <1>7, ToIntSmall
<1> HIDE DEF k, n
<1>9. SumOver(size', mapping') = size'[k] + SumOver(size', mapping' \ {k})
  BY <1>4, <1>5, SumRemove
<1>10. SumOver(size', mapping) = SumOver(size, mapping)
  BY <1>4, <1>5, SumSame
<1>11. currentSize' = SumOver(size', mapping')
  <2>1. SumOver(size', mapping') = n + currentSize
    BY <1>4, <1>5, <1>9, <1>10 DEF Account
  <2> QED
    BY <1>2, <1>8, <2>1 DEF Account
<1> QED
  BY <1>7, <1>8, <1>11 DEF Account

LEMMA NextAccount ==
  ASSUME Small, CoreInv, Account, [Next]_vars
  PROVE  Account'
<1>1. ASSUME NEW t \in Threads, Load(t) \/ InsertReject(t) \/ InsertAdmit(t) PROVE Account'
  <2>1. UNCHANGED <<mapping, size, currentSize>>
    BY <1>1 DEF Load, LoadMiss, LoadHit, UnlinkNext, UnlinkPrev, ReadTail, SetOwn, LinkLast,
                LinkTail, LoadUnlock, InsertReject, InsertAdmit, listVars
  <2> QED
    BY <2>1 DEF Account
<1>2. ASSUME NEW t \in Threads, NEW k \in Keys, LoadLock(t, k) \/ \E n \in Sizes : InsertLock(t, k, n)
      PROVE  Account'
  BY <1>2 DEF LoadLock, InsertLock, listVars, Account
<1>3. CASE UNCHANGED vars
  BY <1>3 DEF vars, listVars, Account
<1>4. CASE Clear
  <2>1. mapping' = {} /\ currentSize' = 0
    BY <1>4 DEF Clear
  <2>2. SumOver(size', {}) = 0
    BY SumEmpty
  <2> QED
    BY <2>1, <2>2, CacheAssumption DEF Account
<1> QED
  BY <1>1, <1>2, <1>3, <1>4, EvitOneAccount, InsertAppendAccount DEF Next, Insert

LEMMA AccountInvariant ==
  ASSUME Small
  PROVE  Spec => []Account
<1>1. Init => Account
  BY SumEmpty, CacheAssumption DEF Init, Account
<1>2. CoreInv /\ Account /\ [Next]_vars => Account'
  BY NextAccount
<1> QED
  BY <1>1, <1>2, CoreInvariant, PTL DEF Spec

\* Whatever TryLoad and TryInsert do to each other, current_size_ is the sum of what
\* is cached and never above the capacity, as long as every resource fits an int.
THEOREM AccountIsExact ==
  ASSUME Small
  PROVE  Spec => []WithinCapacity
<1>1. Account => WithinCapacity
  BY CacheAssumption DEF Account, WithinCapacity, SumOver
<1> QED
  BY <1>1, AccountInvariant, PTL

-----------------------------------------------------------------------------
(* Lists as sequences.                                                     *)

\* The ways to order the identifiers M.
Lists(M) == {s \in Seq(Keys) : /\ \A i, j \in 1..Len(s) : s[i] = s[j] => i = j
                               /\ {s[i] : i \in 1..Len(s)} = M}

\* The forward links nx, the back links pv lead through s.
Fwd(nx, s) == \A i \in 0..Len(s) : nx[At(s, i)] = At(s, i + 1)
Bwd(pv, s) == \A i \in 0..Len(s) : pv[At(s, i + 1)] = At(s, i)

Links == [Nodes -> Nodes \cup {None}]

\* s without its i-th entry.
Cut(s, i) == [j \in 1..(Len(s) - 1) |-> IF j < i THEN s[j] ELSE s[j + 1]]

LEMMA ListFacts ==
  ASSUME NEW M \in SUBSET Keys, NEW s \in Lists(M)
  PROVE  /\ s \in Seq(Keys) /\ Len(s) \in Nat /\ At(s, 0) = Header /\ At(s, Len(s) + 1) = Tailer
         /\ \A i \in 1..Len(s) : At(s, i) = s[i] /\ s[i] \in M
         /\ \A x \in M : \E i \in 1..Len(s) : s[i] = x
         /\ \A i \in 0..(Len(s) + 1) : At(s, i) \in M \cup {Header, Tailer} /\ At(s, i) \in Nodes
         /\ \A i, j \in 0..(Len(s) + 1) : At(s, i) = At(s, j) => i = j
<1>1. /\ s \in Seq(Keys) /\ Len(s) \in Nat /\ \A i, j \in 1..Len(s) : s[i] = s[j] => i = j
      /\ {s[i] : i \in 1..Len(s)} = M
  BY DEF Lists
<1>2. At(s, 0) = Header /\ At(s, Len(s) + 1) = Tailer
  BY <1>1 DEF At
<1>3. \A i \in 1..Len(s) : At(s, i) = s[i] /\ s[i] \in M
  <2>1. \A i \in 1..Len(s) : i # 0 /\ i # Len(s) + 1
    BY <1>1
  <2> QED
    BY <1>1, <2>1 DEF At
<1>4. \A i \in 0..(Len(s) + 1) : i = 0 \/ i = Len(s) + 1 \/ i \in 1..Len(s)
  BY <1>1
<1>5. \A i \in 0..(Len(s) + 1) : At(s, i) \in M \cup {Header, Tailer} /\ At(s, i) \in Nodes
  BY <1>2, <1>3, <1>4 DEF Nodes
<1>6. ASSUME NEW i \in 0..(Len(s) + 1), NEW j \in 0..(Len(s) + 1), At(s, i) = At(s, j)
      PROVE  i = j
  <2>1. Header \notin M /\ Tailer \notin M /\ Header # Tailer
    BY CacheAssumption
  <2>2. CASE i \in 1..Len(s) /\ j \in 1..Len(s)
    BY <1>1, <1>3, <1>6, <2>2
  <2>3. CASE i \notin 1..Len(s) \/ j \notin 1..Len(s)
    BY <1>2, <1>3, <1>4, <1>6, <2>1, <2>3
  <2> QED
    BY <2>2, <2>3
<1> QED
  BY <1>1, <1>2, <1>3, <1>5, <1>6

\* Unlinking one entry leaves a list of the others.
LEMMA CutFacts ==
  ASSUME NEW M \in SUBSET Keys, NEW s \in Lists(M), NEW i \in 1..Len(s)
  PROVE  /\ Cut(s, i) \in Lists(M \ {s[i]}) /\ Len(Cut(s, i)) = Len(s) - 1
         /\ \A j \in 0..Len(s) : At(Cut(s, i), j) = IF j < i THEN At(s, j) ELSE At(s, j + 1)
<1> DEFINE q == Cut(s, i)
<1>1. /\ s \in Seq(Keys) /\ Len(s) \in Nat /\ \A m, j \in 1..Len(s) : s[m] = s[j] => m = j
      /\ {s[m] : m \in 1..Len(s)} = M
  BY DEF Lists
<1>2. q \in Seq(Keys) /\ Len(q) = Len(s) - 1 /\ Len(s) - 1 \in Nat
  <2>1. Len(s) - 1 \in Nat /\ \A j \in 1..(Len(s) - 1) : j \in 1..Len(s) /\ j + 1 \in 1..Len(s)
    BY <1>1
  <2>2. q \in [1..(Len(s) - 1) -> Keys]
    BY <1>1, <2>1 DEF Cut
  <2> DEFINE n == Len(s) - 1
  <2>3. n \in Nat /\ q \in [1..n -> Keys]
    BY <2>1, <2>2
  <2> HIDE DEF q, n
  <2>4. q \in Seq(Keys)
    BY <2>3, SeqDef
  <2>5. Len(q) \in Nat /\ 1..Len(q) = 1..n
    BY <2>3, <2>4, LenProperties
  <2>6. Len(q) = n
    BY <2>3, <2>5
  <2> QED
    BY <2>1, <2>4, <2>6 DEF n
<1>3. \A j \in 1..Len(q) : q[j] = IF j < i THEN s[j] ELSE s[j + 1]
  BY <1>2 DEF Cut
<1> HIDE DEF q
<1>4. \A m, j \in 1..Len(q) : q[m] = q[j] => m = j
  BY <1>1, <1>2, <1>3
<1>5. {q[j] : j \in 1..Len(q)} = M \ {s[i]}
  <2>1. ASSUME NEW j \in 1..Len(q) PROVE q[j] \in M \ {s[i]}
    <3>1. \E m \in (1..Len(s)) \ {i} : q[j] = s[m]
      BY <1>1, <1>2, <1>3
    <3> QED
      BY <1>1, <3>1
  <2>2. ASSUME NEW x \in M \ {s[i]} PROVE \E j \in 1..Len(q) : q[j] = x
    <3>1. PICK m \in 1..Len(s) : s[m] = x
      BY <1>1
    <3>2. m # i
      BY <3>1
    <3>3. CASE m < i
      BY <1>1, <1>2, <1>3, <3>1, <3>3
    <3>4. CASE m > i
      <4>1. m - 1 \in 1..Len(q) /\ ~(m - 1 < i) /\ (m - 1) + 1 = m
        BY <1>1, <1>2, <3>4
      <4> QED
        BY <1>3, <3>1, <4>1
    <3> QED
      BY <1>1, <3>2, <3>3, <3>4
  <2> QED
    BY <2>1, <2>2
<1>6. q \in Lists(M \ {s[i]})
  BY <1>2, <1>4, <1>5 DEF Lists
<1>7. ASSUME NEW j \in 0..Len(s) PROVE At(q, j) = IF j < i THEN At(s, j) ELSE At(s, j + 1)
  <2>1. CASE j = 0
    BY <1>1, <2>1 DEF At
  <2>2. CASE j = Len(s)
    BY <1>1, <1>2, <2>2 DEF At
  <2>3. CASE j \in 1..(Len(s) - 1)
    <3>1. j # 0 /\ j # Len(q) + 1 /\ j # Len(s) + 1 /\ j + 1 # 0 /\ j + 1 # Len(s) + 1 /\ j \in 1..Len(q)
      BY <1>1, <1>2, <2>3
    <3> QED
      BY <1>3, <3>1 DEF At
  <2> QED
    BY <1>1, <2>1, <2>2, <2>3
<1> QED
  BY <1>2, <1>6, <1>7 DEF q

\* Appending an identifier that is not there yet.
LEMMA PutFacts ==
  ASSUME NEW M \in SUBSET Keys, NEW s \in Lists(M), NEW k \in Keys, k \notin M
  PROVE  /\ Append(s, k) \in Lists(M \cup {k}) /\ Len(Append(s, k)) = Len(s) + 1
         /\ \A j \in 0..Len(s) : At(Append(s, k), j) = At(s, j)
         /\ At(Append(s, k), Len(s) + 1) = k /\ At(Append(s, k), Len(s) + 2) = Tailer
<1> DEFINE q == Append(s, k)
<1>1. /\ s \in Seq(Keys) /\ Len(s) \in Nat /\ \A m, j \in 1..Len(s) : s[m] = s[j] => m = j
      /\ {s[m] : m \in 1..Len(s)} = M
  BY DEF Lists
<1>2. /\ q \in Seq(Keys) /\ Len(q) = Len(s) + 1 /\ q[Len(s) + 1] = k
      /\ \A j \in 1..Len(s) : q[j] = s[j]
  BY <1>1
<1> HIDE DEF q
<1>3. \A j \in 1..Len(q) : j \in 1..Len(s) \/ j = Len(s) + 1
  BY <1>1, <1>2
<1>4. \A j \in 1..Len(s) : s[j] # k
  BY <1>1
<1>5. \A m, j \in 1..Len(q) : q[m] = q[j] => m = j
  BY <1>1, <1>2, <1>3, <1>4
<1>6. {q[j] : j \in 1..Len(q)} = M \cup {k}
  <2>1. Len(s) + 1 \in 1..Len(q) /\ \A j \in 1..Len(s) : j \in 1..Len(q)
    BY <1>1, <1>2
  <2> QED
    BY <1>1, <1>2, <1>3, <2>1
<1>7. q \in Lists(M \cup {k})
  BY <1>2, <1>5, <1>6 DEF Lists
<1>8. ASSUME NEW j \in 0..Len(s) PROVE At(q, j) = At(s, j)
  BY <1>1, <1>2 DEF At
<1>9. At(q, Len(s) + 1) = k /\ At(q, Len(s) + 2) = Tailer
  BY <1>1, <1>2 DEF At
<1> QED
  BY <1>2, <1>7, <1>8, <1>9 DEF q

\* RemoveFromList, its first write: the predecessor skips the node; the back links
\* are those of the shorter list but for the successor's.
LEMMA UnlinkForward ==
  ASSUME NEW M \in SUBSET Keys, NEW s \in Lists(M), NEW i \in 1..Len(s),
         NEW nx \in Links, NEW pv \in Links, Fwd(nx, s), Bwd(pv, s)
  PROVE  /\ Fwd([nx EXCEPT ![At(s, i - 1)] = At(s, i + 1)], Cut(s, i))
         /\ At(Cut(s, i), i - 1) = At(s, i - 1) /\ At(Cut(s, i), i) = At(s, i + 1)
         /\ \A j \in (0..Len(Cut(s, i))) \ {i - 1} : pv[At(Cut(s, i), j + 1)] = At(Cut(s, i), j)
<1> DEFINE q == Cut(s, i)
           n2 == [nx EXCEPT ![At(s, i - 1)] = At(s, i + 1)]
<1>1. /\ Len(s) \in Nat /\ \A j \in 0..(Len(s) + 1) : At(s, j) \in Nodes
      /\ \A m, j \in 0..(Len(s) + 1) : At(s, m) = At(s, j) => m = j
  BY ListFacts
<1>2. Len(q) = Len(s) - 1 /\ \A j \in 0..Len(s) : At(q, j) = IF j < i THEN At(s, j) ELSE At(s, j + 1)
  BY CutFacts
<1>3. i \in 1..Len(s) /\ i - 1 \in 0..(Len(s) + 1)
  BY <1>1
<1>4. ASSUME NEW x \in Nodes PROVE n2[x] = IF x = At(s, i - 1) THEN At(s, i + 1) ELSE nx[x]
  BY DEF Links
<1> HIDE DEF q, n2
<1>5. At(q, i - 1) = At(s, i - 1) /\ At(q, i) = At(s, i + 1)
  BY <1>1, <1>2
<1>6. ASSUME NEW j \in 0..Len(q) PROVE n2[At(q, j)] = At(q, j + 1)
  <2>1. j \in 0..Len(s) /\ j + 1 \in 0..Len(s) /\ j \in Int
    BY <1>1, <1>2
  <2>2. CASE j = i - 1
    BY <1>1, <1>3, <1>4, <1>5, <2>1, <2>2
  <2>3. CASE j < i - 1
    <3>1. At(q, j) = At(s, j) /\ At(q, j + 1) = At(s, j + 1)
      BY <1>1, <1>2, <2>1, <2>3
    <3>2. At(s, j) # At(s, i - 1) /\ At(s, j) \in Nodes
      BY <1>1, <1>3, <2>1, <2>3
    <3> QED
      BY <1>4, <2>1, <3>1, <3>2 DEF Fwd
  <2>4. CASE j > i - 1
    <3>1. At(q, j) = At(s, j + 1) /\ At(q, j + 1) = At(s, (j + 1) + 1)
      BY <1>1, <1>2, <2>1, <2>4
    <3>2. j + 1 \in 0..(Len(s) + 1) /\ j + 1 # i - 1
      BY <1>1, <2>1, <2>4
    <3>3. At(s, j + 1) # At(s, i - 1) /\ At(s, j + 1) \in Nodes
      BY <1>1, <1>3, <3>2
    <3> QED
      BY <1>4, <2>1, <3>1, <3>3 DEF Fwd
  <2> QED
    BY <1>1, <2>1, <2>2, <2>3, <2>4
<1>7. ASSUME NEW j \in (0..Len(q)) \ {i - 1} PROVE pv[At(q, j + 1)] = At(q, j)
  <2>1. j \in 0..Len(s) /\ j + 1 \in 0..Len(s) /\ j \in Int /\ j # i - 1
    BY <1>1, <1>2
  <2>2. CASE j < i - 1
    <3>1. At(q, j) = At(s, j) /\ At(q, j + 1) = At(s, j + 1)
      BY <1>1, <1>2, <2>1, <2>2
    <3> QED
      BY <2>1, <3>1 DEF Bwd
  <2>3. CASE j > i - 1
    <3>1. At(q, j) = At(s, j + 1) /\ At(q, j + 1) = At(s, (j + 1) + 1)
      BY <1>1, <1>2, <2>1, <2>3
    <3> QED
      BY <2>1, <3>1 DEF Bwd
  <2> QED
    BY <1>1, <2>1, <2>2, <2>3
<1> QED
  BY <1>5, <1>6, <1>7 DEF q, n2, Fwd

\* ... its second write.
LEMMA UnlinkBackward ==
  ASSUME NEW M \in SUBSET Keys, NEW s \in Lists(M), NEW j \in 0..Len(s), NEW pv \in Links,
         \A i \in (0..Len(s)) \ {j} : pv[At(s, i + 1)] = At(s, i)
  PROVE  Bwd([pv EXCEPT ![At(s, j + 1)] = At(s, j)], s)
<1> DEFINE p2 == [pv EXCEPT ![At(s, j + 1)] = At(s, j)]
<1>1. /\ Len(s) \in Nat /\ \A i \in 0..(Len(s) + 1) : At(s, i) \in Nodes
      /\ \A m, i \in 0..(Len(s) + 1) : At(s, m) = At(s, i) => m = i
  BY ListFacts
<1>2. ASSUME NEW x \in Nodes PROVE p2[x] = IF x = At(s, j + 1) THEN At(s, j) ELSE pv[x]
  BY DEF Links
<1> HIDE DEF p2
<1>3. ASSUME NEW i \in 0..Len(s) PROVE p2[At(s, i + 1)] = At(s, i)
  <2>1. i + 1 \in 0..(Len(s) + 1) /\ j + 1 \in 0..(Len(s) + 1) /\ (i # j => i + 1 # j + 1)
    BY <1>1
  <2> QED
    BY <1>1, <1>2, <2>1
<1> QED
  BY <1>3 DEF Bwd, p2

\* A write to a node outside the list does not disturb it.
LEMMA WriteOutside ==
  ASSUME NEW M \in SUBSET Keys, NEW s \in Lists(M), NEW k \in Keys, k \notin M,
         NEW nx \in Links, NEW v
  PROVE  /\ Fwd(nx, s) => Fwd([nx EXCEPT ![k] = v], s)
         /\ Bwd(nx, s) => Bwd([nx EXCEPT ![k] = v], s)
<1>1. \A i \in 0..(Len(s) + 1) : At(s, i) \in M \cup {Header, Tailer} /\ At(s, i) \in Nodes
  BY ListFacts
<1>2. \A i \in 0..(Len(s) + 1) : At(s, i) # k
  BY <1>1, CacheAssumption
<1>3. \A i \in 0..Len(s) : i \in 0..(Len(s) + 1) /\ i + 1 \in 0..(Len(s) + 1)
  BY ListFacts
<1> QED
  BY <1>1, <1>2, <1>3 DEF Fwd, Bwd, Links

\* AppendToEndOfList: the old last node gets the new one as its successor ...
LEMMA LinkForward ==
  ASSUME NEW M \in SUBSET Keys, NEW s \in Lists(M), NEW k \in Keys, k \notin M,
         NEW nx \in Links, Fwd(nx, s), nx[k] = Tailer
  PROVE  Fwd([nx EXCEPT ![At(s, Len(s))] = k], Append(s, k))
<1> DEFINE q == Append(s, k)
           n2 == [nx EXCEPT ![At(s, Len(s))] = k]
<1>1. /\ Len(s) \in Nat /\ \A i \in 0..(Len(s) + 1) : At(s, i) \in M \cup {Header, Tailer} /\ At(s, i) \in Nodes
      /\ \A m, i \in 0..(Len(s) + 1) : At(s, m) = At(s, i) => m = i
  BY ListFacts
<1>2. /\ Len(q) = Len(s) + 1 /\ \A j \in 0..Len(s) : At(q, j) = At(s, j)
      /\ At(q, Len(s) + 1) = k /\ At(q, Len(s) + 2) = Tailer
  BY PutFacts
<1>3. ASSUME NEW x \in Nodes PROVE n2[x] = IF x = At(s, Len(s)) THEN k ELSE nx[x]
  BY DEF Links
<1> HIDE DEF q, n2
<1>4. ASSUME NEW j \in 0..Len(q) PROVE n2[At(q, j)] = At(q, j + 1)
  <2>1. CASE j = Len(s)
    BY <1>1, <1>2, <1>3, <2>1
  <2>2. CASE j = Len(s) + 1
    <3>1. k # At(s, Len(s)) /\ k \in Nodes
      BY <1>1, CacheAssumption DEF Nodes
    <3>2. (Len(s) + 1) + 1 = Len(s) + 2
      BY <1>1
    <3> QED
      BY <1>2, <1>3, <2>2, <3>1, <3>2
  <2>3. CASE j < Len(s)
    <3>1. j \in 0..Len(s) /\ j + 1 \in 0..Len(s) /\ j \in 0..(Len(s) + 1) /\ Len(s) \in 0..(Len(s) + 1) /\ j # Len(s)
      BY <1>1, <2>3
    <3> QED
      BY <1>1, <1>2, <1>3, <3>1 DEF Fwd
  <2> QED
    BY <1>1, <1>2, <2>1, <2>2, <2>3
<1> QED
  BY <1>4 DEF q, n2, Fwd

\* ... and the dummy tail gets it as its predecessor.
LEMMA LinkBackward ==
  ASSUME NEW M \in SUBSET Keys, NEW s \in Lists(M), NEW k \in Keys, k \notin M,
         NEW pv \in Links, pv[k] = At(s, Len(s)),
         \A i \in 0..(Len(s) - 1) : pv[At(s, i + 1)] = At(s, i)
  PROVE  Bwd([pv EXCEPT ![Tailer] = k], Append(s, k))
<1> DEFINE q == Append(s, k)
           p2 == [pv EXCEPT ![Tailer] = k]
<1>1. /\ Len(s) \in Nat /\ \A i \in 0..(Len(s) + 1) : At(s, i) \in M \cup {Header, Tailer} /\ At(s, i) \in Nodes
      /\ \A m, i \in 0..(Len(s) + 1) : At(s, m) = At(s, i) => m = i
      /\ At(s, Len(s) + 1) = Tailer
  BY ListFacts
<1>2. /\ Len(q) = Len(s) + 1 /\ \A j \in 0..Len(s) : At(q, j) = At(s, j)
      /\ At(q, Len(s) + 1) = k /\ At(q, Len(s) + 2) = Tailer
  BY PutFacts
<1>3. ASSUME NEW x \in Nodes PROVE p2[x] = IF x = Tailer THEN k ELSE pv[x]
  BY DEF Links
<1> HIDE DEF q, p2
<1>4. ASSUME NEW j \in 0..Len(q) PROVE p2[At(q, j + 1)] = At(q, j)
  <2>1. CASE j = Len(s)
    <3>1. k # Tailer /\ k \in Nodes /\ Len(s) \in 0..Len(s)
      BY <1>1, CacheAssumption DEF Nodes
    <3> QED
      BY <1>2, <1>3, <2>1, <3>1
  <2>2. CASE j = Len(s) + 1
    <3>1. (Len(s) + 1) + 1 = Len(s) + 2 /\ Tailer \in Nodes
      BY <1>1 DEF Nodes
    <3> QED
      BY <1>2, <1>3, <2>2, <3>1
  <2>3. CASE j < Len(s)
    <3>1. /\ j \in 0..Len(s) /\ j + 1 \in 0..Len(s) /\ j \in 0..(Len(s) - 1)
          /\ j + 1 \in 0..(Len(s) + 1) /\ Len(s) + 1 \in 0..(Len(s) + 1) /\ j + 1 # Len(s) + 1
      BY <1>1, <2>3
    <3>2. At(s, j + 1) # Tailer /\ At(s, j + 1) \in Nodes
      BY <1>1, <3>1
    <3> QED
      BY <1>2, <1>3, <3>1, <3>2
  <2> QED
    BY <1>1, <1>2, <2>1, <2>2, <2>3
<1> QED
  BY <1>4 DEF q, p2, Bwd

-----------------------------------------------------------------------------
(* One thread loads.                                                       *)

\* TryLoad is called by one thread only.
LoneReader == \A t, u \in Readers : t = u

\* The list between two calls.
Whole == \E s \in Lists(mapping) : Fwd(next, s) /\ Bwd(prev, s)

Rewriting == Hit \ {"unlock"}
Quiet == \A t \in Threads : pc[t] \notin Rewriting

\* The list while t moves its node to the end: whole, without the node in one
\* direction, in both, then with it at the end in one direction.
MoveInv(t) ==
  LET k == key[t]
      M == mapping \ {key[t]}
  IN /\ pc[t] = "unlinkNext" =>
          \E s \in Lists(mapping) :
            /\ Fwd(next, s) /\ Bwd(prev, s)
            /\ \E i \in 1..Len(s) : s[i] = k /\ pre[t] = At(s, i - 1) /\ nxt[t] = At(s, i + 1)
     /\ pc[t] = "unlinkPrev" =>
          \E s \in Lists(M) :
            /\ Fwd(next, s)
            /\ \E j \in 0..Len(s) :
                 /\ pre[t] = At(s, j) /\ nxt[t] = At(s, j + 1)
                 /\ \A i \in (0..Len(s)) \ {j} : prev[At(s, i + 1)] = At(s, i)
     /\ pc[t] \in {"readTail", "setOwn", "linkLast"} =>
          \E s \in Lists(M) : Fwd(next, s) /\ Bwd(prev, s)
     /\ pc[t] \in {"setOwn", "linkLast"} => pre[t] = prev[Tailer]
     /\ pc[t] = "linkLast" => next[k] = Tailer /\ prev[k] = pre[t]
     /\ pc[t] = "linkTail" =>
          \E s \in Lists(M) :
            /\ Fwd(next, Append(s, k)) /\ prev[k] = At(s, Len(s))
            /\ \A i \in 0..(Len(s) - 1) : prev[At(s, i + 1)] = At(s, i)

ListInv == (Quiet => Whole) /\ \A t \in Threads : MoveInv(t)

\* The lone reader inside the cache is alone there.
LEMMA ReaderAlone ==
  ASSUME LoneReader, CoreInv, NEW t \in Threads, pc[t] \in {"find"} \cup Hit
  PROVE  writer = None /\ \A u \in Threads \ {t} : pc[u] = "idle"
<1>1. t \in readers /\ t \in Readers
  BY DEF CoreInv, LatchInv
<1>2. writer = None
  BY <1>1 DEF CoreInv, LatchInv
<1>3. ASSUME NEW u \in Threads, u # t PROVE pc[u] = "idle"
  <2>1. u \notin readers
    BY <1>1, <1>3 DEF LoneReader, CoreInv, LatchInv
  <2> QED
    BY <1>2, <2>1, CacheAssumption DEF CoreInv, LatchInv, TypeInv
<1> QED
  BY <1>2, <1>3

\* A step after which nobody rewrites the list, which is whole.
LEMMA QuietStep == ASSUME Quiet', Whole' PROVE ListInv'
<1>1. ASSUME NEW t \in Threads PROVE MoveInv(t)'
  <2>1. pc'[t] \notin {"unlinkNext", "unlinkPrev", "readTail", "setOwn", "linkLast", "linkTail"}
    BY DEF Quiet, Rewriting, Hit
  <2> QED
    BY <2>1 DEF MoveInv
<1> QED
  BY <1>1 DEF ListInv

\* A step of the lone reader after which only it rewrites the list.
LEMMA RewritingStep ==
  ASSUME LoneReader, CoreInv, NEW t \in Threads, pc[t] \in {"find"} \cup Hit,
         NEW to \in Rewriting, pc' = [pc EXCEPT ![t] = to], MoveInv(t)'
  PROVE  ListInv'
<1>1. pc'[t] = to /\ \A u \in Threads \ {t} : pc'[u] = "idle"
  BY ReaderAlone DEF CoreInv, TypeInv
<1>2. ~Quiet'
  BY <1>1 DEF Quiet
<1>3. ASSUME NEW u \in Threads, u # t PROVE MoveInv(u)'
  BY <1>1, <1>3 DEF MoveInv
<1> QED
  BY <1>2, <1>3 DEF ListInv

LEMMA LinkTypes == CoreInv => next \in Links /\ prev \in Links /\ mapping \in SUBSET Keys
BY DEF CoreInv, TypeInv, Links

\* Steps that take or release the lock leave a whole list alone.
LEMMA PlainList ==
  ASSUME LoneReader, CoreInv, ListInv, Quiet, NEW t \in Threads, NEW to \in {"idle", "find", "check", "evict"},
         pc' = [pc EXCEPT ![t] = to], UNCHANGED <<next, prev, mapping>>
  PROVE  ListInv'
<1>1. Quiet'
  BY DEF Quiet, Rewriting, Hit, CoreInv, TypeInv
<1>2. Whole'
  BY DEF ListInv, Whole
<1> QED
  BY <1>1, <1>2, QuietStep

\* While the lone reader rewrites nothing, nobody does.
LEMMA ReaderQuiet ==
  ASSUME LoneReader, CoreInv, NEW t \in Threads, pc[t] \in {"find", "unlock"}
  PROVE  Quiet
<1>1. \A u \in Threads \ {t} : pc[u] = "idle"
  BY ReaderAlone DEF Hit
<1> QED
  BY <1>1 DEF Quiet, Rewriting, Hit

LEMMA LoadHitList ==
  ASSUME LoneReader, CoreInv, ListInv, NEW t \in Threads, LoadHit(t)
  PROVE  ListInv'
<1>1. /\ pc[t] = "find" /\ pc' = [pc EXCEPT ![t] = "unlinkNext"] /\ key[t] \in mapping
      /\ pre' = [pre EXCEPT ![t] = prev[key[t]]] /\ nxt' = [nxt EXCEPT ![t] = next[key[t]]]
      /\ UNCHANGED <<next, prev, mapping, key>>
  BY DEF LoadHit, Goto, listVars, argVars
<1>2. PICK s \in Lists(mapping) : Fwd(next, s) /\ Bwd(prev, s)
  BY <1>1, ReaderQuiet DEF ListInv, Whole
<1>3. /\ Len(s) \in Nat /\ \A i \in 1..Len(s) : At(s, i) = s[i]
      /\ \A x \in mapping : \E i \in 1..Len(s) : s[i] = x
  BY <1>2, LinkTypes, ListFacts
<1>4. PICK i \in 1..Len(s) : s[i] = key[t]
  BY <1>1, <1>3
<1>5. i \in 0..Len(s) /\ i - 1 \in 0..Len(s) /\ (i - 1) + 1 = i
  BY <1>3
<1>6. next[key[t]] = At(s, i + 1) /\ prev[key[t]] = At(s, i - 1)
  BY <1>2, <1>3, <1>4, <1>5 DEF Fwd, Bwd
<1>7. pre'[t] = At(s, i - 1) /\ nxt'[t] = At(s, i + 1) /\ pc'[t] = "unlinkNext"
  BY <1>1, <1>6 DEF CoreInv, TypeInv
<1>8. MoveInv(t)'
  BY <1>1, <1>2, <1>4, <1>7 DEF MoveInv
<1> QED
  BY <1>1, <1>8, RewritingStep DEF Rewriting, Hit

LEMMA UnlinkNextList ==
  ASSUME LoneReader, CoreInv, ListInv, NEW t \in Threads, UnlinkNext(t)
  PROVE  ListInv'
<1>1. /\ pc[t] = "unlinkNext" /\ pc' = [pc EXCEPT ![t] = "unlinkPrev"]
      /\ next' = [next EXCEPT ![pre[t]] = nxt[t]]
      /\ UNCHANGED <<prev, mapping, key, pre, nxt>>
  BY DEF UnlinkNext, Goto, argVars, localVars
<1>m. PICK s \in Lists(mapping) :
        /\ Fwd(next, s) /\ Bwd(prev, s)
        /\ \E i \in 1..Len(s) : s[i] = key[t] /\ pre[t] = At(s, i - 1) /\ nxt[t] = At(s, i + 1)
  BY <1>1 DEF ListInv, MoveInv
<1>2. PICK i \in 1..Len(s) :
        Fwd(next, s) /\ Bwd(prev, s) /\ s[i] = key[t] /\ pre[t] = At(s, i - 1) /\ nxt[t] = At(s, i + 1)
  BY <1>m
<1> DEFINE q == Cut(s, i)
<1>3. /\ Fwd(next', q) /\ At(q, i - 1) = At(s, i - 1) /\ At(q, i) = At(s, i + 1)
      /\ \A j \in (0..Len(q)) \ {i - 1} : prev[At(q, j + 1)] = At(q, j)
  BY <1>1, <1>2, LinkTypes, UnlinkForward
<1>4. q \in Lists(mapping \ {key[t]}) /\ Len(q) = Len(s) - 1
  BY <1>2, LinkTypes, CutFacts
<1>5. Len(s) \in Nat
  BY <1>2, LinkTypes, ListFacts
<1>6. i - 1 \in 0..Len(q) /\ (i - 1) + 1 = i
  BY <1>4, <1>5
<1>7. pc'[t] = "unlinkPrev"
  BY <1>1 DEF CoreInv, TypeInv
<1> HIDE DEF q
<1>8. MoveInv(t)'
  <2>1. /\ Fwd(next', q)
        /\ \E j \in 0..Len(q) : /\ pre'[t] = At(q, j) /\ nxt'[t] = At(q, j + 1)
                                /\ \A m \in (0..Len(q)) \ {j} : prev'[At(q, m + 1)] = At(q, m)
    BY <1>1, <1>2, <1>3, <1>6
  <2> QED
    BY <1>1, <1>4, <1>7, <2>1 DEF MoveInv
<1> QED
  BY <1>1, <1>8, RewritingStep DEF Rewriting, Hit

LEMMA UnlinkPrevList ==
  ASSUME LoneReader, CoreInv, ListInv, NEW t \in Threads, UnlinkPrev(t)
  PROVE  ListInv'
<1>1. /\ pc[t] = "unlinkPrev" /\ pc' = [pc EXCEPT ![t] = "readTail"]
      /\ prev' = [prev EXCEPT ![nxt[t]] = pre[t]]
      /\ UNCHANGED <<next, mapping, key, pre, nxt>>
  BY DEF UnlinkPrev, Goto, argVars, localVars
<1>m. PICK s \in Lists(mapping \ {key[t]}) :
        /\ Fwd(next, s)
        /\ \E j \in 0..Len(s) : /\ pre[t] = At(s, j) /\ nxt[t] = At(s, j + 1)
                                /\ \A i \in (0..Len(s)) \ {j} : prev[At(s, i + 1)] = At(s, i)
  BY <1>1 DEF ListInv, MoveInv
<1>2. PICK j \in 0..Len(s) :
        /\ Fwd(next, s) /\ pre[t] = At(s, j) /\ nxt[t] = At(s, j + 1)
        /\ \A i \in (0..Len(s)) \ {j} : prev[At(s, i + 1)] = At(s, i)
  BY <1>m
<1>3. mapping \ {key[t]} \in SUBSET Keys /\ prev \in Links
  BY LinkTypes
<1>4. Bwd(prev', s)
  BY <1>1, <1>2, <1>3, UnlinkBackward
<1>5. pc'[t] = "readTail"
  BY <1>1 DEF CoreInv, TypeInv
<1>6. MoveInv(t)'
  BY <1>1, <1>2, <1>4, <1>5 DEF MoveInv
<1> QED
  BY <1>1, <1>6, RewritingStep DEF Rewriting, Hit

LEMMA ReadTailList ==
  ASSUME LoneReader, CoreInv, ListInv, NEW t \in Threads, ReadTail(t)
  PROVE  ListInv'
<1>1. /\ pc[t] = "readTail" /\ pc' = [pc EXCEPT ![t] = "setOwn"]
      /\ pre' = [pre EXCEPT ![t] = prev[Tailer]]
      /\ UNCHANGED <<next, prev, mapping, key>>
  BY DEF ReadTail, Goto, argVars, listVars
<1>2. pc'[t] = "setOwn" /\ pre'[t] = prev[Tailer]
  BY <1>1 DEF CoreInv, TypeInv
<1>3. MoveInv(t)
  BY DEF ListInv
<1>4. MoveInv(t)'
  BY <1>1, <1>2, <1>3 DEF MoveInv
<1> QED
  BY <1>1, <1>4, RewritingStep DEF Rewriting, Hit

\* The last position of a list is what the dummy tail points back to.
LEMMA LastIs ==
  ASSUME NEW M \in SUBSET Keys, NEW s \in Lists(M), NEW pv, Bwd(pv, s)
  PROVE  pv[Tailer] = At(s, Len(s))
<1>1. Len(s) \in 0..Len(s) /\ At(s, Len(s) + 1) = Tailer
  BY ListFacts
<1> QED
  BY <1>1 DEF Bwd

LEMMA SetOwnList ==
  ASSUME LoneReader, CoreInv, ListInv, NEW t \in Threads, SetOwn(t)
  PROVE  ListInv'
<1>1. /\ pc[t] = "setOwn" /\ pc' = [pc EXCEPT ![t] = "linkLast"]
      /\ prev' = [prev EXCEPT ![key[t]] = pre[t]] /\ next' = [next EXCEPT ![key[t]] = Tailer]
      /\ UNCHANGED <<mapping, key, pre, nxt>>
  BY DEF SetOwn, Goto, argVars, localVars
<1>2. PICK s \in Lists(mapping \ {key[t]}) : Fwd(next, s) /\ Bwd(prev, s)
  BY <1>1 DEF ListInv, MoveInv
<1>3. key[t] \in Keys /\ key[t] # Tailer /\ key[t] \in Nodes
  BY <1>1, CacheAssumption DEF CoreInv, CallInv, Nodes
<1>4. mapping \ {key[t]} \in SUBSET Keys /\ next \in Links /\ prev \in Links /\ key[t] \notin mapping \ {key[t]}
  BY LinkTypes
<1>5. Fwd(next', s) /\ Bwd(prev', s)
  BY <1>1, <1>2, <1>3, <1>4, WriteOutside
<1>6. pre[t] = prev[Tailer]
  BY <1>1 DEF ListInv, MoveInv
<1>7. /\ pc'[t] = "linkLast" /\ prev'[Tailer] = prev[Tailer]
      /\ prev'[key[t]] = pre[t] /\ next'[key[t]] = Tailer
  BY <1>1, <1>3 DEF CoreInv, TypeInv, Nodes
<1>8. MoveInv(t)'
  BY <1>1, <1>2, <1>5, <1>6, <1>7 DEF MoveInv
<1> QED
  BY <1>1, <1>8, RewritingStep DEF Rewriting, Hit

LEMMA LinkLastList ==
  ASSUME LoneReader, CoreInv, ListInv, NEW t \in Threads, LinkLast(t)
  PROVE  ListInv'
<1>1. /\ pc[t] = "linkLast" /\ pc' = [pc EXCEPT ![t] = "linkTail"]
      /\ next' = [next EXCEPT ![pre[t]] = key[t]]
      /\ UNCHANGED <<prev, mapping, key, pre, nxt>>
  BY DEF LinkLast, Goto, argVars, localVars
<1>2. PICK s \in Lists(mapping \ {key[t]}) : Fwd(next, s) /\ Bwd(prev, s)
  BY <1>1 DEF ListInv, MoveInv
<1>3. pre[t] = prev[Tailer] /\ next[key[t]] = Tailer /\ prev[key[t]] = pre[t]
  BY <1>1 DEF ListInv, MoveInv
<1>4. key[t] \in Keys
  BY <1>1 DEF CoreInv, CallInv
<1>5. mapping \ {key[t]} \in SUBSET Keys /\ next \in Links /\ key[t] \notin mapping \ {key[t]}
  BY LinkTypes
<1>6. pre[t] = At(s, Len(s))
  BY <1>2, <1>3, <1>5, LastIs
<1>7. Fwd(next', Append(s, key[t]))
  BY <1>1, <1>2, <1>3, <1>4, <1>5, <1>6, LinkForward
<1>8. Len(s) \in Nat
  BY <1>5, ListFacts
<1>9. \A i \in 0..(Len(s) - 1) : prev[At(s, i + 1)] = At(s, i)
  BY <1>2, <1>8 DEF Bwd
<1>10. pc'[t] = "linkTail"
  BY <1>1 DEF CoreInv, TypeInv
<1>11. MoveInv(t)'
  BY <1>1, <1>2, <1>3, <1>6, <1>7, <1>9, <1>10 DEF MoveInv
<1> QED
  BY <1>1, <1>11, RewritingStep DEF Rewriting, Hit

LEMMA LinkTailList ==
  ASSUME LoneReader, CoreInv, ListInv, NEW t \in Threads, LinkTail(t)
  PROVE  ListInv'
<1>1. /\ pc[t] = "linkTail" /\ pc' = [pc EXCEPT ![t] = "unlock"]
      /\ prev' = [prev EXCEPT ![Tailer] = key[t]]
      /\ UNCHANGED <<next, mapping, key, pre, nxt>>
  BY DEF LinkTail, Goto, argVars, localVars
<1>2. PICK s \in Lists(mapping \ {key[t]}) :
        /\ Fwd(next, Append(s, key[t])) /\ prev[key[t]] = At(s, Len(s))
        /\ \A i \in 0..(Len(s) - 1) : prev[At(s, i + 1)] = At(s, i)
  BY <1>1 DEF ListInv, MoveInv
<1>3. key[t] \in Keys /\ key[t] \in mapping /\ (mapping \ {key[t]}) \cup {key[t]} = mapping
  BY <1>1 DEF CoreInv, CallInv, Hit
<1>4. mapping \ {key[t]} \in SUBSET Keys /\ prev \in Links /\ key[t] \notin mapping \ {key[t]}
  BY LinkTypes
<1>5. Bwd(prev', Append(s, key[t]))
  BY <1>1, <1>2, <1>3, <1>4, LinkBackward
<1>6. Append(s, key[t]) \in Lists(mapping)
  BY <1>3, <1>4, PutFacts
<1>7. Whole'
  BY <1>1, <1>2, <1>5, <1>6 DEF Whole
<1>8. Quiet'
  <2>1. \A u \in Threads \ {t} : pc[u] = "idle"
    BY <1>1, ReaderAlone DEF Hit
  <2> QED
    BY <1>1, <2>1 DEF Quiet, Rewriting, Hit, CoreInv, TypeInv
<1> QED
  BY <1>7, <1>8, QuietStep

\* EvitOne: the first node of the list is the one the map loses.
LEMMA EvitOneLinks ==
  ASSUME CoreInv, NEW t \in Threads, EvitOne(t), NEW s \in Lists(mapping), Fwd(next, s), Bwd(prev, s)
  PROVE  /\ 1 \in 1..Len(s) /\ s[1] = next[Header] /\ Cut(s, 1) \in Lists(mapping')
         /\ Fwd(next', Cut(s, 1)) /\ Bwd(prev', Cut(s, 1))
<1> DEFINE e == next[Header]
<1>1. /\ e \in mapping /\ mapping' = mapping \ {e}
      /\ next' = [[next EXCEPT ![prev[e]] = next[e]] EXCEPT ![e] = None]
      /\ prev' = [[prev EXCEPT ![next[e]] = prev[e]] EXCEPT ![e] = None]
  BY DEF EvitOne
<1>2. /\ Len(s) \in Nat /\ At(s, 0) = Header /\ At(s, Len(s) + 1) = Tailer
      /\ \A i \in 1..Len(s) : At(s, i) = s[i]
  BY LinkTypes, ListFacts
<1>3. e = At(s, 1)
  BY <1>2 DEF Fwd
<1>4. 1 \in 1..Len(s)
  <2>1. e # Tailer
    BY <1>1, LinkTypes, CacheAssumption
  <2> QED
    BY <1>2, <1>3, <2>1
<1>5. s[1] = e /\ prev[e] = At(s, 1 - 1) /\ next[e] = At(s, 1 + 1)
  <2>1. 0 \in 0..Len(s) /\ 1 \in 0..Len(s) /\ 0 + 1 = 1 /\ 1 - 1 = 0
    BY <1>2, <1>4
  <2> QED
    BY <1>2, <1>3, <1>4, <2>1 DEF Fwd, Bwd
<1> HIDE DEF e
<1> DEFINE q == Cut(s, 1)
           n2 == [next EXCEPT ![prev[e]] = next[e]]
           p2 == [prev EXCEPT ![next[e]] = prev[e]]
<1>6. q \in Lists(mapping \ {e}) /\ Len(q) = Len(s) - 1
  BY <1>4, <1>5, LinkTypes, CutFacts
<1>7. /\ Fwd(n2, q) /\ At(q, 1 - 1) = At(s, 1 - 1) /\ At(q, 1) = At(s, 1 + 1)
      /\ \A j \in (0..Len(q)) \ {1 - 1} : prev[At(q, j + 1)] = At(q, j)
  BY <1>4, <1>5, LinkTypes, UnlinkForward
<1>8. mapping \ {e} \in SUBSET Keys /\ next \in Links /\ prev \in Links
  BY LinkTypes
<1>9. e \in Keys /\ e \notin mapping \ {e} /\ n2 \in Links /\ p2 \in Links
  BY <1>1, <1>8, LinkTypes DEF Links, Nodes
<1> HIDE DEF q, n2
<1>10. Bwd(p2, q)
  <2>1. 0 \in 0..Len(q) /\ 1 - 1 = 0 /\ 0 + 1 = 1
    BY <1>2, <1>4, <1>6
  <2>2. p2 = [prev EXCEPT ![At(q, 0 + 1)] = At(q, 0)]
    BY <1>5, <1>7, <2>1
  <2> HIDE DEF p2
  <2> QED
    BY <1>6, <1>7, <1>8, <2>1, <2>2, UnlinkBackward
<1> HIDE DEF p2
<1>11. Fwd([n2 EXCEPT ![e] = None], q) /\ Bwd([p2 EXCEPT ![e] = None], q)
  BY <1>6, <1>7, <1>8, <1>9, <1>10, WriteOutside
<1> QED
  BY <1>1, <1>4, <1>5, <1>6, <1>11 DEF e, q, n2, p2

LEMMA EvitOneList ==
  ASSUME LoneReader, CoreInv, ListInv, NEW t \in Threads, EvitOne(t)
  PROVE  ListInv'
<1>1. pc[t] = "evict" /\ UNCHANGED pc
  BY DEF EvitOne
<1>2. Quiet
  BY <1>1, WriterAlone DEF Quiet, Rewriting, Hit
<1>3. PICK s \in Lists(mapping) : Fwd(next, s) /\ Bwd(prev, s)
  BY <1>2 DEF ListInv, Whole
<1>4. Whole'
  BY <1>3, EvitOneLinks DEF Whole
<1>5. Quiet'
  BY <1>1, <1>2 DEF Quiet
<1> QED
  BY <1>4, <1>5, QuietStep

\* The end of TryInsert: the new node goes to the end of the list.
LEMMA InsertAppendLinks ==
  ASSUME CoreInv, NEW t \in Threads, InsertAppend(t), NEW s \in Lists(mapping), Fwd(next, s), Bwd(prev, s)
  PROVE  /\ Append(s, key[t]) \in Lists(mapping')
         /\ Fwd(next', Append(s, key[t])) /\ Bwd(prev', Append(s, key[t]))
<1> DEFINE k == key[t]
           n1 == [next EXCEPT ![k] = Tailer]
           p1 == [prev EXCEPT ![k] = prev[Tailer]]
<1>1. /\ pc[t] = "evict" /\ mapping' = mapping \cup {k}
      /\ next' = [n1 EXCEPT ![prev[Tailer]] = k] /\ prev' = [p1 EXCEPT ![Tailer] = k]
  BY DEF InsertAppend, Return, Goto
<1>2. k \in Keys /\ k \notin mapping /\ k \in Nodes /\ Tailer \in Nodes
  BY <1>1 DEF CoreInv, CallInv, Nodes
<1>3. mapping \in SUBSET Keys /\ next \in Links /\ prev \in Links
  BY LinkTypes
<1>4. prev[Tailer] = At(s, Len(s))
  BY <1>3, LastIs
<1>5. n1 \in Links /\ p1 \in Links /\ n1[k] = Tailer /\ p1[k] = At(s, Len(s))
  BY <1>2, <1>3, <1>4 DEF Links
<1>6. Fwd(n1, s) /\ Bwd(p1, s)
  BY <1>2, <1>3, WriteOutside
<1> HIDE DEF k, n1, p1
<1>7. Fwd(next', Append(s, k))
  BY <1>1, <1>2, <1>3, <1>4, <1>5, <1>6, LinkForward
<1>8. Bwd(prev', Append(s, k))
  <2>1. Len(s) \in Nat
    BY <1>3, ListFacts
  <2>2. \A i \in 0..(Len(s) - 1) : p1[At(s, i + 1)] = At(s, i)
    BY <1>6, <2>1 DEF Bwd
  <2> QED
    BY <1>1, <1>2, <1>3, <1>5, <2>2, LinkBackward
<1>9. Append(s, k) \in Lists(mapping')
  BY <1>1, <1>2, <1>3, PutFacts
<1> QED
  BY <1>7, <1>8, <1>9 DEF k

LEMMA InsertAppendList ==
  ASSUME LoneReader, CoreInv, ListInv, NEW t \in Threads, InsertAppend(t)
  PROVE  ListInv'
<1>1. pc[t] = "evict" /\ pc' = [pc EXCEPT ![t] = "idle"]
  BY DEF InsertAppend, Return, Goto
<1>2. (\A u \in Threads \ {t} : pc[u] = "idle") /\ Quiet
  BY <1>1, WriterAlone DEF Quiet, Rewriting, Hit
<1>3. PICK s \in Lists(mapping) : Fwd(next, s) /\ Bwd(prev, s)
  BY <1>2 DEF ListInv, Whole
<1>4. Whole'
  BY <1>3, InsertAppendLinks DEF Whole
<1>5. Quiet'
  BY <1>1, <1>2 DEF Quiet, Rewriting, Hit, CoreInv, TypeInv
<1> QED
  BY <1>4, <1>5, QuietStep

\* An empty list is whole: after the constructor, and after Clear.
LEMMA EmptyWhole ==
  ASSUME NEW nx, NEW pv, nx = [x \in Nodes |-> IF x = Header THEN Tailer ELSE None],
         pv = [x \in Nodes |-> IF x = Tailer THEN Header ELSE None]
  PROVE  \E s \in Lists({}) : Fwd(nx, s) /\ Bwd(pv, s)
<1>1. <<>> \in Lists({})
  BY DEF Lists
<1>2. Len(<<>>) = 0 /\ At(<<>>, 0) = Header /\ At(<<>>, 1) = Tailer
  BY DEF At
<1>3. nx[Header] = Tailer /\ pv[Tailer] = Header
  BY DEF Nodes
<1>4. Fwd(nx, <<>>) /\ Bwd(pv, <<>>)
  <2>1. \A i \in 0..0 : i = 0 /\ i + 1 = 1
    OBVIOUS
  <2> QED
    BY <1>2, <1>3, <2>1 DEF Fwd, Bwd
<1> QED
  BY <1>1, <1>4

LEMMA NextList ==
  ASSUME LoneReader, CoreInv, ListInv, [Next]_vars
  PROVE  ListInv'
<1>1. ASSUME NEW t \in Threads, NEW k \in Keys, LoadLock(t, k) PROVE ListInv'
  <2>1. /\ t \in Readers /\ writer = None /\ pc[t] = "idle" /\ pc' = [pc EXCEPT ![t] = "find"]
        /\ UNCHANGED <<next, prev, mapping>>
    BY <1>1 DEF LoadLock, Goto, listVars
  <2>2. Quiet
    <3>1. ASSUME NEW u \in Threads, pc[u] \in Rewriting PROVE FALSE
      <4>1. u \in Readers
        BY <3>1 DEF CoreInv, LatchInv, Rewriting
      <4> QED
        BY <2>1, <3>1, <4>1 DEF LoneReader, Rewriting, Hit
    <3> QED
      BY <3>1 DEF Quiet
  <2> QED
    BY <2>1, <2>2, PlainList
<1>2. ASSUME NEW t \in Threads, NEW k \in Keys, NEW n \in Sizes, InsertLock(t, k, n) PROVE ListInv'
  <2>1. readers = {} /\ pc' = [pc EXCEPT ![t] = "check"] /\ UNCHANGED <<next, prev, mapping>>
    BY <1>2 DEF InsertLock, Goto, listVars
  <2>2. Quiet
    BY <2>1 DEF Quiet, Rewriting, CoreInv, LatchInv
  <2> QED
    BY <2>1, <2>2, PlainList
<1>3. ASSUME NEW t \in Threads, LoadMiss(t) \/ LoadUnlock(t) PROVE ListInv'
  <2>1. pc[t] \in {"find", "unlock"} /\ pc' = [pc EXCEPT ![t] = "idle"] /\ UNCHANGED <<next, prev, mapping>>
    BY <1>3 DEF LoadMiss, LoadUnlock, Return, Goto, listVars
  <2> QED
    BY <2>1, ReaderQuiet, PlainList
<1>4. ASSUME NEW t \in Threads, InsertReject(t) \/ InsertAdmit(t) PROVE ListInv'
  <2>1. /\ pc[t] = "check" /\ UNCHANGED <<next, prev, mapping>>
        /\ \E to \in {"idle", "evict"} : pc' = [pc EXCEPT ![t] = to]
    BY <1>4 DEF InsertReject, InsertAdmit, Return, Goto, listVars
  <2>2. Quiet
    BY <2>1, WriterAlone DEF Quiet, Rewriting, Hit
  <2> QED
    BY <2>1, <2>2, PlainList
<1>5. CASE Clear
  <2>1. /\ readers = {} /\ mapping' = {} /\ UNCHANGED pc
        /\ prev' = [x \in Nodes |-> IF x = Tailer THEN Header ELSE None]
        /\ next' = [x \in Nodes |-> IF x = Header THEN Tailer ELSE None]
    BY <1>5 DEF Clear
  <2>2. Quiet'
    BY <2>1 DEF Quiet, Rewriting, CoreInv, LatchInv
  <2>3. Whole'
    BY <2>1, EmptyWhole DEF Whole
  <2> QED
    BY <2>2, <2>3, QuietStep
<1>6. CASE UNCHANGED vars
  <2>1. UNCHANGED <<next, prev, mapping, pc, key, pre, nxt>>
    BY <1>6 DEF vars, listVars, argVars, localVars
  <2>2. (Quiet' => Quiet) /\ (Whole => Whole')
    BY <2>1 DEF Quiet, Whole
  <2>3. ASSUME NEW t \in Threads, MoveInv(t) PROVE MoveInv(t)'
    <3>1. CASE pc[t] = "unlinkNext"
      BY <2>1, <2>3, <3>1 DEF MoveInv
    <3>2. CASE pc[t] = "unlinkPrev"
      <4>1. PICK s \in Lists(mapping \ {key[t]}) :
              /\ Fwd(next, s)
              /\ \E j \in 0..Len(s) : /\ pre[t] = At(s, j) /\ nxt[t] = At(s, j + 1)
                                      /\ \A i \in (0..Len(s)) \ {j} : prev[At(s, i + 1)] = At(s, i)
        BY <2>3, <3>2 DEF MoveInv
      <4>2. /\ Fwd(next', s)
            /\ \E j \in 0..Len(s) : /\ pre'[t] = At(s, j) /\ nxt'[t] = At(s, j + 1)
                                    /\ \A i \in (0..Len(s)) \ {j} : prev'[At(s, i + 1)] = At(s, i)
        BY <2>1, <4>1
      <4> QED
        BY <2>1, <3>2, <4>2 DEF MoveInv
    <3>3. CASE pc[t] \in {"readTail", "setOwn", "linkLast"}
      BY <2>1, <2>3, <3>3 DEF MoveInv
    <3>4. CASE pc[t] = "linkTail"
      BY <2>1, <2>3, <3>4 DEF MoveInv
    <3>5. CASE pc[t] \notin {"unlinkNext", "unlinkPrev", "readTail", "setOwn", "linkLast", "linkTail"}
      BY <2>1, <3>5 DEF MoveInv
    <3> QED
      BY <3>1, <3>2, <3>3, <3>4, <3>5
  <2> QED
    BY <2>2, <2>3 DEF ListInv
<1> QED
  BY <1>1, <1>2, <1>3, <1>4, <1>5, <1>6, LoadHitList, UnlinkNextList, UnlinkPrevList, ReadTailList,
     SetOwnList, LinkLastList, LinkTailList, EvitOneList, InsertAppendList DEF Next, Load, Insert

\* With one loading thread, the list is followed through every write TryLoad makes
\* under the shared lock.
THEOREM ListInvariant ==
  ASSUME LoneReader
  PROVE  Spec => []ListInv
<1>1. Init => ListInv
  <2> SUFFICES ASSUME Init PROVE ListInv
    OBVIOUS
  <2>1. Whole
    BY EmptyWhole DEF Init, Whole
  <2>2. \A t \in Threads : pc[t] = "idle"
    BY DEF Init
  <2> QED
    BY <2>1, <2>2 DEF ListInv, MoveInv
<1>2. CoreInv /\ ListInv /\ [Next]_vars => ListInv'
  BY NextList
<1> QED
  BY <1>1, <1>2, CoreInvariant, PTL DEF Spec

\* An ordering of a finite set, as the community module builds them.
LEMMA ListIsOrder ==
  ASSUME NEW M \in SUBSET Keys, NEW s \in Lists(M)
  PROVE  s \in SetToSeqs(M)
<1>1. /\ s \in Seq(Keys) /\ Len(s) \in Nat /\ \A i, j \in 1..Len(s) : s[i] = s[j] => i = j
      /\ {s[i] : i \in 1..Len(s)} = M
  BY DEF Lists
<1>2. s \in [1..Len(s) -> M]
  <2>1. DOMAIN s = 1..Len(s) /\ s \in [1..Len(s) -> Keys]
    BY <1>1, LenProperties
  <2> QED
    BY <1>1, <2>1
<1>3. s \in Bijection(1..Len(s), M)
  BY <1>1, <1>2 DEF Bijection, Injection, Surjection, IsInjective
<1>4. IsFiniteSet(1..Len(s)) /\ Cardinality(1..Len(s)) = Len(s)
  <2>1. 1 \in Int /\ Len(s) \in Int /\ (IF 1 > Len(s) THEN 0 ELSE Len(s) - 1 + 1) = Len(s)
    BY <1>1
  <2> QED
    BY <2>1, FS_Interval
<1>5. Cardinality(M) = Len(s)
  BY <1>3, <1>4, FS_Bijection DEF ExistsBijection
<1> QED
  BY <1>1, <1>2, <1>5 DEF SetToSeqs

\* With one loading thread the list and the map agree between any two calls: from
\* dummy to dummy the list holds the cached identifiers, each once, and back.
THEOREM ListIsTheMap ==
  ASSUME LoneReader
  PROVE  Spec => []ListMatchesMap
<1>1. CoreInv /\ ListInv => ListMatchesMap
  <2> SUFFICES ASSUME CoreInv, ListInv, ~Busy PROVE \E s \in SetToSeqs(mapping) : Linked(s)
    BY DEF ListMatchesMap
  <2>1. Quiet
    BY DEF Busy, Quiet, Rewriting, Hit
  <2>2. PICK s \in Lists(mapping) : Fwd(next, s) /\ Bwd(prev, s)
    BY <2>1 DEF ListInv, Whole
  <2>3. s \in SetToSeqs(mapping)
    BY <2>2, LinkTypes, ListIsOrder
  <2> QED
    BY <2>2, <2>3 DEF Fwd, Bwd, Linked
<1> QED
  BY <1>1, CoreInvariant, ListInvariant, PTL

\* What EvitOne asserts: a cache that holds anything has a first node, and the map
\* knows its identifier.
EvictionFinds == \A t \in Threads : pc[t] = "evict" /\ mapping # {} => next[Header] \in mapping

\* With one loading thread the assertions of EvitOne hold, so the eviction loop never
\* spins on a list that has lost its entries.
THEOREM EvictionAssertionsHold ==
  ASSUME LoneReader
  PROVE  Spec => []EvictionFinds
<1>1. CoreInv /\ ListInv => EvictionFinds
  <2> SUFFICES ASSUME CoreInv, ListInv, NEW t \in Threads, pc[t] = "evict", mapping # {}
               PROVE  next[Header] \in mapping
    BY DEF EvictionFinds
  <2>1. Quiet
    BY WriterAlone DEF Quiet, Rewriting, Hit
  <2>2. PICK s \in Lists(mapping) : Fwd(next, s) /\ Bwd(prev, s)
    BY <2>1 DEF ListInv, Whole
  <2>3. /\ Len(s) \in Nat /\ At(s, 0) = Header
        /\ \A i \in 1..Len(s) : At(s, i) = s[i] /\ s[i] \in mapping
        /\ \A x \in mapping : \E i \in 1..Len(s) : s[i] = x
    BY <2>2, LinkTypes, ListFacts
  <2>4. 1 \in 1..Len(s) /\ 0 \in 0..Len(s) /\ 0 + 1 = 1
    BY <2>3
  <2> QED
    BY <2>2, <2>3, <2>4 DEF Fwd
<1> QED
  BY <1>1, CoreInvariant, ListInvariant, PTL
-----------------------------------------------------------------------------
(* The list as Chain walks it.                                             *)

\* A list is no longer than there are identifiers.
LEMMA ListLength ==
  ASSUME NEW M \in SUBSET Keys, NEW s \in Lists(M)
  PROVE  Len(s) \in Nat /\ Cardinality(Keys) \in Nat /\ Len(s) <= Cardinality(Keys)
<1>1. /\ s \in Seq(Keys) /\ Len(s) \in Nat /\ \A i, j \in 1..Len(s) : s[i] = s[j] => i = j
  BY DEF Lists
<1>2. s \in [1..Len(s) -> Keys]
  BY <1>1, LenProperties
<1>3. s \in Injection(1..Len(s), Keys)
  BY <1>1, <1>2 DEF Injection, IsInjective
<1>4. Cardinality(1..Len(s)) <= Cardinality(Keys)
  BY <1>3, CacheAssumption, FS_Injection
<1>5. Cardinality(1..Len(s)) = Len(s)
  <2>1. 1 \in Int /\ Len(s) \in Int /\ (IF 1 > Len(s) THEN 0 ELSE Len(s) - 1 + 1) = Len(s)
    BY <1>1
  <2> QED
    BY <2>1, FS_Interval
<1>6. Cardinality(Keys) \in Nat
  BY CacheAssumption, FS_CardinalityType
<1> QED
  BY <1>1, <1>4, <1>5, <1>6

\* Walking along the links meets the entries of the list, in order, and ends there.
LEMMA ChainIs ==
  ASSUME NEW M \in SUBSET Keys, NEW s \in Lists(M), NEW nx, Fwd(nx, s)
  PROVE  Chain(nx, nx[Header]) = s
<1> DEFINE n == Cardinality(Keys)
           Rec(f) == [i \in 0..n |-> IF i = 0 THEN nx[Header]
                                     ELSE LET y == f[i - 1] IN IF y \in Keys THEN nx[y] ELSE y]
           at == CHOOSE f : f = Rec(f)
           w == [i \in 0..n |-> At(s, IF i < Len(s) THEN i + 1 ELSE Len(s) + 1)]
<1>1. Len(s) \in Nat /\ n \in Nat /\ Len(s) <= n
  BY ListLength
<1>2. Chain(nx, nx[Header]) = [i \in 1..Cardinality({j \in 0..n : at[j] \in Keys}) |-> at[i - 1]]
  BY Zenon DEF Chain
<1>3. /\ s \in Seq(Keys) /\ At(s, 0) = Header /\ At(s, Len(s) + 1) = Tailer
      /\ \A i \in 1..Len(s) : At(s, i) = s[i] /\ s[i] \in Keys
  BY ListFacts
<1>4. Tailer \notin Keys
  BY CacheAssumption
<1>5. nx[Header] = At(s, 1) /\ \A i \in 1..Len(s) : nx[s[i]] = At(s, i + 1)
  <2>1. 0 \in 0..Len(s) /\ 0 + 1 = 1 /\ \A i \in 1..Len(s) : i \in 0..Len(s)
    BY <1>1
  <2> QED
    BY <1>3, <2>1 DEF Fwd
<1> HIDE DEF n
<1>6. \A i \in 0..n : w[i] = IF i < Len(s) THEN s[i + 1] ELSE Tailer
  <2>1. \A i \in 0..n : i < Len(s) => i + 1 \in 1..Len(s)
    BY <1>1
  <2> QED
    BY <1>3, <2>1
<1>7. w[0] = nx[Header]
  <2>1. 0 \in 0..n /\ 0 + 1 = 1 /\ (~(0 < Len(s)) => Len(s) + 1 = 1)
    BY <1>1
  <2> QED
    BY <1>5, <2>1
<1>8. ASSUME NEW i \in 1..n PROVE w[i] = IF w[i - 1] \in Keys THEN nx[w[i - 1]] ELSE w[i - 1]
  <2>1. i - 1 \in 0..n /\ i \in 0..n /\ (i - 1) + 1 = i
    BY <1>1
  <2>2. CASE i <= Len(s)
    <3>1. w[i - 1] = s[i] /\ s[i] \in Keys /\ i \in 1..Len(s)
      BY <1>1, <1>3, <1>6, <2>1, <2>2
    <3>2. w[i] = At(s, i + 1)
      BY <1>1, <2>1, <2>2
    <3> HIDE DEF w
    <3> QED
      BY <1>5, <3>1, <3>2
  <2>3. CASE i > Len(s)
    <3>1. w[i - 1] = Tailer /\ w[i] = Tailer
      BY <1>1, <1>6, <2>1, <2>3
    <3> HIDE DEF w
    <3> QED
      BY <1>4, <3>1
  <2> QED
    BY <1>1, <2>2, <2>3
<1>9. w = Rec(w)
  <2>1. \A i \in 0..n : i = 0 \/ i \in 1..n
    BY <1>1
  <2>2. \A i \in 0..n : w[i] = Rec(w)[i]
    <3> HIDE DEF w
    <3> QED
      BY <1>7, <1>8, <2>1
  <2> QED
    BY <2>2, Zenon
<1>10. at = Rec(at)
  <2> HIDE DEF w
  <2> QED
    BY <1>9, Zenon
<1> HIDE DEF at, w
<1>11. \A i \in 0..n : at[i] = w[i]
  <2> DEFINE T == {i \in Nat : i \in 0..n => at[i] = w[i]}
  <2>1. 0 \in T
    BY <1>7, <1>10
  <2>2. ASSUME NEW i \in T PROVE i + 1 \in T
    <3> SUFFICES ASSUME i + 1 \in 0..n PROVE at[i + 1] = w[i + 1]
      OBVIOUS
    <3>1. i \in 0..n /\ i + 1 \in 1..n /\ (i + 1) - 1 = i /\ i + 1 # 0
      BY <1>1
    <3>2. at[i] = w[i]
      BY <3>1
    <3>3. at[i + 1] = IF at[i] \in Keys THEN nx[at[i]] ELSE at[i]
      BY <1>10, <3>1
    <3> QED
      BY <1>8, <3>1, <3>2, <3>3
  <2>3. T = Nat
    <3> HIDE DEF T
    <3>1. T \subseteq Nat
      BY DEF T
    <3> QED
      BY <2>1, <2>2, <3>1, SetInduction
  <2> QED
    BY <1>1, <2>3
<1>12. {j \in 0..n : at[j] \in Keys} = 0..(Len(s) - 1)
  <2>1. \A j \in 0..n : at[j] \in Keys <=> j < Len(s)
    <3>1. \A j \in 0..n : j < Len(s) => j + 1 \in 1..Len(s)
      BY <1>1
    <3> QED
      BY <1>3, <1>4, <1>6, <1>11, <3>1
  <2> QED
    BY <1>1, <2>1
<1>13. Cardinality(0..(Len(s) - 1)) = Len(s)
  <2>1. 0 \in Int /\ Len(s) - 1 \in Int /\ (IF 0 > Len(s) - 1 THEN 0 ELSE (Len(s) - 1) - 0 + 1) = Len(s)
    BY <1>1
  <2> QED
    BY <2>1, FS_Interval
<1>14. Chain(nx, nx[Header]) = [i \in 1..Len(s) |-> at[i - 1]]
  BY <1>2, <1>12, <1>13
<1>15. \A i \in 1..Len(s) : at[i - 1] = s[i]
  <2>1. \A i \in 1..Len(s) : i - 1 \in 0..n /\ i - 1 < Len(s) /\ (i - 1) + 1 = i
    BY <1>1
  <2> QED
    BY <1>6, <1>11, <2>1
<1>16. s = [i \in 1..Len(s) |-> s[i]]
  BY <1>3, LenProperties
<1> QED
  BY <1>14, <1>15, <1>16

-----------------------------------------------------------------------------
(* What Fit keeps, and taking entries out of a list.                       *)

\* The entries of s from position i on, and the positions from which on they leave room for n.
Since(s, i) == {s[j] : j \in i..Len(s)}
Starts(s, sz, n) == {i \in 1..(Len(s) + 1) : SumOver(sz, Since(s, i)) <= Capacity - n}

LEMMA MinIs ==
  ASSUME NEW S, S \subseteq Int, NEW m \in S, \A y \in S : m <= y
  PROVE  Min(S) = m
<1>1. Min(S) \in S /\ Min(S) <= m
  BY DEF Min
<1>2. m <= Min(S) /\ m \in Int /\ Min(S) \in Int
  BY <1>1
<1> QED
  BY <1>1, <1>2

LEMMA SuffixFacts ==
  ASSUME NEW s \in Seq(Keys), NEW i \in 1..(Len(s) + 1)
  PROVE  /\ SubSeq(s, i, Len(s)) \in Seq(Keys) /\ Len(SubSeq(s, i, Len(s))) = Len(s) - i + 1
         /\ \A j \in 1..(Len(s) - i + 1) : SubSeq(s, i, Len(s))[j] = s[i + j - 1]
         /\ ToSet(SubSeq(s, i, Len(s))) = Since(s, i)
<1> DEFINE u == SubSeq(s, i, Len(s))
<1>1. Len(s) \in Nat /\ i \in Int /\ \A j \in i..Len(s) : j \in 1..Len(s) /\ s[j] \in Keys
  BY LenProperties, ElementOfSeq
<1>2. u \in Seq(Keys) /\ Len(u) = Len(s) - i + 1 /\ \A j \in 1..(Len(s) - i + 1) : u[j] = s[i + j - 1]
  BY <1>1, SubSeqProperties
<1> HIDE DEF u
<1>3. DOMAIN u = 1..(Len(s) - i + 1)
  BY <1>2, LenProperties
<1>4. ToSet(u) = Since(s, i)
  <2>1. ASSUME NEW j \in DOMAIN u PROVE u[j] \in Since(s, i)
    <3>1. i + j - 1 \in i..Len(s)
      BY <1>1, <1>3
    <3> QED
      BY <1>2, <1>3, <3>1 DEF Since
  <2>2. ASSUME NEW j \in i..Len(s) PROVE \E m \in DOMAIN u : u[m] = s[j]
    <3>1. j - i + 1 \in DOMAIN u /\ i + (j - i + 1) - 1 = j
      BY <1>1, <1>3
    <3> QED
      BY <1>2, <1>3, <3>1
  <2> QED
    BY <2>1, <2>2 DEF ToSet, Since
<1> QED
  BY <1>2, <1>4 DEF u

\* Total is the sum over the entries.
LEMMA TotalIs ==
  ASSUME NEW s, NEW sz
  PROVE  L!Total(s, sz) = SumOver(sz, ToSet(s)) /\ Abstract!Total(s, sz) = SumOver(sz, ToSet(s))
BY Zenon DEF L!Total, Abstract!Total, SumOver, L!MapThenSumSet, L!MapThenFoldSet, Abstract!MapThenSumSet,
   Abstract!MapThenFoldSet, MapThenSumSet, MapThenFoldSet, L!ToSet, Abstract!ToSet, ToSet

LEMMA FitIs ==
  ASSUME NEW s \in Seq(Keys), NEW sz, NEW n
  PROVE  /\ L!Fit(s, sz, n) = SubSeq(s, Min(Starts(s, sz, n)), Len(s))
         /\ Abstract!Fit(s, sz, n) = SubSeq(s, Min(Starts(s, sz, n)), Len(s))
<1> DEFINE I == {i \in 1..Len(s) + 1 : L!Total(SubSeq(s, i, Len(s)), sz) <= Capacity - n}
           J == {i \in 1..Len(s) + 1 : Abstract!Total(SubSeq(s, i, Len(s)), sz) <= Capacity - n}
<1>1. \A i \in 1..Len(s) + 1 : /\ L!Total(SubSeq(s, i, Len(s)), sz) = SumOver(sz, Since(s, i))
                               /\ Abstract!Total(SubSeq(s, i, Len(s)), sz) = SumOver(sz, Since(s, i))
  BY TotalIs, SuffixFacts
<1>2. I = Starts(s, sz, n) /\ J = Starts(s, sz, n)
  BY <1>1 DEF Starts
<1>3. /\ L!Fit(s, sz, n) = SubSeq(s, L!Min(I), Len(s))
      /\ Abstract!Fit(s, sz, n) = SubSeq(s, Abstract!Min(J), Len(s))
  BY DEF L!Fit, Abstract!Fit
<1>4. L!Min(I) = Min(I) /\ Abstract!Min(J) = Min(J)
  BY DEF L!Min, Abstract!Min, Min
<1> QED
  BY <1>2, <1>3, <1>4

\* Something fits: with nothing left there is room.
LEMMA FitStarts ==
  ASSUME NEW s \in Seq(Keys), NEW sz, NEW n \in Nat, n <= Capacity
  PROVE  \E m \in Starts(s, sz, n) : /\ \A i \in Starts(s, sz, n) : m <= i
                                     /\ m \in 1..(Len(s) + 1) /\ Min(Starts(s, sz, n)) = m
<1> DEFINE I == Starts(s, sz, n)
<1>1. Len(s) \in Nat /\ Capacity \in Nat
  BY LenProperties, CacheAssumption
<1>2. Len(s) + 1 \in 1..(Len(s) + 1) /\ (Len(s) + 1)..Len(s) = {}
  BY <1>1
<1>3. Since(s, Len(s) + 1) = {}
  BY <1>2 DEF Since
<1>4. Len(s) + 1 \in I
  <2>1. SumOver(sz, Since(s, Len(s) + 1)) = 0
    BY <1>3, SumEmpty
  <2>2. 0 <= Capacity - n
    BY <1>1
  <2> QED
    BY <1>2, <2>1, <2>2 DEF Starts
<1>5. I \subseteq 1..(Len(s) + 1)
  BY DEF Starts
<1>6. I \subseteq Nat /\ I \subseteq Int
  BY <1>1, <1>5
<1> HIDE DEF I
<1>7. PICK m \in I : \A i \in I : m <= i
  BY <1>4, <1>6, LeastNat
<1> QED
  BY <1>5, <1>6, <1>7, MinIs DEF I

\* With room for n, everything stays.
LEMMA FitAll ==
  ASSUME NEW s \in Seq(Keys), NEW sz, NEW n, 1 \in Starts(s, sz, n)
  PROVE  L!Fit(s, sz, n) = s
<1>1. Starts(s, sz, n) \subseteq 1..(Len(s) + 1) /\ Len(s) \in Nat
  BY LenProperties DEF Starts
<1>2. \A i \in Starts(s, sz, n) : 1 <= i /\ i \in Int
  BY <1>1
<1>3. Min(Starts(s, sz, n)) = 1
  BY <1>2, MinIs
<1>4. SubSeq(s, 1, Len(s)) = s
  BY <1>1, SubSeqFull
<1> QED
  BY <1>3, <1>4, FitIs, Zenon

\* Sizes of the entries are all that counts.
LEMMA FitSame ==
  ASSUME NEW s \in Seq(Keys), NEW sz, NEW sz2, NEW n, \A i \in 1..Len(s) : sz[s[i]] = sz2[s[i]]
  PROVE  L!Fit(s, sz, n) = Abstract!Fit(s, sz2, n)
<1>1. ASSUME NEW i \in 1..(Len(s) + 1) PROVE SumOver(sz, Since(s, i)) = SumOver(sz2, Since(s, i))
  <2>1. Len(s) \in Nat /\ \A j \in i..Len(s) : j \in 1..Len(s)
    BY LenProperties
  <2>2. Since(s, i) \subseteq Keys
    BY <2>1, ElementOfSeq DEF Since
  <2>3. IsFiniteSet(Since(s, i))
    BY <2>2, CacheAssumption, FS_Subset
  <2>4. \A x \in Since(s, i) : sz[x] = sz2[x]
    BY <2>1 DEF Since
  <2> QED
    BY <2>3, <2>4, SumSame
<1>2. Starts(s, sz, n) = Starts(s, sz2, n)
  BY <1>1 DEF Starts
<1> QED
  BY <1>2, FitIs

\* Where there is no room for n, dropping the first entry does not change what fits.
LEMMA FitDrop ==
  ASSUME NEW M \in SUBSET Keys, NEW s \in Lists(M), 1 \in 1..Len(s), NEW sz, NEW sz2,
         NEW n \in Nat, n <= Capacity, 1 \notin Starts(s, sz, n),
         \A x \in Keys \ {s[1]} : sz[x] = sz2[x]
  PROVE  L!Fit(Cut(s, 1), sz2, n) = L!Fit(s, sz, n)
<1> DEFINE q == Cut(s, 1)
<1>1. /\ s \in Seq(Keys) /\ Len(s) \in Nat /\ \A i, j \in 1..Len(s) : s[i] = s[j] => i = j
      /\ \A i \in 1..Len(s) : s[i] \in Keys
  BY ElementOfSeq DEF Lists
<1>2. q \in Seq(Keys) /\ Len(q) = Len(s) - 1
  BY CutFacts DEF Lists
<1>3. \A j \in 1..Len(q) : q[j] = s[j + 1]
  <2>1. \A j \in 1..(Len(s) - 1) : ~(j < 1)
    BY <1>1
  <2> QED
    BY <1>2, <2>1 DEF Cut
<1> HIDE DEF q
<1>4. ASSUME NEW i \in 1..Len(s) PROVE Since(q, i) = Since(s, i + 1)
  <2>1. \A j \in i..Len(q) : j \in 1..Len(q) /\ j + 1 \in (i + 1)..Len(s)
    BY <1>1, <1>2
  <2>2. \A j \in (i + 1)..Len(s) : j - 1 \in i..Len(q) /\ (j - 1) + 1 = j
    BY <1>1, <1>2
  <2>3. ASSUME NEW j \in i..Len(q) PROVE q[j] \in Since(s, i + 1)
    BY <1>3, <2>1 DEF Since
  <2>4. ASSUME NEW j \in (i + 1)..Len(s) PROVE s[j] \in Since(q, i)
    <3>1. j - 1 \in 1..Len(q) /\ q[j - 1] = s[j]
      BY <1>3, <2>1, <2>2
    <3> QED
      BY <2>2, <3>1 DEF Since
  <2> QED
    BY <2>3, <2>4 DEF Since
<1>5. ASSUME NEW i \in 1..Len(s) PROVE i \in Starts(q, sz2, n) <=> i + 1 \in Starts(s, sz, n)
  <2>1. i \in 1..(Len(q) + 1) /\ i + 1 \in 1..(Len(s) + 1) /\ \A j \in (i + 1)..Len(s) : j \in 1..Len(s) /\ j # 1
    BY <1>1, <1>2
  <2>2. Since(s, i + 1) \subseteq Keys \ {s[1]}
    BY <1>1, <2>1 DEF Since
  <2>3. IsFiniteSet(Since(s, i + 1))
    BY <2>2, CacheAssumption, FS_Subset
  <2>4. SumOver(sz, Since(s, i + 1)) = SumOver(sz2, Since(s, i + 1))
    BY <2>2, <2>3, SumSame
  <2> QED
    BY <1>4, <2>1, <2>4 DEF Starts
<1>6. PICK m \in Starts(s, sz, n) : /\ \A i \in Starts(s, sz, n) : m <= i
                                    /\ m \in 1..(Len(s) + 1) /\ Min(Starts(s, sz, n)) = m
  BY <1>1, FitStarts
<1>7. m - 1 \in 1..Len(s) /\ (m - 1) + 1 = m
  BY <1>1, <1>6
<1>8. m - 1 \in Starts(q, sz2, n)
  BY <1>5, <1>6, <1>7
<1>9. Starts(q, sz2, n) \subseteq 1..Len(s)
  BY <1>1, <1>2 DEF Starts
<1>10. ASSUME NEW i \in Starts(q, sz2, n) PROVE m - 1 <= i
  <2>1. i \in 1..Len(s) /\ i + 1 \in Starts(s, sz, n)
    BY <1>5, <1>9
  <2> QED
    BY <1>1, <1>6, <2>1
<1>11. Min(Starts(q, sz2, n)) = m - 1
  <2>1. Starts(q, sz2, n) \subseteq Int
    BY <1>1, <1>9
  <2> QED
    BY <1>8, <1>10, <2>1, MinIs
<1>12. SubSeq(q, m - 1, Len(q)) = SubSeq(s, m, Len(s))
  <2> DEFINE a == SubSeq(q, m - 1, Len(q))
             b == SubSeq(s, m, Len(s))
  <2>1. m - 1 \in 1..(Len(q) + 1)
    BY <1>1, <1>2, <1>7
  <2>2. /\ a \in Seq(Keys) /\ Len(a) = Len(q) - (m - 1) + 1
        /\ \A j \in 1..(Len(q) - (m - 1) + 1) : a[j] = q[(m - 1) + j - 1]
    BY <1>2, <2>1, SuffixFacts
  <2>3. /\ b \in Seq(Keys) /\ Len(b) = Len(s) - m + 1
        /\ \A j \in 1..(Len(s) - m + 1) : b[j] = s[m + j - 1]
    BY <1>1, <1>6, SuffixFacts
  <2> HIDE DEF a, b
  <2>4. Len(a) = Len(b)
    BY <1>1, <1>2, <1>6, <2>2, <2>3
  <2>5. ASSUME NEW j \in 1..Len(a) PROVE a[j] = b[j]
    <3>1. /\ j \in 1..(Len(q) - (m - 1) + 1) /\ j \in 1..(Len(s) - m + 1)
          /\ (m - 1) + j - 1 \in 1..Len(q) /\ ((m - 1) + j - 1) + 1 = m + j - 1
      BY <1>1, <1>2, <1>6, <1>7, <2>2
    <3> QED
      BY <1>3, <2>2, <2>3, <3>1
  <2>6. a = b
    BY <2>2, <2>3, <2>4, <2>5, SeqEqual
  <2> QED
    BY <2>6 DEF a, b
<1>13. L!Fit(q, sz2, n) = L!Fit(s, sz, n)
  <2>1. L!Fit(q, sz2, n) = SubSeq(q, m - 1, Len(q))
    BY <1>2, <1>11, FitIs
  <2>2. L!Fit(s, sz, n) = SubSeq(s, m, Len(s))
    BY <1>1, <1>6, FitIs
  <2> QED
    BY <1>12, <2>1, <2>2
<1> QED
  BY <1>13 DEF q

\* What fits is among the entries.
LEMMA FitAmong ==
  ASSUME NEW s \in Seq(Keys), NEW sz, NEW n \in Nat, n <= Capacity
  PROVE  /\ L!Fit(s, sz, n) \in Seq(Keys)
         /\ ToSet(L!Fit(s, sz, n)) \subseteq ToSet(s)
<1>1. PICK m \in 1..(Len(s) + 1) : Min(Starts(s, sz, n)) = m
  BY FitStarts
<1>2. L!Fit(s, sz, n) = SubSeq(s, m, Len(s))
  BY <1>1, FitIs
<1>3. L!Fit(s, sz, n) \in Seq(Keys) /\ ToSet(L!Fit(s, sz, n)) = Since(s, m)
  BY <1>2, SuffixFacts
<1>4. Since(s, m) \subseteq ToSet(s)
  <2>1. DOMAIN s = 1..Len(s) /\ Len(s) \in Nat
    BY LenProperties
  <2>2. \A j \in m..Len(s) : j \in DOMAIN s
    BY <2>1
  <2> QED
    BY <2>2 DEF Since, ToSet
<1> QED
  BY <1>3, <1>4

\* Taking an entry out by its name is taking it out by its position.
LEMMA RemoveIs ==
  ASSUME NEW M \in SUBSET Keys, NEW s \in Lists(M), NEW i \in 1..Len(s)
  PROVE  RemoveFirst(s, s[i]) = Cut(s, i) /\ Abstract!RemoveFirst(s, s[i]) = Cut(s, i)
<1> DEFINE I == {j \in 1..Len(s) : s[j] = s[i]}
           a == SubSeq(s, 1, i - 1)
           b == SubSeq(s, i + 1, Len(s))
           q == Cut(s, i)
<1>1. /\ s \in Seq(Keys) /\ Len(s) \in Nat /\ \A j, m \in 1..Len(s) : s[j] = s[m] => j = m
  BY DEF Lists
<1>2. I = {i}
  BY <1>1
<1>3. Min(I) = i /\ Abstract!Min(I) = i
  <2>1. i \in Int /\ i <= i
    BY <1>1
  <2> HIDE DEF I
  <2> QED
    BY <1>2, <2>1 DEF Min, Abstract!Min
<1>4. RemoveFirst(s, s[i]) = a \o b /\ Abstract!RemoveFirst(s, s[i]) = a \o b
  <2>1. SelectInSeq(s, LAMBDA v : v = s[i]) = i
    BY <1>2, <1>3 DEF SelectInSeq
  <2>2. Abstract!SelectInSeq(s, LAMBDA v : v = s[i]) = i
    BY <1>2, <1>3 DEF Abstract!SelectInSeq
  <2>3. \E j \in 1..Len(s) : s[j] = s[i]
    OBVIOUS
  <2> QED
    BY <2>1, <2>2, <2>3 DEF RemoveFirst, RemoveAt, Abstract!RemoveFirst, Abstract!RemoveAt
<1>5. a \in Seq(Keys) /\ Len(a) = i - 1 /\ \A j \in 1..(i - 1) : a[j] = s[j]
  <2>1. \A j \in 1..(i - 1) : s[j] \in Keys
    BY <1>1, ElementOfSeq
  <2>2. 1 \in Int /\ i - 1 \in Int /\ ~(1 > (i - 1) + 1) /\ (i - 1) - 1 + 1 = i - 1
    BY <1>1
  <2>3. \A j \in 1..(i - 1) : 1 + j - 1 = j
    BY <1>1
  <2>4. a \in Seq(Keys) /\ Len(a) = i - 1
    BY <1>1, <2>1, <2>2, SubSeqProperties
  <2>5. ASSUME NEW j \in 1..(i - 1) PROVE a[j] = s[j]
    BY <1>1, <2>1, <2>2, <2>3, SubSeqProperties
  <2> QED
    BY <2>4, <2>5
<1>6. b \in Seq(Keys) /\ Len(b) = Len(s) - i /\ \A j \in 1..(Len(s) - i) : b[j] = s[i + j]
  <2>1. i + 1 \in 1..(Len(s) + 1) /\ Len(s) - (i + 1) + 1 = Len(s) - i
    BY <1>1
  <2>2. \A j \in 1..(Len(s) - i) : (i + 1) + j - 1 = i + j
    BY <1>1
  <2>3. /\ b \in Seq(Keys) /\ Len(b) = Len(s) - (i + 1) + 1
        /\ \A j \in 1..(Len(s) - (i + 1) + 1) : b[j] = s[(i + 1) + j - 1]
    BY <1>1, <2>1, SuffixFacts, Zenon
  <2> HIDE DEF b
  <2> QED
    BY <2>1, <2>2, <2>3
<1> HIDE DEF a, b
<1>7. q \in Seq(Keys) /\ Len(q) = Len(s) - 1
  BY CutFacts DEF Lists
<1>8. \A j \in 1..(Len(s) - 1) : q[j] = IF j < i THEN s[j] ELSE s[j + 1]
  BY DEF Cut
<1> HIDE DEF q
<1>9. /\ a \o b \in Seq(Keys) /\ Len(a \o b) = Len(s) - 1
      /\ \A j \in 1..(Len(s) - 1) : (a \o b)[j] = IF j <= i - 1 THEN a[j] ELSE b[j - (i - 1)]
  <2>1. Len(a) + Len(b) = Len(s) - 1
    BY <1>1, <1>5, <1>6
  <2>2. /\ a \o b \in Seq(Keys) /\ Len(a \o b) = Len(a) + Len(b)
        /\ \A j \in 1..(Len(a) + Len(b)) : (a \o b)[j] = IF j <= Len(a) THEN a[j] ELSE b[j - Len(a)]
    BY <1>5, <1>6, ConcatProperties
  <2> QED
    BY <1>5, <2>1, <2>2
<1>10. ASSUME NEW j \in 1..Len(a \o b) PROVE (a \o b)[j] = q[j]
  <2>1. j \in 1..(Len(s) - 1)
    BY <1>9
  <2>2. CASE j < i
    BY <1>1, <1>5, <1>8, <1>9, <2>1, <2>2
  <2>3. CASE ~(j < i)
    <3>1. ~(j <= i - 1) /\ j - (i - 1) \in 1..(Len(s) - i) /\ i + (j - (i - 1)) = j + 1
      BY <1>1, <2>1, <2>3
    <3> QED
      BY <1>6, <1>8, <1>9, <2>1, <2>3, <3>1
  <2> QED
    BY <2>2, <2>3
<1>11. a \o b = q
  BY <1>7, <1>9, <1>10, SeqEqual
<1> QED
  BY <1>4, <1>11 DEF q

LEMMA RemoveLast ==
  ASSUME NEW M \in SUBSET Keys, NEW q \in Lists(M), NEW k \in Keys, k \notin M
  PROVE  RemoveFirst(Append(q, k), k) = q /\ RemoveFirst(q, k) = q
<1> DEFINE s == Append(q, k)
<1>1. q \in Seq(Keys) /\ Len(q) \in Nat /\ \A i \in 1..Len(q) : q[i] \in M
  BY ListFacts
<1>2. s \in Lists(M \cup {k}) /\ Len(s) = Len(q) + 1 /\ M \cup {k} \in SUBSET Keys
  BY PutFacts
<1>3. s[Len(q) + 1] = k /\ \A i \in 1..Len(q) : s[i] = q[i]
  BY <1>1
<1> HIDE DEF s
<1>4. Len(s) \in 1..Len(s) /\ s[Len(s)] = k
  BY <1>1, <1>2, <1>3
<1>5. RemoveFirst(s, k) = Cut(s, Len(s))
  BY <1>2, <1>4, RemoveIs
<1>6. Cut(s, Len(s)) \in Seq(Keys) /\ Len(Cut(s, Len(s))) = Len(q)
  <2>1. Cut(s, Len(s)) \in Lists((M \cup {k}) \ {s[Len(s)]}) /\ Len(Cut(s, Len(s))) = Len(s) - 1
    BY <1>2, <1>4, CutFacts
  <2> QED
    BY <1>1, <1>2, <2>1 DEF Lists
<1>7. \A j \in 1..Len(q) : Cut(s, Len(s))[j] = q[j]
  BY <1>1, <1>2, <1>3 DEF Cut
<1>8. Cut(s, Len(s)) = q
  BY <1>1, <1>6, <1>7, SeqEqual
<1>9. RemoveFirst(q, k) = q
  <2>1. ~\E i \in 1..Len(q) : q[i] = k
    BY <1>1
  <2> QED
    BY <2>1 DEF RemoveFirst
<1> QED
  BY <1>5, <1>8, <1>9 DEF s

-----------------------------------------------------------------------------
(* What the refinement mapping shows.                                      *)

\* absOrder and absSize with one thread inside: at rest, in a move of t, after t's
\* insertion was admitted; and the same of the next state.
LEMMA OrderNow ==
  ASSUME NEW t
  PROVE  /\ Moving = {} /\ Admitted = {} => absOrder = Chain(next, next[Header])
         /\ Moving = {t} => absOrder = Append(RemoveFirst(Chain(next, next[Header]), key[t]), key[t])
         /\ Moving = {} /\ Admitted = {t} =>
              absOrder = Append(L!Fit(Chain(next, next[Header]), size, need[t]), key[t])
<1>1. (CHOOSE u \in {t} : TRUE) = t
  OBVIOUS
<1> QED
  BY <1>1 DEF absOrder, Forward

LEMMA OrderThen ==
  ASSUME NEW t
  PROVE  /\ Moving' = {} /\ Admitted' = {} => absOrder' = Chain(next', next'[Header])
         /\ Moving' = {t} => absOrder' = Append(RemoveFirst(Chain(next', next'[Header]), key'[t]), key'[t])
         /\ Moving' = {} /\ Admitted' = {t} =>
              absOrder' = Append(L!Fit(Chain(next', next'[Header]), size', need'[t]), key'[t])
<1>1. (CHOOSE u \in {t} : TRUE) = t
  OBVIOUS
<1> QED
  BY <1>1 DEF absOrder, Forward

\* The sizes sz, with 0 for what o does not list.
Of(o, sz) == [k \in Keys |-> IF k \in ToSet(o) THEN sz[k] ELSE 0]

LEMMA SizeNow ==
  ASSUME NEW t
  PROVE  /\ Admitted = {} => absSize = Of(absOrder, size)
         /\ Admitted = {t} => absSize = Of(absOrder, [size EXCEPT ![key[t]] = need[t]])
<1>1. (CHOOSE u \in {t} : TRUE) = t
  OBVIOUS
<1> QED
  BY <1>1 DEF absSize, Of

LEMMA SizeThen ==
  ASSUME NEW t
  PROVE  /\ Admitted' = {} => absSize' = Of(absOrder', size')
         /\ Admitted' = {t} => absSize' = Of(absOrder', [size' EXCEPT ![key'[t]] = need'[t]])
<1>1. (CHOOSE u \in {t} : TRUE) = t
  OBVIOUS
<1> QED
  BY <1>1 DEF absSize, Of

\* A move, at each of its stages: the node is out of the list or at its end.
LEMMA MoveOrder ==
  ASSUME NEW M \in SUBSET Keys, NEW q \in Lists(M), NEW nx, NEW k \in Keys, k \notin M,
         Fwd(nx, q) \/ Fwd(nx, Append(q, k))
  PROVE  RemoveFirst(Chain(nx, nx[Header]), k) = q
<1>1. CASE Fwd(nx, q)
  BY <1>1, ChainIs, RemoveLast
<1>2. CASE Fwd(nx, Append(q, k))
  <2>1. M \cup {k} \in SUBSET Keys /\ Append(q, k) \in Lists(M \cup {k})
    BY PutFacts
  <2> QED
    BY <1>2, <2>1, ChainIs, RemoveLast
<1> QED
  BY <1>1, <1>2

\* The entries of a list, with and without a new one.
LEMMA ListSet ==
  ASSUME NEW M \in SUBSET Keys, NEW s \in Lists(M)
  PROVE  ToSet(s) = M
<1>1. DOMAIN s = 1..Len(s)
  BY LenProperties DEF Lists
<1> QED
  BY <1>1 DEF Lists, ToSet

LEMMA AppendSet ==
  ASSUME NEW s \in Seq(Keys), NEW k \in Keys
  PROVE  ToSet(Append(s, k)) = ToSet(s) \cup {k}
<1> DEFINE q == Append(s, k)
<1>1. Len(s) \in Nat /\ DOMAIN s = 1..Len(s)
  BY LenProperties
<1>2. /\ q \in Seq(Keys) /\ Len(q) = Len(s) + 1 /\ q[Len(s) + 1] = k /\ DOMAIN q = 1..(Len(s) + 1)
      /\ \A j \in 1..Len(s) : q[j] = s[j]
  BY <1>1
<1> HIDE DEF q
<1>3. \A j \in DOMAIN q : j \in DOMAIN s \/ j = Len(s) + 1
  BY <1>1, <1>2
<1>4. (\A j \in DOMAIN s : j \in DOMAIN q) /\ Len(s) + 1 \in DOMAIN q
  BY <1>1, <1>2
<1> QED
  BY <1>1, <1>2, <1>3, <1>4 DEF ToSet, q

\* Who is inside, for the places p of the threads.
Moves == {"unlinkPrev", "readTail", "setOwn", "linkLast", "linkTail"}
MovingIn(p) == {t \in Threads : p[t] \in Moves}
AdmittedIn(p) == {t \in Threads : p[t] = "evict"}

LEMMA Inside ==
  /\ Moving = MovingIn(pc) /\ Moving' = MovingIn(pc')
  /\ Admitted = AdmittedIn(pc) /\ Admitted' = AdmittedIn(pc')
BY DEF Moving, MovingIn, Moves, Admitted, AdmittedIn

LEMMA Lone ==
  ASSUME NEW p, NEW t \in Threads, \A u \in Threads \ {t} : p[u] = "idle"
  PROVE  /\ MovingIn(p) = IF p[t] \in Moves THEN {t} ELSE {}
         /\ AdmittedIn(p) = IF p[t] = "evict" THEN {t} ELSE {}
BY DEF MovingIn, Moves, AdmittedIn

\* A step of the only thread inside the cache, from one of its places to another.
LEMMA LoneStep ==
  ASSUME NEW t \in Threads, NEW to, CoreInv, \A u \in Threads \ {t} : pc[u] = "idle",
         pc' = [pc EXCEPT ![t] = to]
  PROVE  /\ Moving = (IF pc[t] \in Moves THEN {t} ELSE {}) /\ Moving' = (IF to \in Moves THEN {t} ELSE {})
         /\ Admitted = (IF pc[t] = "evict" THEN {t} ELSE {}) /\ Admitted' = (IF to = "evict" THEN {t} ELSE {})
<1>1. pc'[t] = to /\ \A u \in Threads \ {t} : pc'[u] = "idle"
  BY DEF CoreInv, TypeInv
<1> QED
  BY <1>1, Inside, Lone

\* A step that neither changes the list nor begins or ends a move or an admission.
LEMMA PlainStep ==
  ASSUME NEW t \in Threads, NEW to, CoreInv, \A u \in Threads \ {t} : pc[u] = "idle",
         pc' = [pc EXCEPT ![t] = to], {pc[t], to} \cap (Moves \cup {"evict"}) = {},
         UNCHANGED <<next, size>>
  PROVE  UNCHANGED <<absOrder, absSize>>
<1>1. Moving = {} /\ Moving' = {} /\ Admitted = {} /\ Admitted' = {}
  BY LoneStep
<1>2. absOrder' = absOrder
  BY <1>1, OrderNow, OrderThen
<1>3. absSize' = absSize
  BY <1>1, <1>2, SizeNow, SizeThen
<1> QED
  BY <1>2, <1>3

\* A step in the middle of a move.
LEMMA MoveStep ==
  ASSUME NEW t \in Threads, NEW to \in Moves, CoreInv, \A u \in Threads \ {t} : pc[u] = "idle",
         pc' = [pc EXCEPT ![t] = to], pc[t] \in Moves, key[t] \in mapping, UNCHANGED <<key, size>>,
         NEW q \in Lists(mapping \ {key[t]}), Fwd(next, q) \/ Fwd(next, Append(q, key[t])),
         Fwd(next', q) \/ Fwd(next', Append(q, key[t]))
  PROVE  UNCHANGED <<absOrder, absSize>>
<1>1. Moving = {t} /\ Moving' = {t} /\ Admitted = {} /\ Admitted' = {}
  BY LoneStep DEF Moves
<1> DEFINE M == mapping \ {key[t]}
           k == key[t]
<1>2. M \in SUBSET Keys /\ q \in Lists(M) /\ k \in Keys /\ k \notin M
  BY LinkTypes
<1>3. absOrder = Append(q, k)
  <2>1. RemoveFirst(Chain(next, next[Header]), k) = q
    BY <1>2, MoveOrder
  <2> QED
    BY <1>1, <2>1, OrderNow
<1>4. absOrder' = Append(q, k)
  <2>1. RemoveFirst(Chain(next', next'[Header]), k) = q
    BY <1>2, MoveOrder
  <2> QED
    BY <1>1, <2>1, OrderThen
<1>5. absSize' = absSize
  BY <1>1, <1>3, <1>4, SizeNow, SizeThen
<1> QED
  BY <1>3, <1>4, <1>5

-----------------------------------------------------------------------------
(* Step by step.                                                           *)

\* Whoever takes a step, nobody else is inside.
LEMMA OthersIdle ==
  ASSUME LoneReader, CoreInv, NEW t \in Threads,
         \/ Load(t) \/ Insert(t)
         \/ \E k \in Keys : LoadLock(t, k) \/ \E n \in Sizes : InsertLock(t, k, n)
  PROVE  \A u \in Threads \ {t} : pc[u] = "idle"
<1>1. CASE Load(t)
  <2>1. pc[t] \in {"find"} \cup Hit
    BY <1>1 DEF Load, LoadMiss, LoadHit, UnlinkNext, UnlinkPrev, ReadTail, SetOwn, LinkLast, LinkTail,
                LoadUnlock, Return, Goto, Hit
  <2> QED
    BY <2>1, ReaderAlone
<1>2. CASE Insert(t)
  <2>1. pc[t] \in {"check", "evict"}
    BY <1>2 DEF Insert, InsertReject, InsertAdmit, EvitOne, InsertAppend, Return, Goto
  <2> QED
    BY <2>1, WriterAlone
<1>3. CASE \E k \in Keys : LoadLock(t, k) \/ \E n \in Sizes : InsertLock(t, k, n)
  <2>1. writer = None /\ pc[t] = "idle" /\ (t \in Readers \/ readers = {})
    BY <1>3 DEF LoadLock, InsertLock, Goto
  <2>2. ASSUME NEW u \in Threads, pc[u] \in {"find"} \cup Hit PROVE FALSE
    <3>1. u \in readers /\ u \in Readers
      BY <2>2 DEF CoreInv, LatchInv
    <3>2. u = t
      BY <2>1, <3>1 DEF LoneReader
    <3> QED
      BY <2>1, <2>2, <3>2 DEF Hit
  <2>3. \A u \in Threads : pc[u] \notin {"check", "evict"}
    BY <2>1, CacheAssumption DEF CoreInv, LatchInv
  <2> QED
    BY <2>2, <2>3 DEF CoreInv, TypeInv
<1> QED
  BY <1>1, <1>2, <1>3

\* Taking and releasing the lock, finding the node and being refused show nothing.
LEMMA Unseen ==
  ASSUME LoneReader, CoreInv, NEW t \in Threads,
         \/ LoadMiss(t) \/ LoadHit(t) \/ LoadUnlock(t) \/ InsertReject(t)
         \/ \E k \in Keys : LoadLock(t, k) \/ \E n \in Sizes : InsertLock(t, k, n)
  PROVE  UNCHANGED <<absOrder, absSize>>
<1>1. \A u \in Threads \ {t} : pc[u] = "idle"
  BY OthersIdle DEF Load, Insert
<1>2. UNCHANGED <<next, size>>
  BY DEF LoadMiss, LoadHit, LoadUnlock, InsertReject, LoadLock, InsertLock, listVars
<1>3. PICK to \in {"idle", "find", "check", "unlinkNext"} : pc' = [pc EXCEPT ![t] = to]
  BY DEF LoadMiss, LoadHit, LoadUnlock, InsertReject, LoadLock, InsertLock, Return, Goto
<1>4. pc[t] \in {"idle", "find", "check", "unlock"}
  BY DEF LoadMiss, LoadHit, LoadUnlock, InsertReject, LoadLock, InsertLock, Return, Goto
<1>5. {pc[t], to} \cap (Moves \cup {"evict"}) = {}
  BY <1>3, <1>4 DEF Moves
<1> QED
  BY <1>1, <1>2, <1>3, <1>5, PlainStep

\* The first write of a hit makes its entry the most recent one.
LEMMA UnlinkNextLoads ==
  ASSUME LoneReader, CoreInv, ListInv, NEW t \in Threads, UnlinkNext(t)
  PROVE  Abstract!Load(key[t])
<1> DEFINE k == key[t]
<1>1. /\ pc[t] = "unlinkNext" /\ pc' = [pc EXCEPT ![t] = "unlinkPrev"]
      /\ next' = [next EXCEPT ![pre[t]] = nxt[t]] /\ UNCHANGED <<mapping, size, key>>
  BY DEF UnlinkNext, Goto, argVars
<1>2. PICK s \in Lists(mapping) :
        /\ Fwd(next, s) /\ Bwd(prev, s)
        /\ \E i \in 1..Len(s) : s[i] = k /\ pre[t] = At(s, i - 1) /\ nxt[t] = At(s, i + 1)
  BY <1>1 DEF ListInv, MoveInv
<1>3. PICK i \in 1..Len(s) : s[i] = k /\ pre[t] = At(s, i - 1) /\ nxt[t] = At(s, i + 1)
  BY <1>2
<1>4. mapping \in SUBSET Keys /\ next \in Links /\ prev \in Links
  BY LinkTypes
<1>5. k \in mapping /\ k \in Keys
  BY <1>1, <1>4 DEF CoreInv, CallInv, Hit
<1> DEFINE q == Cut(s, i)
           M == mapping \ {k}
<1>6. Fwd(next', q)
  BY <1>1, <1>2, <1>3, <1>4, UnlinkForward
<1>7. q \in Lists(M) /\ M \in SUBSET Keys /\ k \notin M
  BY <1>3, <1>4, CutFacts
<1>8. Moving = {} /\ Admitted = {} /\ Moving' = {t} /\ Admitted' = {}
  <2>1. \A u \in Threads \ {t} : pc[u] = "idle"
    BY OthersIdle DEF Load
  <2> QED
    BY <1>1, <2>1, LoneStep DEF Moves
<1>9. absOrder = s
  <2>1. Chain(next, next[Header]) = s
    BY <1>2, <1>4, ChainIs
  <2> QED
    BY <1>8, <2>1, OrderNow
<1>10. absOrder' = Append(q, k)
  <2>1. RemoveFirst(Chain(next', next'[Header]), k) = q
    BY <1>5, <1>6, <1>7, MoveOrder
  <2> QED
    BY <1>1, <1>8, <2>1, OrderThen
<1>11. ToSet(s) = mapping /\ ToSet(Append(q, k)) = mapping
  <2>1. Append(q, k) \in Lists(M \cup {k}) /\ M \cup {k} = mapping
    BY <1>5, <1>7, PutFacts
  <2> QED
    BY <1>2, <1>4, <2>1, ListSet
<1>12. Abstract!RemoveFirst(s, k) = q
  BY <1>2, <1>3, <1>4, RemoveIs
<1> HIDE DEF q
<1>13. absSize' = absSize
  BY <1>1, <1>8, <1>9, <1>10, <1>11, SizeNow, SizeThen DEF Of
<1>14. k \in Abstract!ToSet(absOrder)
  BY <1>5, <1>9, <1>11 DEF Abstract!ToSet, ToSet
<1> QED
  BY <1>9, <1>10, <1>12, <1>13, <1>14 DEF Abstract!Load

\* The other writes of a hit show nothing.
LEMMA MoveUnseen ==
  ASSUME LoneReader, CoreInv, ListInv, NEW t \in Threads,
         UnlinkPrev(t) \/ ReadTail(t) \/ SetOwn(t) \/ LinkLast(t)
  PROVE  UNCHANGED <<absOrder, absSize>>
<1> DEFINE k == key[t]
           M == mapping \ {k}
<1>1. \A u \in Threads \ {t} : pc[u] = "idle"
  BY OthersIdle DEF Load
<1>2. pc[t] \in Moves /\ pc[t] # "linkTail" /\ UNCHANGED <<key, size>>
  BY DEF UnlinkPrev, ReadTail, SetOwn, LinkLast, Goto, Moves, argVars, listVars
<1>3. PICK to \in Moves : pc' = [pc EXCEPT ![t] = to]
  BY DEF UnlinkPrev, ReadTail, SetOwn, LinkLast, Goto, Moves
<1>4. next \in Links /\ M \in SUBSET Keys /\ k \notin M
  BY LinkTypes
<1>5. k \in mapping /\ k \in Keys
  BY <1>2 DEF CoreInv, CallInv, Hit, Moves
<1>6. PICK q \in Lists(M) : Fwd(next, q) /\ (pc[t] = "linkLast" => Bwd(prev, q))
  <2>1. pc[t] \in {"unlinkPrev", "readTail", "setOwn", "linkLast"}
    BY <1>2 DEF Moves
  <2>2. MoveInv(t)
    BY DEF ListInv
  <2>3. CASE pc[t] = "unlinkPrev"
    BY <2>2, <2>3 DEF MoveInv
  <2>4. CASE pc[t] \in {"readTail", "setOwn", "linkLast"}
    BY <2>2, <2>4 DEF MoveInv
  <2> QED
    BY <2>1, <2>3, <2>4
<1>7. Fwd(next', q) \/ Fwd(next', Append(q, k))
  <2>1. CASE UnlinkPrev(t) \/ ReadTail(t)
    <3>1. next' = next
      BY <2>1 DEF UnlinkPrev, ReadTail, listVars
    <3> QED
      BY <1>6, <3>1
  <2>2. CASE SetOwn(t)
    <3>1. next' = [next EXCEPT ![k] = Tailer]
      BY <2>2 DEF SetOwn
    <3> HIDE DEF k, M
    <3> QED
      BY <1>4, <1>5, <1>6, <3>1, WriteOutside
  <2>3. CASE LinkLast(t)
    <3>1. next' = [next EXCEPT ![pre[t]] = k] /\ pc[t] = "linkLast"
      BY <2>3 DEF LinkLast, Goto
    <3>2. pre[t] = prev[Tailer] /\ next[k] = Tailer
      BY <3>1 DEF ListInv, MoveInv
    <3> HIDE DEF k, M
    <3>3. pre[t] = At(q, Len(q))
      BY <1>4, <1>6, <3>1, <3>2, LastIs
    <3> QED
      BY <1>4, <1>5, <1>6, <3>1, <3>2, <3>3, LinkForward
  <2> QED
    BY <2>1, <2>2, <2>3
<1> QED
  BY <1>1, <1>2, <1>3, <1>5, <1>6, <1>7, MoveStep

\* So does the last one, after which the entry is where it was shown to be.
LEMMA LinkTailUnseen ==
  ASSUME LoneReader, CoreInv, ListInv, NEW t \in Threads, LinkTail(t)
  PROVE  UNCHANGED <<absOrder, absSize>>
<1> DEFINE k == key[t]
           M == mapping \ {k}
<1>1. pc[t] = "linkTail" /\ pc' = [pc EXCEPT ![t] = "unlock"] /\ UNCHANGED <<next, size, key>>
  BY DEF LinkTail, Goto, argVars
<1>2. Moving = {t} /\ Moving' = {} /\ Admitted = {} /\ Admitted' = {}
  <2>1. \A u \in Threads \ {t} : pc[u] = "idle"
    BY OthersIdle DEF Load
  <2>2. pc[t] \in Moves /\ pc[t] # "evict" /\ "unlock" \notin Moves /\ "unlock" # "evict"
    BY <1>1 DEF Moves
  <2> QED
    BY <1>1, <2>1, <2>2, LoneStep
<1>3. PICK q \in Lists(M) : Fwd(next, Append(q, k))
  BY <1>1 DEF ListInv, MoveInv
<1>4. M \in SUBSET Keys /\ k \notin M /\ k \in Keys
  BY <1>1, LinkTypes DEF CoreInv, CallInv, Hit
<1>5. absOrder = Append(q, k)
  <2>1. RemoveFirst(Chain(next, next[Header]), k) = q
    BY <1>3, <1>4, MoveOrder
  <2> QED
    BY <1>2, <2>1, OrderNow
<1>6. absOrder' = Append(q, k)
  <2>1. Append(q, k) \in Lists(M \cup {k}) /\ M \cup {k} \in SUBSET Keys
    BY <1>3, <1>4, PutFacts
  <2>2. Chain(next', next'[Header]) = Append(q, k)
    BY <1>1, <1>3, <2>1, ChainIs
  <2> QED
    BY <1>2, <2>2, OrderThen
<1>7. absSize' = absSize
  BY <1>1, <1>2, <1>5, <1>6, SizeNow, SizeThen
<1> QED
  BY <1>5, <1>6, <1>7

\* The list while nobody rewrites it.
LEMMA WriterList ==
  ASSUME CoreInv, ListInv, NEW t \in Threads, pc[t] \in {"check", "evict"}
  PROVE  \E s \in Lists(mapping) : Fwd(next, s) /\ Bwd(prev, s) /\ Chain(next, next[Header]) = s
<1>1. Quiet
  BY WriterAlone DEF Quiet, Rewriting, Hit
<1>2. PICK s \in Lists(mapping) : Fwd(next, s) /\ Bwd(prev, s)
  BY <1>1 DEF ListInv, Whole
<1> QED
  BY <1>2, LinkTypes, ChainIs

\* What an admitted insertion asks for fits the cache.
LEMMA AdmittedFits ==
  ASSUME Small, CoreInv, NEW t \in Threads, pc[t] = "evict"
  PROVE  /\ key[t] \in Keys /\ key[t] \notin mapping /\ need[t] \in Sizes
         /\ need[t] \in Nat /\ ToInt(need[t]) = need[t] /\ need[t] <= Capacity
<1>1. key[t] \in Keys /\ key[t] \notin mapping /\ need[t] \in Sizes /\ ToInt(need[t]) <= Capacity
  BY DEF CoreInv, CallInv
<1>2. need[t] \in 0..IntMax
  BY <1>1 DEF Small
<1>3. ToInt(need[t]) = need[t]
  BY <1>2, ToIntSmall
<1> QED
  BY <1>1, <1>2, <1>3

\* The test for room is the abstract cache's.
LEMMA RoomIs ==
  ASSUME CoreInv, Account, NEW s \in Lists(mapping), NEW n \in Nat
  PROVE  1 \in Starts(s, size, n) <=> ~(Capacity - currentSize < n)
<1>1. s \in Seq(Keys) /\ Len(s) \in Nat /\ {s[i] : i \in 1..Len(s)} = mapping
  BY DEF Lists
<1>2. Since(s, 1) = mapping /\ 1 \in 1..(Len(s) + 1)
  BY <1>1 DEF Since
<1>3. SumOver(size, Since(s, 1)) = currentSize
  BY <1>2 DEF Account
<1>4. currentSize \in Int /\ Capacity \in Int
  BY CacheAssumption DEF Account
<1>5. 1 \in Starts(s, size, n) <=> currentSize <= Capacity - n
  BY <1>2, <1>3 DEF Starts
<1> QED
  BY <1>4, <1>5

\* The admission is where the abstract insertion happens: what has to go is settled.
LEMMA AdmitInserts ==
  ASSUME Small, LoneReader, CoreInv, ListInv, NEW t \in Threads, InsertAdmit(t)
  PROVE  Abstract!Insert(key[t], need[t])
<1> DEFINE k == key[t]
           n == need[t]
<1>1. /\ pc[t] = "check" /\ pc' = [pc EXCEPT ![t] = "evict"]
      /\ UNCHANGED <<next, prev, mapping, size, key, need>>
  BY DEF InsertAdmit, Goto, listVars, argVars
<1>2. Moving = {} /\ Admitted = {} /\ Moving' = {} /\ Admitted' = {t}
  <2>1. \A u \in Threads \ {t} : pc[u] = "idle"
    BY OthersIdle DEF Insert
  <2>2. "evict" \notin Moves /\ pc[t] \notin Moves /\ pc[t] # "evict"
    BY <1>1 DEF Moves
  <2> QED
    BY <1>1, <2>1, <2>2, LoneStep
<1>3. PICK s \in Lists(mapping) : Chain(next, next[Header]) = s
  BY <1>1, WriterList
<1>4. /\ k \in Keys /\ k \notin mapping /\ n \in Sizes /\ n \in Nat /\ n <= Capacity
  <2>1. k \in Keys /\ n \in Sizes
    BY <1>1 DEF CoreInv, CallInv
  <2>2. ~(k \in mapping \/ ToInt(n) > Capacity)
    BY DEF InsertAdmit, Rejected
  <2>3. n \in 0..IntMax
    BY <2>1 DEF Small
  <2>4. ToInt(n) = n
    BY <2>3, ToIntSmall
  <2> QED
    BY <2>1, <2>2, <2>3, <2>4, CacheAssumption
<1>5. mapping \in SUBSET Keys /\ s \in Seq(Keys) /\ ToSet(s) = mapping
  BY <1>3, LinkTypes, ListSet DEF Lists
<1> DEFINE f == L!Fit(s, size, n)
<1>6. absOrder = s
  BY <1>2, <1>3, OrderNow
<1>7. absOrder' = Append(f, k)
  BY <1>1, <1>2, <1>3, OrderThen
<1>8. absSize = Of(s, size)
  BY <1>2, <1>6, SizeNow
<1>9. absSize' = Of(Append(f, k), [size EXCEPT ![k] = n])
  BY <1>1, <1>2, <1>7, SizeThen
<1>10. f = Abstract!Fit(s, absSize, n)
  <2>1. \A i \in 1..Len(s) : s[i] \in ToSet(s) /\ s[i] \in Keys
    BY <1>5, LenProperties, ElementOfSeq DEF ToSet
  <2>2. \A i \in 1..Len(s) : size[s[i]] = absSize[s[i]]
    BY <1>8, <2>1 DEF Of
  <2> QED
    BY <1>5, <2>2, FitSame
<1>11. f \in Seq(Keys) /\ ToSet(f) \subseteq mapping
  BY <1>4, <1>5, FitAmong
<1> HIDE DEF f
<1>12. ToSet(Append(f, k)) = ToSet(f) \cup {k}
  BY <1>4, <1>11, AppendSet
<1>13. Abstract!ToSet(s) = mapping /\ Abstract!ToSet(f) = ToSet(f)
  BY <1>5 DEF Abstract!ToSet, ToSet
<1>14. absSize' = [x \in Keys |-> CASE x = k -> n
                                 [] x \in Abstract!ToSet(f) -> absSize[x]
                                 [] OTHER -> 0]
  <2> DEFINE z == [size EXCEPT ![k] = n]
             r == [x \in Keys |-> CASE x = k -> n [] x \in Abstract!ToSet(f) -> absSize[x] [] OTHER -> 0]
  <2>1. \A x \in Keys : z[x] = IF x = k THEN n ELSE size[x]
    BY DEF CoreInv, TypeInv
  <2>2. ASSUME NEW x \in Keys PROVE Of(Append(f, k), z)[x] = r[x]
    <3>1. CASE x = k
      <4>1. z[x] = n /\ x \in ToSet(Append(f, k))
        BY <1>12, <2>1, <3>1
      <4>2. Of(Append(f, k), z)[x] = z[x]
        BY <4>1 DEF Of
      <4>3. r[x] = n
        BY <1>4, <1>11, <1>13, <3>1
      <4> QED
        BY <4>1, <4>2, <4>3
    <3>2. CASE x # k /\ x \in ToSet(f)
      <4>1. absSize[x] = size[x]
        BY <1>5, <1>8, <1>11, <3>2 DEF Of
      <4> QED
        BY <1>12, <1>13, <2>1, <3>2, <4>1 DEF Of
    <3>3. CASE x # k /\ x \notin ToSet(f)
      BY <1>12, <1>13, <2>1, <3>3 DEF Of
    <3> QED
      BY <3>1, <3>2, <3>3
  <2> QED
    BY <1>9, <2>2 DEF Of
<1> QED
  BY <1>4, <1>6, <1>7, <1>10, <1>13, <1>14 DEF Abstract!Insert

\* Evicting one entry after the other shows nothing.
LEMMA EvitOneUnseen ==
  ASSUME Small, LoneReader, CoreInv, Account, ListInv, NEW t \in Threads, EvitOne(t)
  PROVE  UNCHANGED <<absOrder, absSize>>
<1> DEFINE k == key[t]
           n == need[t]
           e == next[Header]
<1>1. /\ pc[t] = "evict" /\ MustEvict(t) /\ mapping' = mapping \ {e} /\ size' = [size EXCEPT ![e] = 0]
      /\ e \in mapping /\ UNCHANGED <<pc, key, need>>
  BY DEF EvitOne, argVars
<1>2. Moving = {} /\ Moving' = {} /\ Admitted = {t} /\ Admitted' = {t}
  <2>1. \A u \in Threads \ {t} : pc[u] = "idle"
    BY OthersIdle DEF Insert
  <2>2. pc[t] \notin Moves
    BY <1>1 DEF Moves
  <2> QED
    BY <1>1, <2>1, <2>2, Inside, Lone
<1>3. PICK s \in Lists(mapping) : Fwd(next, s) /\ Bwd(prev, s) /\ Chain(next, next[Header]) = s
  BY <1>1, WriterList
<1>4. /\ 1 \in 1..Len(s) /\ s[1] = e /\ Cut(s, 1) \in Lists(mapping \ {e}) /\ Fwd(next', Cut(s, 1))
  BY <1>1, <1>3, EvitOneLinks
<1>5. mapping \in SUBSET Keys /\ mapping \ {e} \in SUBSET Keys /\ Cut(s, 1) \in Seq(Keys)
  BY <1>4, LinkTypes DEF Lists
<1>6. k \in Keys /\ k \notin mapping /\ n \in Nat /\ ToInt(n) = n /\ n <= Capacity
  BY <1>1, AdmittedFits
<1>7. 1 \notin Starts(s, size, n)
  <2>1. Capacity - currentSize < n
    BY <1>1, <1>6 DEF MustEvict
  <2> QED
    BY <1>3, <1>6, <2>1, RoomIs
<1>8. \A x \in Keys \ {s[1]} : size[x] = size'[x]
  BY <1>1, <1>4 DEF CoreInv, TypeInv
<1> DEFINE f == L!Fit(Cut(s, 1), size', n)
<1>9. f = L!Fit(s, size, n)
  BY <1>3, <1>4, <1>5, <1>6, <1>7, <1>8, FitDrop
<1>10. absOrder = Append(f, k)
  BY <1>2, <1>3, <1>9, OrderNow
<1>11. absOrder' = Append(f, k)
  <2>1. Chain(next', next'[Header]) = Cut(s, 1)
    BY <1>4, <1>5, ChainIs
  <2> QED
    BY <1>1, <1>2, <2>1, OrderThen
<1>12. f \in Seq(Keys) /\ ToSet(f) \subseteq mapping \ {e}
  <2>1. f \in Seq(Keys) /\ ToSet(f) \subseteq ToSet(Cut(s, 1))
    BY <1>5, <1>6, FitAmong
  <2>2. ToSet(Cut(s, 1)) = mapping \ {e}
    BY <1>4, <1>5, ListSet
  <2> QED
    BY <2>1, <2>2
<1> HIDE DEF f
<1>13. ToSet(Append(f, k)) = ToSet(f) \cup {k}
  BY <1>6, <1>12, AppendSet
<1>14. \A x \in ToSet(Append(f, k)) : [size EXCEPT ![k] = n][x] = [size' EXCEPT ![k] = n][x]
  BY <1>1, <1>4, <1>5, <1>6, <1>8, <1>12, <1>13 DEF CoreInv, TypeInv
<1>15. absSize = Of(Append(f, k), [size EXCEPT ![k] = n])
  BY <1>2, <1>10, SizeNow
<1>16. absSize' = Of(Append(f, k), [size' EXCEPT ![k] = n])
  BY <1>1, <1>2, <1>11, SizeThen
<1>17. absSize' = absSize
  BY <1>14, <1>15, <1>16 DEF Of
<1> QED
  BY <1>10, <1>11, <1>17

\* When the loop is over, what was to stay has stayed, and the new entry joins it.
LEMMA AppendUnseen ==
  ASSUME Small, LoneReader, CoreInv, Account, ListInv, NEW t \in Threads, InsertAppend(t)
  PROVE  UNCHANGED <<absOrder, absSize>>
<1> DEFINE k == key[t]
           n == need[t]
<1>1. /\ pc[t] = "evict" /\ ~MustEvict(t) /\ mapping' = mapping \cup {k} /\ size' = [size EXCEPT ![k] = n]
      /\ pc' = [pc EXCEPT ![t] = "idle"]
  BY DEF InsertAppend, Return, Goto, NewNode
<1>2. Moving = {} /\ Moving' = {} /\ Admitted = {t} /\ Admitted' = {}
  <2>1. \A u \in Threads \ {t} : pc[u] = "idle"
    BY OthersIdle DEF Insert
  <2>2. pc[t] \notin Moves /\ "idle" \notin Moves /\ "idle" # "evict"
    BY <1>1 DEF Moves
  <2> QED
    BY <1>1, <2>1, <2>2, LoneStep
<1>3. PICK s \in Lists(mapping) : Fwd(next, s) /\ Bwd(prev, s) /\ Chain(next, next[Header]) = s
  BY <1>1, WriterList
<1>4. k \in Keys /\ k \notin mapping /\ n \in Nat /\ ToInt(n) = n /\ n <= Capacity
  BY <1>1, AdmittedFits
<1>5. mapping \cup {k} \in SUBSET Keys /\ Append(s, k) \in Lists(mapping \cup {k}) /\ Fwd(next', Append(s, k))
  BY <1>1, <1>3, <1>4, LinkTypes, InsertAppendLinks
<1>6. ~(Capacity - currentSize < n)
  <2>1. CASE mapping = {}
    <3>1. currentSize = 0
      BY <2>1, SumEmpty DEF Account
    <3> QED
      BY <1>4, <3>1, CacheAssumption
  <2>2. CASE mapping # {}
    BY <1>1, <1>4, <2>2 DEF MustEvict
  <2> QED
    BY <2>1, <2>2
<1>7. L!Fit(s, size, n) = s
  <2>1. 1 \in Starts(s, size, n) /\ s \in Seq(Keys)
    BY <1>3, <1>4, <1>6, RoomIs DEF Lists
  <2> QED
    BY <2>1, FitAll
<1>8. absOrder = Append(s, k)
  BY <1>2, <1>3, <1>7, OrderNow
<1>9. absOrder' = Append(s, k)
  <2>1. Chain(next', next'[Header]) = Append(s, k)
    BY <1>5, ChainIs
  <2> QED
    BY <1>2, <2>1, OrderThen
<1>10. absSize' = absSize
  BY <1>1, <1>2, <1>8, <1>9, SizeNow, SizeThen
<1> QED
  BY <1>8, <1>9, <1>10

\* An empty list shows no entry.
LEMMA EmptyChain ==
  ASSUME NEW nx, nx = [x \in Nodes |-> IF x = Header THEN Tailer ELSE None]
  PROVE  Chain(nx, nx[Header]) = <<>>
<1> DEFINE pv == [x \in Nodes |-> IF x = Tailer THEN Header ELSE None]
<1>1. PICK s \in Lists({}) : Fwd(nx, s)
  <2>1. \E s \in Lists({}) : Fwd(nx, s) /\ Bwd(pv, s)
    BY EmptyWhole
  <2> QED
    BY <2>1
<1>2. s \in Seq(Keys) /\ {s[i] : i \in 1..Len(s)} = {}
  BY <1>1 DEF Lists
<1>3. Len(s) = 0
  <2>1. Len(s) \in Nat /\ (Len(s) # 0 => 1 \in 1..Len(s))
    BY <1>2, LenProperties
  <2>2. 1 \notin 1..Len(s)
    BY <1>2
  <2> QED
    BY <2>1, <2>2
<1>4. s = <<>>
  BY <1>2, <1>3, EmptySeq
<1> QED
  BY <1>1, <1>4, ChainIs

LEMMA ClearClears ==
  ASSUME CoreInv, Clear
  PROVE  Abstract!Clear
<1>1. /\ readers = {} /\ writer = None /\ size' = [k \in Keys |-> 0] /\ UNCHANGED pc
      /\ next' = [x \in Nodes |-> IF x = Header THEN Tailer ELSE None]
  BY DEF Clear, vars
<1>2. Moving' = {} /\ Admitted' = {}
  <2>1. \A t \in Threads : pc[t] \notin Moves \cup {"evict"}
    BY <1>1, CacheAssumption DEF CoreInv, LatchInv, Moves, Hit
  <2> QED
    BY <1>1, <2>1, Inside DEF MovingIn, AdmittedIn
<1>3. absOrder' = <<>>
  <2>1. Chain(next', next'[Header]) = <<>>
    BY <1>1, EmptyChain
  <2> QED
    BY <1>2, <2>1, OrderThen
<1>4. absSize' = [k \in Keys |-> 0]
  BY <1>1, <1>2, SizeThen DEF Of
<1> QED
  BY <1>3, <1>4 DEF Abstract!Clear

\* Every step of the cache is a step of the abstract one, or shows nothing.
LEMMA StepRefines ==
  ASSUME Small, LoneReader, CoreInv, Account, ListInv, [Next]_vars
  PROVE  [Abstract!Next]_(Abstract!lruVars)
<1>1. ASSUME UNCHANGED <<absOrder, absSize>> PROVE UNCHANGED Abstract!lruVars
  BY <1>1 DEF Abstract!lruVars
<1>2. ASSUME NEW t \in Threads,
             \/ LoadMiss(t) \/ LoadHit(t) \/ LoadUnlock(t) \/ InsertReject(t)
             \/ \E k \in Keys : LoadLock(t, k) \/ \E n \in Sizes : InsertLock(t, k, n)
      PROVE  UNCHANGED <<absOrder, absSize>>
  BY <1>2, Unseen
<1>3. ASSUME NEW t \in Threads, UnlinkNext(t) PROVE Abstract!Next
  <2>1. Abstract!Load(key[t]) /\ key[t] \in Keys
    BY <1>3, UnlinkNextLoads DEF UnlinkNext, Goto, CoreInv, CallInv
  <2> QED
    BY <2>1 DEF Abstract!Next
<1>4. ASSUME NEW t \in Threads, InsertAdmit(t) PROVE Abstract!Next
  <2>1. Abstract!Insert(key[t], need[t]) /\ key[t] \in Keys /\ need[t] \in Sizes
    BY <1>4, AdmitInserts DEF InsertAdmit, Goto, CoreInv, CallInv
  <2> QED
    BY <2>1 DEF Abstract!Next
<1>5. CASE Clear
  BY <1>5, ClearClears DEF Abstract!Next
<1>6. CASE UNCHANGED vars
  <2>1. UNCHANGED <<next, size, pc, key, need>>
    BY <1>6 DEF vars, listVars, argVars
  <2>2. Moving' = Moving /\ Admitted' = Admitted
    BY <2>1 DEF Moving, Admitted
  <2>3. absOrder' = absOrder
    BY <2>1, <2>2 DEF absOrder, Forward
  <2> QED
    BY <1>1, <2>1, <2>2, <2>3 DEF absSize
<1> QED
  BY <1>1, <1>2, <1>3, <1>4, <1>5, <1>6, MoveUnseen, LinkTailUnseen, EvitOneUnseen, AppendUnseen
     DEF Next, Load, Insert

\* With one loading thread and sizes an int can hold, the cache is a least-recently-used
\* cache: a hit counts as of its first write, an insertion as of its admission.
THEOREM CacheImplementsLRU ==
  ASSUME Small, LoneReader
  PROVE  Spec => ImplementsLRU
<1>1. Init => Abstract!Init
  <2> SUFFICES ASSUME Init PROVE Abstract!Init
    OBVIOUS
  <2>1. Moving = {} /\ Admitted = {}
    BY DEF Init, Moving, Admitted
  <2>2. absOrder = <<>>
    <3>1. Chain(next, next[Header]) = <<>>
      BY EmptyChain DEF Init
    <3> QED
      BY <2>1, <3>1, OrderNow
  <2>3. absSize = [k \in Keys |-> 0]
    BY <2>1, SizeNow DEF Of, Init
  <2> QED
    BY <2>2, <2>3 DEF Abstract!Init
<1>2. CoreInv /\ Account /\ ListInv /\ [Next]_vars => [Abstract!Next]_(Abstract!lruVars)
  BY StepRefines
<1> QED
  BY <1>1, <1>2, CoreInvariant, AccountInvariant, ListInvariant, PTL DEF Spec, ImplementsLRU, Abstract!Spec
=============================================================================
