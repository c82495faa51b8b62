---------------------------- MODULE StreamProofs ----------------------------
(***************************************************************************)
(* Proofs about Stream, for any pieces, any bytes typed and any sizes of   *)
(* the buffers.                                                            *)
(*                                                                         *)
(* Two invariants.  FlowInv: what was received or popped, what the server  *)
(* holds and what is on the way is what was sent, in this order; a step    *)
(* takes the front of one of these parts to the end of the one before it.  *)
(* RequestInv: what was popped begins what was sent, request by request,   *)
(* and the handler does not stop while a request waits.                    *)
(*                                                                         *)
(* The reference definitions (Frames) and the text functions (Tokens) are  *)
(* recursive over the text; FramesIs and TokensIs say what they compute at *)
(* each place of it, and inductions over sets of places or of sequences    *)
(* (Lemmas.tla) do the rest.                                               *)
(***************************************************************************)
EXTENDS Stream, Lemmas

-----------------------------------------------------------------------------
(* Find, as the functions above it use it.                                 *)

\* d stands in s at i.
Occurs(s, d, i) == i >= 1 /\ i + Len(d) - 1 <= Len(s) /\ \A k \in 1..Len(d) : s[i + k - 1] = d[k]

\* The first place at or after b where d stands in s is t; or there is none.
FirstAt(s, d, b, t) == t >= b /\ Occurs(s, d, t) /\ \A j \in b..(t - 1) : ~Occurs(s, d, j)
NoneAfter(s, d, b) == \A j \in Nat : j >= b => ~Occurs(s, d, j)

\* An occurrence is what the test of Find looks at.
LEMMA OccursIs ==
  ASSUME NEW X, NEW s \in Seq(X), NEW d \in Seq(X), NEW i \in Nat \ {0}, i <= Len(s) - Len(d) + 1
  PROVE  Occurs(s, d, i) <=> SubSeq(s, i, i + Len(d) - 1) = d
<1> DEFINE m == Len(d)
           u == SubSeq(s, i, i + m - 1)
<1>1. Len(s) \in Nat /\ m \in Nat /\ i + m - 1 <= Len(s) /\ i + m - 1 \in Int /\ (i + m - 1) - i + 1 = m
  BY LenProperties
<1>2. \A j \in i..(i + m - 1) : s[j] \in X
  <2> SUFFICES ASSUME NEW j \in i..(i + m - 1) PROVE s[j] \in X
    OBVIOUS
  <2>1. j \in 1..Len(s)
    BY <1>1
  <2> QED
    BY <2>1, ElementOfSeq
<1>3. /\ u \in Seq(X) /\ Len(u) = m
      /\ \A k \in 1..m : u[k] = s[i + k - 1]
  <2>1. /\ u \in Seq(X) /\ Len(u) = IF i <= i + m - 1 THEN (i + m - 1) - i + 1 ELSE 0
        /\ \A k \in 1..((i + m - 1) - i + 1) : u[k] = s[i + k - 1]
    BY <1>1, <1>2, SubSeqProperties
  <2> HIDE DEF u
  <2> QED
    BY <1>1, <2>1
<1> HIDE DEF u
<1>4. ASSUME Occurs(s, d, i) PROVE u = d
  <2>1. \A k \in 1..Len(u) : u[k] = d[k]
    BY <1>3, <1>4 DEF Occurs
  <2> QED
    BY <1>3, <2>1, SeqEqual
<1>5. ASSUME u = d PROVE Occurs(s, d, i)
  BY <1>1, <1>3, <1>5 DEF Occurs
<1> QED
  BY <1>4, <1>5 DEF u

\* Find returns the first occurrence, or Npos if there is none.
LEMMA FindIs ==
  ASSUME NEW X, NEW s \in Seq(X), NEW d \in Seq(X), Len(d) >= 1, NEW b \in Nat \ {0}
  PROVE  /\ Find(s, d, b) \in Nat
         /\ Find(s, d, b) = 0 => NoneAfter(s, d, b)
         /\ Find(s, d, b) # 0 => FirstAt(s, d, b, Find(s, d, b))
<1> DEFINE at == {i \in b..(Len(s) - Len(d) + 1) : SubSeq(s, i, i + Len(d) - 1) = d}
           t == Find(s, d, b)
<1>1. t = IF at = {} THEN 0 ELSE CHOOSE i \in at : \A j \in at : i <= j
  BY DEF Find, Npos
<1>2. Len(s) \in Nat /\ Len(d) \in Nat
  BY LenProperties
<1>3. ASSUME NEW i \in Nat, i >= b PROVE i \in at <=> Occurs(s, d, i)
  <2>1. CASE i <= Len(s) - Len(d) + 1
    <3>1. i \in b..(Len(s) - Len(d) + 1) /\ i \in Nat \ {0}
      BY <1>2, <1>3, <2>1
    <3>2. Occurs(s, d, i) <=> SubSeq(s, i, i + Len(d) - 1) = d
      BY <2>1, <3>1, OccursIs
    <3> QED
      BY <3>1, <3>2
  <2>2. CASE ~(i <= Len(s) - Len(d) + 1)
    BY <1>2, <1>3, <2>2 DEF Occurs
  <2> QED
    BY <2>1, <2>2
<1>4. at \subseteq Nat /\ \A i \in at : i >= b
  BY <1>2
<1> HIDE DEF at, t
<1>5. CASE at = {}
  <2>1. NoneAfter(s, d, b)
    BY <1>3, <1>5 DEF NoneAfter
  <2> QED
    BY <1>1, <1>5, <2>1 DEF t
<1>6. CASE at # {}
  <2>1. \E i \in at : \A j \in at : i <= j
    BY <1>4, <1>6, LeastNat
  <2>2. t \in at /\ \A j \in at : t <= j
    BY <1>1, <1>6, <2>1
  <2>3. t \in Nat /\ t >= b /\ t # 0 /\ Occurs(s, d, t)
    BY <1>3, <1>4, <2>2
  <2>4. ASSUME NEW j \in b..(t - 1) PROVE ~Occurs(s, d, j)
    <3>1. j \in Nat /\ j >= b /\ ~(t <= j)
      BY <2>3
    <3> QED
      BY <1>3, <2>2, <3>1
  <2> QED
    BY <2>3, <2>4 DEF FirstAt, t
<1> QED
  BY <1>5, <1>6

\* It is the only one that comes first.
LEMMA FindFirst ==
  ASSUME NEW X, NEW s \in Seq(X), NEW d \in Seq(X), Len(d) >= 1, NEW b \in Nat \ {0},
         NEW t \in Nat, FirstAt(s, d, b, t)
  PROVE  Find(s, d, b) = t
<1> DEFINE u == Find(s, d, b)
<1>1. u \in Nat /\ (u = 0 => NoneAfter(s, d, b)) /\ (u # 0 => FirstAt(s, d, b, u))
  BY FindIs
<1> HIDE DEF u
<1>2. u # 0
  BY <1>1 DEF NoneAfter, FirstAt
<1>3. ~(u < t) /\ ~(t < u)
  BY <1>1, <1>2 DEF FirstAt
<1> QED
  BY <1>1, <1>3 DEF u

\* If there is none, it says so.
LEMMA FindNone ==
  ASSUME NEW X, NEW s \in Seq(X), NEW d \in Seq(X), Len(d) >= 1, NEW b \in Nat \ {0}, NoneAfter(s, d, b)
  PROVE  Find(s, d, b) = 0
<1> DEFINE u == Find(s, d, b)
<1>1. u \in Nat /\ (u # 0 => FirstAt(s, d, b, u))
  BY FindIs
<1> HIDE DEF u
<1> QED
  BY <1>1 DEF NoneAfter, FirstAt, u

-----------------------------------------------------------------------------
(* FlattenSeq.                                                             *)

\* f holds the beginnings of p, flattened.
Flattens(f, p) == f[0] = <<>> /\ \A n \in 1..Len(p) : f[n] = f[n - 1] \o p[n]

\* FlattenSeq, as its recursion computes it.
LEMMA FlattenIs ==
  ASSUME NEW X, NEW p \in Seq(Seq(X))
  PROVE  \E f \in [0..Len(p) -> Seq(X)] : Flattens(f, p) /\ FlattenSeq(p) = f[Len(p)]
<1> DEFINE N == Len(p)
           Up(g) == [i \in 1..Len(p) |-> IF i = 1 THEN p[i] ELSE g[i - 1] \o p[i]]
           it == CHOOSE it : it = Up(it)
           step == [q \in (1..N) \X Seq(X) |-> q[2] \o p[q[1]]]
<1>1. N \in Nat /\ \A n \in 1..N : p[n] \in Seq(X)
  BY LenProperties, ElementOfSeq
<1>2. step \in [(1..N) \X Seq(X) -> Seq(X)]
  <2> SUFFICES ASSUME NEW q \in (1..N) \X Seq(X) PROVE q[2] \o p[q[1]] \in Seq(X)
    OBVIOUS
  <2>1. q[2] \in Seq(X) /\ p[q[1]] \in Seq(X)
    BY <1>1
  <2> QED
    BY <2>1, ConcatProperties
<1>3. PICK f \in [0..N -> Seq(X)] : Steps(f, <<>>, step, N)
  <2>1. <<>> \in Seq(X)
    BY EmptySeq
  <2> HIDE DEF step, N
  <2> QED
    BY <1>1, <1>2, <2>1, UpwardExists
<1>4. ASSUME NEW n \in 1..N PROVE f[n] = f[n - 1] \o p[n] /\ f[n - 1] \in Seq(X)
  <2>1. f[n] = step[<<n, f[n - 1]>>]
    BY <1>3 DEF Steps
  <2>2. n - 1 \in 0..N
    BY <1>1
  <2>3. f[n - 1] \in Seq(X)
    BY <2>2
  <2>4. <<n, f[n - 1]>> \in (1..N) \X Seq(X)
    BY <2>3
  <2> QED
    BY <2>1, <2>3, <2>4
<1>5. f[0] = <<>>
  BY <1>3 DEF Steps
<1>6. Flattens(f, p)
  BY <1>4, <1>5 DEF Flattens
<1>7. CASE N = 0
  <2>1. p = <<>> /\ FlattenSeq(p) = p
    BY <1>7, EmptySeq DEF FlattenSeq
  <2> QED
    BY <1>5, <1>6, <1>7, <2>1
<1>8. CASE N # 0
  <2> DEFINE h == [n \in 1..N |-> f[n]]
             Val(n) == IF n = 1 THEN p[n] ELSE h[n - 1] \o p[n]
  <2>1. ASSUME NEW n \in 1..N PROVE h[n] = Val(n)
    <3>1. CASE n = 1
      <4>1. f[n] = <<>> \o p[n] /\ p[n] \in Seq(X)
        <5>1. n - 1 = 0
          BY <3>1
        <5>2. f[n] = f[n - 1] \o p[n]
          BY <1>4, Zenon
        <5> QED
          BY <1>1, <1>5, <5>1, <5>2, Zenon
      <4>2. f[n] = p[n]
        BY <4>1, ConcatEmptySeq
      <4> QED
        BY <3>1, <4>2
    <3>2. CASE n # 1
      <4>1. n - 1 \in 1..N
        BY <1>1, <3>2
      <4> QED
        BY <1>4, <3>2, <4>1
    <3> QED
      BY <3>1, <3>2
  <2>2. h = [n \in 1..N |-> h[n]]
    OBVIOUS
  <2>3. Up(h) = [n \in 1..N |-> Val(n)]
    BY Zenon
  <2> HIDE DEF Val, h
  <2>4. [n \in 1..N |-> h[n]] = [n \in 1..N |-> Val(n)]
    BY <2>1, Zenon
  <2>5. \E g : g = Up(g)
    BY <2>2, <2>3, <2>4, Zenon
  <2>6. it = Up(it)
    BY <2>5, Zenon
  <2>7. FlattenSeq(p) = it[N]
    BY <1>8, Zenon DEF FlattenSeq
  <2> HIDE DEF it
  <2>8. \A n \in 1..N : it[n] = IF n = 1 THEN p[n] ELSE it[n - 1] \o p[n]
    BY <2>6, Zenon
  <2> DEFINE T == {i \in Nat : i + 1 <= N => it[i + 1] = f[i + 1]}
  <2>9. 0 \in T
    <3>1. 1 \in 1..N /\ 0 + 1 = 1
      BY <1>1, <1>8
    <3>2. it[1] = p[1] /\ f[1] = h[1] /\ h[1] = p[1]
      BY <2>1, <2>8, <3>1 DEF h, Val
    <3> QED
      BY <3>1, <3>2
  <2>10. ASSUME NEW i \in T PROVE i + 1 \in T
    <3> SUFFICES ASSUME (i + 1) + 1 <= N PROVE it[(i + 1) + 1] = f[(i + 1) + 1]
      OBVIOUS
    <3>1. /\ (i + 1) + 1 \in 1..N /\ (i + 1) + 1 # 1 /\ ((i + 1) + 1) - 1 = i + 1
          /\ it[i + 1] = f[i + 1]
      BY <1>1, <2>10
    <3> DEFINE j == (i + 1) + 1
    <3>2. j \in 1..N /\ j # 1 /\ it[j - 1] = f[j - 1]
      BY <3>1
    <3> HIDE DEF j
    <3>3. it[j] = it[j - 1] \o p[j] /\ f[j] = f[j - 1] \o p[j]
      BY <1>4, <2>8, <3>2, Zenon
    <3>4. it[j] = f[j]
      BY <3>2, <3>3, Zenon
    <3> QED
      BY <3>4 DEF j
  <2>11. T = Nat
    <3>1. T \subseteq Nat
      OBVIOUS
    <3> HIDE DEF T
    <3> QED
      BY <2>9, <2>10, <3>1, SetInduction
  <2>12. it[N] = f[N]
    <3>1. N - 1 \in Nat /\ (N - 1) + 1 = N /\ N <= N
      BY <1>1, <1>8
    <3>2. N - 1 \in T
      <4> HIDE DEF T, N
      <4> QED
        BY <2>11, <3>1, Zenon
    <3> HIDE DEF N
    <3> QED
      BY <3>1, <3>2
  <2> QED
    BY <1>6, <2>7, <2>12
<1> QED
  BY <1>7, <1>8

FlattenGrows(p, r) == FlattenSeq(Append(p, r)) = FlattenSeq(p) \o r

\* Nothing gives nothing.
LEMMA FlattenEmpty == FlattenSeq(<<>>) = <<>>
<1>1. <<>> \in Seq(Seq({})) /\ Len(<<>>) = 0
  BY EmptySeq
<1> QED
  BY <1>1 DEF FlattenSeq

\* One more sequence comes at the end.
LEMMA FlattenAppend ==
  ASSUME NEW X, NEW p \in Seq(Seq(X)), NEW r \in Seq(X)
  PROVE  FlattenSeq(p) \in Seq(X) /\ FlattenGrows(p, r)
<1> DEFINE q == Append(p, r)
           n == Len(p)
<1>1. /\ n \in Nat /\ q \in Seq(Seq(X)) /\ Len(q) = n + 1 /\ q[n + 1] = r
      /\ \A i \in 1..n : q[i] = p[i]
  BY AppendProperties, LenProperties
<1>2. PICK f \in [0..n -> Seq(X)] : Flattens(f, p) /\ FlattenSeq(p) = f[n]
  BY FlattenIs
<1> HIDE DEF q
<1>3. PICK g \in [0..Len(q) -> Seq(X)] : Flattens(g, q) /\ FlattenSeq(q) = g[Len(q)]
  BY <1>1, FlattenIs
<1> DEFINE T == {i \in Nat : i <= n => f[i] = g[i]}
<1>4. 0 \in T
  BY <1>2, <1>3 DEF Flattens
<1>5. ASSUME NEW i \in T PROVE i + 1 \in T
  <2> SUFFICES ASSUME i + 1 <= n PROVE f[i + 1] = g[i + 1]
    OBVIOUS
  <2>1. i + 1 \in 1..n /\ i + 1 \in 1..Len(q) /\ (i + 1) - 1 = i /\ f[i] = g[i]
    BY <1>1, <1>5
  <2> QED
    BY <1>1, <1>2, <1>3, <2>1 DEF Flattens
<1>6. T = Nat
  <2>1. T \subseteq Nat
    OBVIOUS
  <2> HIDE DEF T
  <2> QED
    BY <1>4, <1>5, <2>1, SetInduction
<1>7. f[n] = g[n] /\ f[n] \in Seq(X)
  BY <1>1, <1>6
<1>8. n + 1 \in 1..Len(q) /\ (n + 1) - 1 = n
  BY <1>1
<1>9. g[n + 1] = g[n] \o q[n + 1]
  BY <1>3, <1>8 DEF Flattens
<1>10. FlattenSeq(q) = FlattenSeq(p) \o r
  BY <1>1, <1>2, <1>3, <1>7, <1>9, Zenon
<1> QED
  BY <1>2, <1>7, <1>10 DEF q, FlattenGrows

-----------------------------------------------------------------------------
(* Bytes keep their order.                                                 *)

\* A byte typed, a character of a piece or of a delimiter.
Byte == Nat \cup Chars \cup {Colon, CR, LF}

TypeOK ==
  /\ app \in {"echo", "http"} /\ pc \in {"idle", "recv", "handle", "send", "gone"}
  /\ {sent, unsent, net, inq, rbuf, wbuf, outq, got} \subseteq Seq(Byte)
  /\ popped \in Seq(Seq(Byte))
  /\ curWrite \in Nat /\ curWrite <= Len(wbuf)
  /\ {waiting, fin, reset} \subseteq BOOLEAN

\* What has arrived, and what the server holds of what has not been dealt with.
Arrived == IF app = "http" THEN FlattenSeq(popped) ELSE got
Held == IF pc = "send" THEN From(wbuf, curWrite + 1) ELSE rbuf

Kept == sent = Arrived \o outq \o Held \o inq \o net \o unsent

\* Nothing is lost on a connection that is not broken, the one that is being deleted
\* included; write_buffer_ is empty but in Send, and the HTTP handler does not use it.
FlowInv ==
  /\ ~reset => Kept
  /\ reset => net = <<>> /\ inq = <<>>
  /\ pc # "send" => wbuf = <<>> /\ curWrite = 0
  /\ app = "http" => outq = <<>> /\ pc # "send"

\* A sequence cut in two.
LEMMA Cutting ==
  ASSUME NEW S, NEW s \in Seq(S), NEW m \in Nat, NEW n \in Nat, m <= n, n <= Len(s)
  PROVE  /\ From(s, m + 1) = SubSeq(s, m + 1, n) \o From(s, n + 1)
         /\ SubSeq(s, m + 1, n) \in Seq(S) /\ From(s, n + 1) \in Seq(S) /\ From(s, m + 1) \in Seq(S)
         /\ Len(SubSeq(s, m + 1, n)) = n - m
<1>1. Len(s) \in Nat
  BY LenProperties
<1>2. /\ m + 1 \in 1..(Len(s) + 1) /\ n \in ((m + 1) - 1)..Len(s) /\ Len(s) \in n..Len(s)
      /\ m + 1 \in Int /\ n + 1 \in Int /\ n \in Int /\ Len(s) \in Int
  BY <1>1
<1>3. SubSeq(s, m + 1, n) \o SubSeq(s, n + 1, Len(s)) = SubSeq(s, m + 1, Len(s))
  BY <1>2, ConcatAdjacentSubSeq
<1>4. ASSUME NEW i \in Nat \ {0}, NEW j \in Nat, j <= Len(s)
      PROVE  /\ SubSeq(s, i, j) \in Seq(S)
             /\ i <= j => Len(SubSeq(s, i, j)) = j - i + 1
             /\ i > j => Len(SubSeq(s, i, j)) = 0
  <2>1. \A k \in i..j : s[k] \in S
    <3> SUFFICES ASSUME NEW k \in i..j PROVE s[k] \in S
      OBVIOUS
    <3>1. k \in 1..Len(s)
      BY <1>1, <1>4
    <3> QED
      BY <3>1, ElementOfSeq
  <2> QED
    BY <2>1, SubSeqProperties
<1>5. SubSeq(s, m + 1, n) \in Seq(S) /\ SubSeq(s, n + 1, Len(s)) \in Seq(S) /\ SubSeq(s, m + 1, Len(s)) \in Seq(S)
  BY <1>1, <1>4
<1>6. Len(SubSeq(s, m + 1, n)) = n - m
  <2>1. CASE m = n
    BY <1>4, <2>1
  <2>2. CASE m # n
    <3>1. m + 1 <= n /\ n - (m + 1) + 1 = n - m
      BY <2>2
    <3> QED
      BY <1>4, <3>1
  <2> QED
    BY <2>1, <2>2
<1> QED
  BY <1>3, <1>5, <1>6 DEF From

\* Concatenation is associative; named, so that the provers can use it for any terms.
Associates(x, y, z) == x \o (y \o z) = (x \o y) \o z

LEMMA Associating ==
  ASSUME NEW S, NEW x \in Seq(S), NEW y \in Seq(S), NEW z \in Seq(S)
  PROVE  Associates(x, y, z)
BY ConcatAssociative DEF Associates

\* Taking the front of one sequence to the end of the one before it.
Shifted(a, b, x, y, z) == (a \o b) \o x = (a \o (b \o y)) \o z

LEMMA Shifting ==
  ASSUME NEW S, NEW a \in Seq(S), NEW b \in Seq(S), NEW y \in Seq(S), NEW z \in Seq(S)
  PROVE  Shifted(a, b, y \o z, y, z)
<1>1. a \o b \in Seq(S) /\ b \o y \in Seq(S)
  BY ConcatProperties
<1>2. Associates(a \o b, y, z)
  <2>1. ASSUME NEW c \in Seq(S) PROVE Associates(c, y, z)
    BY Associating
  <2> QED
    BY <1>1, <2>1, Zenon
<1>3. Associates(a, b, y)
  BY Associating
<1> QED
  BY <1>2, <1>3, Zenon DEF Shifted, Associates

\* The front of x, taken to the end of b.
LEMMA TakeFrom ==
  ASSUME NEW S, NEW a \in Seq(S), NEW b \in Seq(S), NEW x \in Seq(S), NEW n \in Nat, n <= Len(x)
  PROVE  /\ Take(x, n) \in Seq(S) /\ From(x, n + 1) \in Seq(S) /\ x = Take(x, n) \o From(x, n + 1)
         /\ b \o Take(x, n) \in Seq(S)
         /\ Shifted(a, b, x, Take(x, n), From(x, n + 1))
<1>1. 0 \in Nat /\ 0 <= n /\ 0 + 1 = 1
  OBVIOUS
<1>2. /\ From(x, 0 + 1) = SubSeq(x, 0 + 1, n) \o From(x, n + 1)
      /\ SubSeq(x, 0 + 1, n) \in Seq(S) /\ From(x, n + 1) \in Seq(S)
  BY <1>1, Cutting
<1>3. From(x, 1) = x
  BY SubSeqFull DEF From
<1>4. x = Take(x, n) \o From(x, n + 1) /\ Take(x, n) \in Seq(S) /\ From(x, n + 1) \in Seq(S)
  BY <1>1, <1>2, <1>3 DEF Take
<1> DEFINE y == Take(x, n)
           z == From(x, n + 1)
<1> HIDE DEF y, z
<1>5. y \in Seq(S) /\ z \in Seq(S) /\ x = y \o z
  BY <1>4 DEF y, z
<1>6. b \o y \in Seq(S)
  BY <1>5, ConcatProperties
<1>7. Shifted(a, b, x, y, z)
  <2>1. Shifted(a, b, y \o z, y, z)
    BY <1>5, Shifting
  <2> QED
    BY <1>5, <2>1, Zenon
<1> QED
  BY <1>4, <1>6, <1>7 DEF y, z

\* The parts of the stream are texts.
LEMMA FlowTypes ==
  ASSUME TypeOK
  PROVE  /\ Arrived \in Seq(Byte) /\ Held \in Seq(Byte)
         /\ Arrived \o outq \in Seq(Byte) /\ (Arrived \o outq) \o Held \in Seq(Byte)
         /\ ((Arrived \o outq) \o Held) \o inq \in Seq(Byte)
         /\ (((Arrived \o outq) \o Held) \o inq) \o net \in Seq(Byte)
<1>1. Arrived \in Seq(Byte)
  <2>1. FlattenSeq(popped) \in Seq(Byte)
    BY FlattenAppend, EmptySeq DEF TypeOK
  <2> QED
    BY <2>1 DEF Arrived, TypeOK
<1>2. Held \in Seq(Byte)
  <2>1. wbuf \in Seq(Byte) /\ Len(wbuf) \in Nat /\ curWrite \in Nat /\ curWrite <= Len(wbuf) /\ curWrite <= curWrite
    BY LenProperties DEF TypeOK
  <2>2. From(wbuf, curWrite + 1) \in Seq(Byte)
    BY <2>1, Cutting
  <2> QED
    BY <2>2 DEF Held, TypeOK
<1> QED
  BY <1>1, <1>2, ConcatProperties DEF TypeOK

\* What a client writes goes behind everything else.
LEMMA WriteFlow ==
  ASSUME TypeOK, FlowInv, unsent = <<>>, NEW p \in Seq(Byte), unsent' = p, sent' = sent \o p,
         UNCHANGED <<app, waiting, got, netVars, serverVars>>
  PROVE  TypeOK' /\ FlowInv'
<1>1. UNCHANGED <<net, inq, fin, reset, outq, pc, rbuf, wbuf, curWrite, popped>>
  BY DEF netVars, serverVars
<1>2. sent \in Seq(Byte) /\ sent \o p \in Seq(Byte)
  BY ConcatProperties DEF TypeOK
<1>3. TypeOK'
  BY <1>1, <1>2 DEF TypeOK
<1>4. ASSUME ~reset PROVE Kept'
  <2> DEFINE Q == (((Arrived \o outq) \o Held) \o inq) \o net
  <2>1. Arrived' = Arrived /\ Held' = Held
    BY <1>1 DEF Arrived, Held
  <2>2. Q \in Seq(Byte) /\ sent = Q \o <<>>
    BY <1>4, FlowTypes DEF FlowInv, Kept
  <2>3. Kept' <=> sent' = Q \o p
    BY <1>1, <2>1 DEF Kept
  <2> HIDE DEF Q
  <2>4. sent = Q
    BY <2>2, ConcatEmptySeq
  <2> QED
    BY <2>3, <2>4
<1>5. FlowInv'
  BY <1>1, <1>4 DEF FlowInv
<1> QED
  BY <1>3, <1>5

\* Bytes typed at the echo client.
LEMMA TypeFlow ==
  ASSUME TypeOK, FlowInv, NEW n \in 1..BufSize, Type(n)
  PROVE  TypeOK' /\ FlowInv'
<1> DEFINE p == [i \in 1..n |-> Len(sent) + i]
<1>1. Len(sent) \in Nat /\ n \in Nat
  BY LenProperties, StreamAssumption DEF TypeOK
<1>2. p \in Seq(Byte)
  BY <1>1 DEF Byte
<1>3. unsent = <<>> /\ unsent' = p /\ sent' = sent \o p
      /\ UNCHANGED <<app, waiting, got, netVars, serverVars>>
  BY DEF Type
<1> HIDE DEF p
<1> QED
  BY <1>2, <1>3, WriteFlow

\* A piece written by an HTTP client.
LEMMA PieceFlow ==
  ASSUME TypeOK, FlowInv, NEW p \in Pieces, Write(p)
  PROVE  TypeOK' /\ FlowInv'
<1>1. p \in Seq(Byte)
  <2>1. p \in Seq(Chars) /\ Chars \subseteq Byte
    BY StreamAssumption DEF Byte
  <2> QED
    BY <2>1, SeqMonotonic
<1> QED
  BY <1>1, WriteFlow DEF Write

\* The kernel takes a part of what is being sent.
LEMMA ClientSendFlow ==
  ASSUME TypeOK, FlowInv, NEW n \in 1..NetSize, ClientSend(n)
  PROVE  TypeOK' /\ FlowInv'
<1>1. /\ n <= Len(unsent) /\ net' = net \o Take(unsent, n) /\ unsent' = From(unsent, n + 1) /\ ~reset
      /\ waiting' \in BOOLEAN
      /\ UNCHANGED <<app, sent, got, inq, fin, reset, outq, pc, rbuf, wbuf, curWrite, popped>>
  BY DEF ClientSend, serverVars
<1> DEFINE P == ((Arrived \o outq) \o Held) \o inq
<1>2. n \in Nat /\ unsent \in Seq(Byte) /\ net \in Seq(Byte) /\ P \in Seq(Byte)
  BY FlowTypes, StreamAssumption DEF TypeOK
<1>3. P' = P
  BY <1>1 DEF Arrived, Held
<1>4. sent = (P \o net) \o unsent
  BY <1>1 DEF FlowInv, Kept
<1>5. Kept' <=> sent' = (P' \o net') \o unsent'
  BY DEF Kept
<1> HIDE DEF P
<1>6. /\ net' \in Seq(Byte) /\ unsent' \in Seq(Byte)
      /\ Shifted(P, net, unsent, Take(unsent, n), From(unsent, n + 1))
  BY <1>1, <1>2, TakeFrom
<1>7. Kept'
  BY <1>1, <1>3, <1>4, <1>5, <1>6 DEF Shifted
<1>8. TypeOK'
  BY <1>1, <1>6 DEF TypeOK
<1> QED
  BY <1>1, <1>7, <1>8 DEF FlowInv

\* A part of it reaches the server.
LEMMA DeliverFlow ==
  ASSUME TypeOK, FlowInv, NEW n \in 1..NetSize, Deliver(n)
  PROVE  TypeOK' /\ FlowInv'
<1>1. /\ n <= Len(net) /\ inq' = inq \o Take(net, n) /\ net' = From(net, n + 1)
      /\ UNCHANGED <<app, sent, unsent, waiting, got, fin, reset, outq, pc, rbuf, wbuf, curWrite, popped>>
  BY DEF Deliver, clientVars, serverVars
<1> DEFINE P == (Arrived \o outq) \o Held
<1>2. n \in Nat \ {0} /\ inq \in Seq(Byte) /\ net \in Seq(Byte) /\ P \in Seq(Byte) /\ Len(<<>>) = 0
  BY FlowTypes, StreamAssumption DEF TypeOK
<1>3. P' = P
  BY <1>1 DEF Arrived, Held
<1>4. ~reset
  BY <1>1, <1>2 DEF FlowInv
<1>5. sent = ((P \o inq) \o net) \o unsent
  BY <1>4 DEF FlowInv, Kept
<1>6. Kept' <=> sent' = ((P' \o inq') \o net') \o unsent'
  BY DEF Kept
<1> HIDE DEF P
<1>7. /\ inq' \in Seq(Byte) /\ net' \in Seq(Byte)
      /\ Shifted(P, inq, net, Take(net, n), From(net, n + 1))
  BY <1>1, <1>2, TakeFrom
<1>8. Kept'
  BY <1>1, <1>3, <1>5, <1>6, <1>7 DEF Shifted
<1>9. TypeOK'
  BY <1>1, <1>7 DEF TypeOK
<1> QED
  BY <1>1, <1>4, <1>8, <1>9 DEF FlowInv

\* Least is the smaller of the two.
LEMMA LeastIs ==
  ASSUME NEW m \in Nat, NEW n \in Nat
  PROVE  Least(m, n) \in Nat /\ Least(m, n) <= m /\ Least(m, n) <= n
BY DEF Least

\* The echo client receives.
LEMMA ClientRecvFlow ==
  ASSUME TypeOK, FlowInv, ClientRecv
  PROVE  TypeOK' /\ FlowInv'
<1>1. PICK n : n = Least(BufSize, Len(outq))
  OBVIOUS
<1>2. n \in Nat /\ n <= Len(outq) /\ outq \in Seq(Byte) /\ got \in Seq(Byte)
  BY <1>1, LeastIs, LenProperties, StreamAssumption DEF TypeOK
<1>3. /\ app # "http" /\ got' = got \o Take(outq, n) /\ outq' = From(outq, n + 1) /\ waiting' = FALSE
      /\ UNCHANGED <<app, sent, unsent, net, inq, fin, reset, pc, rbuf, wbuf, curWrite, popped>>
  BY <1>1 DEF ClientRecv, FlowInv, serverVars
<1>4. <<>> \in Seq(Byte) /\ <<>> \o got = got
  BY <1>2, EmptySeq, ConcatEmptySeq
<1>5. /\ Take(outq, n) \in Seq(Byte) /\ outq' \in Seq(Byte) /\ got' \in Seq(Byte)
      /\ Shifted(<<>>, got, outq, Take(outq, n), From(outq, n + 1))
  BY <1>2, <1>3, <1>4, TakeFrom
<1>6. got \o outq = got' \o outq'
  <2>1. <<>> \o got' = got'
    BY <1>5, ConcatEmptySeq
  <2> QED
    BY <1>3, <1>4, <1>5, <2>1 DEF Shifted
<1>7. TypeOK'
  BY <1>3, <1>5 DEF TypeOK
<1>8. (Arrived \o outq)' = Arrived \o outq /\ Held' = Held
  BY <1>3, <1>6 DEF Arrived, Held
<1>9. ~reset => Kept'
  BY <1>3, <1>8 DEF FlowInv, Kept
<1> QED
  BY <1>3, <1>7, <1>9 DEF FlowInv

\* Recv appends what it has read to read_buffer_.
LEMMA RecvChunkFlow ==
  ASSUME TypeOK, FlowInv, RecvChunk
  PROVE  TypeOK' /\ FlowInv'
<1>1. PICK n : n = Least(TempBufSize, Len(inq))
  OBVIOUS
<1>2. n \in Nat /\ n <= Len(inq) /\ inq \in Seq(Byte) /\ rbuf \in Seq(Byte)
  BY <1>1, LeastIs, LenProperties, StreamAssumption DEF TypeOK
<1>3. /\ pc = "recv" /\ inq # <<>> /\ rbuf' = rbuf \o Take(inq, n) /\ inq' = From(inq, n + 1)
      /\ UNCHANGED <<app, sent, unsent, waiting, got, net, fin, reset, outq, pc, wbuf, curWrite, popped>>
  BY <1>1 DEF RecvChunk, WriteToReadBuffer, BufferAppend, clientVars
<1> DEFINE P == Arrived \o outq
<1>4. P \in Seq(Byte) /\ P' = P /\ Held = rbuf /\ Held' = rbuf'
  BY <1>3, FlowTypes DEF Arrived, Held
<1>5. sent = (((P \o rbuf) \o inq) \o net) \o unsent
  BY <1>3, <1>4 DEF FlowInv, Kept
<1>6. Kept' <=> sent' = (((P' \o rbuf') \o inq') \o net') \o unsent'
  BY <1>4 DEF Kept
<1> HIDE DEF P
<1>7. /\ inq' \in Seq(Byte) /\ rbuf' \in Seq(Byte)
      /\ Shifted(P, rbuf, inq, Take(inq, n), From(inq, n + 1))
  BY <1>2, <1>3, <1>4, TakeFrom
<1>8. Kept'
  BY <1>3, <1>4, <1>5, <1>6, <1>7 DEF Shifted
<1>9. TypeOK'
  BY <1>3, <1>7 DEF TypeOK
<1> QED
  BY <1>3, <1>8, <1>9 DEF FlowInv

\* The kernel takes a part of write_buffer_.
LEMMA SendSomeFlow ==
  ASSUME TypeOK, FlowInv, NEW n \in 1..NetSize, SendSome(n)
  PROVE  TypeOK' /\ FlowInv'
<1> DEFINE y == SubSeq(wbuf, curWrite + 1, curWrite + n)
           z == From(wbuf, (curWrite + n) + 1)
<1>1. /\ pc = "send" /\ n <= Len(wbuf) - curWrite /\ outq' = outq \o y /\ curWrite' = curWrite + n /\ ~reset
      /\ UNCHANGED <<app, sent, unsent, waiting, got, net, inq, fin, reset, pc, rbuf, wbuf, popped>>
  BY DEF SendSome, clientVars, BufferSize, BufferData, BufferClear, GetWriteBufferSize
<1>2. /\ wbuf \in Seq(Byte) /\ Len(wbuf) \in Nat /\ curWrite \in Nat /\ curWrite + n \in Nat /\ n \in Nat
      /\ curWrite <= curWrite + n /\ curWrite + n <= Len(wbuf)
  BY <1>1, LenProperties, StreamAssumption DEF TypeOK
<1>3. From(wbuf, curWrite + 1) = y \o z /\ y \in Seq(Byte) /\ z \in Seq(Byte)
  <2>1. ASSUME NEW w \in Seq(Byte), NEW i \in Nat, NEW j \in Nat, i <= j, j <= Len(w)
        PROVE  /\ From(w, i + 1) = SubSeq(w, i + 1, j) \o From(w, j + 1)
               /\ SubSeq(w, i + 1, j) \in Seq(Byte) /\ From(w, j + 1) \in Seq(Byte)
    BY <2>1, Cutting
  <2> QED
    BY <1>2, <2>1, Zenon
<1>4. Arrived \in Seq(Byte) /\ Arrived' = Arrived /\ outq \in Seq(Byte) /\ Held = y \o z /\ Held' = z
  BY <1>1, <1>3, FlowTypes DEF Arrived, Held, TypeOK
<1> HIDE DEF y, z
<1>5. outq' \in Seq(Byte)
  BY <1>1, <1>3, <1>4, ConcatProperties
<1>6. Shifted(Arrived, outq, y \o z, y, z)
  BY <1>3, <1>4, Shifting
<1>7. Kept'
  BY <1>1, <1>4, <1>6 DEF Kept, FlowInv, Shifted
<1>8. TypeOK'
  BY <1>1, <1>2, <1>5 DEF TypeOK
<1> QED
  BY <1>1, <1>7, <1>8 DEF FlowInv

\* Send clears write_buffer_ when nothing of it is left, and the handler read_buffer_.
LEMMA SendReturnFlow ==
  ASSUME TypeOK, FlowInv, SendReturn
  PROVE  TypeOK' /\ FlowInv'
<1>1. /\ pc = "send" /\ (curWrite = Len(wbuf) \/ reset)
      /\ wbuf' = <<>> /\ curWrite' = 0 /\ rbuf' = <<>> /\ pc' = "idle"
      /\ UNCHANGED <<app, sent, unsent, waiting, got, net, inq, fin, reset, outq, popped>>
  BY DEF SendReturn, clientVars, netVars, BufferSize, BufferData, BufferClear, GetWriteBufferSize
<1>2. TypeOK'
  BY <1>1, EmptySeq DEF TypeOK
<1>3. ASSUME ~reset PROVE Kept'
  <2>1. Held = <<>>
    <3>1. Len(wbuf) \in Nat /\ curWrite = Len(wbuf)
      BY <1>1, <1>3, LenProperties DEF TypeOK
    <3>2. curWrite + 1 \in Int /\ Len(wbuf) \in Int /\ Len(wbuf) < curWrite + 1
      BY <3>1
    <3>3. From(wbuf, curWrite + 1) = <<>>
      BY <3>2, SubSeqEmpty DEF From
    <3> QED
      BY <1>1, <3>3 DEF Held
  <2>2. Held' = <<>> /\ Arrived' = Arrived
    BY <1>1 DEF Held, Arrived
  <2> QED
    BY <1>1, <1>3, <2>1, <2>2 DEF Kept, FlowInv
<1> QED
  BY <1>1, <1>2, <1>3 DEF FlowInv

\* The echo handler copies read_buffer_; from then on the copy is what is held.
LEMMA HandleEchoFlow ==
  ASSUME TypeOK, FlowInv, HandleEcho
  PROVE  TypeOK' /\ FlowInv'
<1>1. /\ app = "echo" /\ pc = "handle" /\ wbuf' = wbuf \o rbuf /\ pc' = (IF rbuf = <<>> THEN "idle" ELSE "send")
      /\ UNCHANGED <<app, sent, unsent, waiting, got, net, inq, fin, reset, outq, rbuf, curWrite, popped>>
  BY DEF HandleEcho, WriteToWriteBuffer, BufferAppend, ReadAsString, clientVars, netVars
<1>2. wbuf = <<>> /\ curWrite = 0 /\ rbuf \in Seq(Byte)
  BY <1>1 DEF FlowInv, TypeOK
<1>3. wbuf' = rbuf /\ curWrite' = 0 /\ Len(rbuf) \in Nat
  BY <1>1, <1>2, ConcatEmptySeq, LenProperties
<1>4. TypeOK'
  BY <1>1, <1>2, <1>3 DEF TypeOK
<1>5. Held' = Held
  <2>1. From(rbuf, 1) = rbuf /\ 0 + 1 = 1
    BY <1>2, SubSeqFull DEF From
  <2> QED
    BY <1>1, <1>3, <2>1 DEF Held
<1>6. Arrived' = Arrived
  BY <1>1 DEF Arrived
<1>7. ~reset => Kept'
  BY <1>1, <1>5, <1>6 DEF FlowInv, Kept
<1> QED
  BY <1>1, <1>2, <1>3, <1>4, <1>7 DEF FlowInv

\* The remaining steps move no byte, or break the connection.
LEMMA OtherFlow ==
  ASSUME TypeOK, FlowInv, ClientClose \/ ClientReset \/ Ready \/ RecvReturn \/ UNCHANGED vars
  PROVE  TypeOK' /\ FlowInv'
<1>1. UNCHANGED <<app, sent, unsent, waiting, got, rbuf, wbuf, curWrite, popped>>
  BY DEF ClientClose, ClientReset, Ready, RecvReturn, vars, clientVars, netVars, serverVars
<1>2. /\ pc' \in {"idle", "recv", "handle", "send", "gone"} /\ ((pc' = "send") <=> (pc = "send"))
      /\ {fin', reset'} \subseteq BOOLEAN
  BY DEF ClientClose, ClientReset, Ready, RecvReturn, vars, netVars, serverVars, TypeOK
<1>3. CASE ClientReset
  BY <1>1, <1>2, <1>3, EmptySeq DEF ClientReset, TypeOK, FlowInv, serverVars
<1>4. CASE ~ClientReset
  <2>1. UNCHANGED <<net, inq, outq, reset>>
    BY <1>4 DEF ClientClose, Ready, RecvReturn, vars, netVars
  <2>2. Arrived' = Arrived /\ Held' = Held
    BY <1>1, <1>2 DEF Arrived, Held
  <2>3. TypeOK'
    BY <1>1, <1>2, <2>1 DEF TypeOK
  <2>4. Kept' <=> Kept
    BY <1>1, <2>1, <2>2 DEF Kept
  <2> QED
    BY <1>1, <1>2, <2>1, <2>3, <2>4 DEF FlowInv
<1> QED
  BY <1>3, <1>4

-----------------------------------------------------------------------------
(* Requests are popped whole.                                              *)

\* What ends the header of a request.
Terminator == CRLF \o CRLF

\* r holds one terminator, and it is its end.
Whole(r) == Len(r) >= 4 /\ FirstAt(r, Terminator, 1, Len(r) - 3)

\* r stands in s behind its first c elements.
Within(r, s, c) == c + Len(r) <= Len(s) /\ \A j \in 1..Len(r) : r[j] = s[c + j]

\* The delimiters, character by character.
LEMMA TerminatorIs ==
  ASSUME NEW X, CR \in X, LF \in X
  PROVE  /\ Terminator \in Seq(X) /\ Len(Terminator) = 4 /\ CRLF \in Seq(X) /\ Len(CRLF) = 2
         /\ CRLF[1] = CR /\ CRLF[2] = LF
         /\ Terminator[1] = CR /\ Terminator[2] = LF /\ Terminator[3] = CR /\ Terminator[4] = LF
<1>1. CRLF \in Seq(X) /\ Len(CRLF) = 2 /\ CRLF[1] = CR /\ CRLF[2] = LF
  BY DEF CRLF
<1> HIDE DEF CRLF
<1>2. /\ CRLF \o CRLF \in Seq(X) /\ Len(CRLF \o CRLF) = 4
      /\ \A i \in 1..4 : (CRLF \o CRLF)[i] = IF i <= 2 THEN CRLF[i] ELSE CRLF[i - 2]
  <2>1. ASSUME NEW c \in Seq(X), Len(c) = 2
        PROVE  /\ c \o c \in Seq(X) /\ Len(c \o c) = 4
               /\ \A i \in 1..4 : (c \o c)[i] = IF i <= 2 THEN c[i] ELSE c[i - 2]
    <3>1. /\ c \o c \in Seq(X) /\ Len(c \o c) = Len(c) + Len(c)
          /\ \A i \in 1..(Len(c) + Len(c)) : (c \o c)[i] = IF i <= Len(c) THEN c[i] ELSE c[i - Len(c)]
      BY ConcatProperties
    <3> DEFINE e == c \o c
    <3> HIDE DEF e
    <3>2. e \in Seq(X) /\ Len(e) = 4 /\ \A i \in 1..4 : e[i] = IF i <= 2 THEN c[i] ELSE c[i - 2]
      BY <2>1, <3>1 DEF e
    <3> QED
      BY <3>2 DEF e
  <2> QED
    BY <1>1, <2>1, Zenon
<1>3. 3 - 2 = 1 /\ 4 - 2 = 2
  OBVIOUS
<1> QED
  BY <1>1, <1>2, <1>3 DEF Terminator

\* An occurrence in a part of a sequence is one in the sequence.
LEMMA OccursWithin ==
  ASSUME NEW X, NEW r \in Seq(X), NEW s \in Seq(X), NEW d \in Seq(X), NEW c \in Nat, Within(r, s, c),
         NEW i \in Nat
  PROVE  /\ Occurs(r, d, i) => Occurs(s, d, c + i)
         /\ i >= 1 /\ i + Len(d) - 1 <= Len(r) /\ Occurs(s, d, c + i) => Occurs(r, d, i)
<1>1. Len(r) \in Nat /\ Len(s) \in Nat /\ Len(d) \in Nat
  BY LenProperties
<1>2. ASSUME i >= 1, i + Len(d) - 1 <= Len(r), NEW k \in 1..Len(d)
      PROVE  r[i + k - 1] = s[(c + i) + k - 1]
  <2>1. i + k - 1 \in 1..Len(r) /\ c + (i + k - 1) = (c + i) + k - 1
    BY <1>1, <1>2
  <2>2. r[i + k - 1] = s[c + (i + k - 1)]
    BY <2>1 DEF Within
  <2> QED
    BY <2>1, <2>2
<1>3. i >= 1 => c + i >= 1
  OBVIOUS
<1>4. i + Len(d) - 1 <= Len(r) => (c + i) + Len(d) - 1 <= Len(s)
  BY <1>1 DEF Within
<1> QED
  BY <1>2, <1>3, <1>4 DEF Occurs

\* Both parts of a concatenation stand in it.
LEMMA ConcatWithin ==
  ASSUME NEW X, NEW r \in Seq(X), NEW s \in Seq(X)
  PROVE  Within(r, r \o s, 0) /\ Within(s, r \o s, Len(r))
<1>1. /\ Len(r) \in Nat /\ Len(s) \in Nat /\ Len(r \o s) = Len(r) + Len(s)
      /\ \A i \in 1..(Len(r) + Len(s)) : (r \o s)[i] = IF i <= Len(r) THEN r[i] ELSE s[i - Len(r)]
  BY LenProperties, ConcatProperties
<1> DEFINE t == r \o s
<1> HIDE DEF t
<1>2. ASSUME NEW j \in 1..Len(r) PROVE r[j] = t[0 + j]
  BY <1>1 DEF t
<1>3. ASSUME NEW j \in 1..Len(s) PROVE s[j] = t[Len(r) + j]
  <2>1. Len(r) + j \in 1..(Len(r) + Len(s)) /\ ~(Len(r) + j <= Len(r)) /\ (Len(r) + j) - Len(r) = j
    BY <1>1
  <2> QED
    BY <1>1, <2>1 DEF t
<1>4. 0 + Len(r) <= Len(t) /\ Len(r) + Len(s) <= Len(t)
  BY <1>1 DEF t
<1> QED
  BY <1>2, <1>3, <1>4 DEF Within, t

\* FindAndPopTill cuts the text behind its first terminator, if it has one.
LEMMA PopTill ==
  ASSUME NEW X, CR \in X, LF \in X, NEW s \in Seq(X), NEW f, f = FindAndPopTill(s, Terminator)
  PROVE  /\ f.found \in BOOLEAN
         /\ f.found => /\ f.res \in Seq(X) /\ f.rest \in Seq(X) /\ s = f.res \o f.rest
                       /\ Whole(f.res)
         /\ ~f.found => NoneAfter(s, Terminator, 1)
<1> DEFINE t == Find(s, Terminator, 1)
<1>1. Terminator \in Seq(X) /\ Len(Terminator) = 4 /\ Len(s) \in Nat
  BY TerminatorIs, LenProperties
<1>2. t \in Nat /\ (t = 0 => NoneAfter(s, Terminator, 1)) /\ (t # 0 => FirstAt(s, Terminator, 1, t))
  <2>1. ASSUME NEW b \in Nat \ {0}, NEW d \in Seq(X), Len(d) = 4
        PROVE  /\ Find(s, d, b) \in Nat
               /\ Find(s, d, b) = 0 => NoneAfter(s, d, b)
               /\ Find(s, d, b) # 0 => FirstAt(s, d, b, Find(s, d, b))
    <3>1. Len(d) >= 1
      BY <2>1
    <3> QED
      BY <3>1, FindIs
  <2>2. 1 \in Nat \ {0}
    OBVIOUS
  <2> QED
    BY <1>1, <2>1, <2>2, Zenon
<1>3. f = IF t = 0 THEN [found |-> FALSE, res |-> <<>>, rest |-> s]
          ELSE [found |-> TRUE, res |-> SubSeq(s, 1, t + Len(Terminator) - 1),
                rest |-> From(s, (t + Len(Terminator) - 1) + 1)]
  BY DEF FindAndPopTill, Npos
<1> HIDE DEF t
<1>4. CASE t = 0
  BY <1>2, <1>3, <1>4
<1>5. CASE t # 0
  <2>1. PICK n \in Nat : n = t + 3
    BY <1>2
  <2>2. t >= 1 /\ n <= Len(s) /\ t + Len(Terminator) - 1 = n
    BY <1>1, <1>2, <1>5, <2>1 DEF FirstAt, Occurs
  <2>3. f.found = TRUE /\ f.res = Take(s, n) /\ f.rest = From(s, n + 1)
    BY <1>3, <1>5, <2>2 DEF Take
  <2> DEFINE r == f.res
             z == f.rest
  <2>4. r \in Seq(X) /\ z \in Seq(X) /\ s = r \o z
    BY <2>2, <2>3, TakeFrom
  <2>5. Len(r) = n
    <3>1. 0 \in Nat /\ 0 <= n /\ 0 + 1 = 1 /\ n - 0 = n
      BY <2>1
    <3>2. Len(SubSeq(s, 0 + 1, n)) = n - 0
      BY <2>2, <3>1, Cutting
    <3> QED
      BY <2>3, <3>1, <3>2 DEF Take
  <2> HIDE DEF r, z
  <2>6. Within(r, s, 0)
    BY <2>4, ConcatWithin
  <2>7. \A i \in Nat : 0 + i = i
    OBVIOUS
  <2>8. \A i \in Nat : /\ Occurs(r, Terminator, i) => Occurs(s, Terminator, i)
                       /\ i >= 1 /\ i + 3 <= n /\ Occurs(s, Terminator, i) => Occurs(r, Terminator, i)
    <3> SUFFICES ASSUME NEW i \in Nat
                 PROVE /\ Occurs(r, Terminator, i) => Occurs(s, Terminator, i)
                       /\ i >= 1 /\ i + 3 <= n /\ Occurs(s, Terminator, i) => Occurs(r, Terminator, i)
      OBVIOUS
    <3>1. /\ Occurs(r, Terminator, i) => Occurs(s, Terminator, 0 + i)
          /\ i >= 1 /\ i + Len(Terminator) - 1 <= Len(r) /\ Occurs(s, Terminator, 0 + i) => Occurs(r, Terminator, i)
      BY <1>1, <2>4, <2>6, OccursWithin
    <3>2. i + 3 <= n => i + Len(Terminator) - 1 <= Len(r)
      BY <1>1, <2>1, <2>5
    <3> QED
      BY <2>7, <3>1, <3>2
  <2>9. Len(r) - 3 = t /\ Len(r) >= 4 /\ t + 3 <= n
    BY <1>2, <2>1, <2>2, <2>5
  <2>10. Occurs(r, Terminator, t)
    BY <1>2, <1>5, <2>2, <2>8, <2>9 DEF FirstAt
  <2>11. ASSUME NEW j \in 1..(t - 1) PROVE ~Occurs(r, Terminator, j)
    BY <1>2, <1>5, <2>8 DEF FirstAt
  <2>12. Whole(r)
    BY <2>2, <2>9, <2>10, <2>11 DEF Whole, FirstAt
  <2> QED
    BY <2>3, <2>4, <2>12 DEF r, z
<1> QED
  BY <1>4, <1>5

\* A step of the HTTP handler: a request is popped, or none is left.
Popping(r, z) ==
  /\ r \in Seq(Byte) /\ z \in Seq(Byte) /\ Whole(r)
  /\ rbuf = r \o z /\ rbuf' = z /\ popped' = Append(popped, r) /\ pc' = pc

LEMMA HandleHttpIs ==
  ASSUME TypeOK, HandleHttp
  PROVE  /\ app = "http" /\ pc = "handle"
         /\ UNCHANGED <<app, sent, unsent, waiting, got, net, inq, fin, reset, outq, wbuf, curWrite>>
         /\ \/ \E r, z : Popping(r, z)
            \/ NoneAfter(rbuf, Terminator, 1) /\ pc' = "idle" /\ popped' = popped /\ rbuf' = rbuf
<1>1. PICK f : f = FindAndPopTill(rbuf, Terminator)
  OBVIOUS
<1>2. /\ app = "http" /\ pc = "handle"
      /\ IF f.found THEN popped' = Append(popped, f.res) /\ rbuf' = f.rest /\ UNCHANGED pc
                    ELSE pc' = "idle" /\ UNCHANGED <<popped, rbuf>>
      /\ UNCHANGED <<app, sent, unsent, waiting, got, net, inq, fin, reset, outq, wbuf, curWrite>>
  BY <1>1 DEF HandleHttp, Terminator, clientVars, netVars
<1>3. CR \in Byte /\ LF \in Byte /\ rbuf \in Seq(Byte)
  BY DEF Byte, TypeOK
<1>4. /\ f.found \in BOOLEAN
      /\ f.found => /\ f.res \in Seq(Byte) /\ f.rest \in Seq(Byte) /\ rbuf = f.res \o f.rest
                    /\ Whole(f.res)
      /\ ~f.found => NoneAfter(rbuf, Terminator, 1)
  BY <1>1, <1>3, PopTill
<1>5. CASE f.found
  <2>1. Popping(f.res, f.rest)
    BY <1>2, <1>4, <1>5 DEF Popping
  <2> QED
    BY <1>2, <2>1
<1>6. CASE ~f.found
  BY <1>2, <1>4, <1>6
<1> QED
  BY <1>5, <1>6

\* What is popped comes behind what was popped before.
LEMMA HandleHttpFlow ==
  ASSUME TypeOK, FlowInv, HandleHttp
  PROVE  TypeOK' /\ FlowInv'
<1>1. /\ app = "http" /\ pc = "handle"
      /\ UNCHANGED <<app, sent, unsent, waiting, got, net, inq, fin, reset, outq, wbuf, curWrite>>
  BY HandleHttpIs
<1>2. CASE \E r, z : Popping(r, z)
  <2>1. PICK r, z : Popping(r, z)
    BY <1>2
  <2>2. /\ r \in Seq(Byte) /\ z \in Seq(Byte) /\ rbuf = r \o z /\ rbuf' = z
        /\ popped' = Append(popped, r) /\ pc' = pc
    BY <2>1 DEF Popping
  <2>3. popped \in Seq(Seq(Byte)) /\ popped' \in Seq(Seq(Byte))
    BY <2>2, AppendProperties DEF TypeOK
  <2>4. TypeOK'
    BY <1>1, <2>2, <2>3 DEF TypeOK
  <2>5. FlattenSeq(popped) \in Seq(Byte) /\ FlattenGrows(popped, r)
    BY <2>2, <2>3, FlattenAppend
  <2>6. FlattenSeq(popped') = FlattenSeq(popped) \o r
    BY <2>2, <2>5 DEF FlattenGrows
  <2> DEFINE a == FlattenSeq(popped)
  <2>7. /\ Arrived = a /\ Arrived' = FlattenSeq(popped') /\ Held = rbuf /\ Held' = z /\ outq = <<>>
    BY <1>1, <2>2 DEF Arrived, Held, FlowInv
  <2>8. (a \o <<>>) \o (r \o z) = ((a \o r) \o <<>>) \o z
    <3>1. a \o <<>> = a /\ (a \o r) \o <<>> = a \o r
      BY <2>2, <2>5, ConcatEmptySeq, ConcatProperties
    <3>2. Associates(a, r, z)
      BY <2>2, <2>5, Associating
    <3> QED
      BY <3>1, <3>2, Zenon DEF Associates
  <2> HIDE DEF a
  <2>9. ((Arrived \o outq) \o Held)' = (Arrived \o outq) \o Held
    BY <1>1, <2>2, <2>6, <2>7, <2>8 DEF a
  <2>10. ~reset => Kept'
    BY <1>1, <2>9 DEF FlowInv, Kept
  <2> QED
    BY <1>1, <2>2, <2>4, <2>10 DEF FlowInv
<1>3. CASE pc' = "idle" /\ popped' = popped /\ rbuf' = rbuf
  <2>1. Arrived' = Arrived /\ Held' = Held
    BY <1>1, <1>3 DEF Arrived, Held
  <2>2. TypeOK'
    BY <1>1, <1>3 DEF TypeOK
  <2>3. ~reset => Kept'
    BY <1>1, <2>1 DEF FlowInv, Kept
  <2> QED
    BY <1>1, <1>3, <2>2, <2>3 DEF FlowInv
<1> QED
  BY <1>2, <1>3, HandleHttpIs

\* Nothing has been sent.
LEMMA FlowInitially ==
  ASSUME Init
  PROVE  TypeOK /\ FlowInv
<1>1. <<>> \in Seq(Byte) /\ <<>> \in Seq(Seq(Byte)) /\ Len(<<>>) = 0
  BY EmptySeq
<1>2. TypeOK
  <2>1. app \in {"echo", "http"} /\ pc = "idle" /\ curWrite = 0 /\ {waiting, fin, reset} \subseteq BOOLEAN
    BY DEF Init
  <2>2. {sent, unsent, net, inq, rbuf, wbuf, outq, got} \subseteq Seq(Byte)
    BY <1>1 DEF Init
  <2>3. popped \in Seq(Seq(Byte)) /\ Len(wbuf) = 0
    BY <1>1 DEF Init
  <2> QED
    BY <2>1, <2>2, <2>3 DEF TypeOK
<1>3. Arrived = <<>> /\ Held = <<>>
  BY FlattenEmpty DEF Init, Arrived, Held
<1>4. <<>> \o <<>> = <<>>
  BY <1>1, ConcatEmptySeq
<1>5. Kept
  BY <1>3, <1>4 DEF Init, Kept
<1> QED
  BY <1>2, <1>5 DEF Init, FlowInv

\* Every step keeps the bytes in order.
LEMMA FlowKept ==
  ASSUME TypeOK, FlowInv, [Next]_vars
  PROVE  TypeOK' /\ FlowInv'
<1>1. CASE \E n \in 1..BufSize : Type(n)
  BY <1>1, TypeFlow
<1>2. CASE \E piece \in Pieces : Write(piece)
  BY <1>2, PieceFlow
<1>3. CASE \E n \in 1..NetSize : ClientSend(n)
  BY <1>3, ClientSendFlow
<1>4. CASE \E n \in 1..NetSize : Deliver(n)
  BY <1>4, DeliverFlow
<1>5. CASE ClientRecv
  BY <1>5, ClientRecvFlow
<1>6. CASE RecvChunk
  BY <1>6, RecvChunkFlow
<1>7. CASE \E n \in 1..NetSize : SendSome(n)
  BY <1>7, SendSomeFlow
<1>8. CASE SendReturn
  BY <1>8, SendReturnFlow
<1>9. CASE HandleEcho
  BY <1>9, HandleEchoFlow
<1>10. CASE HandleHttp
  BY <1>10, HandleHttpFlow
<1>11. CASE ClientClose \/ ClientReset \/ Ready \/ RecvReturn \/ UNCHANGED vars
  BY <1>11, OtherFlow
<1> QED
  BY <1>1, <1>2, <1>3, <1>4, <1>5, <1>6, <1>7, <1>8, <1>9, <1>10, <1>11, Zenon DEF Next, Server

\* No byte is lost, doubled or overtaken between the client's send() and the handler,
\* and, with the echo server, on the way back: for all sizes of the buffers.
THEOREM BytesKept == Spec => []StreamKept
<1>1. TypeOK /\ FlowInv => StreamKept
  BY DEF FlowInv, Kept, Arrived, Held, StreamKept
<1>2. Init => TypeOK /\ FlowInv
  BY FlowInitially
<1>3. TypeOK /\ FlowInv /\ [Next]_vars => (TypeOK /\ FlowInv)'
  BY FlowKept
<1> QED
  BY <1>1, <1>2, <1>3, PTL DEF Spec

-----------------------------------------------------------------------------
(* The requests popped are the first of the text.                          *)

\* What was popped and what waits in read_buffer_ is the beginning of what was sent, of
\* a broken connection too; each request popped is whole; and none waits while the
\* handler does not run.
RequestInv ==
  /\ app = "echo" => popped = <<>>
  /\ \A i \in 1..Len(popped) : Whole(popped[i])
  /\ app = "http" => \E more \in Seq(Byte) : sent = (FlattenSeq(popped) \o rbuf) \o more
  /\ app = "http" /\ pc = "idle" => NoneAfter(rbuf, Terminator, 1)

\* Nothing has been popped.
LEMMA RequestInitially ==
  ASSUME Init
  PROVE  RequestInv
<1>1. <<>> \in Seq(Byte) /\ Len(<<>>) = 0 /\ <<>> \o <<>> = <<>>
  BY EmptySeq, ConcatEmptySeq
<1>2. sent = (FlattenSeq(popped) \o rbuf) \o <<>>
  BY <1>1, FlattenEmpty DEF Init
<1>3. NoneAfter(rbuf, Terminator, 1)
  <2>1. Len(Terminator) = 4
    <3>1. CR \in Byte /\ LF \in Byte
      BY DEF Byte
    <3> QED
      BY <3>1, TerminatorIs
  <2> QED
    BY <1>1, <2>1 DEF Init, NoneAfter, Occurs
<1>4. \E more \in Seq(Byte) : sent = (FlattenSeq(popped) \o rbuf) \o more
  BY <1>1, <1>2, Zenon
<1> QED
  BY <1>1, <1>3, <1>4 DEF Init, RequestInv

\* What the rest of an unbroken stream is.
Joined(b, i, n, u) == ((b \o i) \o n) \o u = b \o ((i \o n) \o u)

LEMMA Joining ==
  ASSUME NEW X, NEW b \in Seq(X), NEW i \in Seq(X), NEW n \in Seq(X), NEW u \in Seq(X)
  PROVE  (i \o n) \o u \in Seq(X) /\ Joined(b, i, n, u)
<1>1. i \o n \in Seq(X) /\ (i \o n) \o u \in Seq(X)
  BY ConcatProperties
<1>2. Associates(b, i, n)
  BY Associating
<1>3. Associates(b, i \o n, u)
  <2>1. ASSUME NEW c \in Seq(X) PROVE Associates(b, c, u)
    BY Associating
  <2> QED
    BY <1>1, <2>1, Zenon
<1> QED
  BY <1>1, <1>2, <1>3, Zenon DEF Joined, Associates

RestIs(a, h, i, n, u) ==
  ((((a \o <<>>) \o h) \o i) \o n) \o u = (a \o h) \o ((i \o n) \o u)

\* The same, with the empty way back of an HTTP connection.
LEMMA RestOfStream ==
  ASSUME NEW X, NEW a \in Seq(X), NEW h \in Seq(X), NEW i \in Seq(X), NEW n \in Seq(X), NEW u \in Seq(X)
  PROVE  (i \o n) \o u \in Seq(X) /\ RestIs(a, h, i, n, u)
<1>1. a \o <<>> = a /\ a \o h \in Seq(X)
  BY ConcatEmptySeq, ConcatProperties
<1>2. ASSUME NEW b \in Seq(X) PROVE (i \o n) \o u \in Seq(X) /\ Joined(b, i, n, u)
  BY Joining
<1>3. (i \o n) \o u \in Seq(X) /\ Joined(a \o h, i, n, u)
  BY <1>1, <1>2, Zenon
<1> QED
  BY <1>1, <1>3, Zenon DEF RestIs, Joined

\* All steps but those of the HTTP handler.
LEMMA OthersKeepRequests ==
  ASSUME TypeOK, FlowInv, RequestInv, [Next]_vars, TypeOK', FlowInv', ~HandleHttp
  PROVE  RequestInv'
<1>1. app' = app /\ popped' = popped
  BY DEF Next, Server, Type, Write, ClientSend, Deliver, ClientRecv, ClientClose, ClientReset, Ready, RecvChunk,
         RecvReturn, HandleEcho, SendReturn, SendSome, BufferSize, BufferData, BufferClear,
         GetWriteBufferSize, vars, clientVars, netVars, serverVars
<1>2. app = "http" => (pc' = "idle" => pc = "idle" /\ rbuf' = rbuf)
  BY DEF Next, Server, Type, Write, ClientSend, Deliver, ClientRecv, ClientClose, ClientReset, Ready, RecvChunk,
         RecvReturn, HandleEcho, SendReturn, SendSome, BufferSize, BufferData, BufferClear,
         GetWriteBufferSize, vars, clientVars, netVars, serverVars, FlowInv
<1>3. ASSUME app = "http" PROVE \E more \in Seq(Byte) : sent' = (FlattenSeq(popped') \o rbuf') \o more
  <2>1. CASE ~reset'
    <3>1. /\ FlattenSeq(popped) \in Seq(Byte) /\ rbuf' \in Seq(Byte) /\ inq' \in Seq(Byte)
          /\ net' \in Seq(Byte) /\ unsent' \in Seq(Byte)
      BY EmptySeq, FlattenAppend DEF TypeOK
    <3>2. outq' = <<>> /\ pc' # "send" /\ Kept'
      BY <1>1, <1>3, <2>1 DEF FlowInv
    <3>3. sent' = ((((FlattenSeq(popped) \o <<>>) \o rbuf') \o inq') \o net') \o unsent'
      BY <1>1, <1>3, <3>2 DEF Kept, Arrived, Held
    <3>4. ASSUME NEW a \in Seq(Byte), NEW h \in Seq(Byte), NEW i \in Seq(Byte), NEW n \in Seq(Byte),
                 NEW u \in Seq(Byte)
          PROVE  (i \o n) \o u \in Seq(Byte) /\ RestIs(a, h, i, n, u)
      BY RestOfStream
    <3>5. (inq' \o net') \o unsent' \in Seq(Byte) /\ RestIs(FlattenSeq(popped), rbuf', inq', net', unsent')
      BY <3>1, <3>4, Zenon
    <3>6. sent' = (FlattenSeq(popped) \o rbuf') \o ((inq' \o net') \o unsent')
      BY <3>3, <3>5, Zenon DEF RestIs
    <3> QED
      BY <1>1, <3>5, <3>6, Zenon
  <2>2. CASE reset'
    <3>1. PICK more \in Seq(Byte) : sent = (FlattenSeq(popped) \o rbuf) \o more
      BY <1>3 DEF RequestInv
    <3>2. rbuf' = rbuf /\ \/ sent' = sent
                          \/ \E p \in Pieces : sent' = sent \o p
      <4>1. CASE \E n \in 1..BufSize : Type(n)
        BY <1>3, <4>1 DEF Type
      <4>2. CASE \E piece \in Pieces : Write(piece)
        BY <4>2 DEF Write, serverVars
      <4>3. CASE \E n \in 1..NetSize : ClientSend(n) \/ Deliver(n)
        BY <4>3 DEF ClientSend, Deliver, clientVars, serverVars
      <4>4. CASE ClientRecv \/ ClientClose \/ ClientReset
        BY <4>4 DEF ClientRecv, ClientClose, ClientReset, clientVars, serverVars
      <4>5. CASE RecvChunk
        BY <2>2, <4>5 DEF RecvChunk, FlowInv
      <4>6. CASE SendReturn
        BY <1>3, <4>6 DEF SendReturn, FlowInv, BufferSize, BufferData, BufferClear, GetWriteBufferSize
      <4>7. CASE Ready \/ RecvReturn \/ HandleEcho \/ (\E n \in 1..NetSize : SendSome(n)) \/ UNCHANGED vars
        BY <4>7 DEF Ready, RecvReturn, HandleEcho, SendSome, BufferSize, BufferData, BufferClear,
         GetWriteBufferSize, vars, clientVars, serverVars
      <4> QED
        BY <4>1, <4>2, <4>3, <4>4, <4>5, <4>6, <4>7 DEF Next, Server
    <3>3. CASE sent' = sent
      BY <1>1, <3>1, <3>2, <3>3
    <3>4. CASE \E p \in Pieces : sent' = sent \o p
      <4>1. PICK p \in Pieces : sent' = sent \o p
        BY <3>4
      <4>2. p \in Seq(Byte)
        <5>1. Chars \subseteq Byte /\ p \in Seq(Chars)
          BY StreamAssumption DEF Byte
        <5> QED
          BY <5>1, SeqMonotonic
      <4>3. FlattenSeq(popped) \o rbuf \in Seq(Byte)
        <5>1. FlattenSeq(popped) \in Seq(Byte) /\ rbuf \in Seq(Byte)
          BY EmptySeq, FlattenAppend DEF TypeOK
        <5> QED
          BY <5>1, ConcatProperties
      <4> DEFINE b == FlattenSeq(popped) \o rbuf
      <4> HIDE DEF b
      <4>4. b \in Seq(Byte) /\ more \o p \in Seq(Byte)
        <5>1. more \o p \in Seq(Byte)
          BY <3>1, <4>2, ConcatProperties
        <5> QED
          BY <4>3, <5>1, Zenon DEF b
      <4>5. sent' = b \o (more \o p)
        <5>1. Associates(b, more, p)
          BY <3>1, <4>2, <4>4, Associating
        <5> QED
          BY <3>1, <4>1, <5>1, Zenon DEF b, Associates
      <4> QED
        BY <1>1, <3>2, <4>4, <4>5, Zenon DEF b
    <3> QED
      BY <3>2, <3>3, <3>4
  <2> QED
    BY <2>1, <2>2
<1> QED
  BY <1>1, <1>2, <1>3 DEF RequestInv

\* The HTTP handler pops a whole request, or stops when there is none.
LEMMA HandleHttpKeepsRequests ==
  ASSUME TypeOK, FlowInv, RequestInv, HandleHttp
  PROVE  RequestInv'
<1>1. /\ app = "http" /\ pc = "handle"
      /\ UNCHANGED <<app, sent, unsent, waiting, got, net, inq, fin, reset, outq, wbuf, curWrite>>
  BY HandleHttpIs
<1>2. PICK more \in Seq(Byte) : sent = (FlattenSeq(popped) \o rbuf) \o more
  BY <1>1 DEF RequestInv
<1>3. CASE \E r, z : Popping(r, z)
  <2>1. PICK r, z : Popping(r, z)
    BY <1>3
  <2>2. /\ r \in Seq(Byte) /\ z \in Seq(Byte) /\ rbuf = r \o z /\ rbuf' = z /\ Whole(r)
        /\ popped' = Append(popped, r) /\ pc' = pc /\ popped \in Seq(Seq(Byte))
    BY <2>1 DEF Popping, TypeOK
  <2>3. FlattenSeq(popped) \in Seq(Byte) /\ FlattenGrows(popped, r)
    BY <2>2, FlattenAppend
  <2>4. Associates(FlattenSeq(popped), r, z)
    BY <2>2, <2>3, Associating
  <2>5. sent' = (FlattenSeq(popped') \o rbuf') \o more
    BY <1>1, <1>2, <2>2, <2>3, <2>4 DEF FlattenGrows, Associates
  <2>6. ASSUME NEW i \in 1..Len(popped') PROVE Whole(popped'[i])
    <3>1. /\ Len(popped) \in Nat /\ Len(popped') = Len(popped) + 1 /\ popped'[Len(popped) + 1] = r
          /\ \A j \in 1..Len(popped) : popped'[j] = popped[j]
      BY <2>2, AppendProperties, LenProperties
    <3>2. CASE i = Len(popped) + 1
      BY <2>2, <3>1, <3>2
    <3>3. CASE i # Len(popped) + 1
      <4>1. i \in 1..Len(popped)
        BY <3>1, <3>3
      <4> QED
        BY <3>1, <4>1 DEF RequestInv
    <3> QED
      BY <3>2, <3>3
  <2> QED
    BY <1>1, <2>2, <2>5, <2>6 DEF RequestInv
<1>4. CASE NoneAfter(rbuf, Terminator, 1) /\ pc' = "idle" /\ popped' = popped /\ rbuf' = rbuf
  BY <1>1, <1>2, <1>4 DEF RequestInv
<1> QED
  BY <1>3, <1>4, HandleHttpIs

\* The properties made inductive.
StreamInv == TypeOK /\ FlowInv /\ RequestInv

LEMMA StreamInductive == (Init => StreamInv) /\ (StreamInv /\ [Next]_vars => StreamInv')
<1>1. Init => StreamInv
  BY FlowInitially, RequestInitially DEF StreamInv
<1>2. ASSUME StreamInv, [Next]_vars PROVE StreamInv'
  <2>1. TypeOK' /\ FlowInv'
    BY <1>2, FlowKept DEF StreamInv
  <2>2. RequestInv'
    BY <1>2, <2>1, OthersKeepRequests, HandleHttpKeepsRequests DEF StreamInv
  <2> QED
    BY <2>1, <2>2 DEF StreamInv
<1> QED
  BY <1>1, <1>2

-----------------------------------------------------------------------------
(* The frames of a text.                                                   *)

\* A part of a sequence, as SubSeq cuts it out.
LEMMA PartIs ==
  ASSUME NEW X, NEW s \in Seq(X), NEW i \in Nat \ {0}, NEW j \in Nat, j <= Len(s), i <= j + 1
  PROVE  /\ SubSeq(s, i, j) \in Seq(X) /\ Len(SubSeq(s, i, j)) = j - i + 1
         /\ Within(SubSeq(s, i, j), s, i - 1)
<1> DEFINE u == SubSeq(s, i, j)
<1>1. Len(s) \in Nat
  BY LenProperties
<1>2. \A k \in i..j : s[k] \in X
  <2> SUFFICES ASSUME NEW k \in i..j PROVE s[k] \in X
    OBVIOUS
  <2>1. k \in 1..Len(s)
    BY <1>1
  <2> QED
    BY <2>1, ElementOfSeq
<1>3. /\ u \in Seq(X) /\ Len(u) = IF i <= j THEN j - i + 1 ELSE 0
      /\ \A k \in 1..(j - i + 1) : u[k] = s[i + k - 1]
  BY <1>2, SubSeqProperties
<1> HIDE DEF u
<1>4. Len(u) = j - i + 1
  BY <1>3
<1>5. ASSUME NEW k \in 1..Len(u) PROVE u[k] = s[(i - 1) + k]
  <2>1. k \in 1..(j - i + 1) /\ i + k - 1 = (i - 1) + k
    BY <1>4
  <2>2. u[k] = s[i + k - 1]
    BY <1>3, <2>1
  <2> QED
    BY <2>1, <2>2
<1>6. (i - 1) + Len(u) <= Len(s)
  BY <1>1, <1>4
<1> QED
  BY <1>3, <1>4, <1>5, <1>6 DEF Within, u

\* A part that stands in s is what SubSeq cuts out there.
LEMMA WithinIsPart ==
  ASSUME NEW X, NEW r \in Seq(X), NEW s \in Seq(X), NEW c \in Nat, Within(r, s, c)
  PROVE  SubSeq(s, c + 1, c + Len(r)) = r
<1>1. Len(r) \in Nat /\ Len(s) \in Nat
  BY LenProperties
<1>2. c + 1 \in Nat \ {0} /\ c + Len(r) \in Nat /\ c + Len(r) <= Len(s) /\ c + 1 <= (c + Len(r)) + 1
  BY <1>1 DEF Within
<1> DEFINE u == SubSeq(s, c + 1, c + Len(r))
<1>3. u \in Seq(X) /\ Len(u) = (c + Len(r)) - (c + 1) + 1 /\ Within(u, s, (c + 1) - 1)
  BY <1>2, PartIs
<1> HIDE DEF u
<1>4. Len(u) = Len(r) /\ (c + 1) - 1 = c
  BY <1>1, <1>3
<1>5. \A k \in 1..Len(u) : u[k] = r[k]
  BY <1>3, <1>4 DEF Within
<1> QED
  BY <1>3, <1>4, <1>5, SeqEqual DEF u

\* f is what the definition of Frames says, from each place of the text.
FrameChain(f, text, X) ==
  \A b \in 1..(Len(text) + 1) :
    /\ f[b] \in Seq(Seq(X))
    /\ NoneAfter(text, Terminator, b) => f[b] = <<>>
    /\ \A t \in Nat : FirstAt(text, Terminator, b, t) => f[b] = <<SubSeq(text, b, t + 3)>> \o f[t + 4]

\* Frames, as its recursion computes it.
LEMMA FramesIs ==
  ASSUME NEW X, CR \in X, LF \in X, NEW text \in Seq(X)
  PROVE  \E f : FrameChain(f, text, X) /\ Frames(text) = f[1]
<1> DEFINE M == Len(text) + 1
           At(b) == Find(text, Terminator, b)
           Up(g) == [b \in 1..(Len(text) + 1) |->
                       LET t == Find(text, CRLF \o CRLF, b)
                       IN IF t = Npos THEN <<>> ELSE <<SubSeq(text, b, t + 3)>> \o g[t + 4]]
           it == CHOOSE it : it = Up(it)
           nxt == [b \in 1..M |-> IF At(b) = 0 THEN 0 ELSE At(b) + 4]
           piece == [b \in 1..M |-> IF At(b) = 0 THEN <<>> ELSE SubSeq(text, b, At(b) + 3)]
           last == [b \in 1..M |-> <<>>]
<1>1. Len(text) \in Nat /\ M \in Nat /\ 1 \in 1..M /\ Terminator \in Seq(X) /\ Len(Terminator) = 4
  BY TerminatorIs, LenProperties
<1>2. ASSUME NEW b \in 1..M
      PROVE  /\ At(b) \in Nat /\ (At(b) = 0 => NoneAfter(text, Terminator, b))
             /\ At(b) # 0 => /\ FirstAt(text, Terminator, b, At(b))
                             /\ At(b) >= b /\ At(b) + 3 <= Len(text) /\ At(b) + 3 \in Nat
                             /\ b <= (At(b) + 3) + 1
  <2>1. b \in Nat \ {0} /\ Len(Terminator) >= 1
    BY <1>1
  <2>2. /\ At(b) \in Nat /\ (At(b) = 0 => NoneAfter(text, Terminator, b))
        /\ At(b) # 0 => FirstAt(text, Terminator, b, At(b))
    BY <1>1, <2>1, FindIs
  <2> HIDE DEF At
  <2>3. ASSUME At(b) # 0 PROVE At(b) >= b /\ At(b) + 3 <= Len(text)
    BY <1>1, <2>2, <2>3 DEF FirstAt, Occurs
  <2> QED
    BY <2>1, <2>2, <2>3
<1>3. piece \in [1..M -> Seq(X)]
  <2> SUFFICES ASSUME NEW b \in 1..M PROVE (IF At(b) = 0 THEN <<>> ELSE SubSeq(text, b, At(b) + 3)) \in Seq(X)
    OBVIOUS
  <2> HIDE DEF At
  <2>1. CASE At(b) = 0
    BY <2>1, EmptySeq
  <2>2. CASE At(b) # 0
    <3>1. SubSeq(text, b, At(b) + 3) \in Seq(X)
      <4>1. PICK j \in Nat : j = At(b) + 3
        BY <1>2, <2>2
      <4>2. b \in Nat \ {0} /\ j <= Len(text) /\ b <= j + 1
        BY <1>1, <1>2, <2>2, <4>1
      <4>3. SubSeq(text, b, j) \in Seq(X)
        BY <4>2, PartIs
      <4> QED
        BY <4>1, <4>3
    <3> QED
      BY <2>2, <3>1
  <2> QED
    BY <2>1, <2>2
<1>4. last \in [1..M -> Seq(Seq(X))]
  BY EmptySeq
<1>5. LeadsUp(nxt, M)
  <2> SUFFICES ASSUME NEW b \in 1..M, nxt[b] # 0 PROVE nxt[b] \in (b + 1)..M
    BY DEF LeadsUp
  <2> HIDE DEF At
  <2>1. At(b) # 0 /\ nxt[b] = At(b) + 4
    OBVIOUS
  <2> QED
    BY <1>1, <1>2, <2>1
<1>6. PICK f \in [1..M -> Seq(Seq(X))] : Chained(f, nxt, piece, last, M)
  <2> HIDE DEF nxt, piece, last, M
  <2> QED
    BY <1>1, <1>3, <1>4, <1>5, ChainExists
<1> DEFINE Val(g, b) == IF At(b) = 0 THEN <<>> ELSE <<SubSeq(text, b, At(b) + 3)>> \o g[At(b) + 4]
<1>7. ASSUME NEW g, NEW b \in 1..M
      PROVE  (IF nxt[b] = 0 THEN last[b] ELSE <<piece[b]>> \o g[nxt[b]]) = Val(g, b)
  <2> HIDE DEF At
  <2>1. CASE At(b) = 0
    BY <2>1
  <2>2. CASE At(b) # 0
    <3>1. nxt[b] = At(b) + 4 /\ nxt[b] # 0 /\ piece[b] = SubSeq(text, b, At(b) + 3)
      BY <1>2, <2>2
    <3> HIDE DEF nxt, piece
    <3> QED
      BY <2>2, <3>1, Zenon
  <2> QED
    BY <2>1, <2>2
<1>8. \A g : Up(g) = [b \in 1..M |-> Val(g, b)]
  BY Zenon DEF Terminator, Npos
<1>9. Frames(text) = it[1]
  BY Zenon DEF Frames
<1>10. \A b \in 1..M : f[b] = Val(f, b)
  <2> HIDE DEF Val, nxt, piece, last, M
  <2> QED
    BY <1>6, <1>7, Zenon DEF Chained
<1>11. \E g : g = Up(g)
  <2>1. f = [b \in 1..M |-> f[b]]
    BY <1>6
  <2> HIDE DEF Val, Up
  <2>2. [b \in 1..M |-> f[b]] = [b \in 1..M |-> Val(f, b)]
    BY <1>10, Zenon
  <2> QED
    BY <1>8, <2>1, <2>2, Zenon
<1>12. it = Up(it)
  BY <1>11, Zenon
<1> HIDE DEF it
<1>13. \A b \in 1..M : it[b] = Val(it, b)
  <2> HIDE DEF Val, Up
  <2>1. it = [b \in 1..M |-> Val(it, b)]
    BY <1>8, <1>12, Zenon
  <2> QED
    BY <2>1, Zenon
<1>14. Chained(it, nxt, piece, last, M)
  <2> HIDE DEF Val, nxt, piece, last, M
  <2> QED
    BY <1>7, <1>13, Zenon DEF Chained
<1>15. it[1] = f[1]
  <2> HIDE DEF nxt, piece, last, M
  <2>1. \A b \in 1..M : it[b] = f[b]
    BY <1>1, <1>5, <1>6, <1>14, ChainUnique
  <2> QED
    BY <1>1, <2>1
<1>16. ASSUME NEW b \in 1..M
       PROVE  /\ f[b] \in Seq(Seq(X))
              /\ NoneAfter(text, Terminator, b) => f[b] = <<>>
              /\ \A t \in Nat : FirstAt(text, Terminator, b, t) => f[b] = <<SubSeq(text, b, t + 3)>> \o f[t + 4]
  <2>1. f[b] \in Seq(Seq(X))
    BY <1>6
  <2>2. b \in Nat \ {0} /\ Len(Terminator) >= 1
    BY <1>1
  <2>3. ASSUME NoneAfter(text, Terminator, b) PROVE f[b] = <<>>
    <3>1. At(b) = 0
      BY <1>1, <2>2, <2>3, FindNone
    <3> HIDE DEF At
    <3> QED
      BY <1>10, <3>1
  <2>4. ASSUME NEW t \in Nat, FirstAt(text, Terminator, b, t)
        PROVE  f[b] = <<SubSeq(text, b, t + 3)>> \o f[t + 4]
    <3>1. At(b) = t
      BY <1>1, <2>2, <2>4, FindFirst
    <3>2. t # 0
      BY <2>2, <2>4 DEF FirstAt
    <3> HIDE DEF At
    <3>3. f[b] = Val(f, b)
      BY <1>10
    <3> QED
      BY <3>1, <3>2, <3>3, Zenon
  <2> QED
    BY <2>1, <2>3, <2>4
<1>17. FrameChain(f, text, X)
  BY <1>16 DEF FrameChain
<1> QED
  BY <1>9, <1>15, <1>17

\* A whole request that stands in the text begins a frame there.
LEMMA WholeIsFrame ==
  ASSUME NEW X, CR \in X, LF \in X, NEW text \in Seq(X), NEW e \in Seq(X), NEW c \in Nat,
         Within(e, text, c), Whole(e), NEW f, FrameChain(f, text, X)
  PROVE  f[c + 1] = <<e>> \o f[(c + Len(e)) + 1]
<1>1. Len(e) \in Nat /\ Len(text) \in Nat /\ Terminator \in Seq(X) /\ Len(Terminator) = 4
  BY TerminatorIs, LenProperties
<1>2. Len(e) >= 4 /\ c + Len(e) <= Len(text)
  BY DEF Whole, Within
<1>3. PICK i \in Nat : i = Len(e) - 3
  BY <1>1, <1>2
<1>4. Occurs(e, Terminator, i) /\ i >= 1 /\ \A j \in 1..(i - 1) : ~Occurs(e, Terminator, j)
  BY <1>3 DEF Whole, FirstAt
<1>5. PICK t \in Nat : t = c + i
  OBVIOUS
<1>6. Occurs(text, Terminator, t)
  BY <1>1, <1>4, <1>5, OccursWithin
<1>7. ASSUME NEW j \in (c + 1)..(t - 1) PROVE ~Occurs(text, Terminator, j)
  <2>1. PICK k \in Nat : k = j - c
    OBVIOUS
  <2>2. k \in 1..(i - 1) /\ k >= 1 /\ k + Len(Terminator) - 1 <= Len(e) /\ j = c + k
    BY <1>1, <1>3, <1>5, <2>1
  <2>3. ~Occurs(e, Terminator, k)
    BY <1>4, <2>2
  <2> QED
    BY <1>1, <2>2, <2>3, OccursWithin
<1>8. FirstAt(text, Terminator, c + 1, t)
  BY <1>4, <1>5, <1>6, <1>7 DEF FirstAt
<1>9. c + 1 \in 1..(Len(text) + 1) /\ t + 3 = c + Len(e) /\ t + 4 = (c + Len(e)) + 1
  BY <1>1, <1>2, <1>3, <1>5
<1>10. f[c + 1] = <<SubSeq(text, c + 1, t + 3)>> \o f[t + 4]
  BY <1>8, <1>9 DEF FrameChain
<1>11. SubSeq(text, c + 1, c + Len(e)) = e
  BY WithinIsPart
<1> QED
  BY <1>9, <1>10, <1>11

\* What the frames of a text begin with.
Begins(f, p, text, X) ==
  (\A i \in 1..Len(p) : Whole(p[i])) /\ (\E more \in Seq(X) : text = FlattenSeq(p) \o more)
    => f[1] = p \o f[Len(FlattenSeq(p)) + 1]

\* Whole requests that begin the text are its first frames.
LEMMA FramesBegin ==
  ASSUME NEW X, CR \in X, LF \in X, NEW text \in Seq(X), NEW f, FrameChain(f, text, X)
  PROVE  \A p \in Seq(Seq(X)) : Begins(f, p, text, X)
<1> DEFINE Y == {p \in Seq(Seq(X)) : Begins(f, p, text, X)}
<1>0. ASSUME NEW x \in Seq(Seq(X)), NEW y \in Seq(Seq(X)), NEW z \in Seq(Seq(X))
      PROVE  Associates(x, y, z)
  BY Associating
<1>1. <<>> \in Y
  <2>1. <<>> \in Seq(Seq(X)) /\ Len(<<>>) = 0 /\ Len(text) \in Nat
    BY EmptySeq, LenProperties
  <2>2. f[1] \in Seq(Seq(X))
    BY <2>1 DEF FrameChain
  <2>3. <<>> \o f[1] = f[1]
    BY <2>2, ConcatEmptySeq
  <2>4. f[1] = <<>> \o f[Len(FlattenSeq(<<>>)) + 1]
    BY <2>1, <2>3, FlattenEmpty
  <2> QED
    BY <2>1, <2>4 DEF Begins
<1>2. ASSUME NEW p \in Seq(Seq(X)), NEW e \in Seq(X), p \in Y PROVE Append(p, e) \in Y
  <2> DEFINE q == Append(p, e)
  <2>1. /\ q \in Seq(Seq(X)) /\ Len(q) = Len(p) + 1 /\ q[Len(p) + 1] = e /\ Len(p) \in Nat
        /\ \A i \in 1..Len(p) : q[i] = p[i]
    BY AppendProperties, LenProperties
  <2>2. FlattenSeq(p) \in Seq(X) /\ FlattenGrows(p, e)
    BY FlattenAppend
  <2>3. FlattenSeq(q) = FlattenSeq(p) \o e
    BY <2>2 DEF FlattenGrows
  <2>4. q = p \o <<e>>
    BY AppendIsConcat
  <2> HIDE DEF q
  <2>5. ASSUME \A i \in 1..Len(q) : Whole(q[i]), NEW more \in Seq(X), text = FlattenSeq(q) \o more
        PROVE  f[1] = q \o f[Len(FlattenSeq(q)) + 1]
    <3>1. PICK a \in Seq(X) : a = FlattenSeq(p)
      BY <2>2
    <3>2. e \o more \in Seq(X) /\ a \o e \in Seq(X) /\ Len(a \o e) = Len(a) + Len(e) /\ Len(a) \in Nat
      BY <3>1, ConcatProperties, LenProperties
    <3>3. text = a \o (e \o more)
      <4>1. Associates(a, e, more)
        BY <3>1, Associating
      <4> QED
        BY <2>3, <2>5, <3>1, <4>1, Zenon DEF Associates
    <3>4. Whole(e) /\ \A i \in 1..Len(p) : Whole(p[i])
      <4>1. Len(p) + 1 \in 1..Len(q) /\ \A i \in 1..Len(p) : i \in 1..Len(q)
        BY <2>1
      <4> QED
        BY <2>1, <2>5, <4>1
    <3>5. f[1] = p \o f[Len(a) + 1]
      <4>1. \E m \in Seq(X) : text = FlattenSeq(p) \o m
        BY <3>1, <3>2, <3>3
      <4> QED
        BY <1>2, <3>1, <3>4, <4>1 DEF Begins
    <3>6. Within(e, text, Len(a))
      <4>1. Within(e, e \o more, 0)
        BY ConcatWithin
      <4>2. ASSUME NEW m \in Seq(X) PROVE Within(m, a \o m, Len(a))
        BY <3>1, ConcatWithin
      <4>3. Within(e \o more, text, Len(a))
        BY <3>2, <3>3, <4>2, Zenon
      <4>4. PICK m \in Seq(X) : m = e \o more
        BY <3>2
      <4>5. Within(e, m, 0) /\ Within(m, text, Len(a))
        BY <4>1, <4>3, <4>4
      <4>6. Len(e) \in Nat /\ Len(m) \in Nat /\ Len(text) \in Nat
        BY LenProperties, <4>4
      <4>7. Len(a) + Len(e) <= Len(text)
        BY <3>2, <4>5, <4>6 DEF Within
      <4>8. ASSUME NEW j \in 1..Len(e) PROVE e[j] = text[Len(a) + j]
        <5>1. j \in 1..Len(m) /\ 0 + j = j
          BY <4>5, <4>6 DEF Within
        <5>2. e[j] = m[0 + j] /\ m[j] = text[Len(a) + j]
          BY <4>5, <5>1 DEF Within
        <5> QED
          BY <5>1, <5>2
      <4> QED
        BY <4>7, <4>8 DEF Within
    <3>7. f[Len(a) + 1] = <<e>> \o f[(Len(a) + Len(e)) + 1]
      <4>1. ASSUME NEW c \in Nat, Within(e, text, c) PROVE f[c + 1] = <<e>> \o f[(c + Len(e)) + 1]
        BY <3>4, <4>1, WholeIsFrame, ZenonT(40)
      <4> QED
        BY <3>2, <3>6, <4>1, Zenon
    <3> DEFINE k == (Len(a) + Len(e)) + 1
    <3>8. k \in 1..(Len(text) + 1) /\ Len(FlattenSeq(q)) + 1 = k
      <4>1. Len(e) \in Nat /\ Len(text) \in Nat /\ Len(a) + Len(e) <= Len(text)
        BY <3>6, LenProperties DEF Within
      <4>2. Len(FlattenSeq(q)) = Len(a) + Len(e)
        BY <2>3, <3>1, <3>2
      <4> QED
        BY <3>2, <4>1, <4>2
    <3> HIDE DEF k
    <3>9. f[k] \in Seq(Seq(X)) /\ <<e>> \in Seq(Seq(X))
      BY <3>8 DEF FrameChain
    <3>10. p \o (<<e>> \o f[k]) = (p \o <<e>>) \o f[k]
      BY <1>0, <3>9, Zenon DEF Associates
    <3>11. f[Len(a) + 1] = <<e>> \o f[k]
      BY <3>7 DEF k
    <3>12. f[1] = q \o f[k]
      BY <2>4, <3>5, <3>10, <3>11, Zenon
    <3> QED
      BY <3>8, <3>12, Zenon
  <2> QED
    BY <2>1, <2>5 DEF Begins, q
<1>3. Seq(Seq(X)) \subseteq Y
  <2>1. \A s \in Seq(Seq(X)), e \in Seq(X) : s \in Y => Append(s, e) \in Y
    BY <1>2
  <2> HIDE DEF Y
  <2> QED
    BY <1>1, <2>1, SeqInduction
<1> QED
  BY <1>3

\* The requests the HTTP handler has popped are the first of the text the client wrote,
\* cut at its terminators, wherever the network and the buffers cut the text; and they
\* are all of them once everything that was written has been handled.
THEOREM RequestsFramed == Spec => []FramesAreExact
<1>1. StreamInv => FramesAreExact
  <2> SUFFICES ASSUME StreamInv, app = "http"
               PROVE  /\ IsPrefix(popped, Frames(sent))
                      /\ pc = "idle" /\ ~reset /\ inq = <<>> /\ net = <<>> /\ unsent = <<>> => popped = Frames(sent)
    BY DEF FramesAreExact
  <2>1. /\ CR \in Byte /\ LF \in Byte /\ sent \in Seq(Byte) /\ popped \in Seq(Seq(Byte)) /\ rbuf \in Seq(Byte)
        /\ \A i \in 1..Len(popped) : Whole(popped[i])
    BY DEF StreamInv, TypeOK, RequestInv, Byte
  <2>2. PICK f : FrameChain(f, sent, Byte) /\ Frames(sent) = f[1]
    BY <2>1, FramesIs
  <2>3. FlattenSeq(popped) \in Seq(Byte)
    BY <2>1, EmptySeq, FlattenAppend
  <2>4. PICK a \in Seq(Byte) : a = FlattenSeq(popped)
    BY <2>3
  <2>5. PICK more \in Seq(Byte) : sent = (a \o rbuf) \o more
    BY <2>4 DEF StreamInv, RequestInv
  <2>6. rbuf \o more \in Seq(Byte) /\ sent = a \o (rbuf \o more)
    <3>1. rbuf \o more \in Seq(Byte)
      BY <2>1, <2>5, ConcatProperties
    <3>2. Associates(a, rbuf, more)
      BY <2>1, <2>4, <2>5, Associating
    <3> QED
      BY <2>5, <3>1, <3>2, Zenon DEF Associates
  <2>7. \E m \in Seq(Byte) : sent = FlattenSeq(popped) \o m
    BY <2>4, <2>6
  <2>8. f[1] = popped \o f[Len(a) + 1]
    <3>1. Begins(f, popped, sent, Byte)
      BY <2>1, <2>2, FramesBegin
    <3> QED
      BY <2>1, <2>4, <2>7, <3>1 DEF Begins
  <2>9. Len(a) + 1 \in 1..(Len(sent) + 1) /\ Len(a) \in Nat
    <3>1. ASSUME NEW m \in Seq(Byte), sent = a \o m PROVE Len(a) <= Len(sent)
      BY <2>4, <3>1, ConcatProperties, LenProperties
    <3>2. Len(a) \in Nat /\ Len(sent) \in Nat /\ Len(a) <= Len(sent)
      BY <2>1, <2>4, <2>6, <3>1, LenProperties
    <3> QED
      BY <3>2
  <2>10. f[Len(a) + 1] \in Seq(Seq(Byte))
    BY <2>2, <2>9 DEF FrameChain
  <2>11. IsPrefix(popped, Frames(sent))
    <3> DEFINE z == f[Len(a) + 1]
    <3> HIDE DEF z
    <3>1. z \in Seq(Seq(Byte)) /\ Frames(sent) = popped \o z
      BY <2>2, <2>8, <2>10 DEF z
    <3> QED
      BY <2>1, <3>1, ConcatBegins DEF IsPrefix
  <2>12. ASSUME pc = "idle", ~reset, inq = <<>>, net = <<>>, unsent = <<>> PROVE popped = Frames(sent)
    <3>1. sent = ((((a \o <<>>) \o rbuf) \o <<>>) \o <<>>) \o <<>>
      BY <2>4, <2>12 DEF StreamInv, FlowInv, Kept, Arrived, Held
    <3>2. \A s \in Seq(Byte) : s \o <<>> = s
      BY ConcatEmptySeq
    <3>3. a \o rbuf \in Seq(Byte)
      BY <2>1, <2>4, ConcatProperties
    <3>4. sent = a \o rbuf
      BY <2>4, <3>1, <3>2, <3>3, Zenon
    <3>5. Within(rbuf, sent, Len(a))
      BY <2>1, <2>4, <3>4, ConcatWithin
    <3>6. NoneAfter(rbuf, Terminator, 1)
      BY <2>12 DEF StreamInv, RequestInv
    <3>7. /\ Len(sent) \in Nat /\ Len(rbuf) \in Nat /\ Len(sent) = Len(a) + Len(rbuf)
          /\ Terminator \in Seq(Byte) /\ Len(Terminator) = 4
      BY <2>1, <2>4, <3>4, LenProperties, ConcatProperties, TerminatorIs
    <3>8. NoneAfter(sent, Terminator, Len(a) + 1)
      <4> SUFFICES ASSUME NEW j \in Nat, j >= Len(a) + 1, Occurs(sent, Terminator, j) PROVE FALSE
        BY DEF NoneAfter
      <4>1. PICK i \in Nat : i = j - Len(a)
        BY <2>9
      <4>2. i >= 1 /\ i + Len(Terminator) - 1 <= Len(rbuf) /\ j = Len(a) + i
        BY <2>9, <3>7, <4>1 DEF Occurs
      <4>3. Occurs(rbuf, Terminator, i)
        BY <2>1, <2>9, <3>5, <3>7, <4>2, OccursWithin
      <4> QED
        BY <3>6, <4>2, <4>3 DEF NoneAfter
    <3>9. f[Len(a) + 1] = <<>>
      BY <2>2, <2>9, <3>8 DEF FrameChain
    <3>10. popped \o <<>> = popped
      BY <2>1, ConcatEmptySeq
    <3> QED
      BY <2>2, <2>8, <3>9, <3>10
  <2> QED
    BY <2>11, <2>12
<1> QED
  BY <1>1, StreamInductive, PTL DEF Spec

-----------------------------------------------------------------------------
(* Split.                                                                  *)

\* f is what the loop of Split makes, from each place of the text.
TokenChain(f, s, d, X) ==
  \A b \in 1..(Len(s) + 1) :
    /\ f[b] \in Seq(Seq(X))
    /\ NoneAfter(s, d, b) => f[b] = IF b <= Len(s) THEN <<From(s, b)>> ELSE <<>>
    /\ \A t \in Nat : FirstAt(s, d, b, t) => f[b] = <<SubSeq(s, b, t - 1)>> \o f[t + Len(d)]

\* Tokens, as its recursion computes it.
LEMMA TokensIs ==
  ASSUME NEW X, NEW s \in Seq(X), NEW d \in Seq(X), Len(d) >= 1
  PROVE  \E f : TokenChain(f, s, d, X) /\ Tokens(s, d) = f[1]
<1> DEFINE M == Len(s) + 1
           At(b) == Find(s, d, b)
           Up(g) == [b \in 1..(Len(s) + 1) |->
                       LET t == Find(s, d, b)
                       IN IF t # Npos THEN <<SubSeq(s, b, t - 1)>> \o g[t + Len(d)]
                          ELSE IF b <= Len(s) THEN <<From(s, b)>> ELSE <<>>]
           it == CHOOSE it : it = Up(it)
           nxt == [b \in 1..M |-> IF At(b) = 0 THEN 0 ELSE At(b) + Len(d)]
           piece == [b \in 1..M |-> IF At(b) = 0 THEN <<>> ELSE SubSeq(s, b, At(b) - 1)]
           last == [b \in 1..M |-> IF b <= Len(s) THEN <<From(s, b)>> ELSE <<>>]
<1>1. Len(s) \in Nat /\ M \in Nat /\ 1 \in 1..M /\ Len(d) \in Nat
  BY LenProperties
<1>2. ASSUME NEW b \in 1..M
      PROVE  /\ At(b) \in Nat /\ (At(b) = 0 => NoneAfter(s, d, b))
             /\ At(b) # 0 => /\ FirstAt(s, d, b, At(b))
                             /\ At(b) >= b /\ At(b) + Len(d) <= Len(s) + 1 /\ At(b) - 1 \in Nat
                             /\ b <= (At(b) - 1) + 1 /\ At(b) - 1 <= Len(s)
  <2>1. b \in Nat \ {0}
    BY <1>1
  <2>2. /\ At(b) \in Nat /\ (At(b) = 0 => NoneAfter(s, d, b))
        /\ At(b) # 0 => FirstAt(s, d, b, At(b))
    BY <1>1, <2>1, FindIs
  <2> HIDE DEF At
  <2>3. ASSUME At(b) # 0 PROVE At(b) >= b /\ At(b) + Len(d) <= Len(s) + 1
    BY <1>1, <2>2, <2>3 DEF FirstAt, Occurs
  <2> QED
    BY <1>1, <2>1, <2>2, <2>3
<1>3. piece \in [1..M -> Seq(X)]
  <2> SUFFICES ASSUME NEW b \in 1..M PROVE (IF At(b) = 0 THEN <<>> ELSE SubSeq(s, b, At(b) - 1)) \in Seq(X)
    OBVIOUS
  <2> HIDE DEF At
  <2>1. CASE At(b) = 0
    BY <2>1, EmptySeq
  <2>2. CASE At(b) # 0
    <3>1. SubSeq(s, b, At(b) - 1) \in Seq(X)
      <4>1. PICK j \in Nat : j = At(b) - 1
        BY <1>2, <2>2
      <4>2. b \in Nat \ {0} /\ j <= Len(s) /\ b <= j + 1
        BY <1>1, <1>2, <2>2, <4>1
      <4>3. SubSeq(s, b, j) \in Seq(X)
        BY <4>2, PartIs
      <4> QED
        BY <4>1, <4>3
    <3> QED
      BY <2>2, <3>1
  <2> QED
    BY <2>1, <2>2
<1>4. last \in [1..M -> Seq(Seq(X))]
  <2> SUFFICES ASSUME NEW b \in 1..M PROVE (IF b <= Len(s) THEN <<From(s, b)>> ELSE <<>>) \in Seq(Seq(X))
    OBVIOUS
  <2>1. CASE b <= Len(s)
    <3>1. b \in Nat \ {0} /\ Len(s) <= Len(s) /\ b <= Len(s) + 1
      BY <1>1
    <3>2. From(s, b) \in Seq(X)
      BY <1>1, <3>1, PartIs DEF From
    <3> QED
      BY <2>1, <3>2
  <2>2. CASE ~(b <= Len(s))
    BY <2>2, EmptySeq
  <2> QED
    BY <2>1, <2>2
<1>5. LeadsUp(nxt, M)
  <2> SUFFICES ASSUME NEW b \in 1..M, nxt[b] # 0 PROVE nxt[b] \in (b + 1)..M
    BY DEF LeadsUp
  <2> HIDE DEF At
  <2>1. At(b) # 0 /\ nxt[b] = At(b) + Len(d)
    OBVIOUS
  <2> QED
    BY <1>1, <1>2, <2>1
<1>6. PICK f \in [1..M -> Seq(Seq(X))] : Chained(f, nxt, piece, last, M)
  <2> HIDE DEF nxt, piece, last, M
  <2> QED
    BY <1>1, <1>3, <1>4, <1>5, ChainExists
<1> DEFINE End(b) == IF b <= Len(s) THEN <<From(s, b)>> ELSE <<>>
           Val(g, b) == IF At(b) # 0 THEN <<SubSeq(s, b, At(b) - 1)>> \o g[At(b) + Len(d)] ELSE End(b)
<1>7. ASSUME NEW g, NEW b \in 1..M
      PROVE  (IF nxt[b] = 0 THEN last[b] ELSE <<piece[b]>> \o g[nxt[b]]) = Val(g, b)
  <2> HIDE DEF At
  <2>1. CASE At(b) = 0
    <3>1. nxt[b] = 0 /\ last[b] = End(b)
      BY <2>1
    <3> HIDE DEF nxt, last, End
    <3> QED
      BY <2>1, <3>1, Zenon
  <2>2. CASE At(b) # 0
    <3>1. nxt[b] = At(b) + Len(d) /\ nxt[b] # 0 /\ piece[b] = SubSeq(s, b, At(b) - 1)
      BY <1>1, <1>2, <2>2
    <3> HIDE DEF nxt, piece, End
    <3> QED
      BY <2>2, <3>1, Zenon
  <2> QED
    BY <2>1, <2>2
<1>8. \A g : Up(g) = [b \in 1..M |-> Val(g, b)]
  BY Zenon DEF Npos
<1>9. Tokens(s, d) = it[1]
  BY Zenon DEF Tokens
<1>10. \A b \in 1..M : f[b] = Val(f, b)
  <2> HIDE DEF Val, nxt, piece, last, M
  <2> QED
    BY <1>6, <1>7, Zenon DEF Chained
<1>11. \E g : g = Up(g)
  <2>1. f = [b \in 1..M |-> f[b]]
    BY <1>6
  <2> HIDE DEF Val, Up
  <2>2. [b \in 1..M |-> f[b]] = [b \in 1..M |-> Val(f, b)]
    BY <1>10, Zenon
  <2> QED
    BY <1>8, <2>1, <2>2, Zenon
<1>12. it = Up(it)
  BY <1>11, Zenon
<1> HIDE DEF it
<1>13. \A b \in 1..M : it[b] = Val(it, b)
  <2> HIDE DEF Val, Up
  <2>1. it = [b \in 1..M |-> Val(it, b)]
    BY <1>8, <1>12, Zenon
  <2> QED
    BY <2>1, Zenon
<1>14. Chained(it, nxt, piece, last, M)
  <2> HIDE DEF Val, nxt, piece, last, M
  <2> QED
    BY <1>7, <1>13, Zenon DEF Chained
<1>15. it[1] = f[1]
  <2> HIDE DEF nxt, piece, last, M
  <2>1. \A b \in 1..M : it[b] = f[b]
    BY <1>1, <1>5, <1>6, <1>14, ChainUnique
  <2> QED
    BY <1>1, <2>1
<1>16. ASSUME NEW b \in 1..M
       PROVE  /\ f[b] \in Seq(Seq(X))
              /\ NoneAfter(s, d, b) => f[b] = End(b)
              /\ \A t \in Nat : FirstAt(s, d, b, t) => f[b] = <<SubSeq(s, b, t - 1)>> \o f[t + Len(d)]
  <2>1. f[b] \in Seq(Seq(X))
    BY <1>6
  <2>2. b \in Nat \ {0}
    BY <1>1
  <2>3. ASSUME NoneAfter(s, d, b) PROVE f[b] = End(b)
    <3>1. At(b) = 0
      BY <1>1, <2>2, <2>3, FindNone
    <3> HIDE DEF At, End
    <3> QED
      BY <1>10, <3>1, Zenon
  <2>4. ASSUME NEW t \in Nat, FirstAt(s, d, b, t)
        PROVE  f[b] = <<SubSeq(s, b, t - 1)>> \o f[t + Len(d)]
    <3>1. At(b) = t
      BY <1>1, <2>2, <2>4, FindFirst
    <3>2. t # 0
      BY <2>2, <2>4 DEF FirstAt
    <3> HIDE DEF At, End
    <3>3. f[b] = Val(f, b)
      BY <1>10
    <3> QED
      BY <3>1, <3>2, <3>3, Zenon
  <2> QED
    BY <2>1, <2>3, <2>4
<1>17. TokenChain(f, s, d, X)
  BY <1>16 DEF TokenChain
<1> QED
  BY <1>9, <1>15, <1>17

-----------------------------------------------------------------------------
(* Glue.                                                                   *)

\* The tokens with d before every one but the first.
Glued(q, d) == [i \in DOMAIN q |-> IF i = 1 THEN q[i] ELSE d \o q[i]]

LEMMA GluedIs ==
  ASSUME NEW X, NEW q \in Seq(Seq(X)), NEW d \in Seq(X)
  PROVE  /\ Glued(q, d) \in Seq(Seq(X)) /\ Len(Glued(q, d)) = Len(q)
         /\ \A i \in 1..Len(q) : Glued(q, d)[i] = IF i = 1 THEN q[i] ELSE d \o q[i]
<1>1. Len(q) \in Nat /\ DOMAIN q = 1..Len(q)
  BY LenProperties
<1> DEFINE V(i) == IF i = 1 THEN q[i] ELSE d \o q[i]
<1>2. ASSUME NEW i \in 1..Len(q) PROVE V(i) \in Seq(X)
  <2>1. q[i] \in Seq(X)
    BY ElementOfSeq
  <2>2. ASSUME NEW x \in Seq(X) PROVE d \o x \in Seq(X)
    BY ConcatProperties
  <2> QED
    BY <2>1, <2>2
<1>3. Glued(q, d) = [i \in 1..Len(q) |-> V(i)]
  BY <1>1, Zenon DEF Glued
<1> HIDE DEF V
<1> DEFINE g == [i \in 1..Len(q) |-> V(i)]
<1>4. g \in Seq(Seq(X)) /\ Len(g) = Len(q) /\ \A i \in 1..Len(q) : g[i] = V(i)
  BY <1>1, <1>2, IsASeq, LenProperties
<1> QED
  BY <1>3, <1>4 DEF V

\* What Glue makes of one token more at the end.
GlueGrows(q, e, d) == Glue(Append(q, e), d) = IF q = <<>> THEN e ELSE Glue(q, d) \o (d \o e)

LEMMA GlueAppend ==
  ASSUME NEW X, NEW q \in Seq(Seq(X)), NEW e \in Seq(X), NEW d \in Seq(X)
  PROVE  Glue(q, d) \in Seq(X) /\ GlueGrows(q, e, d)
<1> DEFINE r == Append(q, e)
           n == Len(q)
           x == IF q = <<>> THEN e ELSE d \o e
<1>1. /\ n \in Nat /\ r \in Seq(Seq(X)) /\ Len(r) = n + 1 /\ r[n + 1] = e
      /\ \A i \in 1..n : r[i] = q[i]
  BY AppendProperties, LenProperties
<1>2. d \o e \in Seq(X)
  BY ConcatProperties
<1>3. x \in Seq(X)
  BY <1>2
<1> HIDE DEF r, x
<1>4. /\ Glued(q, d) \in Seq(Seq(X)) /\ Len(Glued(q, d)) = n
      /\ \A i \in 1..n : Glued(q, d)[i] = IF i = 1 THEN q[i] ELSE d \o q[i]
  BY GluedIs
<1>5. /\ Glued(r, d) \in Seq(Seq(X)) /\ Len(Glued(r, d)) = n + 1
      /\ \A i \in 1..(n + 1) : Glued(r, d)[i] = IF i = 1 THEN r[i] ELSE d \o r[i]
  <2>1. /\ Glued(r, d) \in Seq(Seq(X)) /\ Len(Glued(r, d)) = Len(r)
        /\ \A i \in 1..Len(r) : Glued(r, d)[i] = IF i = 1 THEN r[i] ELSE d \o r[i]
    BY <1>1, GluedIs
  <2> QED
    BY <1>1, <2>1, Zenon
<1> DEFINE gq == Glued(q, d)
           gr == Glued(r, d)
<1> HIDE DEF gq, gr
<1>6. /\ Append(gq, x) \in Seq(Seq(X)) /\ Len(Append(gq, x)) = n + 1 /\ Append(gq, x)[n + 1] = x
      /\ \A i \in 1..n : Append(gq, x)[i] = gq[i]
  BY <1>3, <1>4, AppendProperties DEF gq
<1>7. q = <<>> <=> n = 0
  BY EmptySeq
<1>8. gr[n + 1] = x
  <2>1. n + 1 \in 1..(n + 1) /\ (n + 1 = 1 <=> n = 0)
    BY <1>1
  <2>2. gr[n + 1] = IF n + 1 = 1 THEN r[n + 1] ELSE d \o r[n + 1]
    BY <1>5, <2>1 DEF gr
  <2> QED
    BY <1>1, <1>7, <2>1, <2>2, Zenon DEF x
<1>9. ASSUME NEW i \in 1..n PROVE gr[i] = gq[i]
  <2>1. i \in 1..(n + 1)
    BY <1>1
  <2>2. gr[i] = (IF i = 1 THEN r[i] ELSE d \o r[i]) /\ gq[i] = (IF i = 1 THEN q[i] ELSE d \o q[i]) /\ r[i] = q[i]
    BY <1>1, <1>4, <1>5, <2>1 DEF gr, gq
  <2> QED
    BY <2>2, Zenon
<1>10. gr = Append(gq, x)
  <2> DEFINE a == Append(gq, x)
  <2> HIDE DEF a
  <2>1. gr \in Seq(Seq(X)) /\ a \in Seq(Seq(X)) /\ Len(gr) = Len(a) /\ Len(gr) = n + 1
    BY <1>5, <1>6 DEF gr, a
  <2>2. ASSUME NEW i \in 1..Len(gr) PROVE gr[i] = a[i]
    <3>1. CASE i = n + 1
      BY <1>6, <1>8, <3>1 DEF a
    <3>2. CASE i # n + 1
      <4>1. i \in 1..n
        BY <1>1, <2>1, <3>2
      <4> QED
        BY <1>6, <1>9, <4>1 DEF a
    <3> QED
      BY <3>1, <3>2
  <2> QED
    BY <2>1, <2>2, SeqEqual DEF a
<1>11. FlattenSeq(gq) \in Seq(X) /\ FlattenGrows(gq, x)
  BY <1>3, <1>4, FlattenAppend DEF gq
<1>12. Glue(q, d) = FlattenSeq(gq) /\ Glue(r, d) = FlattenSeq(gr)
  BY Zenon DEF Glue, Glued, gq, gr
<1>13. Glue(r, d) = Glue(q, d) \o x
  BY <1>10, <1>11, <1>12, Zenon DEF FlattenGrows
<1>14. Glue(q, d) \in Seq(X)
  BY <1>11, <1>12
<1>15. CASE q = <<>>
  <2>1. gq = <<>>
    <3>1. n = 0
      BY <1>7, <1>15
    <3> QED
      BY <1>4, <3>1, EmptySeq DEF gq
  <2>2. Glue(q, d) = <<>>
    BY <1>12, <2>1, FlattenEmpty
  <2>3. x = e /\ <<>> \o e = e
    BY <1>15, ConcatEmptySeq DEF x
  <2>4. Glue(r, d) = e
    BY <1>13, <2>2, <2>3, Zenon
  <2> QED
    BY <1>14, <1>15, <2>4, Zenon DEF GlueGrows, r
<1>16. CASE q # <<>>
  <2>1. x = d \o e
    BY <1>16 DEF x
  <2>2. Glue(r, d) = Glue(q, d) \o (d \o e)
    BY <1>13, <2>1, Zenon
  <2> QED
    BY <1>14, <1>16, <2>2, Zenon DEF GlueGrows, r
<1> QED
  BY <1>15, <1>16

\* One token alone is itself.
LEMMA GlueOne ==
  ASSUME NEW X, NEW x \in Seq(X), NEW d \in Seq(X)
  PROVE  Glue(<<x>>, d) = x
<1>1. <<>> \in Seq(Seq(X)) /\ Append(<<>>, x) = <<x>>
  BY EmptySeq
<1>2. \A q \in Seq(Seq(X)) : GlueGrows(q, x, d)
  BY GlueAppend
<1>3. GlueGrows(<<>>, x, d)
  BY <1>1, <1>2, Zenon
<1> QED
  BY <1>1, <1>3, Zenon DEF GlueGrows

\* (x d G) d e is x d (G d e).
Regrouped(x, d, g, e) == (x \o (d \o g)) \o e = x \o (d \o (g \o e))

LEMMA Regrouping ==
  ASSUME NEW X, NEW x \in Seq(X), NEW d \in Seq(X), NEW g \in Seq(X), NEW e \in Seq(X)
  PROVE  Regrouped(x, d, g, e)
<1>1. d \o g \in Seq(X)
  BY ConcatProperties
<1>2. Associates(d, g, e)
  BY Associating
<1>3. ASSUME NEW y \in Seq(X) PROVE Associates(x, y, e)
  BY Associating
<1>4. Associates(x, d \o g, e)
  BY <1>1, <1>3, Zenon
<1> QED
  BY <1>2, <1>4, Zenon DEF Regrouped, Associates

\* What Glue makes of one token more at the beginning.
GlueLeads(x, q, d) == Glue(<<x>> \o q, d) = x \o (d \o Glue(q, d))

LEMMA GlueCons ==
  ASSUME NEW X, NEW x \in Seq(X), NEW d \in Seq(X), NEW r \in Seq(Seq(X)), r # <<>>
  PROVE  GlueLeads(x, r, d)
<1> DEFINE Y == {q \in Seq(Seq(X)) : q # <<>> => GlueLeads(x, q, d)}
<1>1. <<>> \in Y
  BY EmptySeq
<1>2. ASSUME NEW q \in Seq(Seq(X)), NEW e \in Seq(X), q \in Y PROVE Append(q, e) \in Y
  <2>1. Append(q, e) \in Seq(Seq(X)) /\ <<x>> \in Seq(Seq(X)) /\ <<x>> # <<>> /\ d \o e \in Seq(X)
    BY AppendProperties, ConcatProperties
  <2>2. <<x>> \o Append(q, e) = Append(<<x>> \o q, e)
    <3>1. ASSUME NEW y \in Seq(Seq(X)) PROVE y \o Append(q, e) = Append(y \o q, e)
      BY ConcatSimplifications
    <3> QED
      BY <2>1, <3>1, Zenon
  <2>3. GlueGrows(q, e, d) /\ Glue(q, d) \in Seq(X)
    BY GlueAppend
  <2>4. CASE q = <<>>
    <3>1. GlueGrows(<<x>>, e, d)
      <4>1. \A y \in Seq(Seq(X)) : GlueGrows(y, e, d)
        BY GlueAppend
      <4> QED
        BY <2>1, <4>1, Zenon
    <3>2. Glue(Append(<<x>>, e), d) = x \o (d \o e)
      <4>1. Glue(<<x>>, d) = x
        BY GlueOne
      <4> QED
        BY <2>1, <3>1, <4>1, Zenon DEF GlueGrows
    <3>3. Glue(Append(q, e), d) = e
      BY <2>3, <2>4, Zenon DEF GlueGrows
    <3>4. <<x>> \o Append(q, e) = Append(<<x>>, e)
      <4>1. <<x>> \o <<>> = <<x>>
        BY <2>1, ConcatEmptySeq
      <4> QED
        BY <2>2, <2>4, <4>1, Zenon
    <3>5. GlueLeads(x, Append(q, e), d)
      BY <3>2, <3>3, <3>4, Zenon DEF GlueLeads
    <3> QED
      BY <2>1, <3>5
  <2>5. CASE q # <<>>
    <3>1. Glue(<<x>> \o q, d) = x \o (d \o Glue(q, d))
      BY <1>2, <2>5 DEF GlueLeads
    <3>2. <<x>> \o q \in Seq(Seq(X)) /\ <<x>> \o q # <<>>
      <4>1. ASSUME NEW y \in Seq(Seq(X)), y # <<>> PROVE y \o q \in Seq(Seq(X)) /\ y \o q # <<>>
        BY <4>1, ConcatProperties, EmptySeq, LenProperties
      <4> QED
        BY <2>1, <4>1, Zenon
    <3>3. GlueGrows(<<x>> \o q, e, d)
      <4>1. \A y \in Seq(Seq(X)) : GlueGrows(y, e, d)
        BY GlueAppend
      <4> QED
        BY <3>2, <4>1, Zenon
    <3>4. Glue(Append(<<x>> \o q, e), d) = (x \o (d \o Glue(q, d))) \o (d \o e)
      BY <3>1, <3>2, <3>3, Zenon DEF GlueGrows
    <3>5. Glue(Append(q, e), d) = Glue(q, d) \o (d \o e)
      BY <2>3, <2>5, Zenon DEF GlueGrows
    <3>6. Regrouped(x, d, Glue(q, d), d \o e)
      <4>1. ASSUME NEW g \in Seq(X), NEW y \in Seq(X) PROVE Regrouped(x, d, g, y)
        BY Regrouping
      <4> QED
        BY <2>1, <2>3, <4>1, Zenon
    <3>7. GlueLeads(x, Append(q, e), d)
      BY <2>2, <3>4, <3>5, <3>6, Zenon DEF GlueLeads, Regrouped
    <3> QED
      BY <2>1, <3>7
  <2> QED
    BY <2>4, <2>5
<1>3. Seq(Seq(X)) \subseteq Y
  <2>1. \A s \in Seq(Seq(X)), e \in Seq(X) : s \in Y => Append(s, e) \in Y
    BY <1>2
  <2> HIDE DEF Y
  <2> QED
    BY <1>1, <2>1, SeqInduction
<1> QED
  BY <1>3

-----------------------------------------------------------------------------
(* Split loses nothing but delimiters.                                     *)

\* What Split makes of the text from b on: the text again, but for a delimiter at its
\* end; and no token holds a delimiter.
SplitFrom(f, s, d, b) ==
  /\ b <= Len(s) => f[b] # <<>> /\ (Glue(f[b], d) = From(s, b) \/ Glue(f[b], d) \o d = From(s, b))
  /\ b > Len(s) => f[b] = <<>>
  /\ \A i \in 1..Len(f[b]) : NoneAfter(f[b][i], d, 1)

\* The text up to the next delimiter holds none.
LEMMA NoneBefore ==
  ASSUME NEW X, NEW s \in Seq(X), NEW d \in Seq(X), Len(d) >= 1, NEW b \in Nat \ {0}, NEW t \in Nat,
         FirstAt(s, d, b, t)
  PROVE  NoneAfter(SubSeq(s, b, t - 1), d, 1)
<1> DEFINE x == SubSeq(s, b, t - 1)
<1>1. Len(s) \in Nat /\ Len(d) \in Nat
  BY LenProperties
<1>2. t - 1 \in Nat /\ t - 1 <= Len(s) /\ b <= (t - 1) + 1
  BY <1>1 DEF FirstAt, Occurs
<1>3. x \in Seq(X) /\ Len(x) = (t - 1) - b + 1 /\ Within(x, s, b - 1) /\ b - 1 \in Nat
  BY <1>2, PartIs
<1> HIDE DEF x
<1>4. ASSUME NEW j \in Nat, j >= 1, Occurs(x, d, j) PROVE FALSE
  <2>1. PICK c \in Nat : c = b - 1
    BY <1>3
  <2>2. Occurs(s, d, c + j)
    BY <1>3, <1>4, <2>1, OccursWithin
  <2>3. c + j \in b..(t - 1)
    BY <1>1, <1>3, <1>4, <2>1 DEF Occurs
  <2> QED
    BY <2>2, <2>3 DEF FirstAt
<1> QED
  BY <1>4 DEF NoneAfter, x

\* The text after the last delimiter holds none.
LEMMA NoneInRest ==
  ASSUME NEW X, NEW s \in Seq(X), NEW d \in Seq(X), Len(d) >= 1, NEW b \in Nat \ {0}, b <= Len(s),
         NoneAfter(s, d, b)
  PROVE  From(s, b) \in Seq(X) /\ NoneAfter(From(s, b), d, 1)
<1> DEFINE x == SubSeq(s, b, Len(s))
<1>1. Len(s) \in Nat /\ Len(d) \in Nat /\ Len(s) <= Len(s) /\ b <= Len(s) + 1
  BY LenProperties
<1>2. x \in Seq(X) /\ Within(x, s, b - 1) /\ b - 1 \in Nat
  BY <1>1, PartIs
<1> HIDE DEF x
<1>3. ASSUME NEW j \in Nat, j >= 1, Occurs(x, d, j) PROVE FALSE
  <2>1. PICK c \in Nat : c = b - 1
    BY <1>2
  <2>2. Occurs(s, d, c + j)
    BY <1>2, <1>3, <2>1, OccursWithin
  <2>3. c + j \in Nat /\ c + j >= b
    BY <1>1, <1>3, <2>1
  <2> QED
    BY <2>2, <2>3 DEF NoneAfter
<1> QED
  BY <1>2, <1>3 DEF NoneAfter, From, x

\* From a place up to a delimiter, the delimiter, and what follows.
CutAt(s, d, b, t, X) ==
  /\ SubSeq(s, b, t - 1) \in Seq(X) /\ From(s, t + Len(d)) \in Seq(X)
  /\ From(s, b) = SubSeq(s, b, t - 1) \o (d \o From(s, t + Len(d)))

LEMMA CutAtDelimiter ==
  ASSUME NEW X, NEW s \in Seq(X), NEW d \in Seq(X), Len(d) >= 1, NEW b \in Nat \ {0}, NEW t \in Nat,
         t >= b, Occurs(s, d, t)
  PROVE  CutAt(s, d, b, t, X)
<1>1. Len(s) \in Nat /\ Len(d) \in Nat
  BY LenProperties
<1>2. PICK m \in Nat : m = b - 1
  OBVIOUS
<1>3. PICK n \in Nat : n = t - 1
  OBVIOUS
<1>4. PICK k \in Nat : k = n + Len(d)
  <2>1. n + Len(d) \in Nat
    BY <1>1, <1>3
  <2> QED
    BY <2>1, Zenon
<1>5. m <= n /\ n <= Len(s) /\ n <= k /\ k <= Len(s) /\ m + 1 = b /\ k + 1 = t + Len(d) /\ n + 1 = t
  BY <1>1, <1>2, <1>3, <1>4 DEF Occurs
<1>6. /\ From(s, m + 1) = SubSeq(s, m + 1, n) \o From(s, n + 1)
      /\ SubSeq(s, m + 1, n) \in Seq(X)
  BY <1>5, Cutting
<1>7. /\ From(s, n + 1) = SubSeq(s, n + 1, k) \o From(s, k + 1)
      /\ From(s, k + 1) \in Seq(X)
  BY <1>5, Cutting
<1>8. SubSeq(s, n + 1, k) = d
  <2>1. t \in Nat \ {0} /\ t <= Len(s) - Len(d) + 1 /\ t + Len(d) - 1 = k
    BY <1>1, <1>3, <1>4, <1>5
  <2>2. SubSeq(s, t, t + Len(d) - 1) = d
    BY <2>1, OccursIs
  <2> QED
    BY <1>5, <2>1, <2>2
<1> QED
  BY <1>3, <1>5, <1>6, <1>7, <1>8 DEF CutAt

\* Downwards from the end of the text: a token, its delimiter and what follows.
LEMMA SplitSplits ==
  ASSUME NEW X, NEW s \in Seq(X), NEW d \in Seq(X), Len(d) >= 1, NEW f, TokenChain(f, s, d, X)
  PROVE  \A b \in 1..(Len(s) + 1) : SplitFrom(f, s, d, b)
<1> DEFINE M == Len(s) + 1
           T == {b \in 1..M : SplitFrom(f, s, d, b)}
<1>1. Len(s) \in Nat /\ M \in Nat /\ Len(d) \in Nat
  BY LenProperties
<1>2. ASSUME NEW b \in 1..M, \A k \in (b + 1)..M : k \in T PROVE SplitFrom(f, s, d, b)
  <2>1. b \in Nat \ {0} /\ f[b] \in Seq(Seq(X))
    <3>1. b \in Nat \ {0}
      BY <1>1
    <3>2. f[b] \in Seq(Seq(X))
      BY Zenon DEF TokenChain
    <3> QED
      BY <3>1, <3>2
  <2>2. PICK t \in Nat : t = Find(s, d, b)
    BY <2>1, FindIs
  <2>3. (t = 0 => NoneAfter(s, d, b)) /\ (t # 0 => FirstAt(s, d, b, t))
    BY <2>1, <2>2, FindIs
  <2>4. CASE t = 0
    <3>1. NoneAfter(s, d, b) /\ f[b] = IF b <= Len(s) THEN <<From(s, b)>> ELSE <<>>
      BY <2>3, <2>4 DEF TokenChain
    <3>2. CASE b <= Len(s)
      <4>1. From(s, b) \in Seq(X) /\ NoneAfter(From(s, b), d, 1)
        BY <2>1, <3>1, <3>2, NoneInRest
      <4>2. f[b] = <<From(s, b)>>
        BY <3>1, <3>2
      <4> DEFINE u == From(s, b)
      <4> HIDE DEF u
      <4>3. u \in Seq(X) /\ NoneAfter(u, d, 1) /\ f[b] = <<u>>
        BY <4>1, <4>2 DEF u
      <4>4. Glue(<<u>>, d) = u
        BY <4>3, GlueOne
      <4>5. f[b] # <<>> /\ Glue(f[b], d) = From(s, b)
        BY <4>3, <4>4 DEF u
      <4>6. \A i \in 1..Len(f[b]) : NoneAfter(f[b][i], d, 1)
        BY <4>3
      <4> QED
        BY <1>1, <3>2, <4>5, <4>6 DEF SplitFrom
    <3>3. CASE ~(b <= Len(s))
      <4>1. f[b] = <<>> /\ Len(<<>>) = 0
        BY <3>1, <3>3
      <4>2. \A i \in 1..Len(f[b]) : NoneAfter(f[b][i], d, 1)
        BY <4>1
      <4> QED
        BY <3>3, <4>1, <4>2 DEF SplitFrom
    <3> QED
      BY <3>2, <3>3
  <2>5. CASE t # 0
    <3>1. FirstAt(s, d, b, t) /\ t >= b /\ Occurs(s, d, t)
      BY <2>3, <2>5 DEF FirstAt
    <3> DEFINE x == SubSeq(s, b, t - 1)
               k == t + Len(d)
               q == f[k]
    <3>2. f[b] = <<x>> \o q
      BY <3>1 DEF TokenChain
    <3>3. NoneAfter(x, d, 1)
      BY <2>1, <3>1, NoneBefore
    <3>4. x \in Seq(X) /\ From(s, k) \in Seq(X) /\ From(s, b) = x \o (d \o From(s, k))
      <4>1. CutAt(s, d, b, t, X)
        BY <2>1, <3>1, CutAtDelimiter
      <4> QED
        BY <4>1, Zenon DEF CutAt
    <3>5. k \in (b + 1)..M /\ k \in 1..M /\ b <= Len(s)
      BY <1>1, <2>1, <3>1 DEF Occurs
    <3> HIDE DEF x, k
    <3>6. SplitFrom(f, s, d, k)
      BY <1>2, <3>5
    <3>7. q \in Seq(Seq(X))
      BY <3>5 DEF TokenChain
    <3>8. \A i \in 1..Len(q) : NoneAfter(q[i], d, 1)
      BY <3>6 DEF SplitFrom
    <3>9. /\ k <= Len(s) => q # <<>> /\ (Glue(q, d) = From(s, k) \/ Glue(q, d) \o d = From(s, k))
          /\ k > Len(s) => q = <<>>
      BY <3>6 DEF SplitFrom
    <3> HIDE DEF q
    <3>10. /\ Len(f[b]) = 1 + Len(q) /\ Len(q) \in Nat
           /\ \A i \in 1..(1 + Len(q)) : f[b][i] = IF i <= 1 THEN <<x>>[i] ELSE q[i - 1]
      <4>1. ASSUME NEW y \in Seq(Seq(X)), Len(y) = 1
            PROVE  /\ Len(y \o q) = 1 + Len(q) /\ Len(q) \in Nat
                   /\ \A i \in 1..(1 + Len(q)) : (y \o q)[i] = IF i <= 1 THEN y[i] ELSE q[i - 1]
        <5>1. /\ Len(y \o q) = Len(y) + Len(q) /\ Len(q) \in Nat
              /\ \A i \in 1..(Len(y) + Len(q)) : (y \o q)[i] = IF i <= Len(y) THEN y[i] ELSE q[i - Len(y)]
          BY <3>7, ConcatProperties, LenProperties
        <5> QED
          BY <4>1, <5>1, Zenon
      <4>2. <<x>> \in Seq(Seq(X)) /\ Len(<<x>>) = 1
        BY <3>4
      <4>3. PICK y : y = <<x>>
        OBVIOUS
      <4>4. f[b] = y \o q /\ y \in Seq(Seq(X)) /\ Len(y) = 1
        BY <3>2, <4>2, <4>3, Zenon DEF q
      <4>5. /\ Len(y \o q) = 1 + Len(q) /\ Len(q) \in Nat
            /\ \A i \in 1..(1 + Len(q)) : (y \o q)[i] = IF i <= 1 THEN y[i] ELSE q[i - 1]
        BY <4>1, <4>4, Zenon
      <4>6. ASSUME NEW i \in 1..(1 + Len(q)) PROVE f[b][i] = IF i <= 1 THEN <<x>>[i] ELSE q[i - 1]
        <5>1. (y \o q)[i] = IF i <= 1 THEN y[i] ELSE q[i - 1]
          BY <4>5, Zenon
        <5> QED
          BY <4>3, <4>4, <5>1, Zenon
      <4>7. Len(f[b]) = 1 + Len(q) /\ Len(q) \in Nat
        BY <4>4, <4>5, Zenon
      <4> QED
        BY <4>6, <4>7, Zenon
    <3>11. ASSUME NEW i \in 1..Len(f[b]) PROVE NoneAfter(f[b][i], d, 1)
      <4>1. CASE i = 1
        <5>1. f[b][i] = x
          BY <3>10, <4>1
        <5> QED
          BY <3>3, <5>1
      <4>2. CASE i # 1
        <5>1. i - 1 \in 1..Len(q) /\ i \in 1..(1 + Len(q)) /\ ~(i <= 1)
          BY <3>10, <4>2
        <5>2. f[b][i] = q[i - 1]
          BY <3>10, <5>1
        <5> QED
          BY <3>8, <5>1, <5>2
      <4> QED
        BY <4>1, <4>2
    <3>12. f[b] # <<>>
      BY <2>1, <3>10, EmptySeq
    <3>13. Glue(f[b], d) = From(s, b) \/ Glue(f[b], d) \o d = From(s, b)
      <4>1. CASE k <= Len(s)
        <5>1. q # <<>> /\ (Glue(q, d) = From(s, k) \/ Glue(q, d) \o d = From(s, k))
          BY <3>9, <4>1
        <5>2. GlueLeads(x, q, d)
          BY <3>4, <3>7, <5>1, GlueCons
        <5>3. Glue(f[b], d) = x \o (d \o Glue(q, d))
          BY <3>2, <5>2, Zenon DEF GlueLeads, q
        <5>4. Glue(q, d) \in Seq(X)
          BY <3>4, <3>7, GlueAppend
        <5>5. CASE Glue(q, d) = From(s, k)
          BY <3>4, <5>3, <5>5, Zenon
        <5>6. CASE Glue(q, d) \o d = From(s, k)
          <6>1. Regrouped(x, d, Glue(q, d), d)
            <7>1. ASSUME NEW g \in Seq(X) PROVE Regrouped(x, d, g, d)
              BY <3>4, Regrouping
            <7> QED
              BY <5>4, <7>1, Zenon
          <6>2. Glue(f[b], d) \o d = x \o (d \o From(s, k))
            BY <5>3, <5>6, <6>1, Zenon DEF Regrouped
          <6> QED
            BY <3>4, <6>2, Zenon
        <5> QED
          BY <5>1, <5>5, <5>6
      <4>2. CASE k > Len(s)
        <5>1. q = <<>>
          BY <3>9, <4>2
        <5>2. f[b] = <<x>>
          <6>1. <<x>> \in Seq(Seq(X))
            BY <3>4
          <6>2. ASSUME NEW y \in Seq(Seq(X)) PROVE y \o <<>> = y
            BY ConcatEmptySeq
          <6> QED
            BY <3>2, <5>1, <6>1, <6>2, Zenon DEF q
        <5>3. Glue(f[b], d) = x
          BY <3>4, <5>2, GlueOne
        <5>4. From(s, k) = <<>>
          <6>1. k \in Int /\ Len(s) \in Int /\ Len(s) < k
            BY <1>1, <3>5, <4>2
          <6> QED
            BY <6>1, SubSeqEmpty DEF From
        <5>5. d \o <<>> = d
          BY ConcatEmptySeq
        <5> QED
          BY <3>4, <5>3, <5>4, <5>5, Zenon
      <4> QED
        BY <1>1, <3>5, <4>1, <4>2
    <3> QED
      BY <1>1, <3>5, <3>11, <3>12, <3>13 DEF SplitFrom
  <2> QED
    BY <2>4, <2>5
<1>3. 1..M \subseteq T
  <2>1. \A b \in 1..M : (\A k \in (b + 1)..M : k \in T) => b \in T
    BY <1>2
  <2> HIDE DEF T, M
  <2> QED
    BY <1>1, <2>1, DownwardInduction
<1> QED
  BY <1>3

\* However a text is split, the delimiters between its tokens give it back, but for one
\* at its end; and no token holds one.
THEOREM SplitRestores == Spec => []SplitIsExact
<1>1. StreamInv => SplitIsExact
  <2> SUFFICES ASSUME StreamInv, app = "http", NEW d \in {<<Colon>>, CRLF}
               PROVE  LET w == Split(sent, d)
                      IN /\ sent # <<>> => Glue(w, d) = sent \/ Glue(w, d) \o d = sent
                         /\ \A i \in DOMAIN w : ~Has(w[i], d)
    BY Zenon DEF SplitIsExact
  <2> DEFINE w == Split(sent, d)
  <2>1. sent \in Seq(Byte) /\ Len(sent) \in Nat /\ CR \in Byte /\ LF \in Byte /\ Colon \in Byte
    BY LenProperties DEF StreamInv, TypeOK, Byte
  <2>2. d \in Seq(Byte) /\ Len(d) >= 1
    <3>1. CRLF \in Seq(Byte) /\ Len(CRLF) = 2
      BY <2>1, TerminatorIs
    <3>2. <<Colon>> \in Seq(Byte) /\ Len(<<Colon>>) = 1 /\ 1 >= 1 /\ 2 >= 1
      BY <2>1
    <3>3. CASE d = CRLF
      BY <3>1, <3>2, <3>3, Zenon
    <3>4. CASE d = <<Colon>>
      BY <3>2, <3>4, Zenon
    <3> QED
      BY <3>3, <3>4
  <2>3. CASE sent = <<>>
    <3>1. w = <<>> /\ DOMAIN <<>> = {}
      BY <2>3 DEF Split
    <3> HIDE DEF w
    <3> QED
      BY <2>3, <3>1 DEF w
  <2>4. CASE sent # <<>>
    <3>1. PICK f : TokenChain(f, sent, d, Byte) /\ Tokens(sent, d) = f[1]
      BY <2>1, <2>2, TokensIs
    <3>2. \A b \in 1..(Len(sent) + 1) : SplitFrom(f, sent, d, b)
      BY <2>1, <2>2, <3>1, SplitSplits
    <3>3. 1 \in 1..(Len(sent) + 1) /\ 1 <= Len(sent)
      BY <2>1, <2>4, EmptySeq
    <3>4. w = f[1]
      BY <2>4, <3>1, Zenon DEF Split
    <3>5. w \in Seq(Seq(Byte)) /\ SplitFrom(f, sent, d, 1)
      BY <3>1, <3>2, <3>3, <3>4, Zenon DEF TokenChain
    <3> HIDE DEF w
    <3>6. From(sent, 1) = sent
      BY <2>1, SubSeqFull DEF From
    <3>7. Glue(w, d) = sent \/ Glue(w, d) \o d = sent
      BY <3>3, <3>4, <3>5, <3>6, Zenon DEF SplitFrom
    <3>8. ASSUME NEW i \in DOMAIN w PROVE ~Has(w[i], d)
      <4>1. i \in 1..Len(w) /\ w[i] \in Seq(Byte)
        BY <3>5, LenProperties, ElementOfSeq
      <4>2. NoneAfter(w[i], d, 1)
        BY <3>4, <3>5, <4>1, Zenon DEF SplitFrom
      <4>3. 1 \in Nat \ {0}
        OBVIOUS
      <4>4. ASSUME NEW u \in Seq(Byte), NEW b \in Nat \ {0}, NoneAfter(u, d, b) PROVE Find(u, d, b) = 0
        BY <2>2, <4>4, FindNone
      <4> QED
        BY <4>1, <4>2, <4>3, <4>4, Zenon DEF Has, Npos
    <3> QED
      BY <3>7, <3>8 DEF w
  <2> QED
    BY <2>3, <2>4
<1> QED
  BY <1>1, StreamInductive, PTL DEF Spec

-----------------------------------------------------------------------------
(* What is popped is a request.                                            *)

\* At least two lines, the last of them empty.
TwoLines(w) == Len(w) >= 2 /\ w[Len(w)] = <<>>

\* One line more in front.
LEMMA LineInFront ==
  ASSUME NEW X, NEW x \in Seq(X), NEW q \in Seq(Seq(X)), Len(q) >= 1, q[Len(q)] = <<>>
  PROVE  TwoLines(<<x>> \o q)
<1>1. ASSUME NEW y \in Seq(Seq(X)), Len(y) = 1 PROVE TwoLines(y \o q)
  <2>1. /\ Len(y \o q) = Len(y) + Len(q) /\ Len(q) \in Nat
        /\ \A i \in 1..(Len(y) + Len(q)) : (y \o q)[i] = IF i <= Len(y) THEN y[i] ELSE q[i - Len(y)]
    BY ConcatProperties, LenProperties
  <2> DEFINE z == y \o q
  <2> HIDE DEF z
  <2>2. Len(z) \in 1..(Len(y) + Len(q)) /\ ~(Len(z) <= Len(y)) /\ Len(z) - Len(y) = Len(q) /\ Len(z) >= 2
    BY <1>1, <2>1 DEF z
  <2>3. z[Len(z)] = q[Len(q)]
    BY <2>1, <2>2 DEF z
  <2> QED
    BY <2>2, <2>3 DEF TwoLines, z
<1>2. <<x>> \in Seq(Seq(X)) /\ Len(<<x>>) = 1
  OBVIOUS
<1> QED
  BY <1>1, <1>2, Zenon

\* A whole request has two lines or more and ends with an empty one.
LEMMA WholeHasLines ==
  ASSUME NEW X, CR \in X, LF \in X, NEW r \in Seq(X), Whole(r), NEW f, TokenChain(f, r, CRLF, X)
  PROVE  TwoLines(f[1])
<1>1. /\ CRLF \in Seq(X) /\ Len(CRLF) = 2 /\ CRLF[1] = CR /\ CRLF[2] = LF /\ Len(Terminator) = 4
      /\ Terminator[1] = CR /\ Terminator[2] = LF /\ Terminator[3] = CR /\ Terminator[4] = LF
  BY TerminatorIs
<1>2. Len(r) \in Nat /\ Len(r) >= 4 /\ Occurs(r, Terminator, Len(r) - 3)
  BY LenProperties DEF Whole, FirstAt
<1>3. PICK n \in Nat : n = Len(r) - 3
  <2>1. Len(r) - 3 \in Nat
    BY <1>2
  <2> QED
    BY <2>1, Zenon
<1>4. r[n] = CR /\ r[n + 1] = LF /\ r[n + 2] = CR /\ r[n + 3] = LF /\ Len(r) = n + 3 /\ n >= 1
  <2>1. \A k \in 1..4 : r[n + k - 1] = Terminator[k]
    BY <1>1, <1>2, <1>3 DEF Occurs
  <2>2. n + 1 - 1 = n /\ n + 2 - 1 = n + 1 /\ n + 3 - 1 = n + 2 /\ n + 4 - 1 = n + 3
    BY <1>3
  <2>3. Len(r) = n + 3 /\ n >= 1
    BY <1>2, <1>3
  <2>4. /\ r[n + 1 - 1] = Terminator[1] /\ r[n + 2 - 1] = Terminator[2]
        /\ r[n + 3 - 1] = Terminator[3] /\ r[n + 4 - 1] = Terminator[4]
    BY <2>1
  <2> QED
    BY <1>1, <2>2, <2>3, <2>4
<1>5. ASSUME NEW i \in Nat, i >= 1
      PROVE  Occurs(r, CRLF, i) <=> i + 1 <= Len(r) /\ r[i] = CR /\ r[i + 1] = LF
  <2>1. i + 1 - 1 = i /\ i + 2 - 1 = i + 1 /\ 1 \in 1..2 /\ 2 \in 1..2 /\ \A k \in 1..2 : k = 1 \/ k = 2
    OBVIOUS
  <2>2. (\A k \in 1..2 : r[i + k - 1] = CRLF[k]) <=> r[i + 1 - 1] = CR /\ r[i + 2 - 1] = LF
    BY <1>1, <2>1, Zenon
  <2>3. (\A k \in 1..2 : r[i + k - 1] = CRLF[k]) <=> r[i] = CR /\ r[i + 1] = LF
    BY <2>1, <2>2
  <2> QED
    BY <1>1, <1>5, <2>1, <2>3 DEF Occurs
<1>6. Occurs(r, CRLF, n) /\ Occurs(r, CRLF, n + 2) /\ ~Occurs(r, CRLF, n - 1)
  <2>1. n + 1 <= Len(r) /\ (n + 2) + 1 = n + 3 /\ n + 3 <= Len(r) /\ n + 2 \in Nat /\ n + 2 >= 1
    BY <1>3, <1>4
  <2>2. Occurs(r, CRLF, n) /\ Occurs(r, CRLF, n + 2)
    BY <1>3, <1>4, <1>5, <2>1
  <2>3. ASSUME Occurs(r, CRLF, n - 1) PROVE FALSE
    <3>1. n - 1 \in Nat /\ n - 1 >= 1 /\ (n - 1) + 1 = n
      BY <1>3, <2>3 DEF Occurs
    <3>2. r[n] = LF
      BY <1>5, <2>3, <3>1
    <3> QED
      BY <1>4, <3>2, DelimiterAssumption
  <2> QED
    BY <2>2, <2>3
<1>7. f[n + 2] = <<<<>>>>
  <2>1. PICK m \in Nat : m = n + 2
    BY <1>3
  <2>2. FirstAt(r, CRLF, m, m) /\ m \in 1..(Len(r) + 1)
    BY <1>4, <1>6, <2>1 DEF FirstAt
  <2>3. f[m] = <<SubSeq(r, m, m - 1)>> \o f[m + Len(CRLF)]
    BY <2>1, <2>2 DEF TokenChain
  <2>4. SubSeq(r, m, m - 1) = <<>>
    <3>1. m \in Int /\ m - 1 \in Int /\ m - 1 < m
      BY <2>1
    <3> QED
      BY <3>1, SubSeqEmpty
  <2>5. m + Len(CRLF) = Len(r) + 1 /\ Len(r) + 1 \in 1..(Len(r) + 1) /\ ~(Len(r) + 1 <= Len(r))
    BY <1>1, <1>2, <1>4, <2>1
  <2>6. NoneAfter(r, CRLF, Len(r) + 1)
    BY <1>1, <1>2 DEF NoneAfter, Occurs
  <2>7. f[Len(r) + 1] = <<>>
    BY <2>5, <2>6 DEF TokenChain
  <2>8. <<<<>>>> \o <<>> = <<<<>>>>
    <3>1. <<<<>>>> \in Seq({<<>>})
      OBVIOUS
    <3> QED
      BY <3>1, ConcatEmptySeq
  <2> QED
    BY <2>1, <2>3, <2>4, <2>5, <2>7, <2>8, Zenon
<1> DEFINE T == {b \in 1..n : TwoLines(f[b])}
<1>8. ASSUME NEW b \in 1..n, \A k \in (b + 1)..n : k \in T PROVE TwoLines(f[b])
  <2>1. b \in Nat \ {0} /\ b <= n /\ b \in 1..(Len(r) + 1) /\ Len(CRLF) >= 1
    BY <1>1, <1>3, <1>4
  <2>2. PICK t \in Nat : t = Find(r, CRLF, b)
    BY <1>1, <2>1, FindIs
  <2>3. (t = 0 => NoneAfter(r, CRLF, b)) /\ (t # 0 => FirstAt(r, CRLF, b, t))
    BY <1>1, <2>1, <2>2, FindIs
  <2>4. t # 0
    BY <1>3, <1>6, <2>1, <2>3 DEF NoneAfter
  <2>5. FirstAt(r, CRLF, b, t) /\ t >= b /\ Occurs(r, CRLF, t)
    BY <2>3, <2>4 DEF FirstAt
  <2>6. t <= n /\ t # n - 1
    <3>1. ~(t > n)
      <4> SUFFICES ASSUME t > n PROVE FALSE
        OBVIOUS
      <4>1. n \in b..(t - 1)
        BY <1>3, <2>1, <2>2
      <4> QED
        BY <1>6, <2>5, <4>1 DEF FirstAt
    <3> QED
      BY <1>3, <1>6, <2>2, <2>5, <3>1
  <2> DEFINE x == SubSeq(r, b, t - 1)
  <2>7. f[b] = <<x>> \o f[t + 2]
    BY <1>1, <2>1, <2>5 DEF TokenChain
  <2>8. x \in Seq(X)
    <3>1. CutAt(r, CRLF, b, t, X)
      BY <1>1, <2>1, <2>5, CutAtDelimiter
    <3> QED
      BY <3>1 DEF CutAt
  <2> HIDE DEF x
  <2>9. t + 2 \in 1..(Len(r) + 1)
    BY <1>3, <1>4, <2>2, <2>6
  <2> DEFINE q == f[t + 2]
  <2>10. q \in Seq(Seq(X))
    BY <2>9 DEF TokenChain
  <2>11. Len(q) >= 1 /\ q[Len(q)] = <<>>
    <3>1. CASE t = n
      <4>1. Len(<<<<>>>>) = 1 /\ <<<<>>>>[1] = <<>> /\ 1 >= 1
        OBVIOUS
      <4>2. q = <<<<>>>>
        BY <1>7, <3>1
      <4> HIDE DEF q
      <4> QED
        BY <4>1, <4>2, Zenon
    <3>2. CASE t # n
      <4>1. t + 2 \in (b + 1)..n
        BY <1>3, <2>1, <2>2, <2>5, <2>6, <3>2
      <4>2. TwoLines(q)
        BY <1>8, <4>1
      <4>3. Len(q) \in Nat
        BY <2>10, LenProperties
      <4> QED
        BY <4>2, <4>3 DEF TwoLines
    <3> QED
      BY <3>1, <3>2
  <2> HIDE DEF q
  <2>12. TwoLines(<<x>> \o q)
    BY <2>8, <2>10, <2>11, LineInFront
  <2> QED
    BY <2>7, <2>12 DEF q
<1>9. 1..n \subseteq T
  <2>1. \A b \in 1..n : (\A k \in (b + 1)..n : k \in T) => b \in T
    BY <1>8
  <2> HIDE DEF T
  <2> QED
    BY <1>3, <2>1, DownwardInduction
<1> QED
  BY <1>3, <1>4, <1>9

\* A header with one colon, not at its end, is its key, the colon and its value.
LEMMA HeaderRestored ==
  ASSUME NEW X, Colon \in X, CR \in X, LF \in X, NEW w \in Seq(X), Len(Split(w, <<Colon>>)) = 2,
         Last(w) # Colon
  PROVE  Serialize(Header(w)) = w \o CRLF
<1> DEFINE d == <<Colon>>
           v == Split(w, d)
<1>1. d \in Seq(X) /\ Len(d) = 1 /\ Len(d) >= 1 /\ d[1] = Colon
  OBVIOUS
<1>2. w # <<>>
  <2> SUFFICES ASSUME w = <<>> PROVE FALSE
    OBVIOUS
  <2>1. v = <<>> /\ Len(<<>>) = 0
    BY DEF Split
  <2> QED
    BY <2>1
<1> HIDE DEF d
<1>3. PICK f : TokenChain(f, w, d, X) /\ Tokens(w, d) = f[1]
  BY <1>1, TokensIs
<1>4. \A b \in 1..(Len(w) + 1) : SplitFrom(f, w, d, b)
  BY <1>1, <1>3, SplitSplits
<1>5. Len(w) \in Nat /\ 1 \in 1..(Len(w) + 1) /\ 1 <= Len(w) /\ Len(w) >= 1
  BY <1>2, EmptySeq, LenProperties
<1>6. v = f[1]
  BY <1>2, <1>3, Zenon DEF Split
<1>7. v \in Seq(Seq(X)) /\ SplitFrom(f, w, d, 1) /\ Len(v) = 2
  BY <1>3, <1>4, <1>5, <1>6, Zenon DEF TokenChain, d
<1>8. Header(w) = [valid |-> TRUE, key |-> v[1], value |-> v[2]]
  <2>1. ~(Len(v) < 2)
    BY <1>7
  <2> QED
    BY <1>7, <2>1, Zenon DEF Header, d
<1> HIDE DEF v
<1>9. From(w, 1) = w
  BY SubSeqFull DEF From
<1>10. Glue(v, d) = w \/ Glue(v, d) \o d = w
  BY <1>5, <1>6, <1>7, <1>9, Zenon DEF SplitFrom
<1>11. PICK a \in Seq(X), c \in Seq(X) : a = v[1] /\ c = v[2]
  <2>1. v[1] \in Seq(X) /\ v[2] \in Seq(X)
    <3>1. 1 \in 1..Len(v) /\ 2 \in 1..Len(v)
      BY <1>7
    <3> QED
      BY <1>7, <3>1, ElementOfSeq
  <2> QED
    BY <2>1, Zenon
<1>12. v = <<a>> \o <<c>>
  <2>1. <<a>> \in Seq(Seq(X)) /\ Len(<<a>>) = 1 /\ <<a>>[1] = a
    BY <1>11
  <2>2. ASSUME NEW s \in Seq(Seq(X)), Len(s) = 1, s[1] = a PROVE v = s \o <<c>>
    <3>1. Append(s, c) = s \o <<c>>
      BY <1>11, AppendIsConcat
    <3> DEFINE u == Append(s, c)
    <3>2. /\ u \in Seq(Seq(X)) /\ Len(u) = Len(s) + 1 /\ u[Len(s) + 1] = c
          /\ \A k \in 1..Len(s) : u[k] = s[k]
      BY <1>11, AppendProperties
    <3> HIDE DEF u
    <3>3. Len(u) = 2 /\ u[1] = a /\ u[2] = c /\ Len(v) = Len(u)
      BY <1>7, <2>2, <3>2
    <3>4. \A k \in 1..Len(v) : v[k] = u[k]
      BY <1>7, <1>11, <3>3
    <3>5. v = u
      <4>1. u \in Seq(Seq(X)) /\ v \in Seq(Seq(X))
        BY <1>7, <3>2, Zenon
      <4> QED
        BY <3>3, <3>4, <4>1, SeqEqual, ZenonT(40)
    <3> QED
      BY <3>1, <3>5, Zenon DEF u
  <2> QED
    BY <2>1, <2>2, Zenon
<1>13. Glue(v, d) = a \o (d \o c)
  <2>1. <<c>> \in Seq(Seq(X)) /\ <<c>> # <<>>
    BY <1>11
  <2>2. ASSUME NEW q \in Seq(Seq(X)), q # <<>> PROVE GlueLeads(a, q, d)
    BY <1>1, <1>11, <2>2, GlueCons
  <2>3. GlueLeads(a, <<c>>, d)
    BY <2>1, <2>2, Zenon
  <2>4. Glue(<<c>>, d) = c
    BY <1>1, <1>11, GlueOne
  <2> QED
    BY <1>12, <2>3, <2>4, Zenon DEF GlueLeads
<1>14. Glue(v, d) = w
  <2>1. Glue(v, d) \in Seq(X)
    BY <1>1, <1>7, GlueAppend
  <2>2. ASSUME NEW g \in Seq(X), g \o d = w PROVE FALSE
    <3>1. /\ Len(w) = Len(g) + Len(d) /\ Len(g) \in Nat
          /\ \A i \in 1..(Len(g) + Len(d)) : w[i] = IF i <= Len(g) THEN g[i] ELSE d[i - Len(g)]
      <4>1. /\ Len(g \o d) = Len(g) + Len(d) /\ Len(g) \in Nat
            /\ \A i \in 1..(Len(g) + Len(d)) : (g \o d)[i] = IF i <= Len(g) THEN g[i] ELSE d[i - Len(g)]
        BY <1>1, ConcatProperties, LenProperties
      <4> QED
        BY <2>2, <4>1, Zenon
    <3>2. Len(w) \in 1..(Len(g) + Len(d)) /\ ~(Len(w) <= Len(g)) /\ Len(w) - Len(g) = 1
      BY <1>1, <3>1
    <3>3. w[Len(w)] = d[1]
      BY <3>1, <3>2
    <3> QED
      BY <1>1, <3>3 DEF Last
  <2> QED
    BY <1>10, <2>1, <2>2, Zenon
<1>15. (a \o d) \o c = a \o (d \o c)
  <2>1. Associates(a, d, c)
    BY <1>1, <1>11, Associating
  <2> QED
    BY <2>1, Zenon DEF Associates
<1>16. Serialize(Header(w)) = ((v[1] \o d) \o v[2]) \o CRLF
  <2>1. PICK h : h = Header(w)
    OBVIOUS
  <2>2. h.key = v[1] /\ h.value = v[2]
    BY <1>8, <2>1
  <2> QED
    BY <2>1, <2>2, Zenon DEF Serialize, d
<1> QED
  BY <1>11, <1>13, <1>14, <1>15, <1>16, Zenon

\* What FindAndPopTill hands to Request passes its two format tests, holds one
\* terminator, and its headers with one colon come back from Serialize.
THEOREM RequestsWellFormed == Spec => []PoppedIsARequest
<1>1. StreamInv => PoppedIsARequest
  <2> SUFFICES ASSUME StreamInv, NEW i \in DOMAIN popped
               PROVE  LET lines == Split(popped[i], CRLF)
                      IN /\ Len(lines) >= 2 /\ Last(lines) = <<>>
                         /\ Find(popped[i], CRLF \o CRLF, 1) = Len(popped[i]) - 3
                         /\ \A k \in DOMAIN lines :
                              LET h == Header(lines[k])
                              IN h.valid /\ Last(lines[k]) # Colon /\ Len(Split(lines[k], <<Colon>>)) = 2 =>
                                   Serialize(h) = lines[k] \o CRLF
    BY Zenon DEF PoppedIsARequest
  <2>1. popped \in Seq(Seq(Byte)) /\ CR \in Byte /\ LF \in Byte /\ Colon \in Byte
    BY DEF StreamInv, TypeOK, Byte
  <2>2. i \in 1..Len(popped)
    BY <2>1, LenProperties
  <2>3. PICK r \in Seq(Byte) : r = popped[i]
    BY <2>1, <2>2, ElementOfSeq
  <2>4. Whole(r)
    BY <2>2, <2>3 DEF StreamInv, RequestInv
  <2> DEFINE lines == Split(r, CRLF)
  <2>5. Len(r) \in Nat /\ Len(r) >= 4 /\ CRLF \in Seq(Byte) /\ Len(CRLF) = 2 /\ Len(CRLF) >= 1
    BY <2>1, <2>3, <2>4, TerminatorIs, LenProperties DEF Whole
  <2>6. PICK f : TokenChain(f, r, CRLF, Byte) /\ Tokens(r, CRLF) = f[1]
    BY <2>3, <2>5, TokensIs
  <2>7. lines = f[1]
    <3>1. r # <<>>
      BY <2>5
    <3> QED
      BY <2>6, <3>1, Zenon DEF Split
  <2>8. lines \in Seq(Seq(Byte))
    <3>1. 1 \in 1..(Len(r) + 1)
      BY <2>5
    <3> QED
      BY <2>6, <2>7, <3>1, Zenon DEF TokenChain
  <2> HIDE DEF lines
  <2>9. Len(lines) >= 2 /\ Last(lines) = <<>>
    <3>1. TwoLines(f[1])
      BY <2>1, <2>3, <2>4, <2>6, WholeHasLines
    <3> QED
      BY <2>7, <3>1, Zenon DEF TwoLines, Last
  <2>10. Find(r, CRLF \o CRLF, 1) = Len(r) - 3
    <3>1. Terminator \in Seq(Byte) /\ Len(Terminator) >= 1 /\ 1 \in Nat \ {0}
      BY <2>1, TerminatorIs
    <3>2. PICK t \in Nat : t = Len(r) - 3
      <4>1. Len(r) - 3 \in Nat
        BY <2>5
      <4> QED
        BY <4>1, Zenon
    <3>3. FirstAt(r, Terminator, 1, t)
      BY <2>4, <3>2 DEF Whole
    <3>4. ASSUME NEW b \in Nat \ {0}, FirstAt(r, Terminator, b, t) PROVE Find(r, Terminator, b) = t
      BY <2>3, <3>1, <3>2, <3>4, FindFirst
    <3> QED
      BY <3>1, <3>2, <3>3, <3>4, Zenon DEF Terminator
  <2>11. ASSUME NEW k \in DOMAIN lines, Last(lines[k]) # Colon, Len(Split(lines[k], <<Colon>>)) = 2
         PROVE  Serialize(Header(lines[k])) = lines[k] \o CRLF
    <3>1. k \in 1..Len(lines)
      BY <2>8, LenProperties
    <3>2. lines[k] \in Seq(Byte)
      BY <2>8, <3>1, ElementOfSeq
    <3>3. ASSUME NEW w \in Seq(Byte), Len(Split(w, <<Colon>>)) = 2, Last(w) # Colon
          PROVE  Serialize(Header(w)) = w \o CRLF
      BY <2>1, <3>3, HeaderRestored
    <3> QED
      BY <2>11, <3>2, <3>3, Zenon
  <2> QED
    BY <2>3, <2>9, <2>10, <2>11, Zenon DEF lines
<1> QED
  BY <1>1, StreamInductive, PTL DEF Spec
=============================================================================
