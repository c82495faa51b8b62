---------------------------- MODULE SocketProofs ----------------------------
(***************************************************************************)
(* Proofs about Socket, for any finite number of objects, any number of    *)
(* descriptors and any requests.                                           *)
(*                                                                         *)
(* The invariant is stated for a descriptor table, the objects' fd_ and    *)
(* their files as parameters: Bind and Connect first create a socket and   *)
(* then change its file, and each half keeps it.                           *)
(***************************************************************************)
EXTENDS Socket, Lemmas

Places == {<<>>} \cup {IpAndPort(NewAddress(r.ip, r.port, r.protocol)) : r \in Requests}
Families == {"Ipv4", "Ipv6"}

File ==
  [id : Nat \ {0}, maker : {"Socket", "other"}, family : Families,
   use : {"fresh", "bound", "listening", "connected"}, reusable : BOOLEAN, nonblock : BOOLEAN,
   at : Places, asked : {<<>>} \cup Requests]

Tables == [Fds -> {Free} \cup File]

TypeOK ==
  /\ table \in Tables
  /\ fd \in [Objs -> {Dead, -1} \cup Fds]
  /\ mine \in [Objs -> Nat]
  /\ aliased \in BOOLEAN /\ aborted \in BOOLEAN

\* A held number names the Socket's own file or nothing, and no two objects hold the
\* number of the same open file.
Held(tbl, f, m) ==
  /\ \A o \in Objs : f[o] \in Fds =>
       tbl[f[o]].id = m[o] /\ (tbl[f[o]] # Free => tbl[f[o]].maker = "Socket")
  /\ \A o, p \in Objs : f[o] = f[p] /\ f[o] \in Fds /\ tbl[f[o]] # Free => o = p

\* No two descriptors name the same file.
OneNumber(tbl) ==
  \A k, n \in Fds : tbl[k] # Free /\ tbl[n] # Free /\ tbl[k].id = tbl[n].id => k = n

\* NoLeak and AtItsAddress for any table.
Owned(tbl, f) ==
  \A n \in Fds : tbl[n] # Free /\ tbl[n].maker = "Socket" => \E o \in Objs : f[o] = n

AsAsked(e) ==
  e.asked # <<>> =>
    LET r == e.asked
    IN /\ e.at = <<IF r.ip = <<>> THEN <<0>> ELSE r.ip, r.port>>
       /\ r.protocol = "Ipv6" => r.ip[3] = SockaddrSize("Ipv6")

Addressed(tbl) == \A n \in Fds : tbl[n] # Free => AsAsked(tbl[n])

\* The safety properties made inductive.
SocketInv ==
  /\ TypeOK
  /\ aliased \/ Held(table, fd, mine)
  /\ OneNumber(table) /\ Owned(table, fd) /\ Addressed(table)

-----------------------------------------------------------------------------
(* Addresses.                                                              *)

\* A port that is swapped twice is the port.
LEMMA PortSurvives ==
  ASSUME NEW n \in 0..Byte * Byte - 1
  PROVE  Ntohs(Htons(n)) = n
<1> DEFINE hi == n \div Byte
           lo == n % Byte
<1>1. hi \in 0..255 /\ lo \in 0..255 /\ n = 256 * hi + lo
  BY SMTT(60) DEF Byte
<1> HIDE DEF hi, lo
<1>2. (lo * 256 + hi) % 256 = hi /\ (lo * 256 + hi) \div 256 = lo
  BY <1>1
<1> QED
  BY <1>1, <1>2, SMTT(60) DEF Htons, Ntohs, Byte, hi, lo

\* A request the kernel takes is at the address and the port that were asked for.
LEMMA TakenIsAsAsked ==
  ASSUME NEW r \in Requests, NEW family,
         KernelTakes(NewAddress(r.ip, r.port, r.protocol), family)
  PROVE  /\ IpAndPort(NewAddress(r.ip, r.port, r.protocol))
              = <<IF r.ip = <<>> THEN <<0>> ELSE r.ip, r.port>>
         /\ r.protocol = "Ipv6" => r.ip[3] = SockaddrSize("Ipv6")
<1> DEFINE a == NewAddress(r.ip, r.port, r.protocol)
<1>1. r.ip \in Seq(Nat) /\ r.port \in 0..Byte * Byte - 1 /\ r.protocol \in {"Ipv4", "Ipv6"}
      /\ Len(r.ip) \in {0, IF r.protocol = "Ipv4" THEN 1 ELSE 4}
  BY SocketAssumption
<1>2. DOMAIN r.ip = 1..Len(r.ip)
  BY <1>1, LenProperties
<1>3. a.port = Htons(r.port) /\ a.protocol = r.protocol /\ a.family = r.protocol
  BY DEF NewAddress, SinPort
<1>4. GetPort(a) = r.port
  BY <1>1, <1>3, PortSurvives DEF GetPort
<1>5. CASE r.protocol = "Ipv4"
  <2>1. a.word[2] = IF 1 \in DOMAIN r.ip THEN r.ip[1] ELSE 0
    BY <1>5 DEF NewAddress, IpWords
  <2>2. GetIp(a) = <<a.word[2]>>
    BY <1>3, <1>5 DEF GetIp
  <2>3. CASE r.ip = <<>>
    BY <1>2, <1>4, <1>5, <2>1, <2>2, <2>3 DEF IpAndPort
  <2>4. CASE r.ip # <<>>
    <3>1. Len(r.ip) = 1 /\ 1 \in DOMAIN r.ip
      BY <1>1, <1>2, <1>5, <2>4, EmptySeq
    <3>2. r.ip = <<r.ip[1]>>
      BY <1>1, <3>1
    <3> QED
      BY <1>4, <1>5, <2>1, <2>2, <2>4, <3>1, <3>2 DEF IpAndPort
  <2> QED
    BY <2>3, <2>4
<1>6. CASE r.protocol = "Ipv6"
  <2>1. \A w \in 3..6 : a.word[w] = IF w - 2 \in DOMAIN r.ip THEN r.ip[w - 2]
                                    ELSE IF w = 5 THEN SizeofSockaddr ELSE 0
    BY <1>6 DEF NewAddress, IpWords
  <2>2. a.word[5] = 28
    BY <1>3, <1>6 DEF KernelTakes, YieldAddrlen, SockaddrSize
  <2>3. Len(r.ip) = 4
    BY <1>1, <1>2, <1>6, <2>1, <2>2 DEF SizeofSockaddr
  <2>4. a.word[3] = r.ip[1] /\ a.word[4] = r.ip[2] /\ a.word[5] = r.ip[3] /\ a.word[6] = r.ip[4]
    BY <1>2, <2>1, <2>3
  <2>5. r.ip = <<r.ip[1], r.ip[2], r.ip[3], r.ip[4]>> /\ r.ip # <<>>
    <3> DEFINE q == <<r.ip[1], r.ip[2], r.ip[3], r.ip[4]>>
    <3>1. r.ip[1] \in Nat /\ r.ip[2] \in Nat /\ r.ip[3] \in Nat /\ r.ip[4] \in Nat
      BY <1>1, <2>3, ElementOfSeq
    <3>2. q \in Seq(Nat) /\ Len(q) = 4 /\ \A i \in 1..4 : q[i] = r.ip[i]
      BY <3>1
    <3> QED
      BY <1>1, <2>3, <3>2, SeqEqual, EmptySeq
  <2>6. GetIp(a) = r.ip
    BY <1>3, <1>6, <2>4, <2>5 DEF GetIp
  <2> QED
    BY <1>4, <2>2, <2>4, <2>5, <2>6 DEF IpAndPort, SockaddrSize
<1> QED
  BY <1>1, <1>5, <1>6

-----------------------------------------------------------------------------
(* Files and descriptors.                                                  *)

\* What a socket call may do to a file: not make another one of it.
Same(e, u) == u \in File /\ u.id = e.id /\ u.maker = e.maker

\* A file is not Free, and is the same file whichever of its fields a call sets.
LEMMA FileIsOpen ==
  ASSUME NEW e \in File
  PROVE  e # Free
<1>1. "maker" \in DOMAIN e /\ "maker" \notin DOMAIN Free
  BY DEF File, Free
<1> QED
  BY <1>1

LEMMA FileFields ==
  ASSUME NEW e \in File
  PROVE  /\ Same(e, [e EXCEPT !.reusable = TRUE])
         /\ Same(e, [e EXCEPT !.nonblock = TRUE])
         /\ Same(e, [e EXCEPT !.use = "listening"])
         /\ \A x \in {"bound", "connected"}, p \in Places, r \in Requests :
              Same(e, [e EXCEPT !.use = x, !.at = p, !.asked = r])
<1>1. Same(e, [e EXCEPT !.reusable = TRUE])
  BY DEF File, Same
<1>2. Same(e, [e EXCEPT !.nonblock = TRUE])
  BY DEF File, Same
<1>3. Same(e, [e EXCEPT !.use = "listening"])
  BY DEF File, Same
<1>4. ASSUME NEW x \in {"bound", "connected"}, NEW p \in Places, NEW r \in Requests
      PROVE  Same(e, [e EXCEPT !.use = x, !.at = p, !.asked = r])
  BY DEF File, Same
<1> QED
  BY <1>1, <1>2, <1>3, <1>4

\* The kernel finds a lowest free number where there is a free one.
LEMMA LowestIsFree ==
  ASSUME FreeFds # {}
  PROVE  Lowest \in Fds /\ table[Lowest] = Free
<1>1. FreeFds \subseteq Nat
  BY SocketAssumption DEF FreeFds, Fds
<1>2. \E n \in FreeFds : \A m \in FreeFds : n <= m
  BY <1>1, LeastNat
<1> QED
  BY <1>2 DEF Lowest, FreeFds

\* There is an id that no open file has and no object remembers.
LEMMA NewIdIsNew ==
  ASSUME TypeOK
  PROVE  NewId \in Nat \ {0} /\ (\A n \in Fds : table[n].id # NewId) /\ (\A o \in Objs : mine[o] # NewId)
<1> DEFINE ids == [n \in Fds |-> table[n].id]
           last == MaxFd + 2 + Cardinality(Objs)
           used == Range(ids) \cup Range(mine)
<1>1. IsFiniteSet(Fds) /\ Cardinality(Fds) = MaxFd + 1 /\ MaxFd \in Nat
  BY SocketAssumption, FS_Interval DEF Fds
<1>2. IsFiniteSet(Objs) /\ Cardinality(Objs) \in Nat
  BY SocketAssumption, FS_CardinalityType
<1>3. IsFiniteSet(Range(ids)) /\ Cardinality(Range(ids)) <= MaxFd + 1
  <2>1. ids \in [Fds -> Range(ids)] /\ DOMAIN ids = Fds
    BY DEF Range
  <2> QED
    BY <1>1, <2>1, RangeBound
<1>4. IsFiniteSet(Range(mine)) /\ Cardinality(Range(mine)) <= Cardinality(Objs)
  <2>1. mine \in [Objs -> Range(mine)] /\ DOMAIN mine = Objs
    BY DEF Range, TypeOK
  <2> QED
    BY <1>2, <2>1, RangeBound
<1>5. IsFiniteSet(used) /\ Cardinality(used) < last
  <2>1. IsFiniteSet(used) /\ Cardinality(used) = Cardinality(Range(ids)) + Cardinality(Range(mine))
                                                - Cardinality(Range(ids) \cap Range(mine))
    BY <1>3, <1>4, FS_Union
  <2>2. Cardinality(Range(ids) \cap Range(mine)) \in Nat
    BY <1>3, FS_Intersection, FS_CardinalityType
  <2>3. Cardinality(Range(ids)) \in Nat /\ Cardinality(Range(mine)) \in Nat
    BY <1>3, <1>4, FS_CardinalityType
  <2> HIDE DEF used, ids
  <2> QED
    BY <1>1, <1>2, <1>3, <1>4, <2>1, <2>2, <2>3
<1>6. IsFiniteSet(1..last) /\ Cardinality(1..last) = last
  <2>1. last \in Nat /\ 1 \in Int /\ last \in Int /\ last - 1 + 1 = last /\ ~(1 > last)
    BY <1>1, <1>2
  <2> HIDE DEF last
  <2> QED
    BY <2>1, FS_Interval
<1>7. PICK i \in 1..last : i \notin used
  <2>1. SUFFICES ASSUME 1..last \subseteq used PROVE FALSE
    OBVIOUS
  <2>2. Cardinality(1..last) <= Cardinality(used)
    BY <1>5, <2>1, FS_Subset
  <2>3. Cardinality(used) \in Nat /\ last \in Nat
    BY <1>1, <1>2, <1>5, FS_CardinalityType
  <2> HIDE DEF used, last
  <2> QED
    BY <1>5, <1>6, <2>2, <2>3
<1>8. (\A n \in Fds : table[n].id # i) /\ (\A o \in Objs : mine[o] # i)
  BY <1>7 DEF Range, TypeOK
<1>9. NewId \in 1..last /\ (\A n \in Fds : table[n].id # NewId) /\ (\A o \in Objs : mine[o] # NewId)
  BY <1>7, <1>8 DEF NewId
<1> QED
  BY <1>1, <1>2, <1>9

-----------------------------------------------------------------------------
(* What the steps are made of.                                             *)

\* Setting fields of one open file keeps everything but where it is.
LEMMA TouchKeeps ==
  ASSUME NEW t \in Tables, NEW n \in Fds, NEW e, t[n] # Free, Same(t[n], e), NEW f, NEW m
  PROVE  LET u == [t EXCEPT ![n] = e]
         IN /\ u \in Tables
            /\ Held(t, f, m) => Held(u, f, m)
            /\ OneNumber(t) => OneNumber(u)
            /\ Owned(t, f) => Owned(u, f)
            /\ Addressed(t) /\ AsAsked(e) => Addressed(u)
<1> DEFINE u == [t EXCEPT ![n] = e]
<1>1. u \in Tables /\ u[n] = e /\ \A k \in Fds \ {n} : u[k] = t[k]
  BY DEF Tables, Same
<1>2. \A k \in Fds : /\ u[k] # Free <=> t[k] # Free
                     /\ u[k] = t[k] \/ (u[k].id = t[k].id /\ u[k].maker = t[k].maker)
  BY <1>1, FileIsOpen DEF Same
<1> HIDE DEF u
<1>3. Held(t, f, m) => Held(u, f, m)
  BY <1>2 DEF Held
<1>4. OneNumber(t) => OneNumber(u)
  BY <1>2 DEF OneNumber
<1>5. Owned(t, f) => Owned(u, f)
  BY <1>2 DEF Owned
<1>6. Addressed(t) /\ AsAsked(e) => Addressed(u)
  BY <1>1 DEF Addressed
<1> QED
  BY <1>1, <1>3, <1>4, <1>5, <1>6 DEF u

\* The kernel creates a file; if a Socket makes it, an object without a descriptor
\* takes it.
LEMMA OpenKeeps ==
  ASSUME SocketInv, FreeFds # {}, NEW e \in File, e.id = NewId, e.asked = <<>>
  PROVE  LET u == [table EXCEPT ![Lowest] = e]
         IN /\ u \in Tables /\ OneNumber(u) /\ Addressed(u)
            /\ e.maker = "other" => /\ Held(table, fd, mine) /\ ~HeldClosed(Lowest) => Held(u, fd, mine)
                                    /\ Owned(u, fd)
            /\ e.maker = "Socket" => \A o \in Objs : fd[o] \notin Fds =>
                 LET f == [fd EXCEPT ![o] = Lowest]
                     m == [mine EXCEPT ![o] = NewId]
                 IN /\ f \in [Objs -> {Dead, -1} \cup Fds] /\ m \in [Objs -> Nat]
                    /\ Held(table, fd, mine) /\ ~HeldClosed(Lowest) => Held(u, f, m)
                    /\ Owned(u, f)
<1> DEFINE u == [table EXCEPT ![Lowest] = e]
<1>1. Lowest \in Fds /\ table[Lowest] = Free /\ TypeOK /\ e # Free
  BY LowestIsFree, FileIsOpen DEF SocketInv
<1>2. u \in Tables /\ u[Lowest] = e /\ \A k \in Fds \ {Lowest} : u[k] = table[k]
  BY <1>1 DEF TypeOK, Tables
<1>3. NewId \in Nat \ {0} /\ \A n \in Fds : table[n].id # NewId
  BY <1>1, NewIdIsNew
<1> HIDE DEF u
<1>4. OneNumber(u)
  BY <1>1, <1>2, <1>3 DEF SocketInv, OneNumber
<1>5. Addressed(u)
  BY <1>2 DEF SocketInv, Addressed, AsAsked
<1>6. ASSUME e.maker = "other"
      PROVE  (Held(table, fd, mine) /\ ~HeldClosed(Lowest) => Held(u, fd, mine)) /\ Owned(u, fd)
  <2>1. Held(table, fd, mine) /\ ~HeldClosed(Lowest) => Held(u, fd, mine)
    BY <1>1, <1>2 DEF Held, HeldClosed
  <2>2. Owned(u, fd)
    BY <1>2, <1>6 DEF SocketInv, Owned
  <2> QED
    BY <2>1, <2>2
<1>7. ASSUME e.maker = "Socket", NEW o \in Objs, fd[o] \notin Fds
      PROVE  LET f == [fd EXCEPT ![o] = Lowest]
                 m == [mine EXCEPT ![o] = NewId]
             IN /\ f \in [Objs -> {Dead, -1} \cup Fds] /\ m \in [Objs -> Nat]
                /\ Held(table, fd, mine) /\ ~HeldClosed(Lowest) => Held(u, f, m)
                /\ Owned(u, f)
  <2> DEFINE f == [fd EXCEPT ![o] = Lowest]
             m == [mine EXCEPT ![o] = NewId]
  <2>1. f \in [Objs -> {Dead, -1} \cup Fds] /\ m \in [Objs -> Nat]
    BY <1>1, <1>3 DEF TypeOK
  <2>2. /\ f[o] = Lowest /\ m[o] = NewId
        /\ \A p \in Objs \ {o} : f[p] = fd[p] /\ m[p] = mine[p]
    BY <1>1 DEF TypeOK
  <2> HIDE DEF f, m
  <2>3. Held(table, fd, mine) /\ ~HeldClosed(Lowest) => Held(u, f, m)
    BY <1>1, <1>2, <1>7, <2>2 DEF Held, HeldClosed
  <2>4. Owned(u, f)
    <3> SUFFICES ASSUME NEW n \in Fds, u[n] # Free /\ u[n].maker = "Socket"
                 PROVE  \E p \in Objs : f[p] = n
      BY DEF Owned
    <3>1. CASE n = Lowest
      BY <2>2, <3>1
    <3>2. CASE n # Lowest
      <4>1. PICK p \in Objs : fd[p] = n
        BY <1>2, <3>2 DEF SocketInv, Owned
      <4> QED
        BY <1>7, <2>2, <4>1
    <3> QED
      BY <3>1, <3>2
  <2> QED
    BY <2>1, <2>3, <2>4 DEF f, m
<1> QED
  BY <1>2, <1>4, <1>5, <1>6, <1>7 DEF u

\* Closing a number, whoever holds it, keeps what does not depend on the holders.
LEMMA CloseKeeps ==
  ASSUME SocketInv, NEW n \in {Dead, -1} \cup Fds
  PROVE  /\ Closed(n) \in Tables /\ OneNumber(Closed(n)) /\ Addressed(Closed(n))
         /\ n \in Fds => Closed(n)[n] = Free
         /\ \A k \in Fds \ {n} : Closed(n)[k] = table[k]
<1>1. /\ Closed(n) \in Tables
      /\ n \in Fds => Closed(n)[n] = Free
      /\ \A k \in Fds \ {n} : Closed(n)[k] = table[k]
  BY DEF Closed, Tables, SocketInv, TypeOK
<1> QED
  BY <1>1 DEF SocketInv, OneNumber, Addressed

\* A file as the kernel creates it.
LEMMA NewFileIsFile ==
  ASSUME TypeOK, NEW maker \in {"Socket", "other"}, NEW family \in Families
  PROVE  LET e == NewFile(maker, family)
             c == [e EXCEPT !.use = "connected", !.nonblock = TRUE]
         IN /\ e \in File /\ e.id = NewId /\ e.maker = maker /\ e.asked = <<>>
            /\ c \in File /\ c.id = NewId /\ c.maker = maker /\ c.asked = <<>>
<1>1. NewId \in Nat \ {0}
  BY NewIdIsNew
<1>2. <<>> \in Places
  BY DEF Places
<1> QED
  BY <1>1, <1>2 DEF NewFile, File

\* CreateByProtocol, called or not, leaves the invariant and a descriptor in range.
LEMMA CreateKeeps ==
  ASSUME SocketInv, NEW o \in Objs, NEW protocol \in Families, CreateByProtocol(o)
  PROVE  LET t == Table(o, protocol)
         IN /\ t \in Tables /\ OneNumber(t) /\ Addressed(t)
            /\ fd' \in [Objs -> {Dead, -1} \cup Fds] /\ mine' \in [Objs -> Nat]
            /\ aliased' \in BOOLEAN /\ (aliased' \/ Held(t, fd', mine'))
            /\ Owned(t, fd')
            /\ Fd(o) \in Fds
<1>1. CASE Creates(o)
  <2>1. /\ FreeFds # {} /\ fd[o] \notin Fds /\ Fd(o) = Lowest
        /\ fd' = [fd EXCEPT ![o] = Lowest] /\ mine' = [mine EXCEPT ![o] = NewId]
        /\ Table(o, protocol) = [table EXCEPT ![Lowest] = NewFile("Socket", protocol)]
    BY <1>1, SocketAssumption DEF CreateByProtocol, Creates, Fd, Table, Fds
  <2> DEFINE e == NewFile("Socket", protocol)
             u == [table EXCEPT ![Lowest] = e]
             f == [fd EXCEPT ![o] = Lowest]
             m == [mine EXCEPT ![o] = NewId]
  <2>2. e \in File /\ e.id = NewId /\ e.maker = "Socket" /\ e.asked = <<>>
    BY NewFileIsFile DEF SocketInv
  <2>3. Lowest \in Fds
    BY <2>1, LowestIsFree
  <2> HIDE DEF e
  <2>4. /\ u \in Tables /\ OneNumber(u) /\ Addressed(u)
        /\ f \in [Objs -> {Dead, -1} \cup Fds] /\ m \in [Objs -> Nat]
        /\ Held(table, fd, mine) /\ ~HeldClosed(Lowest) => Held(u, f, m)
        /\ Owned(u, f)
    BY <2>1, <2>2, OpenKeeps
  <2>5. Table(o, protocol) = u /\ fd' = f /\ mine' = m
    BY <2>1 DEF e
  <2>6. aliased' = (aliased \/ HeldClosed(Lowest))
    BY <1>1 DEF CreateByProtocol
  <2>7. aliased' \in BOOLEAN
    BY <2>6 DEF SocketInv, TypeOK
  <2> HIDE DEF u, f, m
  <2> QED
    BY <2>1, <2>3, <2>4, <2>5, <2>6, <2>7 DEF SocketInv
<1>2. CASE ~Creates(o)
  <2>1. fd' = fd /\ mine' = mine /\ Table(o, protocol) = table /\ aliased' = aliased
    BY <1>2 DEF CreateByProtocol, Fd, Table, SocketInv, TypeOK
  <2>2. Fd(o) \in Fds
    BY <1>2 DEF CreateByProtocol, Fd, Creates, SocketInv, TypeOK
  <2> QED
    BY <2>1, <2>2 DEF SocketInv, TypeOK
<1> QED
  BY <1>1, <1>2

\* A bind() or connect() that the kernel takes puts the file where it was asked to be.
LEMMA PlacedIsAsAsked ==
  ASSUME NEW e \in File, NEW r \in Requests, NEW x \in {"bound", "connected"},
         KernelTakes(NewAddress(r.ip, r.port, r.protocol), e.family)
  PROVE  LET u == [e EXCEPT !.use = x, !.at = IpAndPort(NewAddress(r.ip, r.port, r.protocol)),
                            !.asked = r]
         IN Same(e, u) /\ AsAsked(u)
<1> DEFINE p == IpAndPort(NewAddress(r.ip, r.port, r.protocol))
           u == [e EXCEPT !.use = x, !.at = p, !.asked = r]
<1>1. p \in Places
  BY DEF Places
<1>2. Same(e, u)
  BY <1>1, FileFields
<1>3. u.at = p /\ u.asked = r
  BY DEF File
<1>4. AsAsked(u)
  <2> HIDE DEF u
  <2> QED
    BY <1>3, TakenIsAsAsked DEF AsAsked
<1> QED
  BY <1>2, <1>4

-----------------------------------------------------------------------------
(* Every action keeps the invariant.                                       *)

LEMMA OtherKeeps ==
  ASSUME SocketInv, OtherOpens \/ \E n \in Fds : OtherCloses(n)
  PROVE  SocketInv'
<1>1. CASE OtherOpens
  <2>1. LET e == NewFile("other", "Ipv4")
        IN e \in File /\ e.id = NewId /\ e.maker = "other" /\ e.asked = <<>>
    BY NewFileIsFile DEF SocketInv, Families
  <2>2. /\ table' \in Tables /\ OneNumber(table') /\ Addressed(table')
        /\ Held(table, fd, mine) /\ ~HeldClosed(Lowest) => Held(table', fd, mine)
        /\ Owned(table', fd)
    BY <1>1, <2>1, OpenKeeps DEF OtherOpens
  <2>3. /\ aliased' = (aliased \/ HeldClosed(Lowest)) /\ UNCHANGED <<fd, mine, aborted>>
        /\ aliased' \in BOOLEAN
    BY <1>1 DEF OtherOpens, SocketInv, TypeOK
  <2> QED
    BY <2>2, <2>3 DEF SocketInv, TypeOK
<1>2. ASSUME NEW n \in Fds, OtherCloses(n) PROVE SocketInv'
  <2>1. table' = Closed(n) /\ table[n] # Free /\ table[n].maker = "other" /\ UNCHANGED <<fd, mine, aliased, aborted>>
    BY <1>2 DEF OtherCloses, Closed
  <2>2. /\ table' \in Tables /\ OneNumber(table') /\ Addressed(table')
        /\ table'[n] = Free /\ \A k \in Fds \ {n} : table'[k] = table[k]
    BY <2>1, CloseKeeps
  <2>3. Held(table, fd, mine) => Held(table', fd, mine)
    BY <2>1, <2>2 DEF Held
  <2>4. Owned(table', fd)
    BY <2>2 DEF SocketInv, Owned
  <2> QED
    BY <2>1, <2>2, <2>3, <2>4 DEF SocketInv, TypeOK
<1> QED
  BY <1>1, <1>2

\* The file an object's descriptor names, if it is open.
LEMMA OpenIsFile ==
  ASSUME SocketInv, NEW n \in Fds, table[n] # Free
  PROVE  table[n] \in File /\ AsAsked(table[n])
BY DEF SocketInv, TypeOK, Tables, Addressed

LEMMA ConstructKeeps ==
  ASSUME SocketInv, NEW o \in Objs, Construct(o)
  PROVE  SocketInv'
<1>1. /\ TypeOK' /\ table' = table /\ mine' = mine /\ aliased' = aliased
      /\ fd[o] \notin Fds /\ fd'[o] \notin Fds /\ \A p \in Objs \ {o} : fd'[p] = fd[p]
  BY SocketAssumption DEF Construct, SocketInv, TypeOK, Fds, Dead
<1>2. Held(table, fd, mine) => Held(table', fd', mine')
  BY <1>1 DEF Held
<1>3. Owned(table', fd')
  BY <1>1 DEF SocketInv, Owned
<1> QED
  BY <1>1, <1>2, <1>3 DEF SocketInv

LEMMA MoveConstructKeeps ==
  ASSUME SocketInv, NEW o \in Objs, NEW p \in Objs, MoveConstruct(o, p)
  PROVE  SocketInv'
<1>1. /\ TypeOK' /\ table' = table /\ aliased' = aliased /\ o # p
      /\ fd[o] \notin Fds /\ fd'[o] = fd[p] /\ mine'[o] = mine[p] /\ fd'[p] \notin Fds
      /\ \A q \in Objs \ {o, p} : fd'[q] = fd[q] /\ mine'[q] = mine[q]
  BY SocketAssumption DEF MoveConstruct, SocketInv, TypeOK, Fds, Dead
<1>2. Held(table, fd, mine) => Held(table', fd', mine')
  BY <1>1 DEF Held
<1>3. Owned(table', fd')
  BY <1>1 DEF SocketInv, Owned
<1> QED
  BY <1>1, <1>2, <1>3 DEF SocketInv

\* The number that was closed goes to other, where it names nothing.
LEMMA MoveAssignKeeps ==
  ASSUME SocketInv, NEW o \in Objs, NEW p \in Objs, MoveAssign(o, p)
  PROVE  SocketInv'
<1>1. /\ fd[o] \in {Dead, -1} \cup Fds /\ table' = Closed(fd[o])
      /\ aliased' = aliased /\ aborted' = aborted
      /\ fd' \in [Objs -> {Dead, -1} \cup Fds] /\ mine' \in [Objs -> Nat]
      /\ fd'[o] = fd[p] /\ fd'[p] = fd[o] /\ mine'[p] = 0 /\ (o # p => mine'[o] = mine[p])
      /\ \A q \in Objs \ {o, p} : fd'[q] = fd[q] /\ mine'[q] = mine[q]
  BY DEF MoveAssign, SocketInv, TypeOK
<1>2. /\ table' \in Tables /\ OneNumber(table') /\ Addressed(table')
      /\ fd[o] \in Fds => table'[fd[o]] = Free
      /\ \A k \in Fds \ {fd[o]} : table'[k] = table[k]
  BY <1>1, CloseKeeps
<1>3. aliased' \in BOOLEAN /\ aborted' \in BOOLEAN
  BY <1>1 DEF SocketInv, TypeOK
<1>4. ASSUME Held(table, fd, mine) PROVE Held(table', fd', mine')
  <2>1. Free.id = 0
    BY DEF Free
  <2>2. ASSUME NEW q \in Objs, fd'[q] \in Fds
        PROVE  /\ table'[fd'[q]].id = mine'[q]
               /\ table'[fd'[q]] # Free => table'[fd'[q]].maker = "Socket"
    <3>1. CASE q = p
      BY <1>1, <1>2, <2>1, <2>2, <3>1
    <3>2. CASE q = o /\ o # p
      <4>1. CASE fd[p] = fd[o]
        BY <1>1, <1>2, <1>4, <2>1, <2>2, <3>2, <4>1 DEF Held
      <4>2. CASE fd[p] # fd[o]
        BY <1>1, <1>2, <1>4, <2>2, <3>2, <4>2 DEF Held
      <4> QED
        BY <4>1, <4>2
    <3>3. CASE q \in Objs \ {o, p}
      <4>1. CASE fd[q] = fd[o]
        BY <1>1, <1>2, <1>4, <2>1, <2>2, <3>3, <4>1 DEF Held
      <4>2. CASE fd[q] # fd[o]
        BY <1>1, <1>2, <1>4, <2>2, <3>3, <4>2 DEF Held
      <4> QED
        BY <4>1, <4>2
    <3> QED
      BY <3>1, <3>2, <3>3
  <2>3. ASSUME NEW q \in Objs, NEW k \in Objs, fd'[q] = fd'[k], fd'[q] \in Fds, table'[fd'[q]] # Free
        PROVE  q = k
    <3>1. fd'[q] # fd[o] /\ table[fd'[q]] # Free
      BY <1>2, <2>3
    <3>2. q # p /\ k # p
      BY <1>1, <2>3, <3>1
    <3> QED
      BY <1>1, <1>4, <2>3, <3>1, <3>2 DEF Held
  <2> QED
    BY <2>2, <2>3 DEF Held
<1>5. Owned(table', fd')
  BY <1>1, <1>2 DEF SocketInv, Owned
<1> QED
  BY <1>1, <1>2, <1>3, <1>4, <1>5 DEF SocketInv, TypeOK

\* A number that a Socket has is taken over only under the eyes of aliased.
LEMMA AdoptKeeps ==
  ASSUME SocketInv, NEW o \in Objs, NEW n \in Fds, Adopt(o, n)
  PROVE  SocketInv'
<1> DEFINE e == [table[n] EXCEPT !.maker = "Socket"]
<1>1. TypeOK /\ fd[o] \notin Fds
  BY SocketAssumption DEF Adopt, SocketInv, Fds, Dead
<1>2. table[n] # Free => /\ table[n] \in File /\ AsAsked(table[n])
                         /\ e \in File /\ e.id = table[n].id /\ e.maker = "Socket"
                         /\ e.at = table[n].at /\ e.asked = table[n].asked
  BY <1>1, OpenIsFile DEF File
<1>3. e \in File => e # Free
  BY FileIsOpen
<1> HIDE DEF e
<1>4. /\ \A k \in Fds \ {n} : table'[k] = table[k]
      /\ table[n] = Free => table'[n] = Free
      /\ table[n] # Free => table'[n] = e
      /\ table' \in Tables
  BY <1>1, <1>2 DEF Adopt, TypeOK, Tables, e
<1>5. table[n].id \in Nat
  BY <1>1 DEF TypeOK, Tables, File, Free
<1>6. /\ fd' \in [Objs -> {Dead, -1} \cup Fds] /\ mine' \in [Objs -> Nat]
      /\ fd'[o] = n /\ mine'[o] = table[n].id
      /\ \A p \in Objs \ {o} : fd'[p] = fd[p] /\ mine'[p] = mine[p]
      /\ aborted' = aborted
      /\ aliased' = (aliased \/ (table[n] # Free /\ table[n].maker = "Socket"))
  BY <1>1, <1>5 DEF Adopt, TypeOK
<1>7. aliased' \in BOOLEAN /\ aborted' \in BOOLEAN
  BY <1>1, <1>6 DEF TypeOK
<1>8. \A k \in Fds : /\ table'[k] # Free <=> table[k] # Free
                     /\ table'[k].id = table[k].id
                     /\ AsAsked(table[k]) => AsAsked(table'[k])
  BY <1>2, <1>3, <1>4 DEF AsAsked
<1>9. OneNumber(table') /\ Addressed(table')
  BY <1>8 DEF SocketInv, OneNumber, Addressed
<1>10. ASSUME ~aliased' PROVE Held(table', fd', mine')
  <2>1. /\ Held(table, fd, mine) /\ ~(table[n] # Free /\ table[n].maker = "Socket")
        /\ \A p \in Objs \ {o} : fd'[p] = n => table[n] = Free
    <3>1. Held(table, fd, mine) /\ ~(table[n] # Free /\ table[n].maker = "Socket")
      BY <1>6, <1>10 DEF SocketInv
    <3> QED
      BY <1>6, <3>1 DEF Held
  <2>2. ASSUME NEW q \in Objs, fd'[q] \in Fds
        PROVE  /\ table'[fd'[q]].id = mine'[q]
               /\ table'[fd'[q]] # Free => table'[fd'[q]].maker = "Socket"
    <3>1. CASE q = o
      BY <1>2, <1>4, <1>6, <1>8, <2>2, <3>1
    <3>2. CASE q # o
      BY <1>2, <1>4, <1>6, <1>8, <2>1, <2>2, <3>2 DEF Held
    <3> QED
      BY <3>1, <3>2
  <2>3. ASSUME NEW q \in Objs, NEW k \in Objs, fd'[q] = fd'[k], fd'[q] \in Fds, table'[fd'[q]] # Free
        PROVE  q = k
    BY <1>6, <1>8, <2>1, <2>3 DEF Held
  <2> QED
    BY <2>2, <2>3 DEF Held
<1>11. Owned(table', fd')
  <2> SUFFICES ASSUME NEW k \in Fds, table'[k] # Free, table'[k].maker = "Socket"
               PROVE  \E p \in Objs : fd'[p] = k
    BY DEF Owned
  <2>1. CASE k = n
    BY <1>6, <2>1
  <2>2. CASE k # n
    <3>1. PICK p \in Objs : fd[p] = k
      BY <1>4, <2>2 DEF SocketInv, Owned
    <3> QED
      BY <1>1, <1>6, <3>1
  <2> QED
    BY <2>1, <2>2
<1> QED
  BY <1>4, <1>6, <1>7, <1>9, <1>10, <1>11 DEF SocketInv, TypeOK

LEMMA DestroyKeeps ==
  ASSUME SocketInv, NEW o \in Objs, Destroy(o)
  PROVE  SocketInv'
<1>1. /\ fd[o] \in {Dead, -1} \cup Fds /\ table' = Closed(fd[o])
      /\ aliased' = aliased /\ aborted' = aborted
      /\ fd' \in [Objs -> {Dead, -1} \cup Fds] /\ mine' \in [Objs -> Nat]
      /\ fd'[o] \notin Fds
      /\ \A q \in Objs \ {o} : fd'[q] = fd[q] /\ mine'[q] = mine[q]
  BY SocketAssumption DEF Destroy, SocketInv, TypeOK, Fds, Dead
<1>2. /\ table' \in Tables /\ OneNumber(table') /\ Addressed(table')
      /\ fd[o] \in Fds => table'[fd[o]] = Free
      /\ \A k \in Fds \ {fd[o]} : table'[k] = table[k]
  BY <1>1, CloseKeeps
<1>3. Held(table, fd, mine) => Held(table', fd', mine')
  BY <1>1, <1>2 DEF Held
<1>4. Owned(table', fd')
  BY <1>1, <1>2 DEF SocketInv, Owned
<1> QED
  BY <1>1, <1>2, <1>3, <1>4 DEF SocketInv, TypeOK

\* A step that only sets fields of one open file keeps the invariant.
LEMMA TouchStep ==
  ASSUME SocketInv, NEW n \in Fds, NEW e, table[n] # Free, Same(table[n], e), AsAsked(e),
         table' = [table EXCEPT ![n] = e], UNCHANGED <<fd, mine, aliased, aborted>>
  PROVE  SocketInv'
<1>1. table \in Tables
  BY DEF SocketInv, TypeOK
<1>2. /\ table' \in Tables /\ OneNumber(table') /\ Addressed(table')
      /\ Held(table, fd, mine) => Held(table', fd, mine)
      /\ Owned(table', fd)
  BY <1>1, TouchKeeps DEF SocketInv
<1> QED
  BY <1>2 DEF SocketInv, TypeOK

LEMMA ListenKeeps ==
  ASSUME SocketInv, NEW o \in Objs, Listen(o)
  PROVE  SocketInv'
<1> DEFINE n == fd[o]
           e == [table[n] EXCEPT !.use = "listening"]
<1>1. n \in Fds /\ table[n] # Free
  BY DEF Listen, Is
<1>2. table[n] \in File /\ AsAsked(table[n])
  BY <1>1, OpenIsFile
<1>3. Same(table[n], e) /\ e.at = table[n].at /\ e.asked = table[n].asked
  BY <1>2, FileFields DEF File
<1>4. table' = [table EXCEPT ![n] = e] /\ UNCHANGED <<fd, mine, aliased, aborted>>
  BY DEF Listen
<1> HIDE DEF n, e
<1>5. AsAsked(e)
  BY <1>2, <1>3 DEF AsAsked
<1> QED
  BY <1>1, <1>3, <1>4, <1>5, TouchStep

LEMMA SetNonBlockingKeeps ==
  ASSUME SocketInv, NEW o \in Objs, SetNonBlocking(o)
  PROVE  SocketInv'
<1> DEFINE n == fd[o]
           e == [table[n] EXCEPT !.nonblock = TRUE]
<1>1. n \in Fds /\ table[n] # Free
  BY DEF SetNonBlocking
<1>2. table[n] \in File /\ AsAsked(table[n])
  BY <1>1, OpenIsFile
<1>3. Same(table[n], e) /\ e.at = table[n].at /\ e.asked = table[n].asked
  BY <1>2, FileFields DEF File
<1>4. table' = [table EXCEPT ![n] = e] /\ UNCHANGED <<fd, mine, aliased, aborted>>
  BY DEF SetNonBlocking
<1> HIDE DEF n, e
<1>5. AsAsked(e)
  BY <1>2, <1>3 DEF AsAsked
<1> QED
  BY <1>1, <1>3, <1>4, <1>5, TouchStep

LEMMA AcceptKeeps ==
  ASSUME SocketInv, NEW o \in Objs, NEW p \in Objs, Accept(o, p)
  PROVE  SocketInv'
<1> DEFINE family == table[fd[o]].family
           e == [NewFile("Socket", family) EXCEPT !.use = "connected", !.nonblock = TRUE]
           u == [table EXCEPT ![Lowest] = e]
           f == [fd EXCEPT ![p] = Lowest]
           m == [mine EXCEPT ![p] = NewId]
<1>1. fd[o] \in Fds /\ table[fd[o]] # Free /\ FreeFds # {} /\ fd[p] \notin Fds
  BY SocketAssumption DEF Accept, Is, Fds, Dead
<1>2. family \in Families
  BY <1>1, OpenIsFile DEF File
<1>3. e \in File /\ e.id = NewId /\ e.maker = "Socket" /\ e.asked = <<>>
  <2> HIDE DEF family
  <2> QED
    BY <1>2, NewFileIsFile DEF SocketInv
<1>4. table' = u /\ fd' = f /\ mine' = m /\ UNCHANGED aborted
      /\ aliased' = (aliased \/ HeldClosed(Lowest))
  BY DEF Accept
<1> HIDE DEF e
<1>5. /\ u \in Tables /\ OneNumber(u) /\ Addressed(u)
      /\ f \in [Objs -> {Dead, -1} \cup Fds] /\ m \in [Objs -> Nat]
      /\ Held(table, fd, mine) /\ ~HeldClosed(Lowest) => Held(u, f, m)
      /\ Owned(u, f)
  BY <1>1, <1>3, OpenKeeps
<1>6. aliased' \in BOOLEAN
  BY <1>4 DEF SocketInv, TypeOK
<1> HIDE DEF u, f, m
<1> QED
  BY <1>4, <1>5, <1>6 DEF SocketInv, TypeOK

\* The second half of Bind and Connect: whatever they made of the file, the table is
\* that of the first half with fields of one open file set, or that table itself.
LEMMA PlaceStep ==
  ASSUME SocketInv, NEW t \in Tables, NEW n \in Fds, NEW e,
         OneNumber(t), Addressed(t), Owned(t, fd'), aliased' \/ Held(t, fd', mine'),
         fd' \in [Objs -> {Dead, -1} \cup Fds], mine' \in [Objs -> Nat],
         aliased' \in BOOLEAN, aborted' \in BOOLEAN,
         \/ table' = t
         \/ table' = [t EXCEPT ![n] = e] /\ t[n] # Free /\ Same(t[n], e) /\ AsAsked(e)
  PROVE  SocketInv'
<1>1. CASE table' = t
  BY <1>1 DEF SocketInv, TypeOK
<1>2. CASE table' = [t EXCEPT ![n] = e] /\ t[n] # Free /\ Same(t[n], e) /\ AsAsked(e)
  <2>1. /\ table' \in Tables /\ OneNumber(table') /\ Addressed(table')
        /\ Held(t, fd', mine') => Held(table', fd', mine')
        /\ Owned(table', fd')
    BY <1>2, TouchKeeps
  <2> QED
    BY <2>1 DEF SocketInv, TypeOK
<1> QED
  BY <1>1, <1>2

LEMMA ConnectKeeps ==
  ASSUME SocketInv, NEW o \in Objs, NEW r \in Requests, Connect(o, r)
  PROVE  SocketInv'
<1> DEFINE a == NewAddress(r.ip, r.port, r.protocol)
           n == Fd(o)
           t == Table(o, r.protocol)
           e == [t[n] EXCEPT !.use = "connected", !.at = IpAndPort(a), !.asked = r]
<1>1. r.protocol \in Families /\ CreateByProtocol(o) /\ UNCHANGED aborted
  BY SocketAssumption DEF Connect, Families
<1>2. /\ t \in Tables /\ OneNumber(t) /\ Addressed(t) /\ Owned(t, fd')
      /\ aliased' \in BOOLEAN /\ (aliased' \/ Held(t, fd', mine'))
      /\ fd' \in [Objs -> {Dead, -1} \cup Fds] /\ mine' \in [Objs -> Nat] /\ n \in Fds
  BY <1>1, CreateKeeps
<1>3. \/ table' = t
      \/ table' = [t EXCEPT ![n] = e] /\ t[n] # Free /\ KernelTakes(a, t[n].family)
  BY DEF Connect
<1>4. aborted' \in BOOLEAN
  BY <1>1 DEF SocketInv, TypeOK
<1>5. ASSUME t[n] # Free, KernelTakes(a, t[n].family) PROVE Same(t[n], e) /\ AsAsked(e)
  <2> HIDE DEF t, n
  <2>1. t[n] \in File
    BY <1>2, <1>5 DEF Tables
  <2> QED
    BY <1>5, <2>1, PlacedIsAsAsked
<1> HIDE DEF a, n, t, e
<1> QED
  BY <1>2, <1>3, <1>4, <1>5, PlaceStep

\* SO_REUSEADDR is one more field.
LEMMA ReusableKeeps ==
  ASSUME NEW t \in Tables, NEW n \in Fds, NEW f, NEW m, Addressed(t)
  PROVE  LET u == SetReusable(t, n)
         IN /\ u \in Tables /\ Addressed(u)
            /\ Held(t, f, m) => Held(u, f, m)
            /\ OneNumber(t) => OneNumber(u)
            /\ Owned(t, f) => Owned(u, f)
<1>1. CASE t[n] = Free
  BY <1>1 DEF SetReusable
<1>2. CASE t[n] # Free
  <2> DEFINE e == [t[n] EXCEPT !.reusable = TRUE]
  <2>1. t[n] \in File /\ AsAsked(t[n])
    BY <1>2 DEF Tables, Addressed
  <2>2. Same(t[n], e) /\ e.at = t[n].at /\ e.asked = t[n].asked
    BY <2>1, FileFields DEF File
  <2>3. SetReusable(t, n) = [t EXCEPT ![n] = e]
    BY <1>2 DEF SetReusable
  <2> HIDE DEF e
  <2>4. AsAsked(e)
    BY <2>1, <2>2 DEF AsAsked
  <2> DEFINE u == [t EXCEPT ![n] = e]
  <2>5. /\ u \in Tables
        /\ Held(t, f, m) => Held(u, f, m)
        /\ OneNumber(t) => OneNumber(u)
        /\ Owned(t, f) => Owned(u, f)
        /\ Addressed(t) /\ AsAsked(e) => Addressed(u)
    BY <1>2, <2>2, TouchKeeps, Zenon
  <2> QED
    BY <2>3, <2>4, <2>5, Zenon
<1> QED
  BY <1>1, <1>2

LEMMA BindKeeps ==
  ASSUME SocketInv, NEW o \in Objs, NEW r \in Requests, NEW reusable \in BOOLEAN,
         Bind(o, r, reusable)
  PROVE  SocketInv'
<1> DEFINE a == NewAddress(r.ip, r.port, r.protocol)
           n == Fd(o)
           t == IF reusable THEN SetReusable(Table(o, r.protocol), n) ELSE Table(o, r.protocol)
           e == [t[n] EXCEPT !.use = "bound", !.at = IpAndPort(a), !.asked = r]
<1>1. /\ r.protocol \in Families /\ CreateByProtocol(o)
      /\ aborted' = (reusable /\ ReusableAsserts(n))
  BY SocketAssumption DEF Bind, Families
<1>2. n \in Fds /\ fd' \in [Objs -> {Dead, -1} \cup Fds] /\ mine' \in [Objs -> Nat]
  BY <1>1, CreateKeeps
<1>3. /\ t \in Tables /\ OneNumber(t) /\ Addressed(t) /\ Owned(t, fd')
      /\ aliased' \in BOOLEAN /\ (aliased' \/ Held(t, fd', mine'))
  <2> DEFINE c == Table(o, r.protocol)
  <2>1. /\ c \in Tables /\ OneNumber(c) /\ Addressed(c) /\ Owned(c, fd')
        /\ aliased' \in BOOLEAN /\ (aliased' \/ Held(c, fd', mine'))
    BY <1>1, CreateKeeps
  <2> HIDE DEF c, n
  <2>2. t = IF reusable THEN SetReusable(c, n) ELSE c
    BY Zenon DEF c
  <2> HIDE DEF t
  <2> QED
    BY <1>2, <2>1, <2>2, ReusableKeeps
<1>4. \/ table' = t
      \/ table' = [t EXCEPT ![n] = e] /\ t[n] # Free /\ KernelTakes(a, t[n].family)
  BY DEF Bind, MayBind
<1>5. aborted' \in BOOLEAN
  BY <1>1 DEF ReusableAsserts
<1>6. ASSUME t[n] # Free, KernelTakes(a, t[n].family) PROVE Same(t[n], e) /\ AsAsked(e)
  <2> HIDE DEF t, n
  <2>1. t[n] \in File
    BY <1>2, <1>3, <1>6 DEF Tables
  <2> QED
    BY <1>6, <2>1, PlacedIsAsAsked
<1> HIDE DEF a, n, t, e
<1> QED
  BY <1>1, <1>2, <1>3, <1>4, <1>5, <1>6, PlaceStep

-----------------------------------------------------------------------------
\* Every reachable state satisfies the invariant.
THEOREM SocketInvariant == Spec => []SocketInv
<1>1. Init => SocketInv
  <2> SUFFICES ASSUME Init PROVE SocketInv
    OBVIOUS
  <2>1. TypeOK /\ \A n \in Fds : table[n] = Free
    BY DEF Init, TypeOK, Tables
  <2>2. \A o \in Objs : fd[o] \notin Fds
    BY SocketAssumption DEF Init, Fds, Dead
  <2> QED
    BY <2>1, <2>2 DEF SocketInv, Held, OneNumber, Owned, Addressed
<1>2. SocketInv /\ [Next]_vars => SocketInv'
  <2> SUFFICES ASSUME SocketInv, [Next]_vars PROVE SocketInv'
    OBVIOUS
  <2>1. CASE OtherOpens \/ \E n \in Fds : OtherCloses(n)
    BY <2>1, OtherKeeps
  <2>2. ASSUME NEW o \in Objs, Construct(o) \/ Destroy(o) \/ Listen(o) \/ SetNonBlocking(o)
        PROVE  SocketInv'
    BY <2>2, ConstructKeeps, DestroyKeeps, ListenKeeps, SetNonBlockingKeeps
  <2>3. ASSUME NEW o \in Objs, NEW n \in Fds, Adopt(o, n) PROVE SocketInv'
    BY <2>3, AdoptKeeps
  <2>4. ASSUME NEW o \in Objs, NEW p \in Objs, MoveConstruct(o, p) \/ MoveAssign(o, p) \/ Accept(o, p)
        PROVE  SocketInv'
    BY <2>4, MoveConstructKeeps, MoveAssignKeeps, AcceptKeeps
  <2>5. ASSUME NEW o \in Objs, NEW r \in Requests,
               Connect(o, r) \/ \E reusable \in BOOLEAN : Bind(o, r, reusable)
        PROVE  SocketInv'
    BY <2>5, ConnectKeeps, BindKeeps
  <2>6. CASE UNCHANGED vars
    BY <2>6 DEF vars, SocketInv, TypeOK
  <2> QED
    BY <2>1, <2>2, <2>3, <2>4, <2>5, <2>6 DEF Next
<1> QED
  BY <1>1, <1>2, PTL DEF Spec

\* A Socket holds no open file but the one it created, adopted or was moved, until a
\* file gets a number that a Socket held already.
THEOREM OwnsItsFile == Spec => []HeldIsMine
<1>1. SocketInv => HeldIsMine
  BY DEF SocketInv, Held, HeldIsMine
<1> QED
  BY <1>1, SocketInvariant, PTL

\* No call of Socket, failing or repeated, loses a file that a Socket made.
THEOREM NoFileLeaks == Spec => []NoLeak
<1>1. SocketInv => NoLeak
  BY DEF SocketInv, Owned, NoLeak
<1> QED
  BY <1>1, SocketInvariant, PTL

\* A file is bound or connected where NetAddress was asked to put it, for every
\* address and every port.
THEOREM BoundWhereAsked == Spec => []AtItsAddress
<1>1. SocketInv => AtItsAddress
  BY DEF SocketInv, Addressed, AsAsked, AtItsAddress
<1> QED
  BY <1>1, SocketInvariant, PTL
=============================================================================
