------------------------------- MODULE Socket -------------------------------
(***************************************************************************)
(* core/socket.cc: Socket objects as owners of descriptors, among other    *)
(* code of the process that opens and closes descriptors too.  The kernel  *)
(* gives out the lowest free number; a number names an open file only      *)
(* until it is closed.                                                     *)
(***************************************************************************)
EXTENDS NetAddress, Integers, FiniteSets

CONSTANTS
  Objs,       \* places for Socket objects
  MaxFd,      \* descriptors are 0..MaxFd
  Requests    \* the addresses asked for: records of ip, port and protocol

\* A port is a uint16_t; an IPv4 address has one word, an IPv6 address four.
ASSUME SocketAssumption ==
  /\ MaxFd \in Nat /\ IsFiniteSet(Objs)
  /\ \A r \in Requests :
       /\ r \in [ip : Seq(Nat), port : 0..Byte * Byte - 1, protocol : {"Ipv4", "Ipv6"}]
       /\ Len(r.ip) \in {0, IF r.protocol = "Ipv4" THEN 1 ELSE 4}

Dead == -2    \* no object is constructed here
Free == [id |-> 0]

VARIABLES
  table,     \* descriptor -> the open file it names, or Free
  fd,        \* fd_ of each object, or Dead
  mine,      \* history: the file an object created, adopted or was given by a move
  aliased,   \* history: a file got a number that a Socket held already
  aborted    \* an assertion failed

vars == <<table, fd, mine, aliased, aborted>>

Fds == 0..MaxFd
FreeFds == {n \in Fds : table[n] = Free}
Lowest == CHOOSE n \in FreeFds : \A m \in FreeFds : n <= m

\* A free number that some object has not forgotten.
HeldClosed(n) == \E o \in Objs : fd[o] = n

\* Files are told apart by an id that nobody remembers.
NewId == CHOOSE i \in 1..(MaxFd + 2 + Cardinality(Objs)) :
           (\A n \in Fds : table[n].id # i) /\ (\A o \in Objs : mine[o] # i)

\* A file as the kernel creates it; at and asked: where it is bound or connected,
\* and what address the program had asked for.
NewFile(maker, family) ==
  [id |-> NewId, maker |-> maker, family |-> family, use |-> "fresh", reusable |-> FALSE,
   nonblock |-> FALSE, at |-> <<>>, asked |-> <<>>]

Init ==
  /\ table = [n \in Fds |-> Free]
  /\ fd = [o \in Objs |-> Dead] /\ mine = [o \in Objs |-> 0]
  /\ aliased = FALSE /\ aborted = FALSE

-----------------------------------------------------------------------------
(* Other code.                                                             *)

OtherOpens ==
  /\ ~aborted /\ FreeFds # {}
  /\ table' = [table EXCEPT ![Lowest] = NewFile("other", "Ipv4")]
  /\ aliased' = (aliased \/ HeldClosed(Lowest))
  /\ UNCHANGED <<fd, mine, aborted>>

OtherCloses(n) ==
  /\ ~aborted /\ table[n] # Free /\ table[n].maker = "other"
  /\ table' = [table EXCEPT ![n] = Free]
  /\ UNCHANGED <<fd, mine, aliased, aborted>>

-----------------------------------------------------------------------------
(* Lifetime.                                                               *)

Construct(o) ==
  /\ ~aborted /\ fd[o] = Dead
  /\ fd' = [fd EXCEPT ![o] = -1]
  /\ UNCHANGED <<table, mine, aliased, aborted>>

\* Socket(int) of any number: one of nothing, one of a file that its opener gives
\* away, or one that another Socket closes too.
Adopt(o, n) ==
  /\ ~aborted /\ fd[o] = Dead
  /\ fd' = [fd EXCEPT ![o] = n] /\ mine' = [mine EXCEPT ![o] = table[n].id]
  /\ table' = IF table[n] = Free THEN table ELSE [table EXCEPT ![n].maker = "Socket"]
  /\ aliased' = (aliased \/ (table[n] # Free /\ table[n].maker = "Socket"))
  /\ UNCHANGED aborted

\* The moved-from object keeps its descriptor.
MoveConstructCopies(o, p) ==
  /\ ~aborted /\ fd[o] = Dead /\ fd[p] # Dead
  /\ fd' = [fd EXCEPT ![o] = fd[p]]
  /\ mine' = [mine EXCEPT ![o] = mine[p], ![p] = 0]
  /\ UNCHANGED <<table, aliased, aborted>>

MoveConstruct(o, p) ==
  /\ ~aborted /\ fd[o] = Dead /\ fd[p] # Dead
  /\ fd' = [fd EXCEPT ![o] = fd[p], ![p] = -1]
  /\ mine' = [mine EXCEPT ![o] = mine[p], ![p] = 0]
  /\ UNCHANGED <<table, aliased, aborted>>

\* close(n): the number is free again, whoever it belonged to.
Closed(n) == IF n \in Fds THEN [table EXCEPT ![n] = Free] ELSE table

\* *this is closed, and then the closed number is swapped into other.
MoveAssign(o, p) ==
  /\ ~aborted /\ fd[o] # Dead /\ fd[p] # Dead
  /\ table' = Closed(fd[o])
  /\ fd' = [fd EXCEPT ![o] = fd[p], ![p] = fd[o]]
  /\ mine' = [mine EXCEPT ![o] = mine[p], ![p] = 0]
  /\ UNCHANGED <<aliased, aborted>>

Destroy(o) ==
  /\ ~aborted /\ fd[o] # Dead
  /\ table' = Closed(fd[o])
  /\ fd' = [fd EXCEPT ![o] = Dead]
  /\ mine' = [mine EXCEPT ![o] = 0]
  /\ UNCHANGED <<aliased, aborted>>

-----------------------------------------------------------------------------
(* CreateByProtocol and the calls that begin with it.                      *)

\* Every Bind and Connect makes a socket.
CreatesAlways(o) == TRUE

\* if (fd_ == -1)
Creates(o) == fd[o] = -1

\* CreateByProtocol if need be: fd_, and the descriptor table, after it.
Fd(o) == IF Creates(o) THEN Lowest ELSE fd[o]
Table(o, protocol) ==
  IF Creates(o) THEN [table EXCEPT ![Lowest] = NewFile("Socket", protocol)] ELSE table
CreateByProtocol(o) ==
  /\ ~aborted /\ fd[o] # Dead
  /\ Creates(o) => FreeFds # {}
  /\ fd' = [fd EXCEPT ![o] = Fd(o)]
  /\ mine' = [mine EXCEPT ![o] = IF Creates(o) THEN NewId ELSE @]
  /\ aliased' = (aliased \/ (Creates(o) /\ HeldClosed(Lowest)))

\* The kernel refuses a second use, and an address that another file has unless both
\* are reusable.
MayBind(tbl, n, a) ==
  /\ tbl[n].use = "fresh" /\ KernelTakes(a, tbl[n].family)
  /\ \A m \in Fds \ {n} :
       tbl[m] # Free /\ tbl[m].use \in {"bound", "listening"} /\ tbl[m].at = IpAndPort(a) =>
         tbl[n].reusable /\ tbl[m].reusable

\* SetReusable asserts fd_ != 1 where it means -1, and constructs its error without
\* throwing it.
SetReusable(tbl, n) == IF tbl[n] = Free THEN tbl ELSE [tbl EXCEPT ![n].reusable = TRUE]
ReusableAsserts(n) == n = 1

Bind(o, r, reusable) ==
  LET a == NewAddress(r.ip, r.port, r.protocol)
      n == Fd(o)
      tbl == IF reusable THEN SetReusable(Table(o, r.protocol), n) ELSE Table(o, r.protocol)
  IN /\ CreateByProtocol(o)
     /\ aborted' = (reusable /\ ReusableAsserts(n))
     /\ table' = IF tbl[n] # Free /\ ~aborted' /\ MayBind(tbl, n, a)
                   THEN [tbl EXCEPT ![n].use = "bound", ![n].at = IpAndPort(a), ![n].asked = r]
                   ELSE tbl

\* connect() reaches a server at the address, or fails and Connect throws.
Connect(o, r) ==
  LET a == NewAddress(r.ip, r.port, r.protocol)
      n == Fd(o)
      tbl == Table(o, r.protocol)
  IN /\ CreateByProtocol(o)
     /\ \/ /\ tbl[n] # Free /\ tbl[n].use = "fresh" /\ KernelTakes(a, tbl[n].family)
           /\ table' = [tbl EXCEPT ![n].use = "connected", ![n].at = IpAndPort(a), ![n].asked = r]
        \/ table' = tbl
     /\ UNCHANGED aborted

\* The file an object's descriptor names is open and used like this.
Is(o, use) == fd[o] \in Fds /\ table[fd[o]] # Free /\ table[fd[o]].use = use

\* listen() may fail; nobody looks.
Listen(o) ==
  /\ ~aborted /\ Is(o, "bound")
  /\ table' = [table EXCEPT ![fd[o]].use = "listening"]
  /\ UNCHANGED <<fd, mine, aliased, aborted>>

\* Accept and the Socket(int) its caller makes of the result, non-blocking; out of
\* descriptors accept() returns -1 and there is nothing to adopt.
Accept(o, p) ==
  /\ ~aborted /\ Is(o, "listening") /\ fd[p] = Dead /\ FreeFds # {}
  /\ table' = [table EXCEPT ![Lowest] = [NewFile("Socket", table[fd[o]].family) EXCEPT
                                           !.use = "connected", !.nonblock = TRUE]]
  /\ fd' = [fd EXCEPT ![p] = Lowest] /\ mine' = [mine EXCEPT ![p] = NewId]
  /\ aliased' = (aliased \/ HeldClosed(Lowest))
  /\ UNCHANGED aborted

\* SetNonBlocking; GetAttrs reads the same flags back.
SetNonBlocking(o) ==
  /\ ~aborted /\ fd[o] \in Fds /\ table[fd[o]] # Free
  /\ table' = [table EXCEPT ![fd[o]].nonblock = TRUE]
  /\ UNCHANGED <<fd, mine, aliased, aborted>>

Next ==
  \/ OtherOpens \/ \E n \in Fds : OtherCloses(n)
  \/ \E o \in Objs :
       \/ Construct(o) \/ Destroy(o) \/ Listen(o) \/ SetNonBlocking(o)
       \/ \E n \in Fds : Adopt(o, n)
       \/ \E p \in Objs : MoveConstruct(o, p) \/ MoveAssign(o, p) \/ Accept(o, p)
       \/ \E r \in Requests : Connect(o, r) \/ \E reusable \in BOOLEAN : Bind(o, r, reusable)

Spec == Init /\ [][Next]_vars

-----------------------------------------------------------------------------
(* Properties.                                                             *)

\* A Socket that holds the number of an open file holds the file it created, adopted
\* or was moved, whatever other code opens and closes meanwhile, so its destructor
\* closes nobody else's file.  A move assignment onto an open Socket leaves a closed
\* number in the moved-from one, which its destructor closes again; that harms nobody
\* until the kernel gives the number out or a second Socket is made of a number that
\* one has: only then, as aliased records, does the promise end.
HeldIsMine == aliased \/ \A o \in Objs : fd[o] \in Fds => table[fd[o]].id = mine[o]

\* Every open file that a Socket made is held by a Socket: a Bind or Connect that
\* throws, or is tried again on the same object, loses none, and move assignment,
\* which may close too often, never forgets to.
NoLeak ==
  \A n \in Fds : table[n] # Free /\ table[n].maker = "Socket" => \E o \in Objs : fd[o] = n

\* bind() and connect() that succeed are at the address and the port that were asked
\* for, byte order and the layout of two address families notwithstanding; text that
\* is no address is the wildcard address.  For IPv6 this is because nearly every such
\* call fails: the address overwrites addr_len_.
AtItsAddress ==
  \A n \in Fds : table[n] # Free /\ table[n].asked # <<>> =>
    LET r == table[n].asked
    IN /\ table[n].at = <<IF r.ip = <<>> THEN <<0>> ELSE r.ip, r.port>>
       /\ r.protocol = "Ipv6" => r.ip[3] = SockaddrSize("Ipv6")
=============================================================================
