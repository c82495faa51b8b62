----------------------------- MODULE NetAddress -----------------------------
(***************************************************************************)
(* core/net_address.cc: an address as the bytes that socket calls read.    *)
(*                                                                         *)
(* In words of four bytes the object is: protocol_, then the 16 bytes of   *)
(* addr_ (family and port, words 2, 3 and 4), then addr_len_ (word 5).  A  *)
(* sockaddr_in has its address in word 2.  A sockaddr_in6 is 28 bytes      *)
(* long and has its address in words 3 to 6, so that writing it through    *)
(* addr_ runs over addr_len_ and over the end of the object (word 6).      *)
(*                                                                         *)
(* An IP address is the sequence of its words, one or four; a text that    *)
(* inet_pton cannot parse is the empty sequence.                           *)
(***************************************************************************)
EXTENDS Naturals, Sequences

Byte == 256
SizeofSockaddr == 16
SockaddrSize(family) == IF family = "Ipv4" THEN 16 ELSE 28

\* The byte swap of a 16-bit number on a little-endian host.
Htons(n) == (n % Byte) * Byte + n \div Byte
Ntohs(n) == (n % Byte) * Byte + n \div Byte

IpWords(protocol) == IF protocol = "Ipv4" THEN 2..2 ELSE 3..6

\* A port stored as it is in the host.
SinPortHostOrder(port) == port

SinPort(port) == Htons(port)

\* NetAddress(ip, port, protocol); inet_pton's result is not looked at.
NewAddress(ip, port, protocol) ==
  LET at(w) == IF protocol = "Ipv4" THEN w - 1 ELSE w - 2
  IN [protocol |-> protocol, family |-> protocol, port |-> SinPort(port),
      word |-> [w \in 2..6 |-> IF w \in IpWords(protocol) /\ at(w) \in DOMAIN ip THEN ip[at(w)]
                               ELSE IF w = 5 THEN SizeofSockaddr ELSE 0]]

YieldAddrlen(a) == a.word[5]
GetIp(a) == IF a.protocol = "Ipv4" THEN <<a.word[2]>>
                                   ELSE <<a.word[3], a.word[4], a.word[5], a.word[6]>>
GetPort(a) == Ntohs(a.port)

\* What ToString and operator<< print.
IpAndPort(a) == <<GetIp(a), GetPort(a)>>

\* What a socket call makes of YieldAddr() and *YieldAddrlen(): the length has to be
\* that of the family.
KernelTakes(a, family) == a.family = family /\ YieldAddrlen(a) = SockaddrSize(family)
=============================================================================
