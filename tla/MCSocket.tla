------------------------------ MODULE MCSocket ------------------------------
(* Instances of Socket for TLC. *)
EXTENDS Socket, TLC

Symmetry == Permutations(Objs)

\* Port 20080 is 0x4E70: its bytes differ.  28 is the size of a sockaddr_in6.
SomeRequests ==
  [ip : {<<7>>, <<>>}, port : {20080}, protocol : {"Ipv4"}] \cup
  [ip : {<<1, 2, 3, 4>>, <<1, 2, 28, 4>>}, port : {20080}, protocol : {"Ipv6"}]
=============================================================================
