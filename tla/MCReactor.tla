----------------------------- MODULE MCReactor -----------------------------
(* Instances of Reactor for TLC. *)
EXTENDS Reactor, TLC

Symmetry == Permutations(Conns) \cup Permutations(Fds)
=============================================================================
