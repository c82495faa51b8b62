------------------------------ MODULE MCServer ------------------------------
(* Instances of IceeServer for TLC; they check liveness, so no symmetry. *)
EXTENDS IceeServer

\* Two clients, but one where two reactors run.
Crowd == [n \in 0..Cardinality(Workers) |-> IF n = 2 THEN 1 ELSE 2]
=============================================================================
