------------------------------ MODULE MCLogger ------------------------------
(* Instances of Logger for TLC; they check liveness, so no symmetry. *)
EXTENDS Logger
=============================================================================
