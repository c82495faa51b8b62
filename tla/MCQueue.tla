------------------------------ MODULE MCQueue ------------------------------
(* An instance of ThreadSafeQueue for TLC; no symmetry, it checks liveness. *)
EXTENDS ThreadSafeQueue
=============================================================================
