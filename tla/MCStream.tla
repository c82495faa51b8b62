------------------------------ MODULE MCStream ------------------------------
(* Instances of Stream for TLC; they check liveness, so no symmetry. *)
EXTENDS Stream

CONSTANTS a

SomePieces == {<<a>>, <<Colon>>, <<CR>>, <<LF>>, CRLF, CRLF \o CRLF}
=============================================================================
