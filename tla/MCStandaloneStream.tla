------------------------- MODULE MCStandaloneStream -------------------------
(* StandaloneStream for TLC. *)
EXTENDS StandaloneStream
=============================================================================
