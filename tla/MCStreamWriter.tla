--------------------------- MODULE MCStreamWriter ---------------------------
(* StreamWriter for TLC. *)
EXTENDS StreamWriter
=============================================================================
