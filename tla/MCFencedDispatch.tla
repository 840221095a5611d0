-------------------------- MODULE MCFencedDispatch --------------------------
(* FencedDispatch for TLC. *)
EXTENDS FencedDispatch, TLC
=============================================================================
