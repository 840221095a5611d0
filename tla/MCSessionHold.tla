---------------------------- MODULE MCSessionHold ----------------------------
(* SessionHold for TLC: which names are interchangeable.                       *)
EXTENDS SessionHold, TLC

Symmetry == Permutations(Terminals) \cup Permutations(Jobs)
=============================================================================
