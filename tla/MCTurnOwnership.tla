-------------------------- MODULE MCTurnOwnership --------------------------
(* Small instances of TurnOwnership for TLC. *)
EXTENDS TurnOwnership, TLC

CONSTANTS m1, m2

MCRuntimeSprites == [m \in Message |-> "sprites"]
MCRuntimeMixed == (m1 :> "daemon") @@ (m2 :> "bare")

MCSymmetry == Permutations(Instance)
=============================================================================
