---------------------------- MODULE MCStreamPump ----------------------------
(* Small instances of StreamPump for TLC. *)
EXTENDS StreamPump, TLC

MCSymmetry == Permutations(Client)
=============================================================================
