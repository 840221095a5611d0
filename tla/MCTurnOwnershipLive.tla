------------------------ MODULE MCTurnOwnershipLive ------------------------
(***************************************************************************)
(* TurnOwnership with a budget of faults, for liveness: what may go wrong  *)
(* forever could starve any recovery.  A fault is a crash, the start of a  *)
(* drain, a lease that lapses under a live holder, a failed terminal       *)
(* write, or an adoption claim dropped for a local carrier.                *)
(***************************************************************************)
EXTENDS TurnOwnership

CONSTANTS m1, MaxFaults

VARIABLE faults

MCRuntimeExternal == [m \in Message |-> "external"]

Fault ==
    \/ \E i \in Instance : (~draining[i] /\ Crash(i)) \/ Drain(i)
    \/ \E m \in Message : HolderAlive(m) /\ LeaseLapses(m)
    \/ \E i \in Instance, m \in Message :
          \/ CloserFails(i, m)
          \/ carrier[i][m].kind \in Tracked
             /\ (AdoptTurn(i, m) \/ GiveUp(i, m))

LiveInit == Init /\ faults = 0

LiveNext ==
    /\ Next
    /\ faults' = IF Fault THEN faults + 1 ELSE faults
    /\ faults' <= MaxFaults

LiveSpec == LiveInit /\ [][LiveNext]_<<vars, faults>> /\ Fairness
=============================================================================
