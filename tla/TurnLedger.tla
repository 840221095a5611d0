----------------------------- MODULE TurnLedger -----------------------------
(***************************************************************************)
(* What the turn machinery promises to a session's readers and to its next *)
(* turn, without instances, leases, carriers or retries:                   *)
(*   - one turn at a time occupies the session;                            *)
(*   - a turn's log only grows, in the order of its owners' generations;   *)
(*   - an owned turn keeps the session until its terminal is in the log,   *)
(*     and nothing follows the terminal.                                   *)
(* TurnOwnership implements it.                                            *)
(***************************************************************************)
EXTENDS Naturals, Sequences

CONSTANTS Message, None

VARIABLES
    slot,    \* the turn that occupies the session
    used,    \* turns that have occupied it
    epoch,   \* ownership generation of each turn, 0 while nobody owns it
    rows     \* each turn's log: kind and generation of every row

ledger == <<slot, used, epoch, rows>>

Terminal == {"done", "error", "cancel"}

Ended(m) == \E k \in DOMAIN rows[m] : rows[m][k].kind \in Terminal

Init ==
    /\ slot = None
    /\ used = {}
    /\ epoch = [m \in Message |-> 0]
    /\ rows = [m \in Message |-> <<>>]

\* A new turn takes the free session.
Open(m) ==
    /\ slot = None
    /\ m \notin used
    /\ slot' = m
    /\ used' = used \cup {m}
    /\ UNCHANGED <<epoch, rows>>

\* A turn nobody owns yet gives up without a terminal.
Abandon(m) ==
    /\ slot = m
    /\ epoch[m] = 0
    /\ slot' = None
    /\ UNCHANGED <<used, epoch, rows>>

\* The turn gets its first owner or its next one.
Own(m) ==
    /\ m \in used
    /\ ~Ended(m)
    /\ epoch' = [epoch EXCEPT ![m] = @ + 1]
    /\ UNCHANGED <<slot, used, rows>>

\* The current owner adds a row.
Add(m) ==
    /\ slot = m
    /\ ~Ended(m)
    /\ rows' = [rows EXCEPT ![m] =
                   Append(@, [kind |-> "row", gen |-> epoch[m]])]
    /\ UNCHANGED <<slot, used, epoch>>

\* The current owner ends the turn, and the session is free in the same step.
End(m) ==
    /\ m \in used
    /\ ~Ended(m)
    /\ epoch[m] # 0 => slot = m
    /\ \E kind \in Terminal :
          rows' = [rows EXCEPT ![m] =
                      Append(@, [kind |-> kind, gen |-> epoch[m]])]
    /\ slot' = IF slot = m THEN None ELSE slot
    /\ UNCHANGED <<used, epoch>>

Next == \E m \in Message : Open(m) \/ Abandon(m) \/ Own(m) \/ Add(m) \/ End(m)

Spec == Init /\ [][Next]_ledger
=============================================================================
