--------------------------- MODULE TurnInvariant ---------------------------
(***************************************************************************)
(* The inductive invariant behind the safety properties of TurnOwnership,  *)
(* in layers: each is kept by a step from states of the layers before it.  *)
(***************************************************************************)
EXTENDS TurnOwnership

\* Carriers that do not own an execution row yet.
Dispatching(i, m) == carrier[i][m].kind = "setup" \/ Unstamped(i, m)

\* Where a turn comes from: an id is used before its row is written, the row
\* before anyone carries or owns the turn, and a single dispatcher takes it up
\* to its first execution row.
Dispatched(m) ==
    /\ inflight = m => m \in minted
    /\ m \in written => m \in minted
    /\ m \notin minted => log[m] = <<>>
    /\ exec[m].state # "absent" => m \in written
    /\ exec[m].state = "absent" <=> exec[m].gen = 0

ActorsKnow(i, m) ==
    /\ carrier[i][m].kind # "idle" => m \in minted
    /\ carrier[i][m].kind \in Tracked => m \in written
    /\ carrier[i][m].kind = "setup" => m \notin written
    /\ closer[i][m].step # "none" => m \in written
    /\ Dispatching(i, m) => exec[m].state = "absent"
    /\ sweeper[i][m] # NoClaim => exec[m].state # "absent"
    /\ waiter[i][m] # 0 => exec[m].state # "absent"

Provenance ==
    /\ \A m \in Message : Dispatched(m)
    /\ \A i \in Instance, m \in Message : ActorsKnow(i, m)
    /\ \A i, j \in Instance, m \in Message :
          Dispatching(i, m) /\ Dispatching(j, m) => i = j

\* A stream that still takes rows belongs to the instance's carrier and bears
\* its fence.
Live(i, m) == stream[i][m].up /\ ~stream[i][m].ended

StreamOwned(i, m) ==
    Live(i, m) => /\ carrier[i][m].kind \in Tracked
                  /\ stream[i][m].gen = carrier[i][m].gen
                  /\ carrier[i][m].gen = 0 => carrier[i][m].kind = "dispatch"

StreamsOwned == \A i \in Instance, m \in Message : StreamOwned(i, m)

\* The log of a turn, its execution row and the slot agree: no row is newer
\* than the execution row, and a turn on its way to one still has the slot.
LogAgrees ==
    \A m \in Message :
        /\ \A k \in DOMAIN log[m] : log[m][k].gen <= exec[m].gen
        /\ \A i \in Instance :
              Dispatching(i, m) => inflight = m \/ HasTerminal(m)

Agreement ==
    /\ LogAgrees
    /\ TerminalIsLast /\ GenerationsInOrder /\ AuthorsOwnRows
    /\ ClosedTogether /\ SlotFollowsTurn

\* Held generations were all handed out.
FencesHandedOut ==
    \A m \in Message, i \in Instance : \A h \in Holds(i, m) : h[2] <= exec[m].gen
=============================================================================
