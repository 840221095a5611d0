------------------------------ MODULE Transcript ------------------------------
(***************************************************************************)
(* What a chat session promises about the one transcript that a turn and   *)
(* the terminals may write, without handlers, hooks, stamps, reads under   *)
(* way or processes that die:                                              *)
(*   - it has one writer at a time, a turn or the terminal that holds it;  *)
(*   - what a holder wrote is due to the cloud; giving the hold back owes  *)
(*     an import, and no turn begins before that is settled, which takes   *)
(*     that nothing is due any more or that the user gives it up;          *)
(*   - nothing that is due is passed by: whatever the cloud has counted as *)
(*     read, in an import or by a turn, it has.                            *)
(* SessionHold implements it as long as the session keeps its transcript.  *)
(***************************************************************************)
EXTENDS Naturals

CONSTANTS
    Terminals,  \* who may hold the session
    Nobody,     \* nobody holds it
    MaxLines    \* bound: lines of the transcript

VARIABLES
    turn,    \* a turn writes
    holder,  \* the terminal that may write
    owed,    \* an import has to come before the next turn
    due,     \* the lines that a holder wrote and the cloud lacks
    passed   \* the line up to which no import looks again

transcript == <<turn, holder, owed, due, passed>>

Free == ~turn /\ holder = Nobody

Init == turn = FALSE /\ holder = Nobody /\ owed = FALSE /\ due = {} /\ passed = 0

TurnBegins ==
    /\ Free /\ ~owed /\ turn' = TRUE
    /\ UNCHANGED <<holder, owed, due, passed>>

TurnEnds ==
    /\ turn /\ turn' = FALSE
    /\ UNCHANGED <<holder, owed, due, passed>>

\* A terminal may take the session while an import is still owed.
Takes(t) ==
    /\ Free /\ holder' = t
    /\ UNCHANGED <<turn, owed, due, passed>>

\* Only the holder's lines are due, and they come after all others.
Writes(l) ==
    /\ ~turn /\ holder # Nobody
    /\ l > passed /\ \A x \in due : x < l
    /\ due' = due \cup {l}
    /\ UNCHANGED <<turn, holder, owed, passed>>

Gives ==
    /\ ~turn /\ holder # Nobody
    /\ holder' = Nobody /\ owed' = TRUE
    /\ UNCHANGED <<turn, due, passed>>

\* The cloud gets lines, after a hold or from the holder itself.
Imports ==
    /\ ~turn /\ due' \subseteq due
    /\ UNCHANGED <<turn, holder, owed, passed>>

\* The import is done: nothing is due any more, or the user gives it up.
Settles ==
    /\ holder = Nobody /\ owed /\ owed' = FALSE
    /\ due' = {}
    /\ UNCHANGED <<turn, holder, passed>>

\* What was read counts as passed; a holder may have it all looked at again.
Passes(l) ==
    /\ holder = Nobody \/ l = 0
    /\ passed' = l /\ \A x \in due : l < x
    /\ UNCHANGED <<turn, holder, owed, due>>

\* By what changes.
Next ==
    \/ turn' # turn /\ (TurnBegins \/ TurnEnds)
    \/ holder' # holder /\ (Gives \/ \E t \in Terminals : Takes(t))
    \/ owed' # owed /\ Settles
    \/ due' # due /\ (Imports \/ \E l \in 1 .. MaxLines : Writes(l))
    \/ passed' # passed /\ \E l \in 0 .. MaxLines : Passes(l)

Spec == Init /\ [][Next]_transcript
=============================================================================
