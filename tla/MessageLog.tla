----------------------------- MODULE MessageLog -----------------------------
(***************************************************************************)
(* What the write side of a turn promises to whoever reads its message,    *)
(* without buffers, queues, retries, checkpointers or call stacks:         *)
(*   - rows only grow, and a row holds what comes next of the content that *)
(*     the runtime has sent: nothing is left out, nothing comes twice;     *)
(*   - a stored content with a cursor is exactly the rows up to there;     *)
(*   - one terminal ends the message, the content that comes with it holds *)
(*     all rows, and neither changes any more.                             *)
(* StreamWriter implements it.                                             *)
(***************************************************************************)
EXTENDS Naturals, Sequences

CONSTANT MaxPieces   \* bound: pieces of content are numbered as they are sent

VARIABLES
    said,    \* the pieces of content sent so far
    rows,    \* the pieces in each row; none in a row without content
    stored,  \* the pieces in the stored content
    cursor,  \* the row the stored content reaches, 0 when that is not known
    ended    \* the terminal is in the log

message == <<said, rows, stored, cursor, ended>>

Upto(k) == {x \in said : x <= k}

Held(n) == UNION {rows[i] : i \in 1 .. n}
Logged == Held(Len(rows))

Init == said = {} /\ rows = <<>> /\ stored = {} /\ cursor = 0 /\ ended = FALSE

\* The runtime sends a piece.
Say(k) ==
    /\ said' = said \cup {k} /\ \A x \in said : x < k
    /\ UNCHANGED <<rows, stored, cursor, ended>>

\* A row goes on where the rows end, up to piece k.
Add(k) ==
    /\ ~ended /\ Logged \subseteq Upto(k)
    /\ rows' = Append(rows, Upto(k) \ Logged)
    /\ UNCHANGED <<said, stored, cursor, ended>>

\* A checkpoint of what was sent up to piece k.
Save(k, c) ==
    /\ ~ended
    /\ cursor' = c /\ stored' = Upto(k)
    /\ c # 0 => stored' = Held(c)
    /\ UNCHANGED <<said, rows, ended>>

\* The terminal, and with it the content that stays.
End(k) ==
    /\ ~ended /\ ended' = TRUE
    /\ rows' = Append(rows, {})
    /\ Logged \subseteq Upto(k)
    /\ stored' = Upto(k) /\ cursor' = 0
    /\ UNCHANGED said

Next ==
    \/ said' # said /\ \E k \in 1 .. MaxPieces : Say(k)
    \/ Len(rows') # Len(rows) /\ \E k \in 0 .. MaxPieces : Add(k) \/ End(k)
    \/ /\ stored' # stored \/ cursor' # cursor
       /\ \E k \in 0 .. MaxPieces, c \in 0 .. Len(rows) : Save(k, c)

Spec == Init /\ [][Next]_message
=============================================================================
