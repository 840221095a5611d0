---------------------------- MODULE StreamWriter ----------------------------
(***************************************************************************)
(* The write side of one turn in the process that carries it: runAdapter's *)
(* loop, the broadcaster's stream (token buffer, write chain, failure      *)
(* latch) and the content checkpointer, over the message's rows and its    *)
(* content in the database.                                                *)
(*                                                                         *)
(* The loop does not wait for most of its rows: what it consumed, what is  *)
(* queued and what is durable are different prefixes of the same events.   *)
(* Two promises tie them together: runner_seq on a row says what a resume  *)
(* need not ask for again, and content_checkpoint_event_id says which rows *)
(* the stored content already holds.                                       *)
(***************************************************************************)
EXTENDS Naturals, Sequences

CONSTANTS
    MaxEvents,       \* bound of the model: events the runtime sends
    MaxCheckpoints,  \* bound of the model: content checkpoints sampled
    MaxPendingRows   \* STREAM_MAX_PENDING_ROWS

ASSUME WriterAssumption ==
    /\ MaxEvents \in Nat /\ MaxCheckpoints \in Nat
    /\ MaxPendingRows \in Nat /\ MaxPendingRows >= 2

VARIABLES
    events,   \* what emit admitted, in order: kind and transport line
    folded,   \* how many of them assistantBlocks holds
    from,     \* PendingTokenBuffer: the events from .. Len(events)
    queue,    \* the stream's chain, oldest first, task by task
    stream,   \* the rest of the ActiveStream
    log,      \* chat_stream_events of the message, ids 1 ..
    content,  \* chat_messages: blocks (of the first n events) and cursor
    inflight, \* checkpointer: the job being written
    pending,  \* checkpointer: the job waiting behind it
    fenced,   \* checkpointer.fence() was called
    sampled,  \* checkpoints sampled so far
    carrier,  \* where runAdapter stands
    owned     \* the execution row still names this carrier

chain == <<from, queue, stream>>
jobs == <<inflight, pending, fenced, sampled>>
vars == <<events, folded, chain, log, content, jobs, carrier, owned>>

Content == {"token", "tool"}      \* CONTENT_ROW_TYPES
Terminal == {"done", "close"}     \* the carrier's, another call stack's
Awaiting == {"noting", "suspending", "closing"}
Phases == Awaiting \cup {"reading", "waiting", "draining", "fencing", "stopped"}

NoJob == [n |-> 0, ready |-> FALSE, cursor |-> 0]
Top == Len(events)
Closed == \E i \in DOMAIN log : log[i].kind \in Terminal
Admits == stream.live /\ ~stream.ended

Init ==
    /\ events = <<>> /\ folded = 0
    /\ from = 1 /\ queue = <<>>
    /\ stream = [live |-> TRUE, ended |-> FALSE, failed |-> FALSE, lost |-> FALSE,
                 diverged |-> FALSE, last |-> 0, queuedRows |-> 0]
    /\ log = <<>> /\ content = [n |-> 0, cursor |-> 0]
    /\ inflight = NoJob /\ pending = NoJob /\ fenced = FALSE /\ sampled = 0
    /\ carrier = "reading" /\ owned = TRUE
-----------------------------------------------------------------------------
(***************************************************************************)
(* The chain.  A task is one row, a buffer's row and another row, or a     *)
(* settle marker; "more" says that the task goes on with the next entry,   *)
(* "size" is what it counts in queuedRows.  The entry holds the events     *)
(* lo .. hi: none for terminals and markers, which stand behind event hi.  *)
(***************************************************************************)
Entry(kind, lo, hi, size, more) ==
    [kind |-> kind, lo |-> lo, hi |-> hi, size |-> size, more |-> more]

\* The buffer's row for the events lo .. hi, if there are any.
BufferRow(lo, hi, size, more) ==
    IF lo > hi THEN <<>> ELSE <<Entry("token", lo, hi, size, more)>>

\* A row that takes the detached buffer along: one task of one or two rows.
WithBuffer(kind, lo, hi) ==
    IF from > Top THEN <<Entry(kind, lo, hi, 1, FALSE)>>
    ELSE BufferRow(from, Top, 2, TRUE) \o <<Entry(kind, lo, hi, 2, FALSE)>>

\* enqueue, on a stream that is s otherwise.
Enqueue(s, entries, rows) ==
    /\ queue' = queue \o entries
    /\ stream' = [s EXCEPT !.queuedRows = @ + rows]

\* scheduleBufferWrite.
ScheduleBufferWrite(s, lo, hi) ==
    Enqueue(s, BufferRow(lo, hi, 1, FALSE), IF lo > hi THEN 0 ELSE 1)

\* The flush timer, the size cap, or the leading edge of an idle stream.
FlushTimer ==
    /\ from <= Top
    /\ from' = Top + 1
    /\ ScheduleBufferWrite(stream, from, Top)
    /\ UNCHANGED <<events, folded, log, content, jobs, carrier, owned>>
-----------------------------------------------------------------------------
(***************************************************************************)
(* The checkpointer: one job in flight, one behind it.                     *)
(***************************************************************************)
\* pump: the waiting job starts when none is in flight.
Pump(running, waiting) ==
    IF running = NoJob THEN inflight' = waiting /\ pending' = NoJob
    ELSE inflight' = running /\ pending' = waiting

\* maybeCheckpoint of the first n events.  The cadence decides; blocks and
\* place in the chain are taken in the step that folds the event.
Sample(sample, n) ==
    IF ~sample THEN UNCHANGED jobs
    ELSE /\ sampled < MaxCheckpoints /\ sampled' = sampled + 1
         /\ Pump(inflight, [n |-> n, ready |-> ~stream.live, cursor |-> 0])
         /\ UNCHANGED fenced

\* settle's marker behind event n; without a stream there is no chain.
Marker(sample, n) ==
    IF sample /\ stream.live THEN <<Entry("settle", n + 1, n, 0, FALSE)>> ELSE <<>>

SettledAnyway == stream.last   \* mutant: reports a row of a log with a hole

\* settle's answer, read at the marker: the last content row of a whole log.
SettledAt == IF stream.failed \/ stream.diverged THEN 0 ELSE stream.last

ResolvedIfWhole(job, n, c) ==   \* mutant: a failed stream's settle never answers
    IF job.n = n /\ ~job.ready /\ ~stream.failed
    THEN [job EXCEPT !.ready = TRUE, !.cursor = c] ELSE job

Resolved(job, n, c) ==
    IF job.n = n /\ ~job.ready THEN [job EXCEPT !.ready = TRUE, !.cursor = c] ELSE job

Settle ==
    /\ queue # <<>> /\ Head(queue).kind = "settle"
    /\ queue' = Tail(queue)
    /\ inflight' = Resolved(inflight, Head(queue).hi, SettledAt)
    /\ pending' = Resolved(pending, Head(queue).hi, SettledAt)
    /\ UNCHANGED <<events, folded, from, stream, log, content, fenced, sampled,
                   carrier, owned>>

StoreAlways(n, c) ==   \* mutant: does not look for a terminal
    IF owned THEN content' = [n |-> n, cursor |-> c] ELSE UNCHANGED content

\* writeAssistantContent, under the message's content lock.
Store(n, c) == IF owned /\ ~Closed THEN content' = [n |-> n, cursor |-> c]
               ELSE UNCHANGED content

CheckpointWritten ==
    /\ inflight.ready
    /\ Store(inflight.n, inflight.cursor)
    /\ Pump(NoJob, pending)
    /\ UNCHANGED <<events, folded, chain, log, fenced, sampled, carrier, owned>>

\* The statement fails, or only its answer is lost: what waits is dropped.
CheckpointFails ==
    /\ inflight.ready
    /\ Store(inflight.n, inflight.cursor) \/ UNCHANGED content
    /\ inflight' = NoJob /\ pending' = NoJob
    /\ UNCHANGED <<events, folded, chain, log, fenced, sampled, carrier, owned>>
-----------------------------------------------------------------------------
(***************************************************************************)
(* runAdapter: the loop over the transport's events.                       *)
(***************************************************************************)
Line(e) == events[e].line

\* A line begins with a raw_source event; the events behind it come from it.
Reads(kind, fresh) ==
    /\ carrier = "reading" /\ Top < MaxEvents
    /\ events' = Append(events,
          [kind |-> kind,
           line |-> CASE Top = 0 -> 1
                      [] Top > 0 /\ fresh -> Line(Top) + 1
                      [] Top > 0 /\ ~fresh -> Line(Top)])

\* emit of a token: deltas of one line merge in the buffer; a checkpoint
\* writes it, and so may the next step (FlushTimer).
EmitToken(fresh, sample) ==
    /\ Admits
    /\ Reads("token", fresh)
    /\ folded' = Top + 1
    /\ LET merges == from <= Top /\ ~fresh
           lo == IF merges THEN from ELSE Top + 1
           rows == (IF merges THEN <<>> ELSE BufferRow(from, Top, 1, FALSE))
                   \o (IF sample THEN BufferRow(lo, Top + 1, 1, FALSE) ELSE <<>>)
       IN /\ Enqueue(stream, rows \o Marker(sample, Top + 1), Len(rows))
          /\ from' = IF sample THEN Top + 2 ELSE lo
    /\ Sample(sample, Top + 1)
    /\ UNCHANGED <<log, content, carrier, owned>>

\* emitDetached: the row has its place in the chain and the loop goes on,
\* unless the queue is over its cap; then the event is folded later.
EmitTool(fresh, sample) ==
    /\ Admits /\ ~stream.failed
    /\ Reads("tool", fresh)
    /\ LET rows == WithBuffer("tool", Top + 1, Top + 1)
           over == stream.queuedRows + Len(rows) > MaxPendingRows
       IN /\ Enqueue(stream, rows \o Marker(sample, Top + 1), Len(rows))
          /\ over => ~sample
          /\ carrier' = IF over THEN "waiting" ELSE "reading"
          /\ folded' = IF over THEN folded ELSE Top + 1
    /\ from' = Top + 2
    /\ Sample(sample, Top + 1)
    /\ UNCHANGED <<log, content, owned>>

\* emitDetached on a stream whose write failed throws.
EmitThrows ==
    /\ carrier = "reading" /\ stream.live /\ stream.failed
    /\ carrier' = "fencing"
    /\ UNCHANGED <<events, folded, chain, log, content, jobs, owned>>

\* The queue is back at its cap: the wait in emitDetached ends.
CapacityBack(sample) ==
    /\ carrier = "waiting" /\ stream.queuedRows <= MaxPendingRows
    /\ ~stream.failed
    /\ carrier' = "reading" /\ folded' = Top
    /\ Enqueue(stream, Marker(sample, Top), 0)
    /\ Sample(sample, Top)
    /\ UNCHANGED <<events, from, log, content, owned>>

WaitThrows ==
    /\ carrier = "waiting" /\ stream.queuedRows <= MaxPendingRows
    /\ stream.failed
    /\ carrier' = "fencing"
    /\ UNCHANGED <<events, folded, chain, log, content, jobs, owned>>

\* A row the loop waits for and that is no content: a status, or the
\* suspension that ends the loop.
EmitNote(fresh, kind) ==
    /\ Admits
    /\ Reads(kind, fresh)
    /\ LET rows == WithBuffer(kind, Top + 1, Top + 1)
       IN Enqueue(stream, rows, Len(rows))
    /\ from' = Top + 2
    /\ carrier' = IF kind = "note" THEN "noting" ELSE "suspending"
    /\ UNCHANGED <<folded, log, content, jobs, owned>>

\* The stream takes no more: a break, after which only a terminal is tried,
\* or the end of a suspended turn.
EmitRefused ==
    /\ carrier = "reading" /\ ~Admits
    /\ carrier' \in {"fencing", "draining"}
    /\ UNCHANGED <<events, folded, chain, log, content, jobs, owned>>

\* The runtime's stream ends, fails or is aborted.
AdapterEnds ==
    /\ carrier = "reading"
    /\ carrier' = "fencing"
    /\ UNCHANGED <<events, folded, chain, log, content, jobs, owned>>

\* fence: what waits is dropped, what is in flight is awaited.
Fence ==
    /\ carrier = "fencing" /\ ~fenced
    /\ fenced' = TRUE /\ pending' = NoJob
    /\ UNCHANGED <<events, folded, chain, log, content, inflight, sampled,
                   carrier, owned>>

\* A terminal closes admission before its row is written.
CloseAdmission(kind) ==
    LET rows == WithBuffer(kind, Top + 1, Top)
    IN /\ Enqueue([stream EXCEPT !.ended = TRUE], rows, Len(rows))
       /\ from' = Top + 1

EmitTerminalOfOpen ==   \* mutant: does not return from a closed stream
    /\ carrier = "fencing" /\ fenced /\ inflight = NoJob
    /\ Admits /\ CloseAdmission("done") /\ carrier' = "closing"
    /\ UNCHANGED <<events, folded, log, content, jobs, owned>>

EmitTerminal ==
    /\ carrier = "fencing" /\ fenced /\ inflight = NoJob
    /\ IF Admits THEN CloseAdmission("done") /\ carrier' = "closing"
       ELSE carrier' = "stopped" /\ UNCHANGED chain
    /\ UNCHANGED <<events, folded, log, content, jobs, owned>>

\* A suspended turn: drain, endStream; the handoff lets a peer take over.
EndStream ==
    /\ carrier = "draining" /\ inflight = NoJob /\ pending = NoJob
    /\ carrier' = "stopped"
    /\ IF stream.live
       THEN /\ ScheduleBufferWrite([stream EXCEPT !.live = FALSE], from, Top)
            /\ from' = Top + 1
       ELSE UNCHANGED chain
    /\ UNCHANGED <<events, folded, log, content, jobs, owned>>

\* Another call stack of the process ends the turn on the same stream.
OtherCloses ==
    /\ Admits
    /\ CloseAdmission("close")
    /\ UNCHANGED <<events, folded, log, content, jobs, carrier, owned>>
-----------------------------------------------------------------------------
(***************************************************************************)
(* The chain's head reaches the table.                                     *)
(***************************************************************************)
LogTop == IF log = <<>> THEN 0 ELSE log[Len(log)].hi

IsRow(e) == e.kind \notin Terminal \cup {"settle"}

AbandonsNothing(e) == FALSE   \* mutant: rows behind a failed one still land

\* Non-terminal rows behind a failed write are abandoned.
Abandons(e) == stream.failed /\ IsRow(e)

TakesOfOwner == owned   \* mutant: does not look for a terminal

\* The database takes a row while the fence and the slot are this turn's.
Takes == owned /\ ~Closed

\* The head's answer comes.  A producer whose wait is over goes on before that.
Answers == /\ queue # <<>>
           /\ carrier = "waiting" => stream.queuedRows > MaxPendingRows

\* A row in the table; split: its text ends within a surrogate pair.
Added(e, split) == log' = Append(log,
    [kind |-> e.kind, lo |-> e.lo, hi |-> e.hi, split |-> split])

FinalContentOfCheckpoint(kind) ==   \* mutant: a closer keeps what was stored
    content' = [n |-> IF kind = "done" THEN folded ELSE content.n, cursor |-> 0]

\* The content that comes with a terminal: the carrier's blocks, or a replay
\* of the log.
FinalContent(kind) ==
    content' = [n |-> IF kind = "done" THEN folded ELSE LogTop, cursor |-> 0]

RetiredByRow(e) == e.size   \* mutant: each row of a task retires the whole task

\* What the settling of e's row takes off queuedRows.
Retired(e) == IF e.more THEN 0 ELSE e.size

\* The carrier that awaits the task of e learns how it went.  A note that
\* did not land ends the loop, with a terminal unless the turn is lost.
Answer(e, persisted, lost) ==
    CASE e.kind = "note" /\ carrier = "noting" ->
            /\ carrier' = CASE persisted -> "reading"
                            [] ~persisted /\ lost -> "stopped"
                            [] ~persisted /\ ~lost -> "fencing"
            /\ folded' = IF persisted THEN e.hi ELSE folded
      [] e.kind = "suspended" /\ carrier = "suspending" ->
            carrier' = "draining" /\ UNCHANGED folded
      [] e.kind = "done" /\ carrier = "closing" ->
            carrier' = "stopped" /\ UNCHANGED folded
      [] OTHER -> UNCHANGED <<carrier, folded>>

\* writeRow, when the row gets an id.
RowLands(split) ==
    /\ Answers
    /\ LET e == Head(queue)
       IN /\ IsRow(e) /\ ~Abandons(e) /\ Takes
          /\ split => e.kind = "token"
          /\ Added(e, split)
          /\ queue' = Tail(queue)
          /\ stream' = [stream EXCEPT
                !.diverged = @ \/ split,
                !.last = IF e.kind \in Content THEN Len(log) + 1 ELSE @,
                !.queuedRows = @ - Retired(e)]
          /\ Answer(e, TRUE, FALSE)
    /\ UNCHANGED <<events, from, content, jobs, owned>>

\* The fence is lost or a terminal is there: the stream is given up.
RowRefused ==
    /\ Answers
    /\ LET e == Head(queue)
       IN /\ IsRow(e) /\ ~Abandons(e) /\ ~Takes
          /\ queue' = Tail(queue)
          /\ stream' = [stream EXCEPT !.live = FALSE, !.ended = TRUE, !.failed = TRUE,
                !.lost = @ \/ ~owned, !.queuedRows = @ - Retired(e)]
          /\ Answer(e, FALSE, ~owned)
    /\ UNCHANGED <<events, from, log, content, jobs, owned>>

RowAbandoned ==
    /\ Answers
    /\ LET e == Head(queue)
       IN /\ Abandons(e)
          /\ queue' = Tail(queue)
          /\ stream' = [stream EXCEPT !.queuedRows = @ - Retired(e)]
          /\ Answer(e, FALSE, stream.lost)
    /\ UNCHANGED <<events, from, log, content, jobs, owned>>

\* The transaction of a terminal: row, content, slot and execution row.
TerminalAnswers ==
    /\ Answers
    /\ LET e == Head(queue)
       IN /\ e.kind \in Terminal
          /\ IF Takes THEN Added(e, FALSE) /\ FinalContent(e.kind)
             ELSE UNCHANGED <<log, content>>
          /\ queue' = Tail(queue)
          /\ stream' = [stream EXCEPT !.live = FALSE, !.failed = @ \/ ~owned,
                !.lost = @ \/ ~owned, !.queuedRows = @ - Retired(e)]
          /\ Answer(e, Takes, ~owned)
    /\ UNCHANGED <<events, from, jobs, owned>>

\* The statement throws, its effect lost or only its answer: the stream fails,
\* the rest of the task is skipped, whoever awaits it gets the error.
WriteThrows(landed) ==
    /\ Answers /\ Head(queue).kind # "settle"
    /\ LET e == Head(queue)
           own == IF e.more THEN queue[2] ELSE e
       IN /\ ~Abandons(e)
          /\ landed => Takes
          /\ IF landed THEN Added(e, FALSE) ELSE UNCHANGED log
          /\ IF landed /\ e.kind \in Terminal THEN FinalContent(e.kind)
             ELSE UNCHANGED content
          /\ queue' = IF e.more THEN Tail(Tail(queue)) ELSE Tail(queue)
          /\ stream' = [stream EXCEPT !.failed = TRUE,
                !.live = @ /\ own.kind \notin Terminal,
                !.queuedRows = @ - own.size]
          /\ carrier' = CASE own.kind \in {"note", "suspended"}
                                /\ carrier \in {"noting", "suspending"} -> "fencing"
                          [] own.kind = "done" /\ carrier = "closing" -> "stopped"
                          [] OTHER -> carrier
    /\ UNCHANGED <<events, folded, from, jobs, owned>>

\* A peer claims the turn, or ends one that has no execution row.
TakenOver ==
    /\ owned
    /\ owned' = FALSE
    /\ UNCHANGED <<events, folded, chain, log, content, jobs, carrier>>

PeerCloses ==
    /\ Takes
    /\ Added(Entry("close", LogTop + 1, LogTop, 1, FALSE), FALSE)
    /\ FinalContent("close")
    /\ UNCHANGED <<events, folded, chain, jobs, carrier, owned>>
-----------------------------------------------------------------------------
Chain ==
    \/ \E split \in BOOLEAN : RowLands(split)
    \/ RowRefused \/ RowAbandoned \/ TerminalAnswers \/ Settle
    \/ \E landed \in BOOLEAN : WriteThrows(landed)

Carrier ==
    \/ \E sample \in BOOLEAN : CapacityBack(sample)
    \/ WaitThrows \/ Fence \/ EmitTerminal \/ EndStream

Checkpointer == CheckpointWritten \/ CheckpointFails

Environment ==
    \/ \E fresh, sample \in BOOLEAN : EmitToken(fresh, sample)
    \/ \E fresh, sample \in BOOLEAN : EmitTool(fresh, sample)
    \/ \E fresh \in BOOLEAN, kind \in {"note", "suspended"} : EmitNote(fresh, kind)
    \/ EmitThrows \/ EmitRefused \/ AdapterEnds
    \/ FlushTimer \/ OtherCloses \/ TakenOver \/ PeerCloses

Next == Chain \/ Carrier \/ Checkpointer \/ Environment

Spec == Init /\ [][Next]_vars
-----------------------------------------------------------------------------
(***************************************************************************)
(* What the writer promises.                                               *)
(***************************************************************************)
TypeOK ==
    /\ events \in Seq([kind : Content \cup {"note", "suspended"}, line : Nat \ {0}])
    /\ folded \in 0 .. Top /\ from \in 1 .. Top + 1
    /\ queue \in Seq([kind : Content \cup Terminal \cup {"note", "suspended", "settle"},
                      lo : Nat \ {0}, hi : Nat, size : 0 .. 2, more : BOOLEAN])
    /\ stream \in [live : BOOLEAN, ended : BOOLEAN, failed : BOOLEAN, lost : BOOLEAN,
                   diverged : BOOLEAN, last : Nat, queuedRows : Nat]
    /\ log \in Seq([kind : Content \cup Terminal \cup {"note", "suspended"},
                    lo : Nat \ {0}, hi : Nat, split : BOOLEAN])
    /\ content \in [n : 0 .. Top, cursor : Nat]
    /\ {inflight, pending} \subseteq [n : 0 .. Top, ready : BOOLEAN, cursor : Nat]
    /\ fenced \in BOOLEAN /\ sampled \in 0 .. MaxCheckpoints
    /\ carrier \in Phases /\ owned \in BOOLEAN

ClaimOwnLine(row) == Line(row.hi)   \* mutant: the line being read counts as done

\* runner_seq: the transport lines before the row's own are in earlier rows.
Claim(row) == Line(row.hi) - 1

Logged(e) == \E i \in DOMAIN log : e \in log[i].lo .. log[i].hi

\* A runner resumes behind the highest runner_seq in the table; whenever the
\* process dies, no event of a line up to there is missing from the rows.
ResumeSkipsNothing ==
    \A i \in DOMAIN log : log[i].kind \notin Terminal =>
        \A e \in 1 .. Top : Line(e) <= Claim(log[i]) => Logged(e)

Contents(S) == {e \in S : events[e].kind \in Content}

\* A reader that renders the stored content and subscribes behind its cursor
\* sees each content event once: the cursor covers just what is stored.
CursorPairsContent ==
    LET c == content.cursor
    IN c # 0 =>
         /\ c \in DOMAIN log
         /\ Contents(1 .. content.n)
              = Contents(UNION {log[i].lo .. log[i].hi : i \in 1 .. c})
         /\ \A i \in 1 .. c : ~log[i].split

\* Once a turn has ended its content is read instead of its rows: it holds
\* every content row, whoever wrote the terminal.
FinalContentHoldsLog ==
    Closed => \A e \in Contents(1 .. Top) : Logged(e) => e <= content.n

\* No checkpoint, however late, lands on the content of an ended turn.
FinalContentStays == [][Closed => content' = content]_vars

LogPieces == [i \in DOMAIN log |-> Contents(log[i].lo .. log[i].hi)]

Message == INSTANCE MessageLog WITH
    MaxPieces <- MaxEvents, said <- Contents(1 .. Top), rows <- LogPieces,
    stored <- Contents(1 .. content.n), cursor <- content.cursor, ended <- Closed

\* Whoever reads the message sees a log that only goes on, contents that name
\* their rows, and one terminal with everything that is in the log.
KeepsMessageLog == Message!Spec

\* What the process has to go on with: the head of the chain, unless the
\* producer goes first; the carrier, when what it waits for is there; a
\* checkpoint whose place in the chain is known.
ChainDue == queue # <<>> /\ (Head(queue).kind = "settle" \/ Answers)

CarrierDue ==
    \/ carrier = "waiting" /\ stream.queuedRows <= MaxPendingRows
    \/ carrier = "fencing" /\ (~fenced \/ inflight = NoJob)
    \/ carrier = "draining" /\ inflight = NoJob /\ pending = NoJob

SomethingIsDue == ChainDue \/ CarrierDue \/ inflight.ready

\* A producer over the cap, a terminal behind a checkpoint in flight and a
\* drain always have something of the process's own to wait for, failed writes
\* and lost turns included: they do not wait for each other.
NobodyStuck == carrier \notin {"reading", "stopped"} => SomethingIsDue

\* What is due can be done, whatever became of the stream, the turn and the log
\* meanwhile: writeRow, the wait in emitDetached and the terminal miss no case.
DueGoesOn == SomethingIsDue => ENABLED (Chain \/ Carrier \/ Checkpointer)
=============================================================================
