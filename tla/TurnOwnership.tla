--------------------------- MODULE TurnOwnership ---------------------------
(***************************************************************************)
(* One chat session of the API and the assistant turns that run in it.     *)
(*                                                                         *)
(* Postgres holds the session's single turn slot                           *)
(* (chat_sessions.inflight_message_id), one execution row per turn         *)
(* (turn_executions: owner, generation, state, lease) and the durable      *)
(* stream log (chat_stream_events).  Several API instances act on them:    *)
(* one dispatches a turn, any of them may take it over once its lease has  *)
(* lapsed (adoption sweep, authoritative daemon hello) or close it         *)
(* (dead-turn sweep, cancel of an offline turn, adoption give-up).         *)
(*                                                                         *)
(* A fence is the pair <<owner, generation>> an actor captured when it     *)
(* took the turn; every write carries it and the row lock makes each       *)
(* statement or transaction one step.  An instance that crashes comes back *)
(* under the same owner id (MF_API_INSTANCE_ID, FLY_MACHINE_ID, HOSTNAME). *)
(*                                                                         *)
(* A lease is abstracted to whether an open execution's has lapsed: all    *)
(* comparisons are made by the one database clock, nothing depends on how  *)
(* long, and nobody reads the lease of a closed execution.                 *)
(***************************************************************************)
EXTENDS Naturals, Sequences

CONSTANTS
    Instance,        \* API processes (owner ids)
    Message,         \* assistant message ids, one per turn of the session
    None,            \* SQL null
    RuntimeOf,       \* the runtime each turn is placed on
    MaxAdoptAttempts,\* MAX_ADOPT_ATTEMPTS
    MaxGeneration,   \* bound of the model: takeovers of one turn
    MaxRows          \* bound of the model: rows before the terminal

Runtime == {"sprites", "external", "daemon", "bare"}

ASSUME NoneAssumption == None \notin Instance /\ None \notin Message
ASSUME RuntimeAssumption == RuntimeOf \in [Message -> Runtime]
ASSUME BoundsAssumption ==
    /\ MaxAdoptAttempts \in Nat
    /\ MaxGeneration \in Nat
    /\ MaxRows \in Nat

VARIABLES
    inflight,   \* chat_sessions.inflight_message_id
    exec,       \* turn_executions, one row per message
    log,        \* chat_stream_events of each message, in id order
    minted,     \* ids already used by a sendMessage (randomUUID)
    written,    \* messages whose assistant row has been inserted
    cancelReq,  \* messages with cancel_requested_at set
    carrier,    \* pendingTurnIds, runningAdapters and turnFences
    stream,     \* the broadcaster's ActiveStream of each message
    closer,     \* a terminal being written by a path that is no carrier
    sweeper,    \* claim of the adoption sweep, handler not started
    waiter,     \* generation a resume claimed while it waits for the slot
    draining    \* drainingForShutdown

db == <<inflight, exec, log, minted, written, cancelReq>>
local == <<carrier, stream, closer, sweeper, waiter, draining>>
vars == <<db, local>>

OpenStates == {"running", "adopting", "handoff"}
ClosedStates == {"done", "failed", "cancelled"}
TerminalKinds == {"done", "error", "cancel"}
Kinds == {"idle", "setup", "dispatch", "adoption", "resume"}
Tracked == {"dispatch", "adoption", "resume"}

ExecRow == [state : OpenStates \cup ClosedStates \cup {"absent"},
            owner : Instance \cup {None}, gen : Nat,
            lapsed : BOOLEAN, adopts : Nat]
EventRow == [kind : TerminalKinds \cup {"row"}, gen : Nat, by : Nat]
Carrier == [kind : Kinds, gen : Nat, abort : {"no", "cancel", "lost"}]
Stream == [up : BOOLEAN, ended : BOOLEAN, gen : Nat]
Closer == [step : {"none", "claimed", "writing"}, gen : Nat,
           kind : TerminalKinds]

NoExec == [state |-> "absent", owner |-> None, gen |-> 0,
           lapsed |-> FALSE, adopts |-> 0]
Idle == [kind |-> "idle", gen |-> 0, abort |-> "no"]
NoStream == [up |-> FALSE, ended |-> FALSE, gen |-> 0]
Claim == [gen : Nat, giveUp : BOOLEAN]

NoClaim == [gen |-> 0, giveUp |-> FALSE]
NoCloser == [step |-> "none", gen |-> 0, kind |-> "error"]

(***************************************************************************)
(* What the statements of chat.repository.ts read and write.               *)
(***************************************************************************)
HasTerminal(m) == \E k \in DOMAIN log[m] : log[m][k].kind \in TerminalKinds

IsOpen(m) == exec[m].state \in OpenStates

FenceHoldsOwner(i, m, g) == exec[m].owner = i   \* mutant: any generation of ours

\* fenceHolds / lockTurnFence / lockTurnSessionFence: the row still carries
\* this owner and generation, whatever its state.
FenceHolds(i, m, g) == exec[m].owner = i /\ exec[m].gen = g

\* A write without a fence is refused while an execution is open.
MayClose(i, m, g) == IF g = 0 THEN ~IsOpen(m) ELSE FenceHolds(i, m, g)

Adoptable(m) == RuntimeOf[m] \in {"sprites", "external"}
Resumable(m) == RuntimeOf[m] \in {"sprites", "daemon"}
Stamped(m) == RuntimeOf[m] # "bare"

TakenOverSameGeneration(i, m, s) ==   \* mutant: the claim keeps the generation
    [exec[m] EXCEPT !.state = s, !.owner = i, !.lapsed = FALSE]

\* A takeover: one UPDATE that names a new owner and bumps the generation.
TakenOver(i, m, s) ==
    [exec[m] EXCEPT !.state = s, !.owner = i, !.gen = @ + 1, !.lapsed = FALSE]

ClosedAsEvent(kind) == kind   \* mutant: stores the event's own type

ClosedAs(kind) ==
    CASE kind = "done" -> "done"
      [] kind = "cancel" -> "cancelled"
      [] kind = "error" -> "failed"

\* handoffOwnedTurn(s): only the exact generation, only a live state.
HandedOff(i, m, g) ==
    IF FenceHolds(i, m, g) /\ exec[m].state \in {"running", "adopting"}
    THEN [exec[m] EXCEPT !.state = "handoff", !.lapsed = FALSE]
    ELSE exec[m]

\* insertStreamEvent of a non-terminal row: one statement that locks the
\* execution tuple and the session row.
InsertRow(i, m, g, by) ==
    /\ log' = [log EXCEPT ![m] =
                  Append(@, [kind |-> "row", gen |-> g, by |-> by])]
    /\ UNCHANGED <<inflight, exec, minted, written, cancelReq>>

RowAccepted(i, m, g) ==
    /\ g # 0 => FenceHolds(i, m, g)
    /\ inflight = m

TerminalAcceptedTwice(i, m, g) == MayClose(i, m, g)   \* mutant: no dedup

TerminalAccepted(i, m, g) == MayClose(i, m, g) /\ ~HasTerminal(m)

ExecutionLeftOpen(m, kind) == UNCHANGED exec   \* mutant: row and slot only

CloseExecution(m, kind) ==
    exec' = IF exec[m].state = "absent" THEN exec
            ELSE [exec EXCEPT ![m].state = ClosedAs(kind), ![m].lapsed = FALSE]

\* insertStreamEvent of a terminal row: the row, the released slot and the
\* closed execution become visible in one transaction.
InsertTerminal(i, m, g, by, kind) ==
    IF TerminalAccepted(i, m, g)
    THEN /\ log' = [log EXCEPT ![m] =
                       Append(@, [kind |-> kind, gen |-> g, by |-> by])]
         /\ inflight' = IF inflight = m THEN None ELSE inflight
         /\ CloseExecution(m, kind)
         /\ UNCHANGED <<minted, written, cancelReq>>
    ELSE UNCHANGED db

\* releaseInflightTurn without a fence, matched by message id; its failure
\* is swallowed by every caller.
ReleaseSlot(m) ==
    /\ \/ inflight' = IF inflight = m THEN None ELSE inflight
       \/ UNCHANGED inflight
    /\ UNCHANGED <<exec, log, minted, written, cancelReq>>
-----------------------------------------------------------------------------
Init ==
    /\ inflight = None
    /\ exec = [m \in Message |-> NoExec]
    /\ log = [m \in Message |-> <<>>]
    /\ minted = {}
    /\ written = {}
    /\ cancelReq = {}
    /\ carrier = [i \in Instance |-> [m \in Message |-> Idle]]
    /\ stream = [i \in Instance |-> [m \in Message |-> NoStream]]
    /\ closer = [i \in Instance |-> [m \in Message |-> NoCloser]]
    /\ sweeper = [i \in Instance |-> [m \in Message |-> NoClaim]]
    /\ waiter = [i \in Instance |-> [m \in Message |-> 0]]
    /\ draining = [i \in Instance |-> FALSE]

SetCarrier(i, m, c) == carrier' = [carrier EXCEPT ![i][m] = c]
OpenStream(i, m, g) ==
    stream' = [stream EXCEPT ![i][m] = [up |-> TRUE, ended |-> FALSE, gen |-> g]]
DropStream(i, m) == stream' = [stream EXCEPT ![i][m] = NoStream]
StreamKeepsFence(i, m, g) == UNCHANGED stream   \* mutant: no setStreamFence

SetStreamFence(i, m, g) ==
    stream' = [stream EXCEPT ![i][m].gen =
                  IF stream[i][m].up THEN g ELSE stream[i][m].gen]

\* endStream(m, fence) leaves a stream of another fence alone.
EndStream(i, m, g) ==
    stream' = IF stream[i][m].up /\ stream[i][m].gen = g
              THEN [stream EXCEPT ![i][m] = NoStream] ELSE stream
-----------------------------------------------------------------------------
(***************************************************************************)
(* Dispatch: sendMessage, startAssistantTurn, runAdapter.                  *)
(***************************************************************************)
\* sendMessage wins the compare-and-set on the session's slot.
ClaimTurn(i, m) ==
    /\ ~draining[i]
    /\ m \notin minted
    /\ inflight = None
    /\ inflight' = m
    /\ minted' = minted \cup {m}
    /\ SetCarrier(i, m, [Idle EXCEPT !.kind = "setup"])
    /\ UNCHANGED <<exec, log, written, cancelReq,
                   stream, closer, sweeper, waiter, draining>>

\* Setup throws, or the shutdown began after the claim: the slot goes back.
SetupFails(i, m) ==
    /\ carrier[i][m].kind = "setup"
    /\ ReleaseSlot(m)
    /\ SetCarrier(i, m, Idle)
    /\ UNCHANGED <<stream, closer, sweeper, waiter, draining>>

\* startAssistantTurn: assistant row, unfenced stream, tracked adapter.
StartTurn(i, m) ==
    /\ carrier[i][m].kind = "setup"
    /\ written' = written \cup {m}
    /\ SetCarrier(i, m, [Idle EXCEPT !.kind = "dispatch"])
    /\ OpenStream(i, m, 0)
    /\ UNCHANGED <<inflight, exec, log, minted, cancelReq,
                   closer, sweeper, waiter, draining>>

DispatchedAtAll(i, m) ==   \* mutant: the catch ignores turnFences
    carrier[i][m].kind = "dispatch"

Unstamped(i, m) == carrier[i][m].kind = "dispatch" /\ carrier[i][m].gen = 0

\* runAdapter rejects before it owns an execution row: no terminal, slot freed.
DispatchFails(i, m) ==
    /\ Unstamped(i, m)
    /\ ReleaseSlot(m)
    /\ SetCarrier(i, m, Idle)
    /\ DropStream(i, m)
    /\ UNCHANGED <<closer, sweeper, waiter, draining>>

FirstRow(i) == [state |-> "running", owner |-> i, gen |-> 1,
                lapsed |-> FALSE, adopts |-> 0]

\* upsertTurnExecution creates generation 1 and the stream becomes fenced.
StampExecution(i, m) ==
    /\ Unstamped(i, m)
    /\ Stamped(m)
    /\ ~HasTerminal(m)
    /\ exec[m].state = "absent"
    /\ exec' = [exec EXCEPT ![m] = FirstRow(i)]
    /\ SetCarrier(i, m, [carrier[i][m] EXCEPT !.gen = 1])
    /\ SetStreamFence(i, m, 1)
    /\ UNCHANGED <<inflight, log, minted, written, cancelReq,
                   closer, sweeper, waiter, draining>>

\* The stamp committed and its answer was lost: the turn stops here, and its
\* unfenced restart terminal is refused because an execution is open.
StampAnswerLost(i, m) ==
    /\ Unstamped(i, m)
    /\ Stamped(m)
    /\ ~HasTerminal(m)
    /\ exec[m].state = "absent"
    /\ exec' = [exec EXCEPT ![m] = FirstRow(i)]
    /\ SetCarrier(i, m, Idle)
    /\ DropStream(i, m)
    /\ UNCHANGED <<inflight, log, minted, written, cancelReq,
                   closer, sweeper, waiter, draining>>

\* upsertTurnExecution finds a terminal (a peer closed the turn during setup)
\* or fails: TurnOwnershipUnavailableError, then an unfenced terminal.
StampRefused(i, m) ==
    /\ Unstamped(i, m)
    /\ Stamped(m)
    /\ InsertTerminal(i, m, 0, 0, "error")
    /\ SetCarrier(i, m, Idle)
    /\ DropStream(i, m)
    /\ UNCHANGED <<closer, sweeper, waiter, draining>>
-----------------------------------------------------------------------------
(***************************************************************************)
(* Any carrier: dispatch, resume or adoption, writing through the stream   *)
(* the broadcaster currently keeps for the message.                        *)
(***************************************************************************)
Carrying(i, m) ==
    /\ carrier[i][m].kind \in Tracked
    /\ carrier[i][m].kind # "dispatch" => carrier[i][m].gen # 0

RowsSoFar(m) == Len(log[m])

\* emit of a non-terminal event: it lands, or the stream learns that the
\* fence is lost or that the turn has ended.
CarrierEmits(i, m) ==
    LET s == stream[i][m] IN
    /\ Carrying(i, m)
    /\ s.up /\ ~s.ended
    /\ IF RowAccepted(i, m, s.gen)
       THEN /\ RowsSoFar(m) < MaxRows
            /\ InsertRow(i, m, s.gen, carrier[i][m].gen)
            /\ UNCHANGED <<carrier, stream>>
       ELSE /\ UNCHANGED db
            /\ DropStream(i, m)
            /\ SetCarrier(i, m,
                  IF s.gen # 0 /\ ~FenceHolds(i, m, s.gen)
                  THEN [carrier[i][m] EXCEPT !.abort = "lost"]
                  ELSE carrier[i][m])
    /\ UNCHANGED <<closer, sweeper, waiter, draining>>

\* normalizeEventForAbort: an aborted carrier never reports done; it reports
\* the user's cancel or the platform's reason for stopping it.
TerminalOf(i, m) ==
    IF carrier[i][m].abort = "no" THEN TerminalKinds
    ELSE TerminalKinds \ {"done"}

\* The adapter's stream ends: terminal, then untrack.  Without a stream the
\* event is dropped and the turn stays open.
CarrierEnds(i, m) ==
    LET s == stream[i][m] IN
    /\ Carrying(i, m)
    /\ carrier[i][m].abort # "lost"
    /\ \E kind \in TerminalOf(i, m) :
          IF s.up /\ ~s.ended
          THEN InsertTerminal(i, m, s.gen, carrier[i][m].gen, kind)
          ELSE UNCHANGED db
    /\ IF s.up /\ ~s.ended THEN DropStream(i, m) ELSE UNCHANGED stream
    /\ SetCarrier(i, m, Idle)
    /\ UNCHANGED <<closer, sweeper, waiter, draining>>

\* A suspended relay, or a stamped dispatch or resume that throws, hands its
\* exact generation back and keeps the slot.  A failed handoff is swallowed,
\* and an adoption that throws just leaves its lease to lapse.
CarrierStops(i, m) ==
    LET g == carrier[i][m].gen IN
    /\ Carrying(i, m)
    /\ g # 0
    /\ carrier[i][m].abort # "lost"
    /\ \/ /\ carrier[i][m].kind # "adoption"
          /\ exec' = [exec EXCEPT ![m] = HandedOff(i, m, g)]
       \/ UNCHANGED exec
    /\ SetCarrier(i, m, Idle)
    /\ EndStream(i, m, g)
    /\ UNCHANGED <<inflight, log, minted, written, cancelReq,
                   closer, sweeper, waiter, draining>>

\* A carrier that learnt it lost the turn stops without a terminal.
CarrierLost(i, m) ==
    /\ carrier[i][m].abort = "lost"
    /\ SetCarrier(i, m, Idle)
    /\ EndStream(i, m, carrier[i][m].gen)
    /\ UNCHANGED <<db, closer, sweeper, waiter, draining>>

\* holdTurnLease: a renewal extends a live row; one refused because the fence
\* no longer holds aborts the carrier.
RenewLease(i, m) ==
    LET g == carrier[i][m].gen IN
    /\ Carrying(i, m)
    /\ g # 0
    /\ IF FenceHolds(i, m, g)
       THEN /\ exec[m].state \in {"running", "adopting"}
            /\ exec' = [exec EXCEPT ![m].lapsed = FALSE]
            /\ UNCHANGED carrier
       ELSE /\ SetCarrier(i, m, [carrier[i][m] EXCEPT !.abort = "lost"])
            /\ UNCHANGED exec
    /\ UNCHANGED <<inflight, log, minted, written, cancelReq,
                   stream, closer, sweeper, waiter, draining>>

\* The database clock passes lease_expires_at.
LeaseLapses(m) ==
    /\ IsOpen(m)
    /\ ~exec[m].lapsed
    /\ exec' = [exec EXCEPT ![m].lapsed = TRUE]
    /\ UNCHANGED <<inflight, log, minted, written, cancelReq, local>>
-----------------------------------------------------------------------------
(***************************************************************************)
(* Cancel: a local abort, or the durable flag that the owner polls.        *)
(***************************************************************************)
RequestCancel(m) ==
    /\ m \in written
    /\ ~HasTerminal(m)
    /\ m \notin cancelReq
    /\ cancelReq' = cancelReq \cup {m}
    /\ UNCHANGED <<inflight, exec, log, minted, written, local>>

\* cancelStream with a local adapter, the bus abort, and the convergence tick.
AbortCarrier(i, m) ==
    /\ carrier[i][m].kind \in Tracked
    /\ carrier[i][m].abort = "no"
    /\ SetCarrier(i, m, [carrier[i][m] EXCEPT !.abort = "cancel"])
    /\ UNCHANGED <<db, stream, closer, sweeper, waiter, draining>>
-----------------------------------------------------------------------------
(***************************************************************************)
(* Adoption sweep (turn-adoption.service.ts) and adoptTurnExecution.       *)
(***************************************************************************)
RunningAndLapsed(m) ==   \* mutant: a handed-off turn is not listed
    exec[m].state \in {"running", "adopting"} /\ exec[m].lapsed

\* listAdoptableTurnExecutions, claimTurnForAdoption.
AwaitsAdoption(m) == IsOpen(m) /\ exec[m].lapsed

SweepClaims(i, m) ==
    /\ ~draining[i]
    /\ sweeper[i][m] = NoClaim
    /\ carrier[i][m].kind # "adoption"
    /\ Adoptable(m)
    /\ AwaitsAdoption(m)
    /\ ~HasTerminal(m)
    /\ exec[m].gen < MaxGeneration
    /\ exec' = [exec EXCEPT ![m] =
                   [TakenOver(i, m, "adopting") EXCEPT !.adopts = @ + 1]]
    /\ sweeper' = [sweeper EXCEPT ![i][m] =
                      [gen |-> exec[m].gen + 1,
                       giveUp |-> exec[m].adopts >= MaxAdoptAttempts]]
    /\ UNCHANGED <<inflight, log, minted, written, cancelReq,
                   carrier, stream, closer, waiter, draining>>

\* The claim found the process stopping: give exactly that claim back.
HandOffLateClaim(i, m) ==
    /\ sweeper[i][m] # NoClaim
    /\ draining[i]
    /\ \/ exec' = [exec EXCEPT ![m] = HandedOff(i, m, sweeper[i][m].gen)]
       \/ UNCHANGED exec
    /\ sweeper' = [sweeper EXCEPT ![i][m] = NoClaim]
    /\ UNCHANGED <<inflight, log, minted, written, cancelReq,
                   carrier, stream, closer, waiter, draining>>

\* handler.adopt: the in-process slot arbitrates against a resume that
\* registered meanwhile; the loser drops its claim and lets the lease lapse.
AdoptTurn(i, m) ==
    /\ sweeper[i][m] # NoClaim
    /\ ~draining[i]
    /\ ~sweeper[i][m].giveUp
    /\ IF carrier[i][m].kind \in Tracked
       THEN UNCHANGED <<carrier, stream>>
       ELSE /\ SetCarrier(i, m, [kind |-> "adoption", abort |-> "no",
                                 gen |-> sweeper[i][m].gen])
            /\ OpenStream(i, m, sweeper[i][m].gen)
    /\ sweeper' = [sweeper EXCEPT ![i][m] = NoClaim]
    /\ UNCHANGED <<db, closer, waiter, draining>>

\* adopt_count is exhausted: terminalizeAdoptedTurn closes the turn.
GiveUp(i, m) ==
    /\ sweeper[i][m] # NoClaim
    /\ ~draining[i]
    /\ sweeper[i][m].giveUp
    /\ closer[i][m].step = "none"
    /\ closer' = IF carrier[i][m].kind \in Tracked THEN closer
                 ELSE [closer EXCEPT ![i][m] = [step |-> "claimed",
                          gen |-> sweeper[i][m].gen, kind |-> "error"]]
    /\ sweeper' = [sweeper EXCEPT ![i][m] = NoClaim]
    /\ UNCHANGED <<db, carrier, stream, waiter, draining>>
-----------------------------------------------------------------------------
(***************************************************************************)
(* Resume by a daemon hello (resumeAssistantTurn, preemptAdoptionForResume)*)
(***************************************************************************)
\* claimTurnForResume takes a lapsed lease or a fence-aware adoption, and
\* only while the session's slot still names the turn.
ResumeClaimable(m) ==
    /\ ~HasTerminal(m)
    /\ inflight = m
    /\ IsOpen(m)
    /\ exec[m].lapsed \/ (exec[m].state = "adopting" /\ exec[m].gen > 1)
    /\ exec[m].gen < MaxGeneration

HelloResumes(i, m) ==
    /\ ~draining[i]
    /\ Resumable(m)
    /\ m \in written
    /\ carrier[i][m].kind = "idle"
    /\ SetCarrier(i, m, [Idle EXCEPT !.kind = "resume"])
    /\ UNCHANGED <<db, stream, closer, sweeper, waiter, draining>>

ResumeClaims(i, m) ==
    /\ carrier[i][m].kind = "resume"
    /\ carrier[i][m].gen = 0
    /\ IF ResumeClaimable(m)
       THEN /\ exec' = [exec EXCEPT ![m] = TakenOver(i, m, "running")]
            /\ SetCarrier(i, m, [carrier[i][m] EXCEPT !.gen = exec[m].gen + 1])
            /\ OpenStream(i, m, exec[m].gen + 1)
       ELSE /\ SetCarrier(i, m, Idle)
            /\ UNCHANGED <<exec, stream>>
    /\ UNCHANGED <<inflight, log, minted, written, cancelReq,
                   closer, sweeper, waiter, draining>>

\* A hello outranks a local adoption: the durable claim first, the abort
\* second, then it waits for the slot.
PreemptAdoption(i, m) ==
    /\ ~draining[i]
    /\ Resumable(m)
    /\ carrier[i][m].kind = "adoption"
    /\ waiter[i][m] = 0
    /\ ResumeClaimable(m)
    /\ exec' = [exec EXCEPT ![m] = TakenOver(i, m, "running")]
    /\ waiter' = [waiter EXCEPT ![i][m] = exec[m].gen + 1]
    /\ SetCarrier(i, m, [carrier[i][m] EXCEPT
                            !.abort = IF @ = "no" THEN "cancel" ELSE @])
    /\ UNCHANGED <<inflight, log, minted, written, cancelReq,
                   stream, closer, sweeper, draining>>

\* The slot is free: the resume takes it under the generation it claimed.
PreemptTakes(i, m) ==
    /\ waiter[i][m] # 0
    /\ carrier[i][m].kind = "idle"
    /\ SetCarrier(i, m, [kind |-> "resume", gen |-> waiter[i][m],
                         abort |-> "no"])
    /\ OpenStream(i, m, waiter[i][m])
    /\ waiter' = [waiter EXCEPT ![i][m] = 0]
    /\ UNCHANGED <<db, closer, sweeper, draining>>

\* The wait timed out, or a repeat hello took the slot: hand the claim back.
PreemptGivesBack(i, m) ==
    /\ waiter[i][m] # 0
    /\ carrier[i][m].kind # "idle"
    /\ \/ exec' = [exec EXCEPT ![m] = HandedOff(i, m, waiter[i][m])]
       \/ UNCHANGED exec
    /\ waiter' = [waiter EXCEPT ![i][m] = 0]
    /\ UNCHANGED <<inflight, log, minted, written, cancelReq,
                   carrier, stream, closer, sweeper, draining>>
-----------------------------------------------------------------------------
(***************************************************************************)
(* Closing a turn nobody carries: dead-turn sweep on subscribe, orphans at *)
(* boot, an offline cancel, an unresumable daemon turn.                    *)
(***************************************************************************)
\* A cancel closes any turn; the others leave an open turn that no hello can
\* resume to the adoption sweep.
CloserKinds(m) ==
    {k \in {"error", "cancel"} :
        IF k = "cancel" THEN m \in cancelReq
        ELSE ~IsOpen(m) \/ RuntimeOf[m] # "external"}

\* claimReconciliationFence after the local liveness checks: the lapsed row
\* is claimed, a turn without an open row is closed without a fence.
CloserClaims(i, m) ==
    /\ m \in written
    /\ ~HasTerminal(m)
    /\ carrier[i][m].kind \notin Tracked
    /\ closer[i][m].step = "none"
    /\ \E kind \in CloserKinds(m) :
          IF ~IsOpen(m)
          THEN /\ closer' = [closer EXCEPT ![i][m] =
                                [step |-> "claimed", gen |-> 0, kind |-> kind]]
               /\ UNCHANGED exec
          ELSE /\ exec[m].lapsed
               /\ exec[m].gen < MaxGeneration
               /\ exec' = [exec EXCEPT ![m] = TakenOver(i, m, "adopting")]
               /\ closer' = [closer EXCEPT ![i][m] =
                                [step |-> "claimed", gen |-> exec[m].gen + 1,
                                 kind |-> kind]]
    /\ UNCHANGED <<inflight, log, minted, written, cancelReq,
                   carrier, stream, sweeper, waiter, draining>>

\* beginResumeStream (or beginStream) installs a stream of the closer's own;
\* emit closes it to everyone else at once.
CloserOpens(i, m) ==
    /\ closer[i][m].step = "claimed"
    /\ closer' = [closer EXCEPT ![i][m].step = "writing"]
    /\ stream' = [stream EXCEPT ![i][m] =
                     [up |-> TRUE, ended |-> TRUE, gen |-> closer[i][m].gen]]
    /\ UNCHANGED <<db, carrier, sweeper, waiter, draining>>

CloserDone(i, m) ==
    /\ closer' = [closer EXCEPT ![i][m] = NoCloser]
    /\ stream' = IF stream[i][m] = [up |-> TRUE, ended |-> TRUE,
                                    gen |-> closer[i][m].gen]
                 THEN [stream EXCEPT ![i][m] = NoStream] ELSE stream
    /\ UNCHANGED <<carrier, sweeper, waiter, draining>>

\* emit, or the boot reconciliation's insertStreamEvent without a stream.
CloserWrites(i, m) ==
    LET c == closer[i][m] IN
    /\ c.step # "none"
    /\ InsertTerminal(i, m, c.gen, c.gen, c.kind)
    /\ CloserDone(i, m)

\* The write fails; a claimed row is left to its lease.
CloserFails(i, m) ==
    /\ closer[i][m].step # "none"
    /\ CloserDone(i, m)
    /\ UNCHANGED db

FreshClaim(m) ==   \* mutant: no age gate
    inflight = m /\ (m \notin written \/ HasTerminal(m))

\* A claim whose assistant row was never inserted.  Its 15-minute age gate
\* spares a claimer that is still setting up.
StaleClaim(m) ==
    /\ inflight = m
    /\ m \notin written \/ HasTerminal(m)
    /\ \A i \in Instance : carrier[i][m].kind # "setup"

\* clearStaleInflightClaims.
ClearStaleClaim(m) ==
    /\ StaleClaim(m)
    /\ inflight' = None
    /\ UNCHANGED <<exec, log, minted, written, cancelReq, local>>
-----------------------------------------------------------------------------
(***************************************************************************)
(* Shutdown and crash of an instance.                                      *)
(***************************************************************************)
Drain(i) ==
    /\ ~draining[i]
    /\ draining' = [draining EXCEPT ![i] = TRUE]
    /\ UNCHANGED <<db, carrier, stream, closer, sweeper, waiter>>

\* handoffOwnedTurns over turnFences, after the drain timed out.
HandOffOwnedTurns(i) ==
    /\ draining[i]
    /\ exec' = [m \in Message |->
                   IF carrier[i][m].gen # 0
                   THEN HandedOff(i, m, carrier[i][m].gen) ELSE exec[m]]
    /\ UNCHANGED <<inflight, log, minted, written, cancelReq, local>>

\* The process dies, and a new one with the same owner id takes its place.
Crash(i) ==
    /\ carrier' = [carrier EXCEPT ![i] = [m \in Message |-> Idle]]
    /\ stream' = [stream EXCEPT ![i] = [m \in Message |-> NoStream]]
    /\ closer' = [closer EXCEPT ![i] = [m \in Message |-> NoCloser]]
    /\ sweeper' = [sweeper EXCEPT ![i] = [m \in Message |-> NoClaim]]
    /\ waiter' = [waiter EXCEPT ![i] = [m \in Message |-> 0]]
    /\ draining' = [draining EXCEPT ![i] = FALSE]
    /\ UNCHANGED db

\* The fences an instance holds for a turn, by the actor that holds each.
Holds(i, m) ==
    {<<"carrier", carrier[i][m].gen>>, <<"sweeper", sweeper[i][m].gen>>,
     <<"waiter", waiter[i][m]>>, <<"closer", closer[i][m].gen>>}

HolderAlive(m) == \E i \in Instance : \E h \in Holds(i, m) : h[2] = exec[m].gen

Dispatch(i, m) ==
    \/ ClaimTurn(i, m) \/ SetupFails(i, m) \/ StartTurn(i, m)
    \/ DispatchFails(i, m) \/ StampExecution(i, m)
    \/ StampAnswerLost(i, m) \/ StampRefused(i, m)

Carry(i, m) ==
    \/ CarrierEmits(i, m) \/ CarrierEnds(i, m) \/ CarrierStops(i, m)
    \/ CarrierLost(i, m) \/ RenewLease(i, m) \/ AbortCarrier(i, m)

Adopt(i, m) ==
    \/ SweepClaims(i, m) \/ HandOffLateClaim(i, m)
    \/ AdoptTurn(i, m) \/ GiveUp(i, m)

Resume(i, m) ==
    \/ HelloResumes(i, m) \/ ResumeClaims(i, m) \/ PreemptAdoption(i, m)
    \/ PreemptTakes(i, m) \/ PreemptGivesBack(i, m)

Close(i, m) ==
    \/ CloserClaims(i, m) \/ CloserOpens(i, m)
    \/ CloserWrites(i, m) \/ CloserFails(i, m)

Next ==
    \/ \E i \in Instance, m \in Message :
          Dispatch(i, m) \/ Carry(i, m) \/ Adopt(i, m)
          \/ Resume(i, m) \/ Close(i, m)
    \/ \E m \in Message :
          LeaseLapses(m) \/ RequestCancel(m) \/ ClearStaleClaim(m)
    \/ \E i \in Instance : Drain(i) \/ HandOffOwnedTurns(i) \/ Crash(i)

Spec == Init /\ [][Next]_vars

(***************************************************************************)
(* What keeps running: request handlers and adapters finish (each has a    *)
(* deadline), the sweeps tick, the database clock advances, a draining     *)
(* process exits, and a client sooner or later reloads the session.        *)
(* Requests, cancels, crashes and failed writes carry no fairness.         *)
(***************************************************************************)
Fairness ==
    /\ \A i \in Instance, m \in Message :
          /\ WF_vars(SetupFails(i, m) \/ StartTurn(i, m))
          /\ WF_vars(StampExecution(i, m) \/ StampRefused(i, m)
                       \/ DispatchFails(i, m))
          /\ WF_vars(CarrierEnds(i, m))
          /\ WF_vars(CarrierLost(i, m))
          /\ WF_vars(SweepClaims(i, m))
          /\ WF_vars(AdoptTurn(i, m) \/ GiveUp(i, m) \/ HandOffLateClaim(i, m))
          /\ WF_vars(ResumeClaims(i, m))
          /\ WF_vars(PreemptTakes(i, m) \/ PreemptGivesBack(i, m))
          /\ WF_vars(CloserClaims(i, m))
          /\ WF_vars(CloserWrites(i, m))
    /\ \A m \in Message :
          /\ WF_vars(ClearStaleClaim(m))
          /\ WF_vars(LeaseLapses(m) /\ ~HolderAlive(m))
    /\ \A i \in Instance : WF_vars(draining[i] /\ Crash(i))
-----------------------------------------------------------------------------
(***************************************************************************)
(* The promise: every step of the instances is a step of the turn ledger.  *)
(***************************************************************************)
LedgerRows ==
    [m \in Message |->
        [k \in DOMAIN log[m] |-> [kind |-> log[m][k].kind, gen |-> log[m][k].gen]]]

LedgerEpoch == [m \in Message |-> exec[m].gen]

Ledger == INSTANCE TurnLedger WITH
    slot <- inflight, used <- minted, epoch <- LedgerEpoch, rows <- LedgerRows

\* Readers see one turn at a time, rows in owner order, one terminal, and an
\* owned turn that keeps the session until its terminal.
KeepsLedger == Ledger!Spec
-----------------------------------------------------------------------------
(***************************************************************************)
(* Properties.                                                             *)
(***************************************************************************)
\* Every variable has its type.
TypeOK ==
    /\ inflight \in Message \cup {None}
    /\ exec \in [Message -> ExecRow]
    /\ log \in [Message -> Seq(EventRow)]
    /\ minted \in SUBSET Message
    /\ written \in SUBSET Message
    /\ cancelReq \in SUBSET Message
    /\ carrier \in [Instance -> [Message -> Carrier]]
    /\ stream \in [Instance -> [Message -> Stream]]
    /\ closer \in [Instance -> [Message -> Closer]]
    /\ sweeper \in [Instance -> [Message -> Claim]]
    /\ waiter \in [Instance -> [Message -> Nat]]
    /\ draining \in [Instance -> BOOLEAN]

\* A turn's log has at most one terminal and nothing behind it, whatever
\* carriers, closers and cancels raced for it (insertStreamEvent).
TerminalIsLast ==
    \A m \in Message : \A k \in DOMAIN log[m] :
        log[m][k].kind \in TerminalKinds => k = Len(log[m])

\* Once a takeover commits nothing lands under an older generation: the
\* generations of a turn's rows never decrease (turn fence).
GenerationsInOrder ==
    \A m \in Message : \A j, k \in DOMAIN log[m] :
        j <= k => log[m][j].gen <= log[m][k].gen

\* A row carries the fence of the actor that produced it: a displaced carrier
\* never writes through the stream its successor opened (setTurnFence,
\* preemptAdoptionForResume).
AuthorsOwnRows ==
    \A m \in Message : \A k \in DOMAIN log[m] : log[m][k].gen = log[m][k].by

\* A turn is never both ended and adoptable: its execution row is closed
\* exactly when its terminal is in the log.
ClosedTogether ==
    \A m \in Message :
        exec[m].state # "absent" =>
            (exec[m].state \in ClosedStates <=> HasTerminal(m))

\* An open execution keeps the session's slot, so no newer turn can enter
\* the session before recovery has closed it; a closed turn holds no slot.
SlotFollowsTurn ==
    \A m \in Message :
        /\ IsOpen(m) => inflight = m
        /\ inflight = m => ~HasTerminal(m)

\* No two actors hold the same generation of a turn: a carrier, a claim in
\* the sweep, a waiting resume and a closer never share a fence.
FencesUnique ==
    \A m \in Message : \A i, j \in Instance :
        \A a \in Holds(i, m), b \in Holds(j, m) :
            (a[2] # 0 /\ a[2] = b[2]) => i = j /\ a[1] = b[1]

\* A turn that took the session's slot gives it back: however carriers,
\* claims and processes fail, somebody closes the turn.
SlotComesBack == \A m \in Message : inflight = m ~> inflight # m
=============================================================================
