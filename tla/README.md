# Manyfold: TLA+ models and proofs

Manyfold runs coding agents (Claude Code, Codex, OpenClaw, ...) for its users and shows them as
chat sessions. The API (`src/apps/api`, NestJS on Postgres) runs as several instances at once;
daemons (`mf daemon`, `src/apps/cli`) run agents on the users' own machines and connect to the API
over a WebSocket; browsers read a session as a server-sent event stream.

This directory holds TLA+ models of the parts whose correctness depends on the order in which
instances, processes and connections act, TLC configurations that check them, and TLAPS proofs.

    tlc -workers 2 -config MCTurnOwnership.cfg MCTurnOwnership
    tlapm TurnAgreement_proofs.tla

## 1. Inventory

Paths are below `src/apps/api/src/modules/` unless they begin with `cli/` (`src/apps/cli/src/`).

| Component | State it keeps | Operations | What makes it correct |
|---|---|---|---|
| Turn ownership (`chat/chat.repository.ts`, `chat/chat.service.ts`, `chat/turn-adoption.service.ts`, `chat/stream-event-insert.ts`) | `chat_sessions.inflight_message_id` (the slot), `turn_executions`, `chat_stream_events`; per process `pendingTurnIds`, `runningAdapters`, `turnFences` | dispatch, renew, adopt, resume, preempt, cancel, close, hand off, drain | one turn per session; one terminal, last; no write under an old generation; an owned turn keeps its session; every turn is closed |
| Stream delivery (`chat/sse-broadcaster.ts`, `chat/chat-stream-bus.ts`, `chat/chat.controller.ts`) | pumps with subscribers and cursors, NOTIFY listeners | subscribe, kick, read, retry, safety tick, reconnect | a reader gets every row once and in order, and gets to the end |
| Stream writer (`chat/sse-broadcaster.ts`, `chat/content-checkpointer.ts`) | `ActiveStream`: token buffer, write chain, failure latch, last content row | emit, settle, end | rows in emission order; nothing behind a failed write; a checkpoint cursor names exactly the rows its content holds |
| Session hold and import (`chat/chat.repository.ts`, `terminal/terminal-holder.service.ts`, `terminal/terminal-hook.service.ts`, `chat/recovery/session-recovery.service.ts`) | slot, `holder_terminal_id`, `import_pending_since`, ref and sync cursor; terminal rows | claim, acquire, move, release, end, import, abandon | turn, terminal and unfinished import exclude each other; a stale import clears nothing; no line a terminal wrote is lost; a hold ends with its terminal |
| Cancel bus (`chat/chat-cancel-bus.ts`) | LISTEN connection, `cancel_requested_at` | publish, converge | a cancel reaches the owner or closes the turn |
| Leases (`common/leases`, `channels/channel-manager.service.ts`) | `service_leases`, channel leases | acquire or renew, release | at most one leader while clocks agree |
| Daemon registry (`daemon/daemon-registry.service.ts`) | connection, token and hello order per daemon, RPC broker leases | register, hello, retire, call | only the current connection's newest hello counts |
| Daemon reconciliation (`daemon/daemon-exec-resume.service.ts`) | rechecks and deferrals per message | match, resume, recheck, fail, cancel offline | a turn the daemon still runs is never failed |
| Fenced dispatch (`chat/adapters/daemon-fenced-dispatch.service.ts`) | attempt, delivered count | dispatch, probe, redispatch | one turn start per dispatch |
| Execution buffer (`cli/daemon/exec-buffer.ts`, `exec-files.ts`) | event log, meta and final files per execution | publish, subscribe, complete, recover, collect | an acknowledged event survives a crash; a subscriber sees each once |
| Daemon locks and updates (`cli/daemon/update-drain.ts`, `process-lock.ts`, `file-lock.ts`) | lock files, drain state | acquire, release, drain | one daemon; no update under a running turn |
| Channel bridge (`channels/channel-bridge.service.ts`, `channels.repository.ts`, `inbound-collect.ts`) | `channel_deliveries`: inbound rows and the outbox; per process the observers of running turns | record, claim, queue, merge, adopt, reply, three sweeps | a message runs once and is not lost; a turn's reply is owed until sent, and sent once |
| Automations, A2A, terminals (`automations/`, `a2a/`, `terminal/`) | due runs, tasks, terminal leases | claim, transition, reap | each input starts one turn |
| Hosts, agents, accounts, apps, packages | provider state, CRUD tables, user interfaces | provision, edit, render | mostly provider I/O and CRUD |

How they interact. `sendMessage` claims the slot, inserts the assistant row, opens an `ActiveStream`
and starts an adapter; the adapter stamps the execution row (owner, generation 1), and from then on
every write carries that fence. Rows go through the writer into `chat_stream_events`, in one
statement or transaction that checks fence and slot; a commit kicks the local pump and notifies the
other instances, whose pumps re-read the log. A renewal timer extends the lease. When it lapses or
the owner hands the turn off, the adoption sweep (sandbox turns) or a daemon's hello (daemon turns)
takes the turn under the next generation. Cancels, subscribes, boots and unresumable daemons close
turns nobody carries.

The hard behaviours are: stalls and takeovers, in which a displaced owner still runs; crashes at any
step, after which the process comes back under the same owner id; handoffs, notifications and answers
that are lost; local maps read before an await and used after it; several writers of one terminal;
and recovery that must end. `PROJECT.json` lists each at its line with the properties that cover it.

## 2. Plan

| Step | Module | Status |
|---|---|---|
| 1 | `TurnOwnership`, abstract `TurnLedger`, `MCTurnOwnership*` | checked, every safety property proved |
| 2 | `StreamPump`, `MCStreamPump`, `StreamPump_proofs` | checked, every safety property proved |
| 3 | `TurnInvariant`, `TurnSafety_proofs`, `TurnAgreement_proofs` | proved |
| 4 | `SessionHold`, abstract `Transcript`, `MCSessionHold`, `SessionHold_proofs` | checked, proved: `TypeOK` and `SettleSawEverything`; `NothingLeftBehind`, `NothingBuried` and the refinement while the session keeps its ref |
| 5 | `StreamWriter`, abstract `MessageLog`, `MCStreamWriter`, `StreamWriter_proofs` | checked, the refinement and every safety property but `DueGoesOn` proved |
| 6 | `ExecBuffer`, `ExecBuffer_proofs`: one agent run on a daemon | checked through step 7, proved |
| 7 | `FencedDispatch` (dispatch, registry, reconciliation and the daemon's client composed with `ExecBuffer`), `MCFencedDispatch`, `FencedDispatch_proofs` | checked, with liveness; every safety property and the refinement proved |
| 8 | `ChannelBridge`, `MCChannelBridge`, `ChannelBridge_proofs` | checked, every safety property proved |
| 9 | `AutomationRuns`, `A2ATasks`, `UpdateDrain`, `FileLock`; pure algorithms against reference definitions (next occurrence, text chunks, usage pricing) | later |
| 10 | `SessionHold`: that a pending import settles once the runtime answers, under fairness | later |

Runs use two instances (every race has two sides; a third adds no new kind of actor), one or two
messages, and generations up to the number of takeovers the property needs.

## 3. TurnOwnership

One session. `inflight`, `exec`, `log`, `minted`, `written`, `cancelReq` are the database; `carrier`,
`stream`, `closer`, `sweeper`, `waiter`, `draining` are each instance's memory.

| Variable | Code |
|---|---|
| `inflight` | `chat_sessions.inflight_message_id` |
| `exec[m]` | the `turn_executions` row: state, owner, generation, lease, `adopt_count`; state `absent` when there is none |
| `log[m]` | `chat_stream_events` of the message; `gen` is the fence the row was written under (0: none), `by` the generation of the carrier that produced it |
| `minted`, `written` | ids used by `sendMessage`; messages whose assistant row exists |
| `carrier[i][m]` | the entry in `pendingTurnIds` / `runningAdapters` with its `turnFences` generation and abort reason |
| `stream[i][m]` | the broadcaster's `ActiveStream`; `ended` is `terminalClosed` |
| `closer[i][m]` | a terminal being written by a path that carries no adapter |
| `sweeper[i][m]` | the adoption sweep between its claim and its handler |
| `waiter[i][m]` | `preemptAdoptionForResume` between its claim and the slot |

Grain of atomicity. Every repository call is one statement or one transaction that locks the rows it
checks, so it is one step. Process-local code between two awaits is part of the step that precedes
the next await. `CarrierEmits` is one accepted or refused row; the token buffer and the write chain in
front of it are `StreamWriter`'s.

Abstractions. A lease is the bit `lapsed`; the database clock makes all comparisons, so how long a
lease lasts does not matter to safety. Contents, usage and message parts are left out. The runtime of
a turn (`sprites`, `external`, `daemon`, `bare`) decides who may adopt or resume it and whether it
gets an execution row at all. The 15-minute gate of `clearStaleInflightClaims` is modelled by what it is
for: no instance is between its claim and its assistant row.

Faults in the model: a crash of an instance at any step with a restart under the same owner id, a
lost stamp answer, a release or handoff whose failure is swallowed, a terminal write that fails, a
lease that lapses under a live holder, a drain.

`TurnLedger` is the abstract promise: a session slot, generations and rows, with five actions (`Open`,
`Abandon`, `Own`, `Add`, `End`). `KeepsLedger` maps `slot <- inflight`, `used <- minted`,
`epoch <- generation`, `rows <-` kind and fence generation of the log.

| Run | Instance | Shows |
|---|---|---|
| `turn_ownership` | 2 instances, 1 sprite turn, 3 generations, 1 row before the terminal, 1 adoption attempt | `TypeOK`, `TerminalIsLast`, `ClosedTogether`, `FencesUnique`, `GenerationsInOrder`, `AuthorsOwnRows` |
| `turn_slots` | 1 instance, a daemon turn and a turn without execution row, 2 generations | `SlotFollowsTurn`, `KeepsLedger` |
| `turn_recovers` | 2 instances, 7 generations, 2 faults, one external turn | `SlotComesBack` |

Bounds. `MaxGeneration` caps takeovers: three are needed for a stale owner, its successor and the
successor's successor, the longest chain in which a fence comparison by anything but equality could
go wrong. `MaxRows` caps the log at which a non-terminal row may still be added: one is enough
for a row of one generation to land before or behind a row of another. `MaxAdoptAttempts` is the code's own constant,
made small. `MaxFaults` limits faults in the liveness run only, and there `MaxGeneration` is larger
than the faults can use up, so that the bound never stops a recovery.

Fairness (`Fairness`, liveness run only). Request handlers and adapters come to an end, because each
has a deadline; the sweeps tick; the database clock advances past a lease nobody renews; a process
that drains exits; a client sooner or later reloads the session, which is what closes a turn without
an execution row. Requests, cancels, crashes, lapses under a live holder and failed writes have no
fairness. With unbounded faults no recovery could be promised, hence the budget.

## 4. StreamPump

One session's pump in one instance and its readers. `top` counts committed rows; each client has a
connection (`link`), the `cursor` of its `SubscriberEntry`, the row `base` it started behind and the
set of rows it processed. `ReadAnswers` is everything `runPump` does between two queries: the rows to
every subscriber, dropped senders, the decision to read again. `ReadFails`, `RetryFires`,
`SafetyTick`, `Cools`, `Wake` are the pump's other callbacks; `Attach`, `Reconnect`, `Subscribe`,
`Disconnect` the client's.

| Run | Instance | Shows |
|---|---|---|
| `pump_delivery` | 2 clients, 2 rows, batches of one | `TypeOK`; `OthersSkipNothing`: batches, failed sends and queries, slow readers and reconnects leave no hole in what a client got; `ReplayArrives` without any safety tick: the rows in the log when a client came are sent to it while it stays (`dirty` keeps a kick that comes during a query), but for those that `pump_gap` shows a client attached behind a query in flight never to get; `CatchesUp` when every NOTIFY is lost: the cold safety tick alone suffices |
| `pump_gap` | 2 clients, 3 rows, batches of two | `NoRowSkipped` is violated (section 11) |

Bounds: two clients (one ahead of the other is what the pump shares a query between), two rows with
batches of one, so that full and empty batches, a second query and a reader in the middle all happen. Fairness: queries come back and
the database does not fail them for ever (`QueriesAnswer`). What else a liveness property needs is its premise: `CatchesUp` the
safety tick, `ReplayArrives` the retry timer and the attach (`ConnectsAndRetries`).

## 5. StreamWriter

The write side of one turn in the process that carries it. `runAdapter` consumes the runtime's events
and does not wait for most rows: what it consumed (`events`), what its blocks hold (`folded`), what is
buffered (from `from` on), queued (`queue`), durable (`log`) and stored as content (`content`) are
different prefixes of one sequence.

| Variable | Code |
|---|---|
| `events`, `folded` | what `emit` admitted, with its transport line; how far `assistantBlocks` is |
| `from`, `queue`, `stream` | `ActiveStream`: `PendingTokenBuffer`, the promise chain task by task, the latch `failed`, `queuedRows`, `lastContentId` and flags |
| `inflight`, `pending`, `fenced` | the checkpointer: job in flight, job behind it, `fence()` called |
| `carrier` | where the loop stands: reading, awaiting a row it needs, waiting below the cap, draining, closing |
| `owned` | the execution row still names this carrier |

The chain's head is answered by the database in one step: the row lands, with or without half a
character left behind (`split`), is refused because fence or slot are gone, or throws with its effect
lost or only its answer; behind a failure rows are abandoned. A producer whose wait for the cap is over
goes on before the next answer (`Answers`). One kind of row,
`note`, stands for the awaited rows without content; permission rows, deduplication of re-sent rows on
a resume, the batch of raw source rows, the backoff and cadence of checkpoints (any event may sample
one) and truncated contents are left out. A crash needs no action: `ResumeSkipsNothing` is an invariant
of every state, so also of the one a crash leaves.

| Run | Instance | Shows |
|---|---|---|
| `writer` | 3 events, 2 checkpoints, 2 rows in the queue | `ResumeSkipsNothing`: what `runner_seq` says a resume need not ask for is in the rows. `CursorPairsContent`: a checkpoint cursor names exactly the rows its content holds. `FinalContentHoldsLog`, `FinalContentStays`: the content of an ended turn has every content row and no late checkpoint replaces it. `NobodyStuck`: a carrier that waits has something due (`SomethingIsDue`: an entry at the head of the chain, an answered checkpoint, or its own next step), so producer, chain, terminal and checkpointer never wait for each other; `DueGoesOn`: what is due can be done. `KeepsMessageLog`: all of it is a run of `MessageLog`. `TypeOK` |

Bounds: three events are a row in the log, one in the queue and one in the buffer at once; two
checkpoints one in flight and one behind it; two rows the smallest cap under which a buffer and another
row fit in one task. Deadlock is not checked: a writer that stopped rests; `NobodyStuck` and `DueGoesOn`
say it of every other state.

`MessageLog` is the abstract promise to whoever reads the message: what the runtime said, the rows, the
stored content with the row its cursor names, and the terminal, with four steps (`Say`, `Add`, `Save`,
`End`). A row takes what comes next of what was said, a content stored with a cursor is the rows up to
there, the terminal comes last with a content that holds every row, and nothing changes behind it.
`KeepsMessageLog` maps `said <-` the content among `events`, `rows <-` the content of each row of
`log`, `stored <- content`'s prefix with its cursor, `ended <-` a terminal in the log. Buffer, chain,
latch, checkpointer, fences and call stacks are stutters.

## 6. SessionHold

One chat session: who may write its transcript. A turn, a terminal running the framework's own TUI
and the import that follows a terminal exclude each other by compare-and-set on the session's row.

| Variable | Code |
|---|---|
| `inflight`, `holder`, `pending`, `ref`, `cursor` | `chat_sessions`: slot taken, `holder_terminal_id`, `import_pending_since`, `framework_session_ref`, `runtime_sync_cursor` |
| `stamps` | how many releases there were; a release's stamp is its number |
| `row[t]` | `terminal_sessions`: live or ended, `held_session_id` set |
| `opening[t]` | the handler that takes the hold: `acquire`, `markHeld`, the tunnel |
| `closing[t]` | the handler whose `end()` won: kill, release |
| `left[t]`, `giving[t]`, `moving[t]` | hook handlers: a SessionEnd report, a decided release, a move of the held session |
| `tui[t]` | the transcript the terminal's CLI writes |
| `job[j]` | `settlePendingImport`, `syncRuntimeSessionIntoCloud`, `abandonPendingImport` |
| `file[r]`, `unread[r]` | the transcript's lines; those a terminal wrote under its hold that the cloud lacks |

A handler is one action per await: what it read may be stale when it goes on, and with `Crashes` it
may stop between any two. Every path that ends a terminal (tunnel closed, inventory, takeover, user,
lease reaper) is `EndTerminal`, with the kill where the path has one; leases and grace times are
dropped, so the reaper may come at any time. Lines written without the hold by a process that
survived its kill are promised to nobody and not tracked.

| Run | Instance | Shows |
|---|---|---|
| `hold_import` | 1 terminal with hooks, 2 jobs, 1 ref, 2 lines, 2 releases, crashes | `NothingLeftBehind`, `NothingBuried`, `SettleSawEverything`, `KeepsTranscript` |
| `hold_moves` | 1 terminal with hooks, 1 job, 2 refs, 1 line, 1 release | `TypeOK`, `SettleSawEverything` |

Bounds: two jobs for the settle of a release and the turn gate's retry of it, two releases for a
stamp that is replaced under a settle, two lines for a read that falls between them, two refs for a
move. One terminal can hold, release and hold again while reports of its first hold are still under
way; that a second one changes nothing is proved. `hold_moves` does without crashes and a second release,
which would not finish; `SettleSawEverythingHolds` covers them. Deadlock is not checked: a session whose
terminals have ended and whose releases are spent may rest. `NothingBuried`, `NothingLeftBehind` and
`KeepsTranscript` hold only while the session keeps its ref (sections 10, 11): `moveHeldRef` reads the old transcript's tail
and then moves, fenced on the hold alone, so that what a TUI which has gone back to the old transcript
writes in between stays there.

`Transcript` is the abstract promise about one transcript: a turn or one holder writes it; what a holder
wrote is due to the cloud; giving the hold back owes an import in the same step; a turn begins only when
nothing is owed; that is settled when nothing is due any more, or the user gives it up; and no line that
is due is passed by. `KeepsTranscript` maps `turn <- inflight`, `owed <- pending # 0`,
`due <- unread[ref]`, `passed <- cursor` (0 for null). Hooks, handlers, kills, reads, stamps and the jobs
up to their effects are stutters. A move to another transcript starts another promise.

## 7. The daemon turn: ExecBuffer and FencedDispatch

`ExecBuffer` is one run of an agent on a daemon's machine. The agent is detached and outlives the daemon;
the daemon tails the log it writes, publishes events into `events.jsonl`, and ends the run with a final
record and a status in `meta.json`. `Crash` may come between any two writes; `Recover` is what the next
daemon does with what it finds (four cases). `FencedDispatch` EXTENDS it by the two ends of a connection,
the frames between them, and the API's turn.

| Variable | Code |
|---|---|
| `agent`, `spawned`, `raw` | the agent process, how many were started, the length of its log |
| `logs`, `meta`, `owner`, `stopped`, `events`, `final` | the run's files: raw logs, `meta.json` (status, owner record, abort stamp), `events.jsonl`, `final.json` |
| `up`, `stream`, `tail`, `phase`, `verdict`, `starters` | the daemon's memory: the `ExecStream`, `LogTail.offset`, where it is with the run, `exec.start` handlers waiting for their setup |
| `gens`, `dsock`, `asock`, `losses` | connections dialled; the one each end believes in |
| `wire`, `back`, `sub` | frames to the daemon, events and answers to the API, the request subscribed to the run |
| `turn`, `req`, `got` | the turn as the API has it, its pending rpc, the seqs its consumer got |
| `listed`, `absent`, `judging` | reconciliation: the hello lists the run, the silence to be rechecked, the recheck that has claimed the turn |
| `grace`, `missed` | the age of an ended run (listed, too old to be listed, collected); history: some hello left out a run that it should have listed, or was skipped |

Grain. The daemon is one event loop: an action runs to the next await of its handler, and `AtAwait` lets a
frame in only there. On the API a call and its pending entry are one step; frames of a lost connection
are dropped at the end that notices. Abstractions: one run id with a file-backed execution, one API
instance; stdout stands for both logs; a `publishAll` of several chunks is several `Publish` steps; open,
hello and registration of a connection are one step (`Dial`); the API may give up probing at any time
(`GivesUp`), and lease and age gates of the reconciliation are time that may pass; the consumer's durable
log is `got`. A run killed at its deadline ends as an aborted one does, with a final of its exit code. Left
out: runs on pipes, the spawn-error line, failed appends, a profile lease lost while the daemon was down,
probes through a peer instance, the pod runners' driver, which resends on its own, and the cancel of a
suspended turn.

Age. A hello lists a run for an hour after its end (`isStillActionable`, here `Actionable`), and at the
same age its buffer is collected: `GraceEnds` and `Collects`. An hour is far more than what a dispatch
without an event waits for its connection, its probe and its deadline, so that neither happens while one
does; nothing else restrains them. A run whose final was written and whose status was not is collected by the
day's age of its directory (`HalfEnded`). `events`, `final` and `meta` of a collected run keep what was
told of it; to the daemon it is gone (`OnDisk`, `Account`). A buffer directory that cannot be read makes
`Dial` tell an empty list. A hello that lists a run of which the adapter of the lost connection is still
there is skipped (`Skipped`), and followed by the recheck of a run that is absent.

`SetupWaits` says whether other frames are handled while an `exec.start` waits for its profile lease or
temporary settings. FALSE are the runs without either; TRUE is the finding `daemon_double_start`.

| Run | Instance | Shows |
|---|---|---|
| `daemon_turn` | 2 bytes of output, 2 lost connection ends or unreadable directories, 1 crash, no setup | `TypeOK`; `EventsTile`, `FinalIsWhole`: the event log carries the output once and in order over every takeover, and a run reported as finished has no agent and a whole log; `InOrderOnce`, `OkIsWhole`: so does what the API gets; `OneAgent`; `GoneIsOver`: a turn closed because no hello lists it has no dispatch under way that could start an agent, and if it had one its run is over, unless a hello could not read the buffers or was skipped (section 11); `TurnEnds` |
| `daemon_double_start` | 1 byte, 2 lost ends, no crash, with setup | `OneAgent` is violated (section 11) |

Bounds: two bytes allow two events, and a takeover between them; two lost ends are
a lost dispatch with a lost probe, or one of these with a suspension; one crash may hit any write of the run, its recovery included,
and the proofs cover any number. Fairness (`Fairness`): handlers and timers run, agents end because
runs have deadlines, a supervisor starts a daemon that died, the other end of a lost connection
notices, the daemon dials again. Losses, crashes, kills, stops, cancels and old age have none. Deadlock is not
checked: a turn that has ended rests.

## 8. ChannelBridge

One conversation (one scope of one channel, one chat session). A message is numbered as it arrives; its
turn, the observer that waits for the turn and the outbox row of its reply bear the same number.

| Variable | Code |
|---|---|
| `seen[e]` | what a listing (`listRecoverableInboundEvents`) has read of a row that may still be claimed: event and queue reason |
| `row[e]` | the inbound row of `channel_deliveries`: status, `errorMessage` = in-flight queue reason (`queued`), the messages its `eventJson` carries (`text`), `turnMessageId` set (`plan`), `attemptCount` (`tries`) |
| `hand[e]` | the live `handleInbound` of a claimed row: where it is, the event and the reason it was called with |
| `slot`, `turn[e]` | who has the session; the assistant message a row's turn has, and the messages in it |
| `watch[e]` | the observer: created, waiting, sending, draining; gone when its process dies or the turn is suspended |
| `out[e]`, `sender[e]` | the outbox row (status, `sendAttemptStartedAt`, attempts) and the sweep that claimed it |
| `posts[e]`, `runs[e]`, `doubtful` | history: replies the platform took, turns a message ran in, sends repeated with an unknown outcome |
| `unrecorded`, `drain`, `visits`, `faults` | observers without an outbox row; an earlier turn of the conversation has yet to drain the queue; bounds |

`handleInbound` is `Claim` ... `Accepts`, one action per await that others can observe. A claim is a
compare-and-set on the row's status only, so a handler runs with any event and reason in `seen`: every
step is followed by a listing of the rows as they are then (`Lists`). The finalizers are `Takes*`, `Inline*` and `Drains`; the sweeps `Claim` (replay),
`Reconciles` and the `Sweep*` actions. Errors of the database, of `sendMessage` behind the assistant message
and of the platform, and deaths of the processes of handler, observer and sweep are faults, of which
`MaxFaults` may happen. Time is left out: backoffs, minimum ages and the caps on waiting may have passed at
any moment. Assumed: a live handler or sweep takes less than the five minutes after which its row may be
taken over, an inline send less than the two minutes of grace; a statement that fails has no effect.
A turn's text being merged with attachments in the queue is a free choice of the merged prefix.

| Run | Instance | Shows |
|---|---|---|
| `channel_bridge` | 2 messages, queue of one, 2 attempts, 1 guest, 1 fault | `OneRun`: whatever is merged, retried, replayed or adopted, no message runs in two turns. `NothingLost`: an accepted message is in the text of a row that has its turn or another fate of its own (what such a turn then runs is the question of `RunsItsText`). `ReplyOwed`: a turn that was started is owed its reply on record, unless the insert failed. `ReplyOnce`: observer and sweeps post one reply, unless a send of unknown outcome is repeated. `TypeOK` |
| `channel_stale_event` | the same without faults | `RunsItsText` is violated (section 11) |

Bounds: two messages are a carrier and one merged into it, with a turn of the conversation before them as
the guest; the guest is otherwise a turn from the web or a terminal. One fault may hit any step. Two
attempts tell a retry from an exhausted row. Deadlock is not checked: a conversation whose replies are
sent rests. That a queued message is some day answered is not checked: the sweeps tick for ever, but a
liveness check of this size did not finish.

## 9. How the runs are made

`MC*` modules only add symmetry sets, runtimes and, for liveness, the fault budget. Symmetry over
instances or clients is used in safety runs only. Operators marked `mutant` beside a definition are
plausible mistakes in it; with one in its place the run that names it in `PROJECT.json` fails.
Deadlock is checked in the other runs of `TurnOwnership` and `StreamPump`; `turn_recovers`, where a
session with all its turns closed and the fault budget spent may stop, and the `hold_`, `writer`, `daemon_`
and `channel_` runs, where something that has ended rests, do without. Between them the passing runs take
every action.

## 10. What is proved

For any sets of instances and messages, any placement of turns on runtimes and any bounds. The proofs
about `TurnOwnership` use its assumptions `NoneAssumption`, `RuntimeAssumption` and `BoundsAssumption`;
those about `StreamPump` (any clients, rows and batch limit) its `BatchAssumption`; those about
`StreamWriter` (any number of events and checkpoints, any cap of two rows or more, as one task may carry
two) its `WriterAssumption`; those about `SessionHold` (any terminals, refs, jobs and bounds, with and
without hooks and crashes) its `HoldConstants`; those about `ExecBuffer` and `FencedDispatch` their
`BufferAssumption` and `DispatchAssumption`; those about `ChannelBridge` its `BridgeAssumption`. Besides,
`NothingLeftBehindHolds`, `NothingBuriedHolds` and `ImplementsTranscript` are about sessions that keep their
ref, and the theorems on the daemon's turn, `ImplementsBuffer` excepted, about `SetupWaits = FALSE`; nothing else is assumed.

| Module | Theorems |
|---|---|
| `TurnSafety_proofs` | `TypeCorrect`, `ProvenanceHolds`, `StreamsOwnedHolds` |
| `TurnAgreement_proofs` | `AgreementHolds`; from it `TerminalIsLastHolds`, `GenerationsInOrderHolds`, `AuthorsOwnRowsHold`, `ClosedTogetherHolds`, `SlotFollowsTurnHolds`; `ImplementsLedger`; `FencesUniqueHolds` |
| `StreamPump_proofs` | `PumpInvariant`; from it `PumpTypeCorrect`, `OnlyOvertakenSkip` |
| `StreamWriter_proofs` | `WriterInvariant`; from it `WriterTypeCorrect`, `ResumesSkipNothing`, `CursorsPair`, `FinalContentHolds`, `FinalContentIsFinal`; `ImplementsMessageLog`; `WaitsEnd` |
| `SessionHold_proofs` | `TypeCorrect`, `SettleSawEverythingHolds`, `NothingLeftBehindHolds`, `NothingBuriedHolds`, `ImplementsTranscript`, `OneTranscript` |
| `ExecBuffer_proofs` | `BufferInvHolds`, `EventsTileHolds`, `FinalIsWholeHolds` |
| `FencedDispatch_proofs` | `ImplementsBuffer`, `OneAgentHolds`, `GoneIsOverHolds`; `DeliveryHolds` and from it `InOrderOnceHolds`, `OkIsWholeHolds`, `TypeCorrect` |
| `ChannelBridge_proofs` | `TypeCorrect`, `OneRunHolds`, `NothingLostHolds`, `ReplyOwedHolds`, `ReplyOnceHolds` |

None of `TurnOwnership`'s safety properties is inductive. `ClosedTogether`, for one, is broken by a step from the
(unreachable) state in which an unfenced terminal lands on a turn that has just been stamped. The
strengthening is in `TurnInvariant`, in layers; a layer is kept by every step from a state that
satisfies the layers before it.

1. `TypeOK`.
2. `Provenance`: an id is minted before its assistant row, the row exists before anyone carries,
   claims or owns the turn, and one dispatcher at most is on its way to the first execution row, which
   does not exist yet. Most actions are *quiet* (`QuietDb`, `QuietActors`): they create nothing of
   the kind, and one lemma (`QuietKeeps`) covers them.
3. `StreamsOwned`: a stream that still takes rows belongs to the carrier of its instance and bears that
   carrier's fence; a stream without a fence belongs to a dispatch. This is what makes an unfenced
   write harmless: with layer 2 it can only come from a turn without an execution row.
4. `Agreement`: the five safety properties on log, execution row and slot, together with `LogAgrees`
   (no row is newer than the execution row; a dispatcher still has the slot, or the turn has ended).
   Here every action is first reduced to one of six *shapes* of a step on the database (`Stays`,
   `Opens`, `Abandons`, `Owns`, `Adds`, `Ends`), lemma `StepShape`; the shapes keep the agreement, and
   each is a step of `TurnLedger` or a stutter (`ShapeRefines`), hence `Spec => KeepsLedger`.
5. `FencesUnique` with `FencesHandedOut` (no held generation is above the execution row's): every
   step keeps, drops or passes on a generation inside one process, or gains the one that its takeover
   has just created (`Handing`).

`OthersSkipNothing` compares what a client processed with the cursor of its connection, and says nothing
of a query in flight. `PumpInv` ties the two (`HoldsInv`: what a client holds runs from its base up to
one row, which is its cursor while it is connected) and says where the query stands (`FromInv`: it
starts ahead of no subscriber but those it has overtaken), so that what an answer carries goes on where
each of the others is; `BoundsInv` keeps it all within the log.

In `StreamWriter` log, queue and buffer are stretches of one sequence, and `WriterInv` says so: the
queue's rows follow each other between the log and the buffer, without a gap unless the stream has failed
(`QueueInv`, with tasks in one piece and `queuedRows` equal to what is still to be retired), a row lies
behind no lost one and a terminal is the last (`LogInv`), the buffer has nothing but tokens and lines
rise. The carrier waits for a row only as long as that is in the queue (`AwaitInv`); what was admitted
is folded but for the one event whose row is awaited or lost (`FoldInv`); `lastContentId` names the last
content row as long as nothing failed (`PairInv`), and a sampled checkpoint pairs from the sample on
(`JobsInv`). Without `FoldInv` and `PairInv` neither `CursorPairsContent` nor `FinalContentHoldsLog` is
kept by the step that samples or closes.

`ImplementsMessageLog` first reduces every step to what it does to events, log and content
(`MessageStep`: nothing, one event more, a checkpoint while the turn is open, or one row that follows the
log), then each of these to a step of `MessageLog` (`MessageSays`, `MessageSaves`, `MessageAdds`). A row that
follows holds, with the rows before it, the content up to its own end (`PieceFacts`); that a stored content
matches its cursor, and the terminal's holds all rows, comes from `WriterInv` of the next state.

`NobodyStuck` is not inductive: it says that something is due while the carrier waits, not why. `WaitInv`
does: a carrier that awaits its note, its suspension or its terminal has that entry in the queue
(`CarrierWaits`), the marker of a checkpoint without an answer is in the queue, and a job waits only
behind another (`JobsWait`). A chain that is not empty has its head due unless that head is a row whose
answer a producer with room again comes before, and then that producer is due. `EntriesStay` covers the
steps from which nothing leaves the queue; the others are the chain's, which take its head alone.

`SettleSawEverything` speaks of a settle between its read and its clear; alone it says nothing of the
step that reads. `SettleInv` adds that a turn runs only on a row neither held nor pending
(`TurnExcludes`), that no job's stamp is newer than the last release (`StampsPast`), so that a release
always outdates every settle under way, and that a settle whose stamp still stands works on the
session's ref from its load on (`SettleOnRef`). Each action is one of five kinds of step, a lemma
each: it leaves row and jobs alone (`RestStep`), runs under a hold (`HeldStep`), releases
(`ReleaseStep`), belongs to a turn (`TurnStep`) or to a job (`JobStep`).

`NothingLeftBehind` and `NothingBuried` are proved under `[][ref' = ref]_ref`, as long as the session keeps
its ref, whatever other transcripts the terminals write meanwhile; a session with one transcript meets
that (`OneTranscript`), and sections 6 and 11 say how a move breaks them. `KeptInv` adds what a sync knows of
the lines on its way: none at or below the cursor it loaded is unread, none up to its end once it has
appended, and none at all behind a settle whose stamp still stands when it clears (`JobFits`). The last
comes from `SettleSawEverything`.

`ImplementsTranscript` rests on the same invariants, in both states of a step: `TurnExcludes` makes a hold's
steps free of turns, `KeptInv` of the next state says that a cursor just stored passes nothing that is due, and
`JobFits` that a settle which clears leaves nothing. Four lemmas say what the steps are: `QuietPromise` (a
stutter), `ImportPromise`, `PassPromise`, and `PromiseStep`, which puts them under the abstract `Next`.

`EventsTile` says nothing of a tail and `FinalIsWhole` nothing of a verdict that is still to be written.
`BufferInv` adds that the ends of the events rise and the tail of a watched run is the last of them
(`EndsRise`, `TailAtEnd`: an adopted run goes on where the log ends), what phase and memory say of each
other (`PhaseFits`), that a start under way finds nothing of an earlier run (`StartsClean`), and that a
verdict of success is already whole (`VerdictIsWhole`). One lemma per action.

`ImplementsBuffer`: whatever the connections and the API do, the daemon of a dispatched turn takes steps
of `ExecBuffer` or stutters, so `EventsTile` and `FinalIsWhole` hold of it. `OneAgent` follows the one
frame that can start the run. `DispatchInv` is `BufferInv` with `FrameInv`: one frame on the wire at most
starts the run or asks for it (`OneAsk`), a start travels only while nothing of the run exists
(`StartIsFresh`), the answer "no buffer" is still true when it is read (`LostIsFresh`), and what the
current hello does not list does not exist, is over or was missed (`AbsentIsSettled`); a lost dispatch has
left nothing on the connections (`RecoveringIsQuiet`), and its run does not grow old (`GraceIsLong`).
`GoneIsOver` follows from `GoneIsSettled`: what was settled when the turn was closed stays so, as there is
no dispatch left that could change it. `SetupWaits = FALSE` is needed here: with a start
that waits unseen, none of these answers proves anything.

`InOrderOnce` and `OkIsWhole` rest on `DeliveryInv`, which follows the one pending request: it is on the
wire, being set up, followed, or answered, one of these only, and asks for what lies behind the adapter's
last event (`OnWire`, `SetUp`, `Followed`). The frames on their way back are the run's next events in
order, with an answer behind them at most, and success is told only of a run that ended with all its
events sent (`InLine`). A turn that waits without a request has left nothing on the connection (`WaitingIsQuiet`), and
neither events nor a final are ever taken back, so that what a dead daemon had told stays true. The bound
on what a request asks for, in `TypeOK`, is a consequence.

`ChannelBridge`'s invariant has a local and a global half. `LocalInv` says of each message by itself what
fits together: a live handler has its row and knows whether its turn exists (`RowFits`), what a listing
has read of a row that may be claimed is within what the row has been (`SeenFits`), nothing is owed or
observed before the turn exists and the reply is owed before the observer knows its turn (`ObserverFits`),
whoever sends has the outbox row, stamped (`SenderFits`), and a reply once posted leaves nobody on the way to
post it again (`PostFits`). An action touches its own message only (`Alone`); a drain and /stop also touch
rows that wait, which have neither handler nor turn (`QueueFits`). The global half is about texts that
merges move: of two rows that carry the same message one is merged away (`TextsApart`), and a message that
has run has run once, in a turn whose text has it (`RunsInTurns`). Every action but the merge of the queue
and the start of a turn keeps the texts (`KeepsTexts`); those two have lemmas of their own (`MergeTexts`,
`SendRunsOnce`).

Only model-checked: liveness (`SlotComesBack`, `CatchesUp`, `ReplayArrives`, `TurnEnds`) and
`DueGoesOn` of `StreamWriter`, which is stated by `ENABLED`. The proof system reaches neither.

## 11. Findings

Runs that find a violation:

* `pump_gap`. `runPump` sends a query's rows to the subscribers it finds when the query answers. A
  client that subscribed meanwhile with an older cursor gets the newer rows, its cursor jumps over the
  ones between, and its next reconnect starts behind them: they are never sent, although
  `chat.controller.ts` relies on the log to "replay the gap".
* `daemon_double_start`. `execStart` registers the `ExecStream` only after it has awaited the profile lease
  (up to a minute) and the temporary settings. If the connection is replaced in between, the probe of
  the next one is answered "no buffer for refId", the turn is dispatched again, and two agents start.
  `daemon-fenced-dispatch.service.ts` relies on `exec.start` registering "synchronously on receipt". A
  cancel that comes in the window is dropped for the same reason.
* `channel_stale_event`. The replay sweep parses the events of its listing and replays them one by one,
  each waiting up to a minute for its reply. `handleInbound` claims the row but runs the event it was
  passed. If the drain of another turn has merged the queue into a listed row, that row's old text runs
  alone and the merged messages, marked accepted, never reach the agent; the repository's comment says
  "a crash can never lose a message", and here none is needed.

Reachable in the models, read off while writing them, without a run of their own:

* What a daemon's silence means. `isStillActionable` drops a run that ended an hour ago, so a turn whose
  delivery lagged that long is closed as unresumable although its run succeeded: the comments on
  `COMPLETE_GRACE_MS` (`exec-buffer.ts`) and `unmatchedTurnVerdict` (`daemon-exec-resume.service.ts`) tell
  how this happened. `GoneIsOver` therefore says that the run is over, not that there was none.
* `ws-client.ts` says that "a failed enumeration must NOT masquerade as" an empty list, and catches what
  `enumerateInflightForHello` throws; but that function catches a failing `readdirSync` itself and returns an
  empty list, upon which the API closes every turn the daemon still runs (`missed`).
* A hello whose resume is skipped because the turn's adapter still runs here arms the recheck for absent
  runs. That recheck looks at the adapter and the lease, never at what the hello listed: if the adapter
  suspends the turn on the same connection, the turn is closed although its run goes on (`Skipped`). For
  a resume refused by an owner elsewhere the code says why this must not be done and replays the hello.
* `terminalizeDeadInflightTurn` runs on every subscribe and decides from this process's `runningAdapters`
  and streams whether a turn is alive. For a turn without an execution row, such as one in set-up, a
  subscribe on another instance closes it under its live carrier with a `server_restart` terminal. The
  comment on `latestDeadInflightMessage` speaks of a turn "whose API process died".
* `advanceRuntimeSyncCursor` compares the cursor's value only. A sync that loaded the old ref with no
  cursor sets the cursor of a ref a turn has moved to meanwhile, and the import never looks below it,
  although "a new file has no covered prefix" (`chatSessions.ts`): with two refs `NothingBuried` fails.
* `acquire` takes the hold and then marks the terminal's row; a takeover or reaper that ends the row in
  between releases nothing, and nobody looks at an ended row again. A crash between `end()` and the
  release has the same effect. The session stays held, although "a hold must not outlive its tunnel"
  (`terminal-holder.service.ts`).
* A crash of the daemon between the spawn and the owner record leaves a live agent whose run is reported
  as crashed. `TurnEnds` and `OneAgent` hold, as the fenced dispatch does not start such a run again; the
  pod runners' driver, which resends, would put a second agent beside it.
* A stop of the daemon's file-backed runs kills agents without an exit line; the next daemon then reports
  "daemon process crashed", although the abort was stamped "so the completion reads as cancelled".
* A cancel frame on a connection that is lost leaves the agent running to its end.
* A closer's replay reads five of the seven content row types: permission cards are not in the final
  content it rebuilds.
* Claiming an inbound row clears its queue reason. After a failure, a crash or from an older listing a
  message that has been acknowledged counts as new: it may be acknowledged again or discarded as "Queue
  is full", which the comment in `queueBusyInbound` excludes.
* An inbound row that is given up after its turn was created (`dead`) is owed no reply; neither is a turn
  whose outbox row could not be recorded once its observer's process dies.

## 12. Not modelled

See `components` in `PROJECT.json` for every part with its reason. Inside the modelled parts:

* turns: session reset and user deletion, runner start parking, usage writes, the shutdown broadcast and
  disposal of pumps;
* hold: imports abandoned because the agent's runtime changed, transcripts with an unfinished turn and
  readers that cannot count lines, refs a terminal leaves behind, lease times of terminals, and two
  releases in one millisecond (stamps are distinct here);
* daemon and channels: what sections 5, 7 and 8 name.

Service and channel leases are left out: one leader is a statement about clock skew and pauses, which
the code does not bound, and what a second leader would break is guarded by the rows' own compare-and-set,
which is modelled. The daemon's update drain, process and file locks depend on what the file system and
reused pids do. Automations and A2A tasks are claims on single rows in front of the same `sendMessage`;
they are left for later. User interfaces, provider adapters and CRUD modules are left out on purpose:
their behaviour is I/O and rendering.
