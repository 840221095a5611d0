----------------------------- MODULE ExecBuffer -----------------------------
(***************************************************************************)
(* One agent run on a daemon's machine: the detached agent process, the    *)
(* files it and the daemon write, and the daemon that tails them, with     *)
(* the daemon crashing between any two writes and adopting the run again   *)
(* (cli/daemon/exec-buffer.ts, exec-files.ts, rpc.ts).                     *)
(*                                                                         *)
(* A byte of output is a number; stdout stands for both logs.  An event is *)
(* the range (off, to] of the log it carries; its seq is its position.     *)
(***************************************************************************)
EXTENDS Naturals, Sequences

CONSTANTS
    MaxOutput,   \* bound: bytes an agent writes
    MaxCrashes,  \* bound: crashes of the daemon
    SetupWaits   \* other frames are handled while an exec.start waits for its
                 \* profile lease or temporary settings

ASSUME BufferAssumption ==
    MaxOutput \in Nat /\ MaxCrashes \in Nat /\ SetupWaits \in BOOLEAN

VARIABLES
    up,        \* the daemon's process runs
    crashes,   \* how often it crashed
    starters,  \* the exec.start handlers that wait for their setup
    spawned,   \* agents started so far: 0, 1, or 2 for more than one
    agent,     \* the agent: not started, running, exited behind an exit line, killed without
    raw,       \* length of the log the agent writes
    logs,      \* the log is on disk
    meta,      \* meta.json: its status, or none
    owner,     \* meta.json names the process that owns the run
    stopped,   \* meta.json: abortRequestedAt
    events,    \* events.jsonl
    final,     \* final.json: how the run ended, or none
    stream,    \* execStreams: the status of the stream in memory, or none
    tail,      \* LogTail.offset
    phase,     \* where the daemon is with the run
    verdict    \* the final it is about to publish

process == <<up, crashes, starters, spawned, agent, raw>>
disk == <<logs, meta, owner, stopped, events, final>>
memory == <<stream, tail, phase, verdict>>
bufferVars == <<process, disk, memory>>

Statuses == {"none", "running", "completed", "aborted", "crashed"}
Finals == {"none", "ok", "cancelled", "refused", "lost", "crashed"}
Entry == [off : 0..MaxOutput, to : 0..MaxOutput]
Phases == {"none", "spawn", "own", "watch", "drain", "release", "final", "meta"}

StatusOf(f) == CASE f = "cancelled" -> "aborted"
                 [] f \in {"ok", "refused"} -> "completed"
                 [] OTHER -> "crashed"

\* Between two awaits nothing but the agent and a crash comes in between.
AtAwait == phase \in {"none", "watch", "release"} /\ (SetupWaits \/ starters = {})

\* What exec.start recognises: a run that goes on, or one that has its final.
Known == stream = "running" \/ (meta \notin {"none", "crashed"} /\ final # "none")

Ends(es) == {0} \cup {es[i].to : i \in DOMAIN es}
TailOffset(es) == CHOOSE m \in Ends(es) : \A n \in Ends(es) : n <= m

BufferInit ==
    /\ up = TRUE /\ crashes = 0 /\ starters = {} /\ spawned = 0
    /\ agent = "none" /\ raw = 0
    /\ logs = FALSE /\ meta = "none" /\ owner = FALSE /\ stopped = FALSE
    /\ events = <<>> /\ final = "none"
    /\ stream = "none" /\ tail = 0 /\ phase = "none" /\ verdict = "none"

-----------------------------------------------------------------------------
(* Starting *)

\* exec.start for an unknown run, its buffer collected perhaps: what a crashed
\* one left is removed, then the handler waits for its setup.  g names the frame.
ExecStart(g) ==
    /\ up /\ AtAwait /\ stream # "running"
    /\ starters' = starters \cup {g}
    /\ meta' = "none" /\ owner' = FALSE /\ stopped' = FALSE
    /\ logs' = FALSE /\ events' = <<>> /\ final' = "none" /\ stream' = "none"
    /\ UNCHANGED <<up, crashes, spawned, agent, raw, tail, phase, verdict>>

\* execStartFiles: the stream is registered, meta.json says running.
OpenStream(g) ==
    /\ g \in starters /\ phase \in {"none", "watch", "release"}
    /\ starters' = starters \ {g}
    /\ meta' = "running" /\ owner' = FALSE /\ stopped' = FALSE
    /\ stream' = "running" /\ phase' = "spawn"
    /\ UNCHANGED <<up, crashes, spawned, agent, raw, logs, events, final, tail, verdict>>

Spawn ==
    /\ phase = "spawn" /\ phase' = "own"
    /\ agent' = "runs" /\ spawned' = (IF spawned = 0 THEN 1 ELSE 2)
    /\ raw' = (IF logs THEN raw ELSE 0) /\ logs' = TRUE
    /\ UNCHANGED <<up, crashes, starters, meta, owner, stopped, events, final>>
    /\ UNCHANGED <<stream, tail, verdict>>

\* failBeforeSpawn: no such executable, or no process.
SpawnFails ==
    /\ phase = "spawn" /\ phase' = "release"
    /\ verdict' \in {"refused", "lost"}
    /\ UNCHANGED <<process, disk, stream, tail>>

\* The owner goes into meta.json only now; without it nobody adopts the run.
RecordOwner ==
    /\ phase = "own" /\ phase' = "watch"
    /\ owner' = TRUE /\ tail' = 0
    /\ UNCHANGED <<process, logs, meta, stopped, events, final, stream, verdict>>

-----------------------------------------------------------------------------
(* The agent *)

AgentWrites ==
    /\ agent = "runs" /\ raw < MaxOutput
    /\ raw' = raw + 1
    /\ UNCHANGED <<up, crashes, starters, spawned, agent, disk, memory>>

\* The wrapper survives a TERM and records how the agent ended.
AgentExits ==
    /\ agent = "runs" /\ agent' = "exited"
    /\ UNCHANGED <<up, crashes, starters, spawned, raw, disk, memory>>

\* A KILL takes the wrapper too: no exit line.
AgentKilled ==
    /\ agent = "runs" /\ agent' = "killed"
    /\ UNCHANGED <<up, crashes, starters, spawned, raw, disk, memory>>

-----------------------------------------------------------------------------
(* Watching *)

\* publishAll: one event with the log up to t.
Publish(t) ==
    /\ phase \in {"watch", "drain"} /\ logs
    /\ t \in (tail + 1)..raw
    /\ events' = Append(events, [off |-> tail, to |-> t])
    /\ tail' = t
    /\ UNCHANGED <<process, logs, meta, owner, stopped, final, stream, phase, verdict>>

\* abort: the stamp first, then the signals (AgentExits, AgentKilled).
Abort ==
    /\ phase = "watch"
    /\ stopped' = TRUE
    /\ UNCHANGED <<process, logs, meta, owner, events, final, memory>>

\* poll finds the exit line (finish), or no process behind it: killed at its
\* deadline (finish, with an exit code for it) or lost (crash).
PollEnds ==
    /\ phase = "watch" /\ agent \in {"exited", "killed"}
    /\ phase' = "drain"
    /\ verdict' \in CASE stopped -> {"cancelled"}
                      [] ~stopped /\ agent = "exited" -> {"ok"}
                      [] ~stopped /\ agent = "killed" -> {"ok", "lost"}
    /\ UNCHANGED <<process, disk, stream, tail>>

\* mutant: finish trusts the poll that saw the exit line and drains no more
NotDrained ==
    /\ phase = "drain"
    /\ phase' = "release"
    /\ logs' = (logs /\ verdict = "lost")
    /\ UNCHANGED <<process, meta, owner, stopped, events, final, stream, tail, verdict>>

\* The last publishAll has run; finish removes the log, crash keeps it.
Drained ==
    /\ phase = "drain" /\ tail >= raw
    /\ phase' = "release"
    /\ logs' = (logs /\ verdict = "lost")
    /\ UNCHANGED <<process, meta, owner, stopped, events, final, stream, tail, verdict>>

\* releaseOwned: a lease or directory that is not given back is a crash.
Released ==
    /\ phase = "release"
    /\ phase' = "final"
    /\ verdict' \in {verdict, "lost"}
    /\ UNCHANGED <<process, disk, stream, tail>>

\* complete: final.json, then meta.json.
WriteFinal ==
    /\ phase = "final" /\ phase' = "meta"
    /\ final' = verdict /\ stream' = StatusOf(verdict)
    /\ UNCHANGED <<process, logs, meta, owner, stopped, events, tail, verdict>>

WriteMeta ==
    /\ phase = "meta" /\ phase' = "none"
    /\ meta' = StatusOf(verdict) /\ verdict' = "none"
    /\ UNCHANGED <<process, logs, owner, stopped, events, final, stream, tail>>

-----------------------------------------------------------------------------
(* Crash and restart.  A daemon that stops and keeps its execs (detach) *)
(* leaves the same behind as one that crashes.                          *)

Crash ==
    /\ up /\ crashes < MaxCrashes
    /\ up' = FALSE /\ crashes' = crashes + 1 /\ starters' = {}
    /\ stream' = "none" /\ tail' = 0 /\ phase' = "none" /\ verdict' = "none"
    /\ UNCHANGED <<spawned, agent, raw, disk>>

\* stopOwnedFileExecs (mf daemon stop) stamps the abort and signals the agent.
StopExecs ==
    /\ ~up /\ meta = "running" /\ owner /\ final = "none" /\ agent = "runs"
    /\ stopped' = TRUE
    /\ UNCHANGED <<process, logs, meta, owner, events, final, memory>>

LeftRunning == meta = "running" /\ final = "none"
Restart == ~up /\ up' = TRUE
Kept == UNCHANGED <<crashes, starters, spawned, agent, raw, logs, owner, stopped, events, final>>

RecoverNothing ==
    /\ Restart /\ ~LeftRunning
    /\ Kept /\ UNCHANGED <<meta, memory>>

\* A run without a recorded owner is a crash, its agent alive or not.
RecoverUnowned ==
    /\ Restart /\ LeftRunning /\ ~owner
    /\ meta' = "crashed"
    /\ Kept /\ UNCHANGED memory

\* mutant: the adopted stream is registered, and nothing completes it
LostNotCompleted ==
    /\ Restart /\ LeftRunning /\ owner
    /\ ~logs \/ agent = "killed"
    /\ stream' = "running"
    /\ Kept /\ UNCHANGED <<meta, tail, phase, verdict>>

\* adoptFileExec: the log is gone (drained, the final not written), or the owner is.
RecoverLost ==
    /\ Restart /\ LeftRunning /\ owner
    /\ ~logs \/ agent = "killed"
    /\ stream' = "running" /\ phase' = "final"
    /\ verdict' = IF logs THEN "crashed" ELSE "lost"
    /\ Kept /\ UNCHANGED <<meta, tail>>

\* mutant: the tail starts at the front again
AdoptsFromStart ==
    /\ Restart /\ LeftRunning /\ owner
    /\ logs /\ agent # "killed"
    /\ stream' = "running" /\ phase' = "watch" /\ tail' = 0
    /\ Kept /\ UNCHANGED <<meta, verdict>>

\* adoptFileExec: watched again, from the last byte an event carries.
RecoverAdopts ==
    /\ Restart /\ LeftRunning /\ owner
    /\ logs /\ agent # "killed"
    /\ stream' = "running" /\ phase' = "watch" /\ tail' = TailOffset(events)
    /\ Kept /\ UNCHANGED <<meta, verdict>>

Recover == RecoverNothing \/ RecoverUnowned \/ RecoverLost \/ RecoverAdopts

AgentStep == AgentWrites \/ AgentExits \/ AgentKilled
WatchStep == PollEnds \/ Drained \/ Released \/ WriteFinal \/ Spawn \/ SpawnFails \/ RecordOwner

BufferNext ==
    \/ \E g \in Nat : ExecStart(g) \/ OpenStream(g)
    \/ AgentStep \/ WatchStep \/ WriteMeta
    \/ \E t \in 1..MaxOutput : Publish(t)
    \/ Abort \/ Crash \/ StopExecs \/ Recover

BufferSpec == BufferInit /\ [][BufferNext]_bufferVars

-----------------------------------------------------------------------------
(* What a run promises *)

BufferTypeOK ==
    /\ up \in BOOLEAN /\ crashes \in 0..MaxCrashes /\ starters \subseteq Nat
    /\ spawned \in 0..2 /\ agent \in {"none", "runs", "exited", "killed"}
    /\ raw \in 0..MaxOutput
    /\ logs \in BOOLEAN /\ owner \in BOOLEAN /\ stopped \in BOOLEAN
    /\ meta \in Statuses /\ stream \in Statuses
    /\ final \in Finals /\ verdict \in Finals
    /\ events \in Seq(Entry)
    /\ tail \in 0..MaxOutput /\ phase \in Phases

\* The event log carries every byte of the log once and in order up to some
\* point, however often the daemon died and took the run over again: an
\* adopted tail goes on where the last event ends.
EventsTile ==
    \A i \in DOMAIN events :
        /\ events[i].off = (IF i = 1 THEN 0 ELSE events[i - 1].to)
        /\ events[i].off < events[i].to /\ events[i].to <= raw

\* A run that is reported as finished or cancelled has no agent left, and its
\* event log, all that is kept of it, reaches the end of the output.
FinalIsWhole ==
    final \in {"ok", "cancelled"} => agent # "runs" /\ raw \in Ends(events)
=============================================================================
