----------------------------- MODULE SessionHold -----------------------------
(***************************************************************************)
(* Who may write one chat session's transcript.  A turn, a terminal that   *)
(* runs the framework's own TUI, and the import that follows a terminal    *)
(* exclude each other by compare-and-set on the session's row; nothing     *)
(* else orders them.  A terminal's hold ends by one of many paths, each of *)
(* several steps (end the terminal's row, kill, release), and the release  *)
(* marks an import pending that has to read what the terminal wrote before *)
(* the next turn may run.  Each await of a handler is a step of its own:   *)
(* everything it read before may be stale when it goes on.                 *)
(*                                                                         *)
(* Transcript lines are counted, not spelled out.  Only lines written by a *)
(* terminal while it held the session are promised to reach the cloud; a   *)
(* process that outlives its hold (a kill is best effort) writes lines     *)
(* nobody promised.                                                        *)
(***************************************************************************)
EXTENDS Integers, FiniteSets

CONSTANTS
  Terminals,    \* terminals ever opened on the session
  NoTerminal,   \* nobody holds the session
  Refs,         \* framework session refs: one transcript file each
  NoRef,        \* no TUI runs
  FirstRef,     \* the session's ref at the start
  Jobs,         \* imports, history syncs and abandons that may run at once
  MaxLines,     \* bound: lines of one transcript
  MaxStamp,     \* bound: releases of the session
  Hooks,        \* are the framework's session hooks installed on the machine?
  Crashes       \* may a process die between two steps of a handler?

ASSUME HoldConstants ==
  /\ NoTerminal \notin Terminals /\ NoRef \notin Refs /\ FirstRef \in Refs
  /\ MaxLines \in Nat /\ MaxStamp \in Nat /\ Hooks \in BOOLEAN /\ Crashes \in BOOLEAN

VARIABLES
  inflight,     \* the session row: a turn has the slot
  holder,       \* the session row: holderTerminalId
  pending,      \* the session row: importPendingSince, 0 for null
  ref,          \* the session row: frameworkSessionRef
  cursor,       \* the session row: runtimeSyncCursor, NoCursor for null
  stamps,       \* release stamps given so far; each release has its own
  row,          \* each terminal's row: does it live, was it marked as holder
  opening,      \* the handler that takes the hold: gateway, herdr or CLI hook
  closing,      \* the handler that ends the terminal, after its end() won
  moving,       \* the hook handler that moves the held session to a new ref
  tui,          \* the ref each terminal's TUI writes, NoRef when none runs
  left,         \* the ref of a SessionEnd report under way
  giving,       \* has a hook handler decided to give the terminal's hold back?
  job,          \* imports, syncs and abandons
  file,         \* lines in each transcript
  unread        \* lines of each transcript that a terminal wrote under its
                \* hold and the cloud lacks, unless the user gave them up

session == <<inflight, holder, pending, ref, cursor, stamps>>
actors  == <<row, opening, closing, moving, tui, left, giving, job>>
lines   == <<file, unread>>
vars    == <<session, actors, lines>>

NoCursor == -1
Cursors  == 0..MaxLines \cup {NoCursor}

NotOpening == [pc |-> "idle", ref |-> NoRef, by |-> "gateway"]
NotClosing == [pc |-> "idle", owes |-> FALSE]
NotMoving  == [pc |-> "idle", from |-> NoRef, to |-> NoRef, cursor |-> NoCursor, end |-> 0]
NoJob      == [pc |-> "idle", stamp |-> 0, ref |-> NoRef, cursor |-> NoCursor, end |-> 0]

TerminalRow == [status : {"none", "live", "ended"}, held : BOOLEAN]
Opening == [pc : {"idle", "acquire", "mark", "spawn"}, ref : Refs \cup {NoRef},
            by : {"gateway", "hook"}]
Closing == [pc : {"idle", "kill", "release"}, owes : BOOLEAN]
Move == [pc : {"idle", "read", "append", "move"}, from : Refs \cup {NoRef},
         to : Refs \cup {NoRef}, cursor : Cursors, end : 0..MaxLines]
Job == [pc : {"idle", "load", "read", "append", "advance", "clear", "giveup"},
        stamp : 0..MaxStamp, ref : Refs \cup {NoRef}, cursor : Cursors, end : 0..MaxLines]

\* A job, a move or an opening past its first step works on a transcript.
Aimed ==
  /\ \A j \in Jobs : job[j].pc \in {"read", "append", "advance"} => job[j].ref \in Refs
  /\ \A t \in Terminals :
       /\ moving[t].pc \in {"read", "append"} => moving[t].from \in Refs
       /\ moving[t].pc # "idle" => moving[t].to \in Refs
       /\ opening[t].pc # "idle" => opening[t].ref \in Refs

(* Types: no stamp comes from the future, handlers work on transcripts, and *)
(* unread lines are lines of their transcript.                              *)
TypeOK ==
  /\ inflight \in BOOLEAN /\ holder \in Terminals \cup {NoTerminal}
  /\ stamps \in 0..MaxStamp /\ pending \in 0..stamps
  /\ ref \in Refs /\ cursor \in Cursors
  /\ row \in [Terminals -> TerminalRow] /\ opening \in [Terminals -> Opening]
  /\ closing \in [Terminals -> Closing] /\ moving \in [Terminals -> Move]
  /\ tui \in [Terminals -> Refs \cup {NoRef}] /\ left \in [Terminals -> Refs \cup {NoRef}]
  /\ giving \in [Terminals -> BOOLEAN] /\ job \in [Jobs -> Job]
  /\ Aimed
  /\ file \in [Refs -> 0..MaxLines]
  /\ unread \in [Refs -> SUBSET (1..MaxLines)]
  /\ \A r \in Refs : unread[r] \subseteq 1..file[r]

Init ==
  /\ inflight = FALSE /\ holder = NoTerminal /\ pending = 0
  /\ ref = FirstRef /\ cursor = NoCursor /\ stamps = 0
  /\ row = [t \in Terminals |-> [status |-> "none", held |-> FALSE]]
  /\ opening = [t \in Terminals |-> NotOpening]
  /\ closing = [t \in Terminals |-> NotClosing]
  /\ moving = [t \in Terminals |-> NotMoving]
  /\ tui = [t \in Terminals |-> NoRef]
  /\ left = [t \in Terminals |-> NoRef]
  /\ giving = [t \in Terminals |-> FALSE]
  /\ job = [j \in Jobs |-> NoJob]
  /\ file = [r \in Refs |-> 0]
  /\ unread = [r \in Refs |-> {}]

UnheldOnly == holder = NoTerminal   \* mutant: a turn does not stop a hold or an import

Idle == ~inflight /\ holder = NoTerminal

LineCountOpen(r) == file[r] + 1   \* mutant: counts the line not yet terminated

\* The newline-terminated lines a reader finds in a transcript.
LineCount(r) == file[r]

\* What an importer takes of the transcript it read up to `end`: the lines past
\* the cursor it loaded, or without one those a content diff finds missing.
Taken(from, end) == (IF from = NoCursor THEN 1 ELSE from + 1)..end

-----------------------------------------------------------------------------
(* Turns. *)

ClaimableWhenIdle == Idle   \* mutant: a pending import does not stop a turn

Claimable == Idle /\ pending = 0

ClaimInflightTurn ==
  /\ Claimable
  /\ inflight' = TRUE
  /\ UNCHANGED <<holder, pending, ref, cursor, stamps, actors, lines>>

\* The turn's CLI writes a line that the live stream persists.
TurnWrites ==
  /\ inflight /\ file[ref] < MaxLines
  /\ file' = [file EXCEPT ![ref] = @ + 1]
  /\ UNCHANGED <<session, actors, unread>>

\* Before its `done` the turn records how far the transcript reaches, or null
\* when it could not count.
SetRuntimeSyncCursor ==
  /\ inflight
  /\ cursor' \in {file[ref], NoCursor}
  /\ UNCHANGED <<inflight, holder, pending, ref, stamps, actors, lines>>

\* The CLI answered with a session id of its own: a new, empty transcript.
Fresh(r) == r # ref /\ file[r] = 0 /\ \A t \in Terminals : tui[t] # r

TurnMovesRef(r) ==
  /\ inflight /\ Fresh(r)
  /\ ref' = r /\ cursor' = NoCursor
  /\ UNCHANGED <<inflight, holder, pending, stamps, actors, lines>>

ReleaseInflightTurn ==
  /\ inflight
  /\ inflight' = FALSE
  /\ UNCHANGED <<holder, pending, ref, cursor, stamps, actors, lines>>

-----------------------------------------------------------------------------
\* end() wins for exactly one of the paths that end a terminal, and returns the
\* row as it is then: what was marked as held is what will be released.  Hook reports
\* are taken from live terminals only.
Ended(t, next) ==
  /\ row' = [row EXCEPT ![t].status = "ended"]
  /\ closing' = [closing EXCEPT ![t] = [pc |-> next, owes |-> row[t].held]]
  /\ left' = [left EXCEPT ![t] = NoRef]

(* A terminal opens and takes the hold as the last step of its resume. *)

\* The resume argv is built from the ref read here; without one the terminal is
\* a plain shell.
Open(t) ==
  /\ row[t].status = "none"
  /\ row' = [row EXCEPT ![t].status = "live"]
  /\ \/ opening' = [opening EXCEPT ![t] = [NotOpening EXCEPT !.pc = "acquire", !.ref = ref]]
     \/ UNCHANGED opening
  /\ UNCHANGED <<session, closing, moving, tui, left, giving, job, lines>>

\* A TUI the user started in the terminal reports itself on an idle session.
HookStart(t) ==
  /\ Hooks /\ row[t].status = "live" /\ opening[t] = NotOpening
  /\ tui[t] = ref /\ Idle
  /\ opening' = [opening EXCEPT ![t] = [pc |-> "acquire", ref |-> ref, by |-> "hook"]]
  /\ UNCHANGED <<session, row, closing, moving, tui, left, giving, job, lines>>

\* The compare-and-set; losing it leaves a plain shell.
AcquireSessionHolder(t) ==
  /\ opening[t].pc = "acquire"
  /\ \/ /\ Idle /\ ref = opening[t].ref
        /\ holder' = t
        /\ opening' = [opening EXCEPT ![t].pc = "mark"]
     \/ /\ ~(Idle /\ ref = opening[t].ref)
        /\ opening' = [opening EXCEPT ![t] = NotOpening]
        /\ UNCHANGED holder
  /\ UNCHANGED <<inflight, pending, ref, cursor, stamps>>
  /\ UNCHANGED <<row, closing, moving, tui, left, giving, job, lines>>

\* The terminal's own row learns what it holds, whatever became of it meanwhile.
MarkHeld(t) ==
  /\ opening[t].pc = "mark"
  /\ row' = [row EXCEPT ![t].held = TRUE]
  /\ opening' = [opening EXCEPT ![t] =
       IF @.by = "gateway" THEN [@ EXCEPT !.pc = "spawn"] ELSE NotOpening]
  /\ UNCHANGED <<session, closing, moving, tui, left, giving, job, lines>>

Tunnel(t) ==
  /\ opening[t].pc = "spawn"
  /\ tui' = [tui EXCEPT ![t] = opening[t].ref]
  /\ opening' = [opening EXCEPT ![t] = NotOpening]
  /\ UNCHANGED <<session, row, closing, moving, left, giving, job, lines>>

\* finish('tunnel-failed'): the terminal ends and gives back what it holds.
TunnelFails(t) ==
  /\ opening[t].pc = "spawn"
  /\ opening' = [opening EXCEPT ![t] = NotOpening]
  /\ IF row[t].status = "live" THEN Ended(t, "release") ELSE UNCHANGED <<row, closing, left>>
  /\ UNCHANGED <<session, moving, tui, giving, job, lines>>

\* The process that opens the terminal dies.
OpeningStops(t) ==
  /\ Crashes /\ opening[t].pc # "idle"
  /\ opening' = [opening EXCEPT ![t] = NotOpening]
  /\ UNCHANGED <<session, row, closing, moving, tui, left, giving, job, lines>>

-----------------------------------------------------------------------------
(* The TUI in the terminal, and the user at its keyboard. *)

TuiWrites(t) ==
  LET r == tui[t] IN
  /\ r # NoRef /\ file[r] < MaxLines
  /\ file' = [file EXCEPT ![r] = @ + 1]
  /\ unread' = [unread EXCEPT ![r] = IF holder = t THEN @ \cup {file[r] + 1} ELSE @]
  /\ UNCHANGED <<session, actors>>

\* From the terminal's shell the user starts a CLI on any transcript.
TuiStarts(t, r) ==
  /\ row[t].status = "live" /\ opening[t].pc = "idle" /\ tui[t] = NoRef
  /\ tui' = [tui EXCEPT ![t] = r]
  /\ UNCHANGED <<session, row, opening, closing, moving, left, giving, job, lines>>

\* A resume that got a new id, or a compaction.
TuiRenames(t, r) ==
  /\ tui[t] # NoRef /\ Fresh(r)
  /\ tui' = [tui EXCEPT ![t] = r]
  /\ UNCHANGED <<session, row, opening, closing, moving, left, giving, job, lines>>

\* The TUI exits; its SessionEnd hook may report the ref it leaves, with a token
\* that an ended terminal no longer has.
TuiEnds(t) ==
  /\ tui[t] # NoRef
  /\ tui' = [tui EXCEPT ![t] = NoRef]
  /\ UNCHANGED left \/ (Hooks /\ row[t].status = "live" /\ left' = [left EXCEPT ![t] = tui[t]])
  /\ UNCHANGED <<session, row, opening, closing, moving, giving, job, lines>>

-----------------------------------------------------------------------------
(* The ways a hold is given back. *)

StampKept == IF pending # 0 THEN pending ELSE stamps + 1   \* mutant: an older stamp stays

Stamp == stamps + 1

\* One statement clears the holder and stamps the import pending.
ReleaseSessionHolder(t) ==
  /\ holder = t
  /\ holder' = NoTerminal /\ stamps' = stamps + 1 /\ pending' = Stamp
  /\ UNCHANGED <<inflight, ref, cursor>>

HeldByHook(t) == Hooks /\ row[t].status = "live" /\ row[t].held /\ holder = t

\* SessionEnd: the end of the session the terminal holds gives the hold back and
\* leaves the terminal alive; any other end changes nothing.
HookEnd(t) ==
  /\ left[t] # NoRef
  /\ left' = [left EXCEPT ![t] = NoRef]
  /\ IF HeldByHook(t) /\ ref = left[t] THEN giving' = [giving EXCEPT ![t] = TRUE]
                                       ELSE UNCHANGED giving
  /\ UNCHANGED <<session, row, opening, closing, moving, tui, job, lines>>

\* SessionStart on another ref, neither the terminal's first nor a compaction:
\* the TUI that held the session is over.
HookStaleHold(t) ==
  /\ HeldByHook(t) /\ tui[t] \notin {NoRef, ref}
  /\ giving' = [giving EXCEPT ![t] = TRUE]
  /\ UNCHANGED <<session, row, opening, closing, moving, tui, left, job, lines>>

\* The release both come to, whatever became of the hold since they looked.
ReleaseHeldByHook(t) ==
  /\ giving[t] /\ stamps < MaxStamp
  /\ giving' = [giving EXCEPT ![t] = FALSE]
  /\ IF holder = t THEN ReleaseSessionHolder(t) ELSE UNCHANGED session
  /\ UNCHANGED <<row, opening, closing, moving, tui, left, job, lines>>

\* The hook handler's process dies.
GivingStops(t) ==
  /\ Crashes /\ giving[t]
  /\ giving' = [giving EXCEPT ![t] = FALSE]
  /\ UNCHANGED <<session, row, opening, closing, moving, tui, left, job, lines>>

\* A tunnel that closed and an inventory that no longer names the terminal end
\* one whose process is gone; a takeover, the user and the lease reaper end one
\* that may still run, and kill it.
EndTerminal(t) ==
  /\ row[t].status = "live"
  /\ Ended(t, "kill") \/ (tui[t] = NoRef /\ Ended(t, "release"))
  /\ UNCHANGED <<session, opening, moving, tui, giving, job, lines>>

\* Best effort: the process may survive.
KillByHandle(t) ==
  /\ closing[t].pc = "kill"
  /\ closing' = [closing EXCEPT ![t].pc = "release"]
  /\ tui' \in {tui, [tui EXCEPT ![t] = NoRef]}
  /\ UNCHANGED <<session, row, opening, moving, left, giving, job, lines>>

ReleaseAndImport(t) ==
  /\ closing[t].pc = "release" /\ stamps < MaxStamp
  /\ closing' = [closing EXCEPT ![t] = NotClosing]
  /\ IF closing[t].owes /\ holder = t THEN ReleaseSessionHolder(t) ELSE UNCHANGED session
  /\ UNCHANGED <<row, opening, moving, tui, left, giving, job, lines>>

\* The process that ends the terminal dies, or its database call rejects.
ClosingStops(t) ==
  /\ Crashes /\ closing[t].pc # "idle"
  /\ closing' = [closing EXCEPT ![t] = NotClosing]
  /\ UNCHANGED <<session, row, opening, moving, tui, left, giving, job, lines>>

-----------------------------------------------------------------------------
(* The hook handler that lets the held session follow its TUI to a new ref:   *)
(* import the old transcript's tail under the hold, then move.                *)

MoveLoads(t) ==
  /\ HeldByHook(t) /\ moving[t] = NotMoving /\ tui[t] \notin {NoRef, ref}
  /\ moving' = [moving EXCEPT ![t] =
       [pc |-> "read", from |-> ref, to |-> tui[t], cursor |-> cursor, end |-> 0]]
  /\ UNCHANGED <<session, row, opening, closing, tui, left, giving, job, lines>>

MoveReads(t) ==
  /\ moving[t].pc = "read"
  /\ moving' = [moving EXCEPT ![t].pc = "append", ![t].end = LineCount(moving[t].from)]
  /\ UNCHANGED <<session, row, opening, closing, tui, left, giving, job, lines>>

\* The one append a hold allows, and only to its own terminal.
MoveAppends(t) ==
  LET m == moving[t]
      taken == Taken(m.cursor, m.end) \cap unread[m.from]
  IN
  /\ m.pc = "append"
  /\ taken = {} \/ (~inflight /\ holder \in {NoTerminal, t})
  /\ unread' = [unread EXCEPT ![m.from] = @ \ taken]
  /\ moving' = [moving EXCEPT ![t] = [NotMoving EXCEPT !.pc = "move", !.to = m.to]]
  /\ UNCHANGED <<session, row, opening, closing, tui, left, giving, job, file>>

MoveUnfenced(t) == ~inflight   \* mutant: a late move needs no hold

MoveFence(t) == holder = t

\* Fenced on the hold alone.
MoveHeldSessionRef(t) ==
  /\ moving[t].pc = "move"
  /\ IF MoveFence(t) THEN ref' = moving[t].to /\ cursor' = NoCursor
                   ELSE UNCHANGED <<ref, cursor>>
  /\ moving' = [moving EXCEPT ![t] = NotMoving]
  /\ UNCHANGED <<inflight, holder, pending, stamps>>
  /\ UNCHANGED <<row, opening, closing, tui, left, giving, job, lines>>

\* The transcript cannot be read, the append conflicts, or the process dies: the
\* session stays where it is.
MoveStops(t) ==
  /\ moving[t] # NotMoving
  /\ moving' = [moving EXCEPT ![t] = NotMoving]
  /\ UNCHANGED <<session, row, opening, closing, tui, left, giving, job, lines>>

-----------------------------------------------------------------------------
(* Imports and history syncs. *)

\* settlePendingImport notes the stamp it will clear.
SettleObserves(j) ==
  /\ job[j] = NoJob /\ pending # 0 /\ holder = NoTerminal
  /\ job' = [job EXCEPT ![j] = [NoJob EXCEPT !.pc = "load", !.stamp = pending]]
  /\ UNCHANGED <<session, row, opening, closing, moving, tui, left, giving, lines>>

\* syncRuntimeSessionIntoCloud, inside a settle or on its own (stamp 0).
SyncLoads(j) ==
  /\ job[j] = NoJob \/ job[j].pc = "load"
  /\ Idle
  /\ job' = [job EXCEPT ![j] = [@ EXCEPT !.pc = "read", !.ref = ref, !.cursor = cursor]]
  /\ UNCHANGED <<session, row, opening, closing, moving, tui, left, giving, lines>>

SyncReads(j) ==
  /\ job[j].pc = "read"
  /\ job' = [job EXCEPT ![j].pc = "append", ![j].end = LineCount(job[j].ref)]
  /\ UNCHANGED <<session, row, opening, closing, moving, tui, left, giving, lines>>

AppendRecoveredMessages(j) ==
  LET taken == Taken(job[j].cursor, job[j].end) \cap unread[job[j].ref] IN
  /\ job[j].pc = "append"
  /\ taken = {} \/ Idle
  /\ unread' = [unread EXCEPT ![job[j].ref] = @ \ taken]
  /\ job' = [job EXCEPT ![j].pc = "advance"]
  /\ UNCHANGED <<session, row, opening, closing, moving, tui, left, giving, file>>

\* Only over an idle session and only from the value the sync loaded.
AdvanceRuntimeSyncCursor(j) ==
  /\ job[j].pc = "advance"
  /\ cursor' = IF Idle /\ cursor = job[j].cursor THEN job[j].end ELSE cursor
  /\ job' = [job EXCEPT ![j] = IF @.stamp = 0 THEN NoJob
                                    ELSE [NoJob EXCEPT !.pc = "clear", !.stamp = job[j].stamp]]
  /\ UNCHANGED <<inflight, holder, pending, ref, stamps>>
  /\ UNCHANGED <<row, opening, closing, moving, tui, left, giving, lines>>

ClearedAny(j) == IF holder = NoTerminal THEN 0 ELSE pending   \* mutant: any stamp goes

\* clearImportPending of a stamp observed earlier.
Cleared(j) == IF pending = job[j].stamp /\ holder = NoTerminal THEN 0 ELSE pending

SettleClears(j) ==
  /\ job[j].pc = "clear"
  /\ pending' = Cleared(j)
  /\ job' = [job EXCEPT ![j] = NoJob]
  /\ UNCHANGED <<inflight, holder, ref, cursor, stamps>>
  /\ UNCHANGED <<row, opening, closing, moving, tui, left, giving, lines>>

\* The user gives the import up: abandonPendingImport.
AbandonObserves(j) ==
  /\ job[j] = NoJob /\ pending # 0
  /\ job' = [job EXCEPT ![j] = [NoJob EXCEPT !.pc = "giveup", !.stamp = pending]]
  /\ UNCHANGED <<session, row, opening, closing, moving, tui, left, giving, lines>>

AbandonClears(j) ==
  /\ job[j].pc = "giveup"
  /\ pending' = Cleared(j)
  /\ unread' = IF pending' # pending THEN [unread EXCEPT ![ref] = {}] ELSE unread
  /\ job' = [job EXCEPT ![j] = NoJob]
  /\ UNCHANGED <<inflight, holder, ref, cursor, stamps>>
  /\ UNCHANGED <<row, opening, closing, moving, tui, left, giving, file>>

\* A skipped or refused sync, a runtime that cannot be read, a dead process: the
\* import stays pending.
JobStops(j) ==
  /\ job[j] # NoJob
  /\ job' = [job EXCEPT ![j] = NoJob]
  /\ UNCHANGED <<session, row, opening, closing, moving, tui, left, giving, lines>>

-----------------------------------------------------------------------------
Turn ==
  \/ ClaimInflightTurn \/ TurnWrites \/ SetRuntimeSyncCursor \/ ReleaseInflightTurn
  \/ \E r \in Refs : TurnMovesRef(r)

Terminal(t) ==
  \/ Open(t) \/ HookStart(t) \/ AcquireSessionHolder(t) \/ MarkHeld(t) \/ Tunnel(t)
  \/ TunnelFails(t) \/ OpeningStops(t)
  \/ TuiWrites(t) \/ TuiEnds(t) \/ \E r \in Refs : TuiStarts(t, r) \/ TuiRenames(t, r)
  \/ HookEnd(t) \/ HookStaleHold(t) \/ ReleaseHeldByHook(t) \/ GivingStops(t)
  \/ EndTerminal(t) \/ KillByHandle(t) \/ ReleaseAndImport(t) \/ ClosingStops(t)
  \/ MoveLoads(t) \/ MoveReads(t) \/ MoveAppends(t) \/ MoveHeldSessionRef(t) \/ MoveStops(t)

Import(j) ==
  \/ SettleObserves(j) \/ SyncLoads(j) \/ SyncReads(j) \/ AppendRecoveredMessages(j)
  \/ AdvanceRuntimeSyncCursor(j) \/ SettleClears(j)
  \/ AbandonObserves(j) \/ AbandonClears(j) \/ JobStops(j)

Next ==
  \/ Turn
  \/ \E t \in Terminals : Terminal(t)
  \/ \E j \in Jobs : Import(j)

Spec == Init /\ [][Next]_vars

-----------------------------------------------------------------------------
(* What a terminal wrote under its hold is in the cloud, or was given up, by   *)
(* the time nobody holds the session and no import is pending: the state in    *)
(* which the next turn may write the same transcript.                          *)
NothingLeftBehind ==
  holder = NoTerminal /\ pending = 0 => unread[ref] = {}

(* The sync cursor covers only lines the cloud has or gave up: an import never *)
(* looks below it again, so a line it passed by is lost for good.              *)
NothingBuried == unread[ref] \cap 1..cursor = {}

(* While the stamp a settle observed is still the session's and nobody holds   *)
(* it, the transcript the settle read is the session's own and holds every     *)
(* line a terminal wrote: clearing the stamp by equality is then safe.         *)
SettleSawEverything ==
  \A j \in Jobs :
    /\ job[j].pc \in {"append", "advance"}
    /\ job[j].stamp = pending /\ pending # 0 /\ holder = NoTerminal
    => job[j].ref = ref /\ unread[ref] \subseteq 1..job[j].end

\* Why SettleSawEverything holds: a turn runs only on a row that is neither held
\* nor pending,
TurnExcludes == inflight => holder = NoTerminal /\ pending = 0

\* every job's stamp was given in the past,
StampsPast == \A j \in Jobs : job[j].stamp <= stamps

\* and while a job's stamp is the session's, the session stays on the transcript
\* the job loaded.
SettleOnRef ==
  \A j \in Jobs :
    /\ job[j].pc \in {"read", "append", "advance"}
    /\ job[j].stamp = pending /\ pending # 0 /\ holder = NoTerminal
    => job[j].ref = ref

SettleInv == TypeOK /\ TurnExcludes /\ StampsPast /\ SettleOnRef /\ SettleSawEverything

-----------------------------------------------------------------------------
\* The cursor as the number of lines it passes.
LinesPassed == IF cursor = NoCursor THEN 0 ELSE cursor

Promised == INSTANCE Transcript WITH
  Nobody <- NoTerminal, turn <- inflight, owed <- pending # 0,
  due <- unread[ref], passed <- LinesPassed

(* The row, the handlers and the jobs keep what is promised of a transcript:   *)
(* one writer at a time, an import owed from the step that gives a hold back,  *)
(* no turn before it is settled, and no line passed by on the way.  (While the *)
(* session keeps its ref: a move to another transcript starts another promise.) *)
KeepsTranscript == Promised!Spec
=============================================================================
