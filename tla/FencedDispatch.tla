--------------------------- MODULE FencedDispatch ---------------------------
(***************************************************************************)
(* A turn carried by a daemon: the API dispatches it over the daemon's     *)
(* WebSocket, probes for it when that connection is lost before anything   *)
(* came back, suspends it otherwise, resumes it on a hello that lists it   *)
(* and closes it on one that does not (daemon-fenced-dispatch.service.ts,  *)
(* daemon-registry.service.ts, daemon-exec-resume.service.ts,              *)
(* cli/daemon/ws-client.ts).  The daemon is ExecBuffer.                    *)
(***************************************************************************)
EXTENDS ExecBuffer

CONSTANTS
    MaxLosses    \* bound: ends of a connection that are lost, and hellos that
                 \* cannot read the buffers

ASSUME DispatchAssumption == MaxLosses \in Nat

VARIABLES
    gens,      \* connections dialled so far
    dsock,     \* the daemon's current connection, 0: none
    asock,     \* the registry's, 0: none
    losses,    \* ends of connections lost, and runs overlooked, so far
    grace,     \* the run's buffer: listed and served, ended too long ago to be
               \* listed, or collected (its files' last contents stay in disk)
    missed,    \* some hello left the run out, or its resume was skipped
    listed,    \* the hello of asock lists the run, for a resume
    absent,    \* the hello whose silence a recheck is to settle, 0: none
    judging,   \* the hello of a recheck that has claimed the turn, 0: none
    wire,      \* frames on their way to the daemon
    back,      \* events and answers on their way to the API
    sub,       \* the request that subscribes to the run over dsock
    turn,      \* the turn, as the API has it
    req,       \* the pending rpc on asock
    got        \* seqs of the events the turn's adapter got

hello == <<grace, missed, listed, absent>>
api == <<missed, listed, absent, judging, turn, req, got>>
net == <<gens, dsock, asock, losses, wire, back, sub>>
vars == <<bufferVars, grace, api, net>>

Done == {"ok", "cancelled", "failed", "gone"}
Requests == {"start", "probe", "resume"}
Answers == {"ok", "cancelled", "refused", "lost", "crashed", "nobuffer"}

Init ==
    /\ BufferInit
    /\ gens = 0 /\ dsock = 0 /\ asock = 0 /\ losses = 0
    /\ grace = "within" /\ missed = FALSE
    /\ listed = FALSE /\ absent = 0 /\ judging = 0
    /\ wire = <<>> /\ back = <<>> /\ sub = "none"
    /\ turn = "new" /\ req = "none" /\ got = <<>>

-----------------------------------------------------------------------------
(* The daemon's side of the connection *)

\* A frame over a connection the API has dropped is written to nobody.
Send(frames) == back' = IF dsock # 0 /\ dsock = asock THEN back \o frames ELSE back

Event(kind, i) == [to |-> kind, seq |-> i, answer |-> "none"]
Answer(kind, a) == [to |-> kind, seq |-> 0, answer |-> a]
Replay(kind, from, es) == [i \in 1..(Len(es) - from) |-> Event(kind, from + i)]

\* What is on disk, to the daemon: a collected buffer is not.
OnDisk(es) == IF grace = "collected" THEN <<>> ELSE es
Account == CASE grace = "collected" \/ meta = "none" -> "nobuffer"
             [] grace # "collected" /\ final # "none" -> final
             [] OTHER -> "crashed"

\* mutant: a run that has ended is answered for without its events
ServeFinal(kind, from) ==
    /\ UNCHANGED bufferVars
    /\ IF stream = "running"
       THEN sub' = kind /\ Send(Replay(kind, from, events))
       ELSE UNCHANGED sub /\ Send(<<Answer(kind, Account)>>)

\* exec.resume: replay, then follow the run, or answer for it.
Serve(kind, from) ==
    /\ UNCHANGED bufferVars
    /\ IF stream = "running"
       THEN sub' = kind /\ Send(Replay(kind, from, events))
       ELSE /\ UNCHANGED sub
            /\ Send(Append(Replay(kind, from, OnDisk(events)), Answer(kind, Account)))

Takes(kind) ==
    /\ up /\ dsock # 0 /\ AtAwait
    /\ wire # <<>> /\ Head(wire).kind = kind
    /\ wire' = Tail(wire)
    /\ UNCHANGED <<gens, dsock, asock, losses, api>>

\* exec.start is idempotent by refId: a known run is resumed from its first event.
TakesStart ==
    /\ Takes("start")
    /\ IF Known /\ grace # "collected"
       THEN Serve("start", 0) /\ UNCHANGED grace
       ELSE ExecStart(dsock) /\ grace' = "within" /\ UNCHANGED <<sub, back>>

TakesResume ==
    /\ \E kind \in {"probe", "resume"} : Takes(kind) /\ Serve(kind, Head(wire).from)
    /\ UNCHANGED grace

\* A cancel reaches the handler of the request it names, if that has got as far.
TakesCancel ==
    /\ Takes("cancel") /\ UNCHANGED <<back, sub, grace>>
    /\ IF sub # "none" /\ phase = "watch" THEN Abort ELSE UNCHANGED bufferVars

\* The subscription of an exec.start is bound to the connection it came over.
Opens ==
    \E g \in starters :
        /\ OpenStream(g)
        /\ sub' = IF g = dsock THEN "start" ELSE sub
        /\ UNCHANGED <<gens, dsock, asock, losses, wire, back, grace, api>>

Publishes ==
    /\ \E t \in 1..MaxOutput : Publish(t)
    /\ IF sub = "none" THEN UNCHANGED back ELSE Send(<<Event(sub, Len(events'))>>)
    /\ UNCHANGED <<gens, dsock, asock, losses, wire, sub, grace, api>>

Completes ==
    /\ WriteMeta
    /\ IF sub = "none" THEN UNCHANGED back ELSE Send(<<Answer(sub, final)>>)
    /\ sub' = "none"
    /\ UNCHANGED <<gens, dsock, asock, losses, wire, grace, api>>

Watches == (AgentStep \/ WatchStep \/ StopExecs) /\ UNCHANGED <<grace, api, net>>

DaemonDies ==
    /\ Crash
    /\ dsock' = 0 /\ wire' = <<>> /\ sub' = "none"
    /\ UNCHANGED <<gens, asock, losses, back, grace, api>>

DaemonStarts == Recover /\ UNCHANGED <<grace, api, net>>

Ended == meta \in {"completed", "aborted", "crashed"}

\* COMPLETE_GRACE_MS pass after the end.  An hour is far beyond what a dispatch
\* without an event waits for its connection, its probe and its deadline.
GraceEnds ==
    /\ Ended /\ grace = "within"
    /\ ~(turn = "driving" /\ got = <<>>)
    /\ grace' = "over"
    /\ UNCHANGED <<bufferVars, net, api>>

\* A crash came between the two files: it is listed until its buffer is a day old.
HalfEnded == meta = "running" /\ final # "none" /\ ~(turn = "driving" /\ got = <<>>)

\* gcStaleBuffers: a run that nothing here carries on is collected for its age.
Collects ==
    /\ up /\ AtAwait /\ stream # "running"
    /\ grace = "over" \/ (grace = "within" /\ HalfEnded)
    /\ grace' = "collected"
    /\ UNCHANGED <<bufferVars, net, api>>

-----------------------------------------------------------------------------
(* Connections *)

\* mutant: a dispatch that already got events goes on to probe, too
FailPendingProbes ==
    /\ req' = "none"
    /\ turn' = IF turn = "resuming" THEN "suspended" ELSE turn

\* What becomes of the rpcs of a connection that is gone: a dispatch without
\* an event goes on to probe (req none), everything else is suspended.
FailPending ==
    /\ req' = "none"
    /\ turn' = IF turn = "resuming" \/ (turn = "driving" /\ got # <<>>)
               THEN "suspended" ELSE turn

Loses(fault) == (fault => losses < MaxLosses) /\ losses' = losses + (IF fault THEN 1 ELSE 0)

\* isStillActionable: the run is not over, or its grace is not.
Actionable == meta # "none" /\ grace = "within"

\* skipped_running_locally: the adapter that lost the old connection is still
\* there when the new one's hello lists the run.  That hello has had its say.
Skipped == Actionable /\ turn = "driving"

\* The daemon dials only when its old socket is closed; the hello tells what
\* it holds at that moment, nothing if it cannot read its buffers, and register
\* replaces the old connection.  A hello that lists the run is for a resume, any
\* other one, a skipped one too, for a recheck.
Dial ==
    /\ up /\ dsock = 0 /\ AtAwait
    /\ gens' = gens + 1 /\ dsock' = gens' /\ asock' = gens'
    /\ \E fails \in {FALSE, Actionable}, skips \in {FALSE, Skipped} :
          /\ Loses(fails)
          /\ listed' = (Actionable /\ ~fails /\ ~skips)
          /\ missed' = (missed \/ fails \/ skips)
    /\ absent' = IF listed' THEN absent ELSE gens'
    /\ wire' = <<>> /\ back' = <<>> /\ sub' = "none"
    /\ IF asock # 0 THEN FailPending ELSE UNCHANGED <<req, turn>>
    /\ UNCHANGED <<bufferVars, grace, judging, got>>

\* One end closes: the fault hits either, the other end notices later.
DaemonLosesSocket ==
    /\ dsock # 0 /\ AtAwait /\ Loses(dsock = asock)
    /\ dsock' = 0 /\ wire' = <<>> /\ sub' = "none"
    /\ UNCHANGED <<bufferVars, gens, asock, back, grace, api>>

ApiLosesSocket ==
    /\ asock # 0 /\ Loses(dsock = asock)
    /\ asock' = 0 /\ back' = <<>>
    /\ FailPending
    /\ UNCHANGED <<bufferVars, gens, dsock, wire, sub, hello, judging, got>>

-----------------------------------------------------------------------------
(* The API *)

\* mutant: a resume asks for the events behind the next one
CallPast(kind) ==
    /\ req' = kind
    /\ wire' = IF dsock # asock THEN wire
               ELSE Append(wire, [kind |-> kind, from |-> IF kind = "resume" THEN Len(got) + 1 ELSE 0])
    /\ UNCHANGED <<bufferVars, gens, dsock, asock, losses, sub>>

\* A frame for a socket the daemon has given up reaches nobody.
Call(kind) ==
    /\ req' = kind
    /\ wire' = IF dsock # asock THEN wire
               ELSE Append(wire, [kind |-> kind, from |-> IF kind = "resume" THEN Len(got) ELSE 0])
    /\ UNCHANGED <<bufferVars, gens, dsock, asock, losses, sub>>

\* sendMessage: the adapter's exec.start, which fails at once when the daemon is offline.
Dispatch ==
    /\ turn = "new" /\ turn' = "driving"
    /\ IF asock # 0 THEN Call("start")
       ELSE UNCHANGED <<bufferVars, gens, dsock, asock, losses, sub, req, wire>>
    /\ UNCHANGED <<hello, judging, got, back>>

Recovering == turn = "driving" /\ req = "none"

\* drive: the lost dispatch is looked up on the current connection.
Probe ==
    /\ Recovering /\ asock # 0
    /\ Call("probe")
    /\ UNCHANGED <<hello, judging, turn, got, back>>

\* drive: no daemon before the deadline; the adapter suspends the turn.
GivesUp ==
    /\ Recovering
    /\ turn' = "suspended"
    /\ UNCHANGED <<bufferVars, net, hello, judging, req, got>>

Receives == asock # 0 /\ back # <<>> /\ back' = Tail(back)
Frame == Head(back)

\* An event of a request that is no longer pending is dropped.
GetsEvent ==
    /\ Receives /\ Frame.answer = "none"
    /\ got' = IF Frame.to = req THEN Append(got, Frame.seq) ELSE got
    /\ UNCHANGED <<bufferVars, gens, dsock, asock, losses, wire, sub>>
    /\ UNCHANGED <<hello, judging, turn, req>>

TerminalFor(a) == CASE a = "ok" -> "ok"
                    [] a = "cancelled" -> "cancelled"
                    [] OTHER -> "failed"

\* mutant: any answer that names no live run does
ProvesLostCrashed(a) == req = "probe" /\ a \in {"nobuffer", "crashed"} /\ got = <<>>

\* drive: a probe that finds nothing proves that the dispatch got nowhere.
ProvesLost(a) == req = "probe" /\ a = "nobuffer" /\ got = <<>>

Inconclusive(a) == req = "probe" /\ a = "crashed" /\ got = <<>>

GetsAnswer ==
    /\ Receives /\ Frame.answer # "none" /\ Frame.to = req
    /\ ~ProvesLost(Frame.answer)
    /\ req' = "none"
    /\ turn' = IF Inconclusive(Frame.answer) THEN "suspended" ELSE TerminalFor(Frame.answer)
    /\ UNCHANGED <<bufferVars, gens, dsock, asock, losses, wire, sub>>
    /\ UNCHANGED <<hello, judging, got>>

Redispatch ==
    /\ Receives /\ Frame.answer # "none" /\ Frame.to = req
    /\ ProvesLost(Frame.answer)
    /\ Call("start")
    /\ UNCHANGED <<hello, judging, turn, got>>

DropsAnswer ==
    /\ Receives /\ Frame.answer # "none" /\ Frame.to # req
    /\ UNCHANGED <<bufferVars, gens, dsock, asock, losses, wire, sub, grace, api>>

\* The user cancels: the call is given up here; of a pending one the daemon is told.
Cancel ==
    /\ turn \in {"driving", "resuming"}
    /\ turn' = "cancelled" /\ req' = "none"
    /\ wire' = IF req = "none" \/ dsock # asock THEN wire
               ELSE Append(wire, [kind |-> "cancel", from |-> 0])
    /\ UNCHANGED <<bufferVars, gens, dsock, asock, losses, back, sub>>
    /\ UNCHANGED <<hello, judging, got>>

-----------------------------------------------------------------------------
(* Hello reconciliation *)

\* handleOne: the current hello lists the run of a turn nobody carries here.
Resume ==
    /\ turn = "suspended" /\ asock # 0 /\ listed /\ judging = 0
    /\ turn' = "resuming"
    /\ Call("resume")
    /\ UNCHANGED <<hello, judging, got, back>>

\* mutant: the hello of a connection that has been replaced counts
UnvetoedStale(h) == h # 0 /\ asock # 0 /\ turn = "suspended"
\* mutant: an adapter that still runs here is no veto
UnvetoedRunning(h) == h # 0 /\ h = asock /\ turn \in {"driving", "suspended"}

\* terminalVeto: the evidence is the current hello's and nobody carries the turn.
Unvetoed(h) == h # 0 /\ h = asock /\ turn = "suspended"

\* reconcileUnmatchedTurn, up to its claim.
Judge ==
    /\ judging = 0 /\ Unvetoed(absent)
    /\ judging' = absent
    /\ UNCHANGED <<bufferVars, net, hello, turn, req, got>>

\* The verdict is checked again once the row has been read under the claim.
JudgeEnds ==
    /\ judging # 0 /\ judging' = 0
    /\ turn' = IF Unvetoed(judging) THEN "gone" ELSE turn
    /\ UNCHANGED <<bufferVars, net, hello, req, got>>

DaemonStep ==
    TakesStart \/ TakesResume \/ TakesCancel \/ Opens \/ Publishes \/ Completes
Reconciles == Resume \/ Judge \/ JudgeEnds
ApiStep == Dispatch \/ Probe \/ GivesUp \/ GetsEvent \/ GetsAnswer \/ Redispatch \/ DropsAnswer

Next ==
    \/ DaemonStep \/ Watches \/ DaemonDies \/ DaemonStarts
    \/ GraceEnds \/ Collects
    \/ Dial \/ DaemonLosesSocket \/ ApiLosesSocket
    \/ ApiStep \/ Cancel \/ Reconciles

Spec == Init /\ [][Next]_vars

\* Handlers and timers run, agents end (they have a deadline), a daemon that
\* died is started again, the other end of a lost connection notices, and the
\* daemon dials again.  Faults, cancels and old age have no fairness.
Fairness ==
    /\ WF_vars(DaemonStep) /\ WF_vars(Watches) /\ WF_vars(DaemonStarts)
    /\ WF_vars(Dial)
    /\ WF_vars(dsock # asock /\ DaemonLosesSocket)
    /\ WF_vars(dsock # asock /\ ApiLosesSocket)
    /\ WF_vars(ApiStep) /\ WF_vars(Reconciles)

LiveSpec == Spec /\ Fairness

-----------------------------------------------------------------------------
(* Properties *)

TypeOK ==
    /\ BufferTypeOK
    /\ gens \in Nat /\ losses \in 0..MaxLosses
    /\ {dsock, asock, absent, judging} \subseteq 0..gens
    /\ starters \subseteq 1..gens
    /\ grace \in {"within", "over", "collected"}
    /\ missed \in BOOLEAN /\ listed \in BOOLEAN
    /\ wire \in Seq([kind : Requests \cup {"cancel"}, from : 0..MaxOutput])
    /\ back \in Seq([to : Requests, seq : 0..MaxOutput, answer : Answers \cup {"none"}])
    /\ sub \in Requests \cup {"none"} /\ req \in Requests \cup {"none"}
    /\ turn \in Done \cup {"new", "driving", "suspended", "resuming"}
    /\ got \in Seq(1..MaxOutput)

\* A turn's adapters get every event once and in order, over any number of
\* lost connections, probes, suspensions and daemon restarts.
InOrderOnce == \A i \in DOMAIN got : got[i] = i

\* A turn that ends well has got the whole output of a run that has ended.
OkIsWhole ==
    turn = "ok" => /\ final = "ok" /\ agent # "runs"
                   /\ Len(got) = Len(events) /\ raw \in Ends(events)

\* "re-dispatching the identical payload cannot double-execute anything":
\* at most one agent is ever started for a turn.
OneAgent == spawned < 2

\* A turn is closed because no hello lists it only if no dispatch of it is under
\* way any more, and it never had an agent or, by the daemon's own files, its
\* run is over; except that an unreadable directory looks like an empty one, and
\* a skipped resume is followed by the recheck of a run that was not listed.
GoneIsOver ==
    turn = "gone" => /\ starters = {}
                     /\ \A i \in DOMAIN wire : wire[i].kind # "start"
                     /\ agent = "none" \/ Ended \/ final # "none" \/ missed

\* Every dispatched turn comes to an end: whatever the daemon's files say after
\* a crash, and wherever the connection was lost, some hello or answer settles it.
TurnEnds == (turn # "new") ~> (turn \in Done)
=============================================================================
