----------------------- MODULE FencedDispatch_proofs -----------------------
(***************************************************************************)
(* FencedDispatch for every bound: the daemon of a dispatched turn is an   *)
(* ExecBuffer, so what is proved of a run holds of the run of a turn.      *)
(***************************************************************************)
EXTENDS FencedDispatch, ExecBuffer_proofs, WellFoundedInduction

USE DEF hello

\* Connections are numbered, and starts bear the number of theirs.
Numbered == gens \in Nat /\ dsock \in Nat /\ starters \subseteq Nat

\* What a step of the composition does to the run: a step of the run, or nothing.
BufferStep == BufferNext \/ UNCHANGED bufferVars

-----------------------------------------------------------------------------

LEMMA DaemonStepMaps ==
    ASSUME Numbered, DaemonStep
    PROVE  BufferStep /\ gens' = gens /\ dsock' = dsock /\ starters' \subseteq Nat
  <1>1. CASE TakesStart
    <2>1. UNCHANGED bufferVars \/ ExecStart(dsock)
      BY <1>1 DEF TakesStart, Serve
    <2>2. gens' = gens /\ dsock' = dsock
      BY <1>1 DEF TakesStart, Takes
    <2>3. starters' \subseteq Nat
      BY <2>1 DEF Numbered, ExecStart, bufferVars, process
    <2>. QED
      BY <2>1, <2>2, <2>3 DEF Numbered, BufferStep, BufferNext
  <1>2. CASE TakesResume
    BY <1>2 DEF TakesResume, Takes, Serve, BufferStep, Numbered, bufferVars, process
  <1>3. CASE TakesCancel
    <2>1. Abort \/ UNCHANGED bufferVars
      BY <1>3 DEF TakesCancel
    <2>2. gens' = gens /\ dsock' = dsock
      BY <1>3 DEF TakesCancel, Takes
    <2>. QED
      BY <2>1, <2>2 DEF Abort, BufferStep, BufferNext, Numbered, bufferVars, process
  <1>4. CASE Opens
    <2>1. PICK g \in starters : OpenStream(g) /\ gens' = gens /\ dsock' = dsock
      BY <1>4 DEF Opens
    <2>2. g \in Nat /\ starters' \subseteq Nat
      BY <2>1 DEF Numbered, OpenStream
    <2>. QED
      BY <2>1, <2>2 DEF BufferStep, BufferNext
  <1>5. CASE Publishes
    <2>1. PICK t \in 1..MaxOutput : Publish(t)
      BY <1>5 DEF Publishes
    <2>2. gens' = gens /\ dsock' = dsock
      BY <1>5 DEF Publishes
    <2>. QED
      BY <2>1, <2>2 DEF Publish, process, Numbered, BufferStep, BufferNext
  <1>6. CASE Completes
    BY <1>6 DEF Completes, WriteMeta, process, Numbered, BufferStep, BufferNext
  <1>. QED
    BY <1>1, <1>2, <1>3, <1>4, <1>5, <1>6 DEF DaemonStep

LEMMA RunStepMaps ==
    ASSUME Numbered, Watches \/ DaemonDies \/ DaemonStarts
    PROVE  BufferStep /\ Numbered'
  <1>1. CASE Watches
    <2>1. AgentStep \/ WatchStep \/ StopExecs
      BY <1>1 DEF Watches
    <2>2. starters' = starters
      BY <2>1 DEF AgentStep, AgentWrites, AgentExits, AgentKilled, WatchStep, PollEnds, Drained,
         Released, WriteFinal, Spawn, SpawnFails, RecordOwner, StopExecs, process
    <2>. QED
      BY <1>1, <2>1, <2>2 DEF Watches, net, Numbered, BufferStep, BufferNext
  <1>2. CASE DaemonDies
    BY <1>2 DEF DaemonDies, Crash, Numbered, BufferStep, BufferNext
  <1>3. CASE DaemonStarts
    BY <1>3 DEF DaemonStarts, net, Recover, RecoverNothing, RecoverUnowned, RecoverLost,
       RecoverAdopts, Kept, Numbered, BufferStep, BufferNext
  <1>. QED
    BY <1>1, <1>2, <1>3

LEMMA ApiLeavesRun ==
    ASSUME Dial \/ DaemonLosesSocket \/ ApiLosesSocket \/ ApiStep \/ Cancel \/ Reconciles
    PROVE  UNCHANGED bufferVars
  BY DEF Dial, DaemonLosesSocket, ApiLosesSocket, Cancel, ApiStep, Dispatch, Probe, GivesUp,
     GetsEvent, GetsAnswer, Redispatch, DropsAnswer, Call, Reconciles, Resume, Judge, JudgeEnds

LEMMA ApiKeepsNumbers ==
    ASSUME Numbered, Dial \/ DaemonLosesSocket \/ ApiLosesSocket \/ ApiStep \/ Cancel \/ Reconciles
    PROVE  Numbered'
  <1>1. starters' = starters
    BY ApiLeavesRun DEF bufferVars, process
  <1>2. CASE Dial
    <2>1. gens' \in Nat /\ dsock' \in Nat
      BY <1>2 DEF Dial, Numbered
    <2>. QED
      BY <1>1, <2>1 DEF Numbered
  <1>3. CASE ~Dial
    <2>1. gens' \in Nat /\ dsock' \in Nat
      BY <1>3 DEF DaemonLosesSocket, ApiLosesSocket, Cancel, ApiStep, Dispatch, Probe, GivesUp,
         GetsEvent, GetsAnswer, Redispatch, DropsAnswer, Call, Reconciles, Resume, Judge, JudgeEnds,
         net, Numbered
    <2>. QED
      BY <1>1, <2>1 DEF Numbered
  <1>. QED
    BY <1>2, <1>3

LEMMA StepMaps ==
    ASSUME Numbered, [Next]_vars
    PROVE  [BufferNext]_bufferVars /\ Numbered'
  <1>1. CASE DaemonStep
    BY <1>1, DaemonStepMaps DEF BufferStep, Numbered
  <1>2. CASE Watches \/ DaemonDies \/ DaemonStarts
    BY <1>2, RunStepMaps DEF BufferStep
  <1>3. CASE Dial \/ DaemonLosesSocket \/ ApiLosesSocket \/ ApiStep \/ Cancel \/ Reconciles
    BY <1>3, ApiLeavesRun, ApiKeepsNumbers
  <1>4. CASE GraceEnds \/ Collects \/ UNCHANGED vars
    BY <1>4 DEF GraceEnds, Collects, vars, net, bufferVars, process, Numbered
  <1>. QED
    BY <1>1, <1>2, <1>3, <1>4 DEF Next

\* Whatever the connections and the API do, the daemon's run is a run of ExecBuffer.
THEOREM ImplementsBuffer == Spec => BufferSpec
  <1>1. Init => BufferInit /\ Numbered
    BY DEF Init, BufferInit, Numbered
  <1>2. Numbered /\ [Next]_vars => [BufferNext]_bufferVars /\ Numbered'
    BY StepMaps
  <1>. QED
    BY <1>1, <1>2, PTL DEF Spec, BufferSpec

\* So the event log of a dispatched turn tiles its output,
THEOREM DispatchedEventsTile == SetupWaits = FALSE /\ Spec => []EventsTile
  BY ImplementsBuffer, EventsTileHolds, PTL

\* and its final is whole, over any number of lost connections and crashes.
THEOREM DispatchedFinalIsWhole == SetupWaits = FALSE /\ Spec => []FinalIsWhole
  BY ImplementsBuffer, FinalIsWholeHolds, PTL

-----------------------------------------------------------------------------
(* One agent, and none for a turn that is closed as unknown.  The argument *)
(* follows the one frame that can start the run: it is sent only while     *)
(* nothing of the run exists, and nothing of the run can exist before it   *)
(* is taken.                                                               *)

\* Nothing of the run exists.
Fresh == /\ spawned = 0 /\ agent = "none" /\ starters = {}
         /\ meta = "none" /\ phase = "none" /\ stream # "running"

\* A run that was begun has its meta file, from before its agent to the end.
RunOnce ==
    /\ spawned < 2 /\ (agent = "none" <=> spawned = 0)
    /\ spawned > 0 \/ phase # "none" \/ stream # "none" => meta # "none"
    /\ starters # {} \/ phase = "spawn" => spawned = 0
    /\ starters # {} => phase = "none" /\ meta = "none"

Request == [kind : Requests \cup {"cancel"}, from : Nat]
Reply == [to : Requests \cup {"none"}, seq : Int, answer : Finals \cup {"nobuffer"}]

\* The two ends never hold two different connections, and a frame travels on one.
SocketsAgree ==
    /\ gens \in Nat /\ {dsock, asock, absent, judging} \subseteq 0..gens
    /\ asock = 0 \/ dsock = 0 \/ asock = dsock
    /\ wire \in Seq(Request) /\ (dsock = 0 => wire = <<>>)
    /\ back \in Seq(Reply) /\ (asock = 0 => back = <<>> /\ req = "none")
    /\ sub \in Requests \cup {"none"} /\ req \in Requests \cup {"none"}
    /\ got \in Seq(Int)

NewIsFresh == turn = "new" => Fresh /\ req = "none" /\ wire = <<>> /\ back = <<>>

\* A dispatch that was lost has left nothing on the connections.
RecoveringIsQuiet ==
    Recovering => /\ back = <<>>
                  /\ asock # 0 => wire = <<>> /\ sub = "none" /\ starters = {}

\* At most one frame on the wire starts the run or asks whether it exists,
Asks(f) == f.kind \in {"start", "probe"}
AskIn(w) == \E i \in DOMAIN w : Asks(w[i])
OneAsk(w) == \A i, j \in DOMAIN w : Asks(w[i]) /\ Asks(w[j]) => i = j

\* the one that starts it finds nothing of it,
StartIn(w) == \E i \in DOMAIN w : w[i].kind = "start"
StartIsFresh == StartIn(wire) => Fresh

\* and an answer that it does not exist is still true when it is acted on.
Lost(f) == f.to = "probe" /\ f.answer = "nobuffer"
LostIn(s) == \E i \in DOMAIN s : Lost(s[i])
LostIsFresh == req = "probe" /\ LostIn(back) /\ got = <<>> => Fresh /\ ~AskIn(wire)

\* The account of the run is over: its end is on disk.
Over == Ended \/ final # "none"

\* What the current hello does not list does not exist or is over, or the hello
\* could not tell, until it is dispatched.
Settled == starters = {} /\ (Fresh \/ Over \/ missed)
Undispatched == turn = "suspended" \/ (turn = "driving" /\ req # "start")
AbsentIsSettled == absent # 0 /\ absent = asock /\ Undispatched => Settled /\ ~StartIn(wire)
JudgedIsAbsent == judging # 0 /\ judging = asock => absent = judging
SettledIsIdle == turn \in {"suspended", "gone"} => req = "none"
ProbeDrives == req = "probe" => turn = "driving"
GoneIsSettled == turn = "gone" => Settled /\ ~StartIn(wire)

FrameInv ==
    /\ SocketsAgree /\ RunOnce /\ NewIsFresh /\ RecoveringIsQuiet
    /\ OneAsk(wire) /\ StartIsFresh /\ LostIsFresh
    /\ AbsentIsSettled /\ JudgedIsAbsent /\ SettledIsIdle /\ ProbeDrives /\ GoneIsSettled

\* A run grows old only when it is over, and no dispatch without an event waits
\* for what has become of it.
GraceIsLong ==
    grace # "within" => /\ Over /\ starters = {} /\ turn # "new"
                        /\ ~(turn = "driving" /\ got = <<>>)

DispatchInv == BufferInv /\ FrameInv /\ GraceIsLong

-----------------------------------------------------------------------------
(* Frames *)

LEMMA EmptyAsks == ~AskIn(<<>>) /\ ~StartIn(<<>>) /\ OneAsk(<<>>) /\ ~LostIn(<<>>)
  BY DEF AskIn, StartIn, OneAsk, LostIn

LEMMA StartAsks ==
    ASSUME NEW w, StartIn(w)
    PROVE  AskIn(w)
  BY DEF StartIn, AskIn, Asks

LEMMA TailAsks ==
    ASSUME NEW w \in Seq(Request), w # <<>>, OneAsk(w)
    PROVE  /\ Tail(w) \in Seq(Request) /\ OneAsk(Tail(w))
           /\ StartIn(Tail(w)) => StartIn(w)
           /\ AskIn(Tail(w)) => AskIn(w) /\ ~Asks(Head(w))
  <1>1. /\ Tail(w) \in Seq(Request) /\ Len(w) \in Nat \ {0} /\ DOMAIN w = 1..Len(w)
        /\ Head(w) = w[1] /\ DOMAIN Tail(w) = 1..(Len(w) - 1)
        /\ \A i \in 1..(Len(w) - 1) : Tail(w)[i] = w[i + 1]
    BY HeadTailProperties, LenProperties, EmptySeq
  <1>2. \A i \in DOMAIN Tail(w) : i + 1 \in DOMAIN w /\ i + 1 # 1 /\ Tail(w)[i] = w[i + 1]
    BY <1>1
  <1>. QED
    BY <1>1, <1>2 DEF OneAsk, StartIn, AskIn

LEMMA AppendAsks ==
    ASSUME NEW w \in Seq(Request), NEW f \in Request
    PROVE  /\ Append(w, f) \in Seq(Request)
           /\ ~AskIn(w) => OneAsk(Append(w, f))
           /\ ~Asks(f) => (AskIn(Append(w, f)) => AskIn(w))
           /\ ~Asks(f) /\ OneAsk(w) => OneAsk(Append(w, f))
           /\ f.kind # "start" => (StartIn(Append(w, f)) => StartIn(w))
  <1>1. /\ Append(w, f) \in Seq(Request) /\ Len(w) \in Nat /\ DOMAIN w = 1..Len(w)
        /\ DOMAIN Append(w, f) = 1..(Len(w) + 1)
        /\ \A i \in 1..Len(w) : Append(w, f)[i] = w[i]
        /\ Append(w, f)[Len(w) + 1] = f
    BY AppendProperties, LenProperties
  <1>2. \A i \in DOMAIN Append(w, f) :
           \/ i \in DOMAIN w /\ Append(w, f)[i] = w[i]
           \/ i = Len(w) + 1 /\ Append(w, f)[i] = f
    BY <1>1
  <1>. QED
    BY <1>1, <1>2 DEF OneAsk, StartIn, AskIn

LEMMA TailLost ==
    ASSUME NEW s \in Seq(Reply), s # <<>>
    PROVE  Tail(s) \in Seq(Reply) /\ (LostIn(Tail(s)) => LostIn(s))
  <1>1. /\ Tail(s) \in Seq(Reply) /\ Len(s) \in Nat \ {0} /\ DOMAIN s = 1..Len(s)
        /\ DOMAIN Tail(s) = 1..(Len(s) - 1)
        /\ \A i \in 1..(Len(s) - 1) : Tail(s)[i] = s[i + 1]
    BY HeadTailProperties, LenProperties, EmptySeq
  <1>2. \A i \in DOMAIN Tail(s) : i + 1 \in DOMAIN s /\ Tail(s)[i] = s[i + 1]
    BY <1>1
  <1>. QED
    BY <1>1, <1>2 DEF LostIn

LEMMA ConcatLost ==
    ASSUME NEW s \in Seq(Reply), NEW t \in Seq(Reply)
    PROVE  s \o t \in Seq(Reply) /\ (LostIn(s \o t) => LostIn(s) \/ LostIn(t))
  <1>1. /\ s \o t \in Seq(Reply) /\ Len(s) \in Nat /\ Len(t) \in Nat
        /\ DOMAIN s = 1..Len(s) /\ DOMAIN t = 1..Len(t)
        /\ DOMAIN (s \o t) = 1..(Len(s) + Len(t))
        /\ \A i \in 1..(Len(s) + Len(t)) :
              (s \o t)[i] = IF i <= Len(s) THEN s[i] ELSE t[i - Len(s)]
    BY ConcatProperties, LenProperties
  <1>2. ASSUME NEW i \in DOMAIN (s \o t)
        PROVE  \/ i \in DOMAIN s /\ (s \o t)[i] = s[i]
               \/ i - Len(s) \in DOMAIN t /\ (s \o t)[i] = t[i - Len(s)]
    BY <1>1
  <1>. QED
    BY <1>1, <1>2 DEF LostIn

\* What the daemon sends for a request: its events, and perhaps an answer.
LEMMA ReplayTyped ==
    ASSUME NEW kind \in Requests, NEW from \in Nat, NEW es, Len(es) \in Nat
    PROVE  Replay(kind, from, es) \in Seq(Reply) /\ ~LostIn(Replay(kind, from, es))
  <1>. DEFINE n == Len(es) - from
              r == Replay(kind, from, es)
  <1>1. n \in Int /\ DOMAIN r = 1..n
    BY DEF Replay
  <1>2. \A i \in 1..n : r[i] \in Reply /\ ~Lost(r[i])
    BY <1>1 DEF Replay, Event, Reply, Finals, Lost
  <1>3. r \in Seq(Reply)
    <2>1. r \in [1..n -> Reply]
      BY <1>2 DEF Replay
    <2>2. PICK m \in Nat : 1..n = 1..m
      <3>1. CASE n \in Nat
        BY <3>1
      <3>2. CASE n \notin Nat
        <4>1. 1..n = 1..0
          BY <3>2, <1>1
        <4>. QED
          BY <4>1
      <3>. QED
        BY <3>1, <3>2
    <2>. HIDE DEF r, n
    <2>. QED
      BY <2>1, <2>2, SeqDef
  <1>. QED
    BY <1>1, <1>2, <1>3 DEF LostIn

LEMMA SendKeeps ==
    ASSUME back \in Seq(Reply), NEW frames \in Seq(Reply), Send(frames)
    PROVE  /\ back' \in Seq(Reply)
           /\ LostIn(back') => LostIn(back) \/ (LostIn(frames) /\ asock # 0 /\ dsock = asock)
           /\ asock = 0 \/ dsock = 0 => back' = back
  BY ConcatLost DEF Send

-----------------------------------------------------------------------------
(* The run: what it does by itself keeps what does not exist from existing. *)

RunStep ==
    \/ AgentStep \/ WatchStep \/ WriteMeta \/ (\E t \in 1..MaxOutput : Publish(t))
    \/ Abort \/ Crash \/ StopExecs \/ Recover

LEMMA RunKeeps ==
    ASSUME BufferInv, RunOnce, RunStep
    PROVE  RunOnce' /\ (Fresh => Fresh') /\ (Over => Over') /\ starters' \subseteq starters
  <1>. USE DEF RunOnce, Fresh, Over, Ended, process, disk, memory
  <1>1. phase \in Phases /\ spawned \in 0..2
    BY DEF BufferInv, BufferTypeOK
  <1>2. CASE AgentStep
    BY <1>2 DEF AgentStep, AgentWrites, AgentExits, AgentKilled
  <1>3. CASE WatchStep
    <2>1. CASE Spawn
      BY <2>1 DEF Spawn
    <2>2. CASE WriteFinal
      BY <2>2 DEF WriteFinal, BufferInv, PhaseFits
    <2>3. CASE PollEnds \/ Drained \/ Released \/ SpawnFails \/ RecordOwner
      BY <2>3 DEF PollEnds, Drained, Released, SpawnFails, RecordOwner
    <2>. QED
      BY <1>3, <2>1, <2>2, <2>3 DEF WatchStep
  <1>4. CASE WriteMeta
    BY <1>4 DEF WriteMeta, StatusOf
  <1>5. CASE \E t \in 1..MaxOutput : Publish(t)
    BY <1>5 DEF Publish
  <1>6. CASE Abort \/ Crash \/ StopExecs
    BY <1>6 DEF Abort, Crash, StopExecs
  <1>7. CASE Recover
    <2>1. starters = {}
      BY <1>7 DEF Recover, RecoverNothing, RecoverUnowned, RecoverLost, RecoverAdopts, Restart,
         BufferInv, StartsClean
    <2>. QED
      BY <1>7, <2>1 DEF Recover, RecoverNothing, RecoverUnowned, RecoverLost, RecoverAdopts,
         Kept, LeftRunning
  <1>. QED
    BY <1>2, <1>3, <1>4, <1>5, <1>6, <1>7 DEF RunStep

\* A step of the daemon that starts nothing and answers nothing of its own accord.
LEMMA QuietStepKeeps ==
    ASSUME FrameInv, GraceIsLong, SocketsAgree', RunOnce', Fresh => Fresh', Over => Over',
           starters' \subseteq starters, UNCHANGED <<asock, api>>,
           OneAsk(wire'), StartIn(wire') => StartIn(wire), AskIn(wire') => AskIn(wire),
           LostIn(back') => LostIn(back) \/ (Fresh' /\ ~AskIn(wire')) \/ grace # "within",
           turn = "new" => wire' = <<>>,
           turn = "new" \/ Recovering => back' = back,
           Recovering /\ asock # 0 => wire' = <<>> /\ sub' = "none" /\ starters' = {}
    PROVE  FrameInv'
  <1>. USE DEF api
  <1>1. NewIsFresh' /\ RecoveringIsQuiet'
    BY DEF FrameInv, NewIsFresh, RecoveringIsQuiet, Recovering
  <1>2. StartIsFresh' /\ GoneIsSettled'
    BY DEF FrameInv, StartIsFresh, GoneIsSettled, Settled
  <1>4. LostIsFresh'
    BY DEF FrameInv, GraceIsLong, LostIsFresh, ProbeDrives
  <1>3. AbsentIsSettled' /\ JudgedIsAbsent' /\ SettledIsIdle' /\ ProbeDrives'
    BY DEF FrameInv, AbsentIsSettled, Settled, JudgedIsAbsent, SettledIsIdle, ProbeDrives, Undispatched
  <1>. QED
    BY <1>1, <1>2, <1>3, <1>4 DEF FrameInv

\* One whose frames and connections stay as they are.
LEMMA RunOnlyKeeps ==
    ASSUME DispatchInv, RunStep, UNCHANGED <<api, net>>
    PROVE  FrameInv'
  <1>1. RunOnce' /\ (Fresh => Fresh') /\ (Over => Over') /\ starters' \subseteq starters
    BY RunKeeps DEF DispatchInv, FrameInv
  <1>2. SocketsAgree'
    BY DEF DispatchInv, FrameInv, SocketsAgree, api, net
  <1>3. UNCHANGED <<asock, api>> /\ wire' = wire /\ back' = back /\ sub' = sub
    BY DEF net
  <1>4. OneAsk(wire') /\ FrameInv /\ GraceIsLong
    BY <1>3 DEF DispatchInv, FrameInv
  <1>5. turn = "new" => wire' = <<>>
    BY <1>3 DEF DispatchInv, FrameInv, NewIsFresh
  <1>6. Recovering /\ asock # 0 => wire' = <<>> /\ sub' = "none" /\ starters' = {}
    BY <1>1, <1>3 DEF DispatchInv, FrameInv, RecoveringIsQuiet
  <1>. QED
    BY <1>1, <1>2, <1>3, <1>4, <1>5, <1>6, QuietStepKeeps

-----------------------------------------------------------------------------
(* The daemon *)

LEMMA WatchesKeeps ==
    ASSUME DispatchInv, Watches \/ DaemonStarts
    PROVE  FrameInv'
  <1>1. RunStep /\ UNCHANGED <<api, net>>
    BY DEF Watches, DaemonStarts, RunStep
  <1>. QED
    BY <1>1, RunOnlyKeeps

LEMMA DaemonDiesKeeps ==
    ASSUME DispatchInv, DaemonDies
    PROVE  FrameInv'
  <1>1. RunOnce' /\ (Fresh => Fresh') /\ (Over => Over') /\ starters' = {}
    BY RunKeeps DEF DispatchInv, FrameInv, DaemonDies, RunStep, Crash
  <1>2. UNCHANGED <<asock, api>> /\ wire' = <<>> /\ back' = back /\ sub' = "none"
    BY DEF DaemonDies
  <1>3. SocketsAgree' /\ OneAsk(wire')
    BY <1>2, EmptyAsks DEF DispatchInv, FrameInv, SocketsAgree, DaemonDies, api
  <1>. QED
    BY <1>1, <1>2, <1>3, EmptyAsks, QuietStepKeeps DEF DispatchInv, FrameInv

\* What the daemon sends about the run as it publishes and completes.
LEMMA FramesTyped ==
    ASSUME BufferInv, NEW kind \in Requests
    PROVE  /\ \A es \in Seq(Entry) : /\ <<Event(kind, Len(es))>> \in Seq(Reply)
                                      /\ ~LostIn(<<Event(kind, Len(es))>>)
           /\ \A a \in Finals \cup {"nobuffer"} :
                 /\ <<Answer(kind, a)>> \in Seq(Reply)
                 /\ a # "nobuffer" => ~LostIn(<<Answer(kind, a)>>)
  <1>1. ASSUME NEW f \in Reply
        PROVE  <<f>> \in Seq(Reply) /\ (LostIn(<<f>>) => Lost(f))
    BY <1>1 DEF LostIn
  <1>2. \A es \in Seq(Entry) : Event(kind, Len(es)) \in Reply /\ ~Lost(Event(kind, Len(es)))
    BY DEF Event, Reply, Lost, Finals
  <1>3. \A a \in Finals \cup {"nobuffer"} :
           Answer(kind, a) \in Reply /\ (Lost(Answer(kind, a)) => a = "nobuffer")
    BY DEF Answer, Reply, Lost
  <1>. QED
    BY <1>1, <1>2, <1>3

\* A run that is under way may tell its subscriber of it.
LEMMA TellsKeeps ==
    ASSUME DispatchInv, RunStep, phase # "none",
           UNCHANGED <<gens, dsock, asock, losses, wire, api>>, sub' \in {sub, "none"},
           NEW frames \in Seq(Reply), ~LostIn(frames),
           IF sub = "none" THEN UNCHANGED back ELSE Send(frames)
    PROVE  FrameInv'
  <1>. USE DEF DispatchInv, FrameInv
  <1>1. RunOnce' /\ (Fresh => Fresh') /\ (Over => Over') /\ starters' \subseteq starters
    BY RunKeeps
  <1>2. ~Fresh /\ turn # "new"
    BY DEF Fresh, NewIsFresh
  <1>3. /\ back' \in Seq(Reply) /\ (LostIn(back') => LostIn(back))
        /\ asock = 0 \/ dsock = 0 \/ sub = "none" => back' = back
    <2>1. CASE sub = "none"
      BY <2>1 DEF SocketsAgree
    <2>2. CASE sub # "none"
      BY <2>2, SendKeeps DEF SocketsAgree
    <2>. QED
      BY <2>1, <2>2
  <1>4. SocketsAgree'
    BY <1>3 DEF SocketsAgree, api
  <1>5. Recovering => back' = back
    BY <1>3 DEF RecoveringIsQuiet
  <1>6. Recovering /\ asock # 0 => wire' = <<>> /\ sub' = "none" /\ starters' = {}
    BY <1>1 DEF RecoveringIsQuiet
  <1>7. OneAsk(wire') /\ wire' = wire
    OBVIOUS
  <1>. QED
    BY <1>1, <1>2, <1>3, <1>4, <1>5, <1>6, <1>7, QuietStepKeeps

LEMMA PublishesKeeps ==
    ASSUME DispatchInv, BufferInv', Publishes
    PROVE  FrameInv'
  <1>1. RunStep /\ phase # "none"
    BY DEF Publishes, Publish, RunStep
  <1>2. events' \in Seq(Entry)
    BY DEF BufferInv, BufferTypeOK
  <1>. DEFINE kind == IF sub = "none" THEN "start" ELSE sub
              frames == <<Event(kind, Len(events'))>>
  <1>3. kind \in Requests
    BY DEF DispatchInv, FrameInv, SocketsAgree, Requests
  <1>4. frames \in Seq(Reply) /\ ~LostIn(frames)
    BY <1>2, <1>3, FramesTyped DEF DispatchInv
  <1>5. IF sub = "none" THEN UNCHANGED back ELSE Send(frames)
    BY DEF Publishes
  <1>. HIDE DEF frames
  <1>. QED
    BY <1>1, <1>4, <1>5, TellsKeeps DEF Publishes

LEMMA CompletesKeeps ==
    ASSUME DispatchInv, Completes
    PROVE  FrameInv'
  <1>1. RunStep /\ phase # "none"
    BY DEF Completes, WriteMeta, RunStep
  <1>. DEFINE kind == IF sub = "none" THEN "start" ELSE sub
              frames == <<Answer(kind, final)>>
  <1>2. kind \in Requests
    BY DEF DispatchInv, FrameInv, SocketsAgree, Requests
  <1>3. frames \in Seq(Reply) /\ ~LostIn(frames)
    <2>1. final \in Finals /\ final # "nobuffer"
      BY DEF DispatchInv, BufferInv, BufferTypeOK, Finals
    <2>. QED
      BY <1>2, <2>1, FramesTyped DEF DispatchInv
  <1>4. IF sub = "none" THEN UNCHANGED back ELSE Send(frames)
    BY DEF Completes
  <1>. HIDE DEF frames
  <1>. QED
    BY <1>1, <1>3, <1>4, TellsKeeps DEF Completes

\* Taking a frame from the wire.
LEMMA TakesKeeps ==
    ASSUME DispatchInv, NEW kind \in Requests \cup {"cancel"}, Takes(kind)
    PROVE  /\ dsock # 0 /\ starters = {} /\ phase \in {"none", "watch", "release"}
           /\ wire' \in Seq(Request) /\ OneAsk(wire') /\ Head(wire) \in Request
           /\ StartIn(wire') => StartIn(wire)
           /\ AskIn(wire') => AskIn(wire) /\ kind \in {"resume", "cancel"}
           /\ kind = "start" => StartIn(wire)
           /\ kind \in {"start", "probe"} => AskIn(wire)
           /\ turn # "new" /\ (Recovering => asock = 0)
           /\ UNCHANGED <<gens, dsock, asock, losses, api>>
  <1>. USE DEF DispatchInv, FrameInv
  <1>1. /\ dsock # 0 /\ starters = {} /\ phase \in {"none", "watch", "release"}
        /\ UNCHANGED <<gens, dsock, asock, losses, api>>
    BY DEF Takes, AtAwait, BufferInv
  <1>2. wire \in Seq(Request) /\ wire # <<>> /\ Head(wire).kind = kind
    BY DEF Takes, SocketsAgree
  <1>3. 1 \in DOMAIN wire /\ Head(wire) = wire[1] /\ wire[1] \in Request
    <2>1. Len(wire) \in Nat \ {0} /\ DOMAIN wire = 1..Len(wire) /\ Head(wire) = wire[1]
      BY <1>2, HeadTailProperties, LenProperties, EmptySeq
    <2>. QED
      BY <1>2, <2>1, ElementOfSeq
  <1>4. wire' = Tail(wire)
    BY DEF Takes
  <1>5. /\ wire' \in Seq(Request) /\ OneAsk(wire')
        /\ StartIn(wire') => StartIn(wire)
        /\ AskIn(wire') => AskIn(wire) /\ ~Asks(Head(wire))
    BY <1>2, <1>4, TailAsks
  <1>6. Asks(Head(wire)) <=> kind \in {"start", "probe"}
    BY <1>2 DEF Asks
  <1>7. /\ kind = "start" => StartIn(wire)
        /\ kind \in {"start", "probe"} => AskIn(wire)
    BY <1>2, <1>3, <1>6 DEF StartIn, AskIn
  <1>8. turn # "new" /\ (Recovering => asock = 0)
    BY <1>2 DEF NewIsFresh, RecoveringIsQuiet
  <1>9. AskIn(wire') => kind \in {"resume", "cancel"}
    BY <1>5, <1>6 DEF Requests
  <1>. QED
    BY <1>1, <1>3, <1>5, <1>7, <1>8, <1>9

LEMMA RunRests ==
    ASSUME RunOnce, UNCHANGED bufferVars
    PROVE  /\ RunOnce' /\ (Fresh <=> Fresh') /\ (Over <=> Over') /\ starters' = starters
  BY DEF RunOnce, Fresh, Over, Ended, bufferVars, process, disk, memory

LEMMA TakesCancelKeeps ==
    ASSUME DispatchInv, TakesCancel
    PROVE  FrameInv'
  <1>. USE DEF DispatchInv, FrameInv
  <1>1. Takes("cancel") /\ UNCHANGED <<back, sub>> /\ (Abort \/ UNCHANGED bufferVars)
    BY DEF TakesCancel
  <1>2. RunOnce' /\ (Fresh => Fresh') /\ (Over => Over') /\ starters' \subseteq starters
    BY <1>1, RunKeeps, RunRests DEF RunStep
  <1>3. /\ dsock # 0 /\ wire' \in Seq(Request) /\ OneAsk(wire')
        /\ (StartIn(wire') => StartIn(wire)) /\ (AskIn(wire') => AskIn(wire))
        /\ turn # "new" /\ (Recovering => asock = 0)
        /\ UNCHANGED <<gens, dsock, asock, losses, api>>
    BY <1>1, TakesKeeps
  <1>4. SocketsAgree'
    BY <1>1, <1>3 DEF SocketsAgree, api
  <1>. QED
    BY <1>1, <1>2, <1>3, <1>4, QuietStepKeeps

\* The start finds nothing of the run, and no other frame asks about it.
LEMMA TakesStartKeeps ==
    ASSUME DispatchInv, TakesStart
    PROVE  FrameInv'
  <1>. USE DEF DispatchInv, FrameInv
  <1>1. /\ dsock # 0 /\ starters = {} /\ wire' \in Seq(Request) /\ OneAsk(wire') /\ ~AskIn(wire')
        /\ StartIn(wire) /\ AskIn(wire) /\ turn # "new" /\ (Recovering => asock = 0)
        /\ UNCHANGED <<gens, dsock, asock, losses, api>>
    <2>1. Takes("start") /\ "start" \in Requests
      BY DEF TakesStart, Requests
    <2>. QED
      BY <2>1, TakesKeeps
  <1>2. Fresh /\ ~Known
    BY <1>1 DEF StartIsFresh, Fresh, Known
  <1>3. ExecStart(dsock) /\ UNCHANGED <<sub, back>>
    BY <1>2 DEF TakesStart
  <1>4. RunOnce'
    BY <1>2, <1>3 DEF RunOnce, Fresh, ExecStart
  <1>5. SocketsAgree'
    BY <1>1, <1>3 DEF SocketsAgree, api
  <1>6. ~StartIn(wire')
    BY <1>1, StartAsks
  <1>7. NewIsFresh' /\ RecoveringIsQuiet' /\ StartIsFresh'
    BY <1>1, <1>3, <1>6 DEF NewIsFresh, RecoveringIsQuiet, Recovering, StartIsFresh, api
  <1>8. LostIsFresh'
    BY <1>1, <1>3 DEF LostIsFresh, api
  <1>9. AbsentIsSettled' /\ GoneIsSettled'
    BY <1>1 DEF AbsentIsSettled, Settled, Undispatched, GoneIsSettled, api
  <1>10. JudgedIsAbsent' /\ SettledIsIdle' /\ ProbeDrives'
    BY <1>1 DEF JudgedIsAbsent, SettledIsIdle, ProbeDrives, api
  <1>. QED
    BY <1>1, <1>4, <1>5, <1>7, <1>8, <1>9, <1>10

\* The answer that there is no run is given only while there is none.
LEMMA TakesResumeKeeps ==
    ASSUME DispatchInv, TakesResume
    PROVE  FrameInv'
  <1>. USE DEF DispatchInv, FrameInv
  <1>1. PICK kind \in {"probe", "resume"} : Takes(kind) /\ Serve(kind, Head(wire).from)
    BY DEF TakesResume
  <1>. DEFINE from == Head(wire).from
  <1>2. /\ dsock # 0 /\ starters = {} /\ wire' \in Seq(Request) /\ OneAsk(wire')
        /\ (StartIn(wire') => StartIn(wire)) /\ (AskIn(wire') => AskIn(wire) /\ kind = "resume")
        /\ turn # "new" /\ (Recovering => asock = 0)
        /\ UNCHANGED <<gens, dsock, asock, losses, api>>
        /\ from \in Nat /\ kind \in Requests
        /\ phase \in {"none", "watch", "release"}
    <2>1. kind \in Requests
      BY DEF Requests
    <2>. QED
      BY <1>1, <2>1, TakesKeeps DEF Request
  <1>3. UNCHANGED bufferVars /\ RunOnce' /\ (Fresh <=> Fresh') /\ (Over <=> Over') /\ starters' = starters
    BY <1>1, RunRests DEF Serve
  <1>. DEFINE replay == Replay(kind, from, OnDisk(events))
              answer == Account
  <1>4. /\ Replay(kind, from, events) \in Seq(Reply) /\ ~LostIn(Replay(kind, from, events))
        /\ replay \in Seq(Reply) /\ ~LostIn(replay)
    <2>1. Len(events) \in Nat /\ Len(<<>>) \in Nat
      BY EntryTypes DEF BufferInv
    <2>2. ASSUME NEW es, Len(es) \in Nat
          PROVE  Replay(kind, from, es) \in Seq(Reply) /\ ~LostIn(Replay(kind, from, es))
      BY <1>2, <2>2, ReplayTyped
    <2>. QED
      BY <2>1, <2>2 DEF OnDisk
  <1>5. CASE stream = "running"
    <2>1. sub' = kind /\ Send(Replay(kind, from, events))
      BY <1>1, <1>5 DEF Serve
    <2>2. /\ back' \in Seq(Reply) /\ (LostIn(back') => LostIn(back))
          /\ (asock = 0 => back' = back)
      BY <1>4, <2>1, SendKeeps DEF SocketsAgree
    <2>3. SocketsAgree'
      BY <1>2, <2>1, <2>2 DEF SocketsAgree, api
    <2>. QED
      BY <1>2, <1>3, <2>2, <2>3, QuietStepKeeps
  <1>6. CASE stream # "running"
    <2>1. UNCHANGED sub /\ Send(Append(replay, Answer(kind, answer)))
      BY <1>1, <1>6 DEF Serve
    <2>2. /\ answer \in Finals \cup {"nobuffer"}
          /\ answer = "nobuffer" => meta = "none" \/ grace # "within"
      BY DEF Account, BufferInv, BufferTypeOK, Finals
    <2>3. answer = "nobuffer" => Fresh \/ grace # "within"
      BY <1>2, <1>6, <2>2 DEF RunOnce, Fresh, BufferInv, BufferTypeOK
    <2>. DEFINE a == answer
                frames == Append(replay, Answer(kind, a))
    <2>. HIDE DEF answer, replay
    <2>4. frames \in Seq(Reply) /\ (LostIn(frames) => a = "nobuffer" /\ kind = "probe")
      <3>1. Answer(kind, a) \in Reply
        BY <1>2, <2>2 DEF Answer, Reply
      <3>2. Lost(Answer(kind, a)) => a = "nobuffer" /\ kind = "probe"
        BY DEF Lost, Answer
      <3>3. /\ Len(replay) \in Nat /\ DOMAIN replay = 1..Len(replay)
            /\ frames \in Seq(Reply) /\ DOMAIN frames = 1..(Len(replay) + 1)
            /\ \A i \in 1..Len(replay) : frames[i] = replay[i]
            /\ frames[Len(replay) + 1] = Answer(kind, a)
        BY <1>4, <3>1, AppendProperties, LenProperties
      <3>. HIDE DEF frames
      <3>4. \A i \in DOMAIN frames :
               (i \in DOMAIN replay /\ frames[i] = replay[i]) \/ frames[i] = Answer(kind, a)
        BY <3>3
      <3>. QED
        BY <1>4, <3>2, <3>3, <3>4 DEF LostIn
    <2>. HIDE DEF frames
    <2>5. /\ back' \in Seq(Reply)
          /\ LostIn(back') => LostIn(back) \/ LostIn(frames)
          /\ (asock = 0 => back' = back)
      BY <2>1, <2>4, SendKeeps DEF SocketsAgree, frames
    <2>6. LostIn(back') => LostIn(back) \/ (Fresh' /\ ~AskIn(wire')) \/ grace # "within"
      BY <1>2, <1>3, <2>3, <2>4, <2>5
    <2>7. SocketsAgree'
      BY <1>2, <2>1, <2>5 DEF SocketsAgree, api
    <2>. QED
      BY <1>2, <1>3, <2>5, <2>6, <2>7, QuietStepKeeps
  <1>. QED
    BY <1>5, <1>6

LEMMA OpensKeeps ==
    ASSUME DispatchInv, BufferInv', Opens
    PROVE  FrameInv'
  <1>. USE DEF DispatchInv, FrameInv
  <1>1. PICK g \in starters : OpenStream(g) /\ sub' = IF g = dsock THEN "start" ELSE sub
    BY DEF Opens
  <1>2. UNCHANGED <<gens, dsock, asock, losses, wire, back, api>>
    BY DEF Opens
  <1>3. starters = {g} /\ starters' = {} /\ ~Fresh /\ ~Over
    BY <1>1 DEF OpenStream, BufferInv, StartsClean, Fresh, RunOnce, Over, Ended
  <1>4. RunOnce'
    BY <1>1, <1>3 DEF OpenStream, RunOnce
  <1>5. SocketsAgree'
    BY <1>1, <1>2 DEF SocketsAgree, Requests, api
  <1>6. turn # "new" /\ (Recovering => asock = 0)
    BY <1>3 DEF NewIsFresh, RecoveringIsQuiet
  <1>7. OneAsk(wire') /\ wire' = wire /\ back' = back /\ UNCHANGED <<asock, api>>
    BY <1>2
  <1>. QED
    BY <1>3, <1>4, <1>5, <1>6, <1>7, QuietStepKeeps

-----------------------------------------------------------------------------
(* The connections *)

LEMMA DialKeeps ==
    ASSUME DispatchInv, Dial
    PROVE  FrameInv'
  <1>. USE DEF DispatchInv, FrameInv
  <1>1. /\ gens' = gens + 1 /\ dsock' = gens' /\ asock' = gens'
        /\ wire' = <<>> /\ back' = <<>> /\ sub' = "none"
        /\ UNCHANGED <<bufferVars, judging, got>>
        /\ absent' = absent \/ (absent' = gens' /\ (meta = "none" \/ grace # "within" \/ missed'))
        /\ (missed => missed')
    BY DEF Dial, Actionable
  <1>2. /\ req' \in {req, "none"}
        /\ turn' = turn \/ (turn \in {"driving", "resuming"} /\ turn' = "suspended" /\ req' = "none")
    BY DEF Dial, FailPending
  <1>3. starters = {} /\ phase \in {"none", "watch", "release"}
    BY DEF Dial, AtAwait, BufferInv
  <1>4. RunOnce' /\ (Fresh <=> Fresh') /\ (Over <=> Over') /\ starters' = {}
    BY <1>1, <1>3, RunRests
  <1>5. gens' \in Nat /\ gens' # 0 /\ 0..gens \subseteq 0..gens' /\ gens' \notin 0..gens
    BY <1>1 DEF SocketsAgree
  <1>6. SocketsAgree'
    <2>1. dsock' \in 0..gens' /\ asock' \in 0..gens' /\ absent' \in 0..gens' /\ judging' \in 0..gens'
      BY <1>1, <1>5 DEF SocketsAgree
    <2>2. req' \in Requests \cup {"none"} /\ sub' \in Requests \cup {"none"} /\ got' \in Seq(Int)
      BY <1>1, <1>2 DEF SocketsAgree
    <2>3. wire' \in Seq(Request) /\ back' \in Seq(Reply)
      BY <1>1
    <2>4. {dsock, asock, absent, judging}' \subseteq 0..gens'
      BY <2>1
    <2>. QED
      BY <1>1, <1>5, <2>2, <2>3, <2>4 DEF SocketsAgree
  <1>7. meta = "none" => Fresh
    BY <1>3 DEF RunOnce, Fresh, BufferInv, BufferTypeOK
  <1>8. OneAsk(wire') /\ ~AskIn(wire') /\ ~StartIn(wire') /\ ~LostIn(back')
    BY <1>1, EmptyAsks
  <1>9. NewIsFresh' /\ RecoveringIsQuiet' /\ StartIsFresh' /\ LostIsFresh'
    BY <1>1, <1>2, <1>4, <1>8 DEF NewIsFresh, RecoveringIsQuiet, StartIsFresh, LostIsFresh
  <1>10. absent' = asock' => Settled'
    <2>1. absent' = gens' => Fresh \/ Over \/ missed'
      BY <1>1, <1>5, <1>7 DEF GraceIsLong, SocketsAgree
    <2>. QED
      BY <1>1, <1>4, <2>1 DEF Settled
  <1>11. AbsentIsSettled'
    BY <1>4, <1>8, <1>10 DEF AbsentIsSettled, Settled
  <1>12. JudgedIsAbsent'
    BY <1>1, <1>5 DEF JudgedIsAbsent, SocketsAgree
  <1>13. SettledIsIdle' /\ ProbeDrives' /\ GoneIsSettled'
    BY <1>1, <1>2, <1>4, <1>8 DEF SettledIsIdle, ProbeDrives, GoneIsSettled, Settled
  <1>. QED
    BY <1>4, <1>6, <1>8, <1>9, <1>11, <1>12, <1>13

LEMMA DaemonLosesSocketKeeps ==
    ASSUME DispatchInv, DaemonLosesSocket
    PROVE  FrameInv'
  <1>. USE DEF DispatchInv, FrameInv
  <1>1. /\ dsock' = 0 /\ wire' = <<>> /\ sub' = "none"
        /\ UNCHANGED <<bufferVars, gens, asock, back, api>>
    BY DEF DaemonLosesSocket
  <1>2. starters = {}
    BY DEF DaemonLosesSocket, AtAwait, BufferInv
  <1>3. RunOnce' /\ (Fresh <=> Fresh') /\ (Over <=> Over') /\ starters' = {}
    BY <1>1, <1>2, RunRests
  <1>4. SocketsAgree'
    BY <1>1 DEF SocketsAgree, api
  <1>. QED
    BY <1>1, <1>3, <1>4, EmptyAsks, QuietStepKeeps

LEMMA ApiLosesSocketKeeps ==
    ASSUME DispatchInv, ApiLosesSocket
    PROVE  FrameInv'
  <1>. USE DEF DispatchInv, FrameInv
  <1>1. /\ asock # 0 /\ asock' = 0 /\ back' = <<>> /\ req' = "none"
        /\ turn' = turn \/ (turn \in {"driving", "resuming"} /\ turn' = "suspended")
        /\ UNCHANGED <<bufferVars, gens, dsock, wire, sub, hello, judging, got>>
    BY DEF ApiLosesSocket, FailPending
  <1>2. RunOnce' /\ (Fresh <=> Fresh') /\ (Over <=> Over') /\ starters' = starters
    BY <1>1, RunRests
  <1>3. SocketsAgree'
    BY <1>1 DEF SocketsAgree
  <1>4. NewIsFresh' /\ RecoveringIsQuiet' /\ StartIsFresh' /\ LostIsFresh'
    BY <1>1, <1>2 DEF NewIsFresh, RecoveringIsQuiet, StartIsFresh, LostIsFresh
  <1>5. AbsentIsSettled' /\ JudgedIsAbsent'
    BY <1>1 DEF AbsentIsSettled, Settled, JudgedIsAbsent
  <1>6. SettledIsIdle' /\ ProbeDrives' /\ GoneIsSettled' /\ OneAsk(wire')
    BY <1>1, <1>2 DEF SettledIsIdle, ProbeDrives, GoneIsSettled, Settled
  <1>. QED
    BY <1>2, <1>3, <1>4, <1>5, <1>6

-----------------------------------------------------------------------------
(* The API *)

\* A call puts one frame on the wire, if the daemon is there to read it.
LEMMA CallKeeps ==
    ASSUME DispatchInv, asock # 0, NEW kind \in Requests, Call(kind)
    PROVE  /\ wire' \in Seq(Request) /\ (dsock' = 0 /\ wire = <<>> => wire' = <<>>)
           /\ wire' = wire \/ dsock = asock
           /\ ~AskIn(wire) \/ kind = "resume" => OneAsk(wire')
           /\ kind # "start" => (StartIn(wire') => StartIn(wire))
           /\ req' = kind /\ RunOnce' /\ (Fresh <=> Fresh') /\ (Over <=> Over')
           /\ UNCHANGED <<bufferVars, starters, gens, dsock, asock, losses, sub>>
  <1>. USE DEF DispatchInv, FrameInv
  <1>. DEFINE f == [kind |-> kind, from |-> IF kind = "resume" THEN Len(got) ELSE 0]
  <1>1. f \in Request
    <2>1. Len(got) \in Nat
      BY LenProperties DEF SocketsAgree
    <2>. QED
      BY <2>1 DEF Request
  <1>2. wire' = IF dsock # asock THEN wire ELSE Append(wire, f)
    BY DEF Call
  <1>3. wire \in Seq(Request) /\ OneAsk(wire)
    BY DEF SocketsAgree
  <1>4. f.kind = kind /\ (kind = "resume" => ~Asks(f))
    BY DEF Asks
  <1>. HIDE DEF f
  <1>5. RunOnce' /\ (Fresh <=> Fresh') /\ (Over <=> Over') /\ starters' = starters
    BY RunRests DEF Call
  <1>6. UNCHANGED <<bufferVars, gens, dsock, asock, losses, sub>> /\ req' = kind
    BY DEF Call
  <1>. QED
    BY <1>1, <1>2, <1>3, <1>4, <1>5, <1>6, AppendAsks

LEMMA DispatchKeeps ==
    ASSUME DispatchInv, Dispatch
    PROVE  FrameInv'
  <1>. USE DEF DispatchInv, FrameInv
  <1>1. /\ turn = "new" /\ turn' = "driving" /\ Fresh /\ req = "none" /\ wire = <<>> /\ back = <<>>
        /\ UNCHANGED <<hello, judging, got, back>>
    BY DEF Dispatch, NewIsFresh
  <1>2. CASE asock # 0
    <2>1. Call("start") /\ "start" \in Requests
      BY <1>2 DEF Dispatch, Requests
    <2>2. /\ wire' \in Seq(Request) /\ (dsock' = 0 => wire' = <<>>) /\ OneAsk(wire')
          /\ req' = "start" /\ RunOnce' /\ Fresh'
          /\ UNCHANGED <<bufferVars, gens, dsock, asock, losses, sub>>
      BY <1>1, <1>2, <2>1, EmptyAsks, CallKeeps
    <2>3. SocketsAgree'
      BY <1>1, <1>2, <2>2 DEF SocketsAgree, Requests
    <2>4. NewIsFresh' /\ RecoveringIsQuiet' /\ StartIsFresh' /\ LostIsFresh'
      BY <1>1, <2>2 DEF NewIsFresh, RecoveringIsQuiet, Recovering, StartIsFresh, LostIsFresh
    <2>5. AbsentIsSettled' /\ JudgedIsAbsent' /\ SettledIsIdle' /\ ProbeDrives' /\ GoneIsSettled'
      BY <1>1, <2>2 DEF AbsentIsSettled, Settled, Undispatched, JudgedIsAbsent, SettledIsIdle, ProbeDrives,
         GoneIsSettled
    <2>. QED
      BY <2>2, <2>3, <2>4, <2>5
  <1>3. CASE asock = 0
    <2>1. UNCHANGED <<bufferVars, gens, dsock, asock, losses, sub, req, wire>>
      BY <1>3 DEF Dispatch
    <2>2. RunOnce' /\ (Fresh <=> Fresh') /\ (Over <=> Over') /\ starters' = starters
      BY <2>1, RunRests
    <2>3. SocketsAgree'
      BY <1>1, <2>1 DEF SocketsAgree
    <2>4. NewIsFresh' /\ RecoveringIsQuiet' /\ StartIsFresh' /\ LostIsFresh' /\ OneAsk(wire')
      BY <1>1, <1>3, <2>1, <2>2 DEF NewIsFresh, RecoveringIsQuiet, StartIsFresh, LostIsFresh
    <2>5. AbsentIsSettled' /\ JudgedIsAbsent' /\ SettledIsIdle' /\ ProbeDrives' /\ GoneIsSettled'
      BY <1>1, <1>3, <2>1 DEF AbsentIsSettled, Settled, JudgedIsAbsent, SettledIsIdle, ProbeDrives, GoneIsSettled
    <2>. QED
      BY <2>2, <2>3, <2>4, <2>5
  <1>. QED
    BY <1>2, <1>3

LEMMA ProbeKeeps ==
    ASSUME DispatchInv, Probe
    PROVE  FrameInv'
  <1>. USE DEF DispatchInv, FrameInv
  <1>1. /\ Recovering /\ asock # 0 /\ wire = <<>> /\ back = <<>> /\ "probe" \in Requests
        /\ Call("probe") /\ UNCHANGED <<hello, judging, turn, got, back>>
    BY DEF Probe, RecoveringIsQuiet, Requests
  <1>2. /\ wire' \in Seq(Request) /\ (dsock' = 0 => wire' = <<>>) /\ OneAsk(wire')
        /\ ~StartIn(wire') /\ req' = "probe" /\ RunOnce' /\ (Fresh <=> Fresh') /\ (Over <=> Over')
        /\ UNCHANGED <<bufferVars, starters, gens, dsock, asock, losses, sub>>
    BY <1>1, EmptyAsks, CallKeeps
  <1>3. SocketsAgree'
    BY <1>1, <1>2 DEF SocketsAgree
  <1>4. NewIsFresh' /\ RecoveringIsQuiet' /\ StartIsFresh' /\ LostIsFresh'
    BY <1>1, <1>2, EmptyAsks DEF NewIsFresh, RecoveringIsQuiet, Recovering, StartIsFresh, LostIsFresh
  <1>5. AbsentIsSettled' /\ JudgedIsAbsent'
    BY <1>1, <1>2 DEF Recovering, AbsentIsSettled, Settled, Undispatched, JudgedIsAbsent
  <1>6. SettledIsIdle' /\ ProbeDrives' /\ GoneIsSettled'
    BY <1>1, <1>2 DEF Recovering, SettledIsIdle, ProbeDrives, GoneIsSettled, Settled
  <1>. QED
    BY <1>2, <1>3, <1>4, <1>5, <1>6

LEMMA GivesUpKeeps ==
    ASSUME DispatchInv, GivesUp
    PROVE  FrameInv'
  <1>. USE DEF DispatchInv, FrameInv, GivesUp, Recovering, net
  <1>1. RunOnce' /\ (Fresh <=> Fresh') /\ (Over <=> Over') /\ starters' = starters
    BY RunRests
  <1>2. SocketsAgree' /\ NewIsFresh' /\ RecoveringIsQuiet' /\ OneAsk(wire')
    BY DEF SocketsAgree, NewIsFresh, RecoveringIsQuiet
  <1>3. StartIsFresh' /\ LostIsFresh' /\ AbsentIsSettled'
    BY <1>1 DEF StartIsFresh, LostIsFresh, AbsentIsSettled, Settled, Undispatched
  <1>4. JudgedIsAbsent' /\ SettledIsIdle' /\ ProbeDrives' /\ GoneIsSettled'
    BY DEF JudgedIsAbsent, SettledIsIdle, ProbeDrives, GoneIsSettled, Settled
  <1>. QED
    BY <1>1, <1>2, <1>3, <1>4

\* Reading a frame from the daemon.
LEMMA ReceivesKeeps ==
    ASSUME DispatchInv, Receives
    PROVE  /\ asock # 0 /\ back' \in Seq(Reply) /\ (LostIn(back') => LostIn(back))
           /\ Frame \in Reply /\ (Lost(Frame) => LostIn(back))
           /\ turn # "new" /\ ~Recovering
  <1>. USE DEF DispatchInv, FrameInv, Frame
  <1>1. asock # 0 /\ back # <<>> /\ back' = Tail(back) /\ back \in Seq(Reply)
    BY DEF Receives, SocketsAgree
  <1>2. 1 \in DOMAIN back /\ Head(back) = back[1] /\ back[1] \in Reply
    <2>1. Len(back) \in Nat \ {0} /\ DOMAIN back = 1..Len(back) /\ Head(back) = back[1]
      BY <1>1, HeadTailProperties, LenProperties, EmptySeq
    <2>. QED
      BY <1>1, <2>1, ElementOfSeq
  <1>3. Lost(Frame) => LostIn(back)
    BY <1>2 DEF LostIn
  <1>4. turn # "new" /\ ~Recovering
    BY <1>1 DEF NewIsFresh, RecoveringIsQuiet
  <1>. QED
    BY <1>1, <1>2, <1>3, <1>4, TailLost

LEMMA EventStays ==
    ASSUME DispatchInv, GetsEvent
    PROVE  got' \in Seq(Int) /\ (got' = <<>> => got = <<>>)
  <1>1. got \in Seq(Int) /\ Frame.seq \in Int
    BY ReceivesKeeps DEF GetsEvent, DispatchInv, FrameInv, SocketsAgree, Reply
  <1>2. got' = Append(got, Frame.seq) \/ got' = got
    BY DEF GetsEvent
  <1>3. Append(got, Frame.seq) \in Seq(Int) /\ Append(got, Frame.seq) # <<>>
    BY <1>1, AppendProperties
  <1>. QED
    BY <1>1, <1>2, <1>3

LEMMA GetsEventKeeps ==
    ASSUME DispatchInv, GetsEvent
    PROVE  FrameInv'
  <1>. USE DEF DispatchInv, FrameInv
  <1>1. /\ asock # 0 /\ back' \in Seq(Reply) /\ (LostIn(back') => LostIn(back))
        /\ Frame \in Reply /\ turn # "new" /\ ~Recovering
    BY ReceivesKeeps DEF GetsEvent
  <1>2. /\ UNCHANGED <<bufferVars, gens, dsock, asock, losses, wire, sub>>
        /\ UNCHANGED <<hello, judging, turn, req>>
    BY DEF GetsEvent
  <1>3. RunOnce' /\ (Fresh <=> Fresh') /\ (Over <=> Over') /\ starters' = starters
    BY <1>2, RunRests
  <1>4. got' \in Seq(Int) /\ (got' = <<>> => got = <<>>)
    BY EventStays
  <1>5. SocketsAgree'
    BY <1>1, <1>2, <1>4 DEF SocketsAgree
  <1>6. NewIsFresh' /\ RecoveringIsQuiet' /\ StartIsFresh' /\ LostIsFresh' /\ OneAsk(wire')
    BY <1>1, <1>2, <1>3, <1>4 DEF NewIsFresh, RecoveringIsQuiet, Recovering, StartIsFresh, LostIsFresh
  <1>7. AbsentIsSettled' /\ JudgedIsAbsent' /\ SettledIsIdle' /\ ProbeDrives' /\ GoneIsSettled'
    BY <1>2, <1>3 DEF AbsentIsSettled, Settled, Undispatched, JudgedIsAbsent, SettledIsIdle, ProbeDrives,
       GoneIsSettled
  <1>. QED
    BY <1>3, <1>5, <1>6, <1>7

\* An answer that settles the turn, or suspends it when a probe found a crash.
LEMMA GetsAnswerKeeps ==
    ASSUME DispatchInv, GetsAnswer
    PROVE  FrameInv'
  <1>. USE DEF DispatchInv, FrameInv
  <1>1. /\ asock # 0 /\ back' \in Seq(Reply) /\ turn # "new" /\ ~Recovering
    BY ReceivesKeeps DEF GetsAnswer
  <1>2. /\ UNCHANGED <<bufferVars, gens, dsock, asock, losses, wire, sub>>
        /\ UNCHANGED <<hello, judging, got>> /\ req' = "none"
        /\ \/ turn' = "suspended" /\ req = "probe"
           \/ turn' \in {"ok", "cancelled", "failed"}
    BY DEF GetsAnswer, Inconclusive, TerminalFor
  <1>3. RunOnce' /\ (Fresh <=> Fresh') /\ (Over <=> Over') /\ starters' = starters
    BY <1>2, RunRests
  <1>4. SocketsAgree'
    BY <1>1, <1>2 DEF SocketsAgree
  <1>5. NewIsFresh' /\ RecoveringIsQuiet' /\ StartIsFresh' /\ LostIsFresh' /\ OneAsk(wire')
    BY <1>2, <1>3 DEF NewIsFresh, RecoveringIsQuiet, Recovering, StartIsFresh, LostIsFresh
  <1>6. AbsentIsSettled'
    BY <1>2, <1>3 DEF AbsentIsSettled, Settled, Undispatched, ProbeDrives
  <1>7. JudgedIsAbsent' /\ SettledIsIdle' /\ ProbeDrives' /\ GoneIsSettled'
    BY <1>2 DEF JudgedIsAbsent, SettledIsIdle, ProbeDrives, GoneIsSettled, Settled
  <1>. QED
    BY <1>3, <1>4, <1>5, <1>6, <1>7

\* The dispatch is repeated only when it is known that it came to nothing.
LEMMA RedispatchKeeps ==
    ASSUME DispatchInv, Redispatch
    PROVE  FrameInv'
  <1>. USE DEF DispatchInv, FrameInv
  <1>1. /\ asock # 0 /\ back' \in Seq(Reply) /\ turn # "new" /\ Lost(Frame) /\ LostIn(back)
        /\ req = "probe" /\ got = <<>>
    BY ReceivesKeeps DEF Redispatch, ProvesLost, Lost
  <1>2. Fresh /\ ~AskIn(wire) /\ turn = "driving"
    BY <1>1 DEF LostIsFresh, ProbeDrives
  <1>3. /\ Call("start") /\ "start" \in Requests
        /\ UNCHANGED <<hello, judging, turn, got>>
    BY DEF Redispatch, Requests
  <1>4. /\ wire' \in Seq(Request) /\ (dsock' = 0 => wire' = <<>>) /\ OneAsk(wire')
        /\ req' = "start" /\ RunOnce' /\ Fresh'
        /\ UNCHANGED <<bufferVars, gens, dsock, asock, losses, sub>>
    BY <1>1, <1>2, <1>3, CallKeeps DEF SocketsAgree
  <1>5. SocketsAgree'
    BY <1>1, <1>3, <1>4 DEF SocketsAgree, Requests
  <1>6. NewIsFresh' /\ RecoveringIsQuiet' /\ StartIsFresh' /\ LostIsFresh'
    BY <1>1, <1>3, <1>4 DEF NewIsFresh, RecoveringIsQuiet, Recovering, StartIsFresh, LostIsFresh
  <1>7. AbsentIsSettled' /\ JudgedIsAbsent' /\ SettledIsIdle' /\ ProbeDrives' /\ GoneIsSettled'
    BY <1>2, <1>3, <1>4 DEF AbsentIsSettled, Settled, Undispatched, JudgedIsAbsent, SettledIsIdle,
       ProbeDrives, GoneIsSettled
  <1>. QED
    BY <1>4, <1>5, <1>6, <1>7

LEMMA DropsAnswerKeeps ==
    ASSUME DispatchInv, DropsAnswer
    PROVE  FrameInv'
  <1>. USE DEF DispatchInv, FrameInv
  <1>1. /\ asock # 0 /\ back' \in Seq(Reply) /\ (LostIn(back') => LostIn(back))
        /\ turn # "new" /\ ~Recovering
    BY ReceivesKeeps DEF DropsAnswer
  <1>2. UNCHANGED <<bufferVars, gens, dsock, asock, losses, wire, sub, api>>
    BY DEF DropsAnswer
  <1>3. RunOnce' /\ (Fresh <=> Fresh') /\ (Over <=> Over') /\ starters' = starters
    BY <1>2, RunRests
  <1>4. SocketsAgree' /\ OneAsk(wire') /\ wire' = wire
    BY <1>1, <1>2 DEF SocketsAgree, api
  <1>. QED
    BY <1>1, <1>2, <1>3, <1>4, QuietStepKeeps

LEMMA CancelKeeps ==
    ASSUME DispatchInv, Cancel
    PROVE  FrameInv'
  <1>. USE DEF DispatchInv, FrameInv
  <1>. DEFINE f == [kind |-> "cancel", from |-> 0]
  <1>1. /\ UNCHANGED <<bufferVars, gens, dsock, asock, losses, back, sub>>
        /\ UNCHANGED <<hello, judging, got>>
        /\ turn' = "cancelled" /\ req' = "none" /\ turn # "new"
        /\ wire' = wire \/ (dsock = asock /\ req # "none" /\ wire' = Append(wire, f))
    BY DEF Cancel
  <1>2. RunOnce' /\ (Fresh <=> Fresh') /\ (Over <=> Over') /\ starters' = starters
    BY <1>1, RunRests
  <1>3. wire' \in Seq(Request) /\ OneAsk(wire') /\ (StartIn(wire') => StartIn(wire))
    <2>1. f \in Request /\ f.kind # "start" /\ ~Asks(f) /\ wire \in Seq(Request)
      BY DEF Request, Asks, SocketsAgree
    <2>. HIDE DEF f
    <2>. QED
      BY <1>1, <2>1, AppendAsks
  <1>4. StartIsFresh' /\ LostIsFresh'
    BY <1>1, <1>2, <1>3 DEF StartIsFresh, LostIsFresh
  <1>5. NewIsFresh' /\ RecoveringIsQuiet'
    BY <1>1 DEF NewIsFresh, RecoveringIsQuiet, Recovering
  <1>6. AbsentIsSettled' /\ JudgedIsAbsent' /\ SettledIsIdle' /\ ProbeDrives' /\ GoneIsSettled'
    BY <1>1 DEF AbsentIsSettled, Settled, Undispatched, JudgedIsAbsent, SettledIsIdle, ProbeDrives, GoneIsSettled
  <1>7. SocketsAgree'
    BY <1>1, <1>3 DEF SocketsAgree
  <1>. QED
    BY <1>2, <1>3, <1>4, <1>5, <1>6, <1>7

-----------------------------------------------------------------------------
(* Hello reconciliation *)

LEMMA ResumeKeeps ==
    ASSUME DispatchInv, Resume
    PROVE  FrameInv'
  <1>. USE DEF DispatchInv, FrameInv
  <1>1. /\ asock # 0 /\ turn = "suspended" /\ turn' = "resuming"
        /\ Call("resume") /\ "resume" \in Requests
        /\ UNCHANGED <<hello, judging, got, back>>
    BY DEF Resume, Requests
  <1>2. /\ wire' \in Seq(Request) /\ (dsock' = 0 => wire' = <<>>) /\ OneAsk(wire')
        /\ (StartIn(wire') => StartIn(wire)) /\ req' = "resume" /\ RunOnce' /\ (Fresh <=> Fresh') /\ (Over <=> Over')
        /\ UNCHANGED <<bufferVars, gens, dsock, asock, losses, sub>>
    BY <1>1, CallKeeps DEF SocketsAgree
  <1>3. SocketsAgree'
    BY <1>1, <1>2 DEF SocketsAgree
  <1>4. NewIsFresh' /\ RecoveringIsQuiet' /\ StartIsFresh' /\ LostIsFresh'
    BY <1>1, <1>2 DEF NewIsFresh, RecoveringIsQuiet, Recovering, StartIsFresh, LostIsFresh
  <1>5. AbsentIsSettled' /\ JudgedIsAbsent' /\ SettledIsIdle' /\ ProbeDrives' /\ GoneIsSettled'
    BY <1>1, <1>2 DEF AbsentIsSettled, Settled, Undispatched, JudgedIsAbsent, SettledIsIdle, ProbeDrives,
       GoneIsSettled
  <1>. QED
    BY <1>2, <1>3, <1>4, <1>5

LEMMA JudgeKeeps ==
    ASSUME DispatchInv, Judge \/ JudgeEnds
    PROVE  FrameInv'
  <1>. USE DEF DispatchInv, FrameInv
  <1>1. UNCHANGED <<bufferVars, net, hello, req, got>> /\ turn' \in {turn, "gone"}
    BY DEF Judge, JudgeEnds
  <1>2. judging' = 0 \/ (judging' = absent /\ absent = asock /\ turn' = turn)
    BY DEF Judge, JudgeEnds, Unvetoed
  <1>3. turn' # turn => Settled /\ ~StartIn(wire) /\ turn = "suspended"
    BY DEF Judge, JudgeEnds, Unvetoed, JudgedIsAbsent, AbsentIsSettled, Settled, Undispatched
  <1>4. RunOnce' /\ (Fresh <=> Fresh') /\ (Over <=> Over') /\ starters' = starters
    BY <1>1, RunRests
  <1>5. UNCHANGED <<gens, dsock, asock, losses, wire, back, sub>>
    BY <1>1 DEF net
  <1>6. SocketsAgree' /\ OneAsk(wire')
    BY <1>1, <1>2, <1>5 DEF SocketsAgree
  <1>7. NewIsFresh' /\ RecoveringIsQuiet' /\ StartIsFresh' /\ LostIsFresh'
    BY <1>1, <1>4, <1>5 DEF NewIsFresh, RecoveringIsQuiet, Recovering, StartIsFresh, LostIsFresh
  <1>8. AbsentIsSettled' /\ JudgedIsAbsent'
    BY <1>1, <1>2, <1>4, <1>5 DEF AbsentIsSettled, Settled, Undispatched, JudgedIsAbsent
  <1>9. SettledIsIdle' /\ ProbeDrives' /\ GoneIsSettled'
    BY <1>1, <1>3, <1>4, <1>5 DEF SettledIsIdle, ProbeDrives, GoneIsSettled, Settled
  <1>. QED
    BY <1>4, <1>6, <1>7, <1>8, <1>9

-----------------------------------------------------------------------------
(* Old age *)

\* A step that goes on with an old run leaves it over; a start, which would
\* begin it anew, finds nothing, so nothing old either.
LEMMA RunStaysOver ==
    ASSUME DispatchInv,
           DaemonStep \/ Watches \/ DaemonDies \/ DaemonStarts
    PROVE  \/ /\ (Over => Over') /\ starters' \subseteq starters
              /\ UNCHANGED <<grace, turn, got>>
           \/ grace' = "within"
  <1>. USE DEF DispatchInv, FrameInv
  <1>1. CASE TakesStart
    <2>1. Takes("start") /\ "start" \in Requests \cup {"cancel"}
      BY <1>1 DEF TakesStart, Requests
    <2>2. Fresh /\ ~Known
      BY <2>1, TakesKeeps DEF StartIsFresh, Fresh, Known
    <2>. QED
      BY <1>1, <2>2 DEF TakesStart
  <1>2. CASE TakesResume
    <2>1. UNCHANGED <<bufferVars, grace, api>>
      BY <1>2 DEF TakesResume, Takes, Serve
    <2>. QED
      BY <2>1, RunRests DEF api
  <1>3. CASE TakesCancel
    <2>1. (RunStep \/ UNCHANGED bufferVars) /\ UNCHANGED <<grace, api>>
      BY <1>3 DEF TakesCancel, Takes, RunStep
    <2>. QED
      BY <2>1, RunKeeps, RunRests DEF api
  <1>4. CASE Opens
    <2>1. starters # {} /\ UNCHANGED <<grace, api>> /\ starters' \subseteq starters
      BY <1>4 DEF Opens, OpenStream
    <2>2. ~Over
      BY <2>1 DEF RunOnce, BufferInv, StartsClean, Over, Ended
    <2>. QED
      BY <2>1, <2>2 DEF api
  <1>5. CASE Publishes \/ Completes \/ Watches \/ DaemonDies \/ DaemonStarts
    <2>1. RunStep /\ UNCHANGED <<grace, api>>
      BY <1>5 DEF Publishes, Completes, Watches, DaemonDies, DaemonStarts, RunStep
    <2>. QED
      BY <2>1, RunKeeps DEF api
  <1>. QED
    BY <1>1, <1>2, <1>3, <1>4, <1>5 DEF DaemonStep

\* The connections and the API leave the run, and a dispatch that has an event
\* keeps it.
LEMMA ApiStaysLong ==
    ASSUME DispatchInv,
           Dial \/ DaemonLosesSocket \/ ApiLosesSocket \/ ApiStep \/ Cancel \/ Reconciles
    PROVE  GraceIsLong'
  <1>1. (Over <=> Over') /\ starters' = starters
    BY ApiLeavesRun, RunRests DEF DispatchInv, FrameInv
  <1>2. CASE GetsEvent
    <2>1. UNCHANGED <<grace, turn>> /\ (got' = <<>> => got = <<>>)
      BY <1>2, EventStays DEF GetsEvent
    <2>. QED
      BY <1>1, <2>1 DEF DispatchInv, GraceIsLong
  <1>3. CASE ~GetsEvent
    <2>1. /\ UNCHANGED <<grace, got>>
          /\ turn' = "new" => turn = "new"
          /\ turn' = "driving" => turn \in {"new", "driving"}
      BY <1>3 DEF Dial, FailPending, DaemonLosesSocket, ApiLosesSocket, ApiStep, Dispatch, Probe,
         GivesUp, GetsAnswer, TerminalFor, Redispatch, DropsAnswer, Cancel, Call,
         Reconciles, Resume, Judge, JudgeEnds, api, net
    <2>. QED
      BY <1>1, <2>1 DEF DispatchInv, GraceIsLong
  <1>. QED
    BY <1>2, <1>3

LEMMA GraceStaysLong ==
    ASSUME DispatchInv, [Next]_vars
    PROVE  GraceIsLong'
  <1>1. CASE DaemonStep \/ Watches \/ DaemonDies \/ DaemonStarts
    BY <1>1, RunStaysOver DEF DispatchInv, GraceIsLong
  <1>2. CASE GraceEnds \/ Collects
    <2>1. /\ UNCHANGED <<bufferVars, api, net>> /\ Over /\ starters = {} /\ turn # "new"
          /\ ~(turn = "driving" /\ got = <<>>)
      <3>1. Ended \/ meta = "running" => starters = {} /\ turn # "new"
        BY DEF DispatchInv, FrameInv, RunOnce, NewIsFresh, Fresh, Ended
      <3>2. CASE GraceEnds
        BY <3>1, <3>2 DEF GraceEnds, Over
      <3>3. CASE Collects /\ grace = "over"
        BY <3>3 DEF Collects, DispatchInv, GraceIsLong
      <3>4. CASE Collects /\ HalfEnded
        BY <3>1, <3>4 DEF Collects, HalfEnded, Over
      <3>. QED
        BY <1>2, <3>2, <3>3, <3>4 DEF Collects
    <2>. QED
      BY <2>1, RunRests DEF DispatchInv, FrameInv, GraceIsLong, api
  <1>3. CASE Dial \/ DaemonLosesSocket \/ ApiLosesSocket \/ ApiStep \/ Cancel \/ Reconciles
    BY <1>3, ApiStaysLong
  <1>4. CASE UNCHANGED vars
    BY <1>4, RunRests DEF vars, api, DispatchInv, FrameInv, GraceIsLong
  <1>. QED
    BY <1>1, <1>2, <1>3, <1>4 DEF Next

-----------------------------------------------------------------------------

LEMMA DispatchInitInv ==
    ASSUME SetupWaits = FALSE, Init
    PROVE  DispatchInv
  <1>. USE DEF Init
  <1>1. BufferInv
    BY BufferInitInv
  <1>2. SocketsAgree
    BY DEF SocketsAgree
  <1>3. RunOnce /\ Fresh
    BY DEF RunOnce, Fresh, BufferInit
  <1>4. OneAsk(wire) /\ ~StartIn(wire)
    BY EmptyAsks
  <1>. QED
    BY <1>1, <1>2, <1>3, <1>4 DEF DispatchInv, FrameInv, GraceIsLong, NewIsFresh, RecoveringIsQuiet, Recovering,
       StartIsFresh, LostIsFresh, AbsentIsSettled, Settled, JudgedIsAbsent, SettledIsIdle, ProbeDrives,
       GoneIsSettled

LEMMA DispatchNextKeeps == DispatchInv /\ [Next]_vars => DispatchInv'
  <1>. SUFFICES ASSUME DispatchInv, [Next]_vars
                PROVE  DispatchInv'
    OBVIOUS
  <1>1. BufferInv' /\ GraceIsLong'
    <2>1. Numbered
      BY DEF DispatchInv, FrameInv, SocketsAgree, BufferInv, BufferTypeOK, Numbered
    <2>. QED
      BY <2>1, StepMaps, BufferNextKeeps, GraceStaysLong DEF DispatchInv
  <1>2. CASE DaemonStep
    BY <1>1, <1>2, TakesStartKeeps, TakesResumeKeeps, TakesCancelKeeps, OpensKeeps,
       PublishesKeeps, CompletesKeeps DEF DaemonStep, DispatchInv
  <1>3. CASE Watches \/ DaemonDies \/ DaemonStarts
    BY <1>1, <1>3, WatchesKeeps, DaemonDiesKeeps DEF DispatchInv
  <1>4. CASE Dial \/ DaemonLosesSocket \/ ApiLosesSocket
    BY <1>1, <1>4, DialKeeps, DaemonLosesSocketKeeps, ApiLosesSocketKeeps DEF DispatchInv
  <1>5. CASE ApiStep \/ Cancel
    BY <1>1, <1>5, DispatchKeeps, ProbeKeeps, GivesUpKeeps, GetsEventKeeps, GetsAnswerKeeps,
       RedispatchKeeps, DropsAnswerKeeps, CancelKeeps DEF ApiStep, DispatchInv
  <1>6. CASE Reconciles
    BY <1>1, <1>6, ResumeKeeps, JudgeKeeps DEF Reconciles, DispatchInv
  <1>7. CASE GraceEnds \/ Collects \/ UNCHANGED vars
    <2>1. UNCHANGED <<bufferVars, api, net>>
      BY <1>7 DEF GraceEnds, Collects, vars
    <2>2. RunOnce' /\ (Fresh <=> Fresh') /\ (Over <=> Over') /\ starters' = starters
      BY <2>1, RunRests DEF DispatchInv, FrameInv
    <2>3. SocketsAgree' /\ OneAsk(wire') /\ wire' = wire /\ back' = back /\ sub' = sub
          /\ asock' = asock
      BY <2>1 DEF DispatchInv, FrameInv, SocketsAgree, net, api
    <2>4. turn = "new" \/ (Recovering /\ asock # 0) => wire' = <<>>
      BY <2>3 DEF DispatchInv, FrameInv, NewIsFresh, RecoveringIsQuiet
    <2>5. Recovering /\ asock # 0 => sub' = "none" /\ starters' = {}
      BY <2>2, <2>3 DEF DispatchInv, FrameInv, RecoveringIsQuiet
    <2>. QED
      BY <1>1, <2>1, <2>2, <2>3, <2>4, <2>5, QuietStepKeeps DEF DispatchInv
  <1>. QED
    BY <1>2, <1>3, <1>4, <1>5, <1>6, <1>7 DEF Next

LEMMA DispatchInvHolds == SetupWaits = FALSE /\ Spec => []DispatchInv
  <1>1. SetupWaits = FALSE /\ Init => DispatchInv
    BY DispatchInitInv
  <1>. QED
    BY <1>1, DispatchNextKeeps, PTL DEF Spec

\* Re-dispatching double-executes nothing, over any number of lost
\* connections and crashes, as long as no start waits for its setup.
THEOREM OneAgentHolds == SetupWaits = FALSE /\ Spec => []OneAgent
  <1>1. DispatchInv => OneAgent
    BY DEF DispatchInv, FrameInv, RunOnce, OneAgent
  <1>. QED
    BY <1>1, DispatchInvHolds, PTL

\* A turn that is closed because no hello lists it has no start under way, and
\* never had an agent or one whose run is over, unless a hello could not tell.
THEOREM GoneIsOverHolds == SetupWaits = FALSE /\ Spec => []GoneIsOver
  <1>1. DispatchInv => GoneIsOver
    BY DEF DispatchInv, FrameInv, GoneIsSettled, Settled, Fresh, Over, StartIn, GoneIsOver
  <1>. QED
    BY <1>1, DispatchInvHolds, PTL

-----------------------------------------------------------------------------
(* What a turn's adapter gets of its run.  A pending request is on the     *)
(* wire, being set up, followed or answered, and the frames behind it go   *)
(* on where the adapter stands.                                            *)

\* What an agent left needs an agent, a final its meta file, and a run about to
\* be reported a verdict.
RunFacts ==
    /\ logs \/ events # <<>> => spawned > 0
    /\ final # "none" => meta # "none"
    /\ phase \in {"drain", "release", "final"} => verdict # "none"
    /\ phase = "meta" => final # "none"

\* A start that is being set up came over the daemon's connection.
StartersLinked ==
    /\ \A g \in starters : g = dsock /\ g # 0
    /\ dsock = 0 => sub = "none"

\* A turn that is to use its connection has left nothing on it.
Waiting == req = "none" /\ turn \in {"new", "driving", "suspended"} /\ asock # 0
WaitingIsQuiet ==
    Waiting => back = <<>> /\ wire = <<>> /\ sub = "none" /\ starters = {}

AdapterInv ==
    /\ turn \in Done \cup {"new", "driving", "suspended", "resuming"}
    /\ req # "none" => turn \in {"driving", "resuming"}
    /\ turn = "new" \/ Recovering => got = <<>>
    /\ InOrderOnce /\ Len(got) <= Len(events)
    /\ turn = "ok" => final = "ok" /\ Len(got) = Len(events)

BackFrame == [to : Requests, seq : 0..MaxOutput, answer : Answers \cup {"none"}]
FramesTold == back \in Seq(BackFrame)

\* The frames s of request r go on behind event n of N: the events in order, and
\* behind them all an answer; success is told of a run that has ended well.
InLine(s, r, n, N, ended) ==
    \A i \in DOMAIN s :
        /\ s[i].to = r
        /\ s[i].answer = "none" => s[i].seq = n + i /\ n + i <= N
        /\ s[i].answer # "none" => i = Len(s)
        /\ s[i].answer = "ok" => ended = "ok" /\ n + i = N + 1

Answered(s) == \E i \in DOMAIN s : s[i].answer # "none"

OnWire ==
    wire # <<>> => /\ Len(wire) = 1 /\ wire[1].kind = req /\ wire[1].from = Len(got)
                   /\ back = <<>> /\ sub = "none" /\ starters = {}
SetUp == starters # {} => req = "start" /\ back = <<>> /\ got = <<>> /\ sub = "none"
Followed ==
    sub # "none" => sub = req /\ ~Answered(back) /\ Len(got) + Len(back) = Len(events)

Delivers ==
    req # "none" =>
        InLine(back, req, Len(got), Len(events), final) /\ OnWire /\ SetUp /\ Followed

DeliveryInv ==
    /\ losses \in 0..MaxLosses /\ listed \in BOOLEAN
    /\ RunFacts /\ StartersLinked /\ WaitingIsQuiet
    /\ AdapterInv /\ FramesTold /\ Delivers

-----------------------------------------------------------------------------
(* Frames in line *)

LEMMA NothingInLine ==
    ASSUME NEW r, NEW n, NEW N, NEW ended
    PROVE  InLine(<<>>, r, n, N, ended) /\ ~Answered(<<>>)
  BY DEF InLine, Answered

LEMMA TailInLine ==
    ASSUME NEW s \in Seq(BackFrame), s # <<>>, NEW r, NEW n \in Nat, NEW N \in Nat, NEW ended,
           InLine(s, r, n, N, ended)
    PROVE  /\ Tail(s) \in Seq(BackFrame) /\ Head(s) \in BackFrame /\ Head(s).to = r
           /\ Len(Tail(s)) + 1 = Len(s)
           /\ Answered(Tail(s)) => Answered(s)
           /\ Head(s).answer = "none" => /\ Head(s).seq = n + 1 /\ n + 1 <= N
                                         /\ InLine(Tail(s), r, n + 1, N, ended)
           /\ Head(s).answer # "none" => Tail(s) = <<>>
           /\ Head(s).answer = "ok" => ended = "ok" /\ n = N
           /\ Head(s).answer # "none" => Answered(s)
  <1>1. /\ Tail(s) \in Seq(BackFrame) /\ Head(s) \in BackFrame /\ Len(s) \in Nat \ {0}
        /\ Head(s) = s[1] /\ DOMAIN s = 1..Len(s) /\ Len(Tail(s)) = Len(s) - 1
        /\ DOMAIN Tail(s) = 1..(Len(s) - 1)
        /\ \A i \in 1..(Len(s) - 1) : Tail(s)[i] = s[i + 1]
    BY HeadTailProperties, LenProperties, EmptySeq
  <1>2. 1 \in DOMAIN s
    BY <1>1
  <1>3. ASSUME NEW i \in DOMAIN Tail(s)
        PROVE  /\ i \in Nat /\ i + 1 \in DOMAIN s /\ Tail(s)[i] = s[i + 1]
               /\ (i + 1 = Len(s) <=> i = Len(Tail(s)))
    BY <1>1
  <1>4. Answered(Tail(s)) => Answered(s)
    BY <1>3 DEF Answered
  <1>5. ASSUME Head(s).answer = "none"
        PROVE  /\ Head(s).seq = n + 1 /\ n + 1 <= N
               /\ InLine(Tail(s), r, n + 1, N, ended)
    <2>1. Head(s).seq = n + 1 /\ n + 1 <= N
      BY <1>1, <1>2, <1>5 DEF InLine
    <2>2. ASSUME NEW i \in DOMAIN Tail(s)
          PROVE  /\ Tail(s)[i].to = r
                 /\ Tail(s)[i].answer = "none" =>
                       Tail(s)[i].seq = n + 1 + i /\ n + 1 + i <= N
                 /\ Tail(s)[i].answer # "none" => i = Len(Tail(s))
                 /\ Tail(s)[i].answer = "ok" => ended = "ok" /\ n + 1 + i = N + 1
      <3>1. /\ s[i + 1].to = r
            /\ s[i + 1].answer = "none" => s[i + 1].seq = n + (i + 1) /\ n + (i + 1) <= N
            /\ s[i + 1].answer # "none" => i + 1 = Len(s)
            /\ s[i + 1].answer = "ok" => ended = "ok" /\ n + (i + 1) = N + 1
        BY <1>3 DEF InLine
      <3>2. n + (i + 1) = n + 1 + i
        BY <1>3
      <3>. QED
        BY <1>3, <3>1, <3>2
    <2>. QED
      BY <2>1, <2>2 DEF InLine
  <1>6. ASSUME Head(s).answer # "none" PROVE Tail(s) = <<>> /\ Answered(s)
    <2>1. Len(s) = 1
      BY <1>1, <1>2, <1>6 DEF InLine
    <2>2. Len(Tail(s)) = 0
      BY <1>1, <2>1
    <2>. QED
      BY <1>1, <1>2, <1>6, <2>2, EmptySeq DEF Answered
  <1>7. ASSUME Head(s).answer = "ok" PROVE ended = "ok" /\ n = N
    <2>1. ended = "ok" /\ n + 1 = N + 1
      BY <1>1, <1>2, <1>7 DEF InLine
    <2>. QED
      BY <2>1
  <1>8. Head(s).to = r
    BY <1>1, <1>2 DEF InLine
  <1>. QED
    BY <1>1, <1>4, <1>5, <1>6, <1>7, <1>8

\* One more frame behind a line that has no answer yet.
LEMMA OneMore ==
    ASSUME NEW s \in Seq(BackFrame), NEW f \in BackFrame
    PROVE  /\ s \o <<f>> \in Seq(BackFrame)
           /\ Len(s) \in Nat /\ DOMAIN s = 1..Len(s) /\ Len(s \o <<f>>) = Len(s) + 1
           /\ Len(s) + 1 \in DOMAIN (s \o <<f>>) /\ (s \o <<f>>)[Len(s) + 1] = f
           /\ \A i \in DOMAIN (s \o <<f>>) :
                 \/ i \in DOMAIN s /\ i <= Len(s) /\ (s \o <<f>>)[i] = s[i]
                 \/ i = Len(s) + 1 /\ (s \o <<f>>)[i] = f
  <1>. DEFINE t == s \o <<f>>
  <1>1. /\ t = Append(s, f) /\ t \in Seq(BackFrame) /\ Len(t) = Len(s) + 1
        /\ Len(s) \in Nat /\ DOMAIN s = 1..Len(s)
        /\ \A i \in 1..Len(s) : t[i] = s[i]
        /\ t[Len(s) + 1] = f
    BY AppendProperties, AppendIsConcat, LenProperties
  <1>2. DOMAIN t = 1..(Len(s) + 1)
    BY <1>1, LenProperties
  <1>. HIDE DEF t
  <1>3. ASSUME NEW i \in DOMAIN t
        PROVE  \/ i \in DOMAIN s /\ i <= Len(s) /\ t[i] = s[i]
               \/ i = Len(s) + 1 /\ t[i] = f
    BY <1>1, <1>2
  <1>4. Len(s) + 1 \in DOMAIN t
    BY <1>1, <1>2
  <1>. QED
    BY <1>1, <1>3, <1>4 DEF t

LEMMA EventInLine ==
    ASSUME NEW s \in Seq(BackFrame), NEW r \in Requests, NEW n \in Nat, NEW N \in Nat, NEW ended,
           InLine(s, r, n, N, ended), ~Answered(s), n + Len(s) = N, N + 1 <= MaxOutput
    PROVE  /\ s \o <<Event(r, N + 1)>> \in Seq(BackFrame)
           /\ InLine(s \o <<Event(r, N + 1)>>, r, n, N + 1, ended)
           /\ ~Answered(s \o <<Event(r, N + 1)>>)
           /\ n + Len(s \o <<Event(r, N + 1)>>) = N + 1
  <1>. DEFINE f == Event(r, N + 1)
              t == s \o <<f>>
  <1>1. f \in BackFrame /\ f.to = r /\ f.answer = "none" /\ f.seq = N + 1
    BY BufferAssumption DEF Event, BackFrame
  <1>2. /\ t \in Seq(BackFrame) /\ Len(s) \in Nat /\ Len(t) = Len(s) + 1
        /\ \A i \in DOMAIN t : \/ i \in DOMAIN s /\ i <= Len(s) /\ t[i] = s[i]
                               \/ i = Len(s) + 1 /\ t[i] = f
    BY <1>1, OneMore
  <1>. HIDE DEF t, f
  <1>3. \A i \in DOMAIN s : /\ s[i].to = r /\ s[i].answer = "none"
                            /\ s[i].seq = n + i /\ n + i <= N
    BY DEF InLine, Answered
  <1>4. ASSUME NEW i \in DOMAIN t
        PROVE  t[i].to = r /\ t[i].answer = "none" /\ t[i].seq = n + i /\ n + i <= N + 1
    <2>1. CASE i \in DOMAIN s /\ i <= Len(s) /\ t[i] = s[i]
      <3>1. i \in Nat
        BY <2>1, LenProperties
      <3>. QED
        BY <1>3, <2>1, <3>1
    <2>2. CASE i = Len(s) + 1 /\ t[i] = f
      BY <1>1, <1>2, <2>2
    <2>. QED
      BY <1>2, <2>1, <2>2
  <1>5. InLine(t, r, n, N + 1, ended) /\ ~Answered(t)
    BY <1>4 DEF InLine, Answered
  <1>. QED
    BY <1>2, <1>5 DEF t, f

LEMMA AnswerInLine ==
    ASSUME NEW s \in Seq(BackFrame), NEW r \in Requests, NEW n \in Nat, NEW N \in Nat, NEW ended,
           InLine(s, r, n, N, ended), ~Answered(s), n + Len(s) = N,
           NEW a \in Answers, a = "ok" => ended = "ok"
    PROVE  /\ s \o <<Answer(r, a)>> \in Seq(BackFrame)
           /\ InLine(s \o <<Answer(r, a)>>, r, n, N, ended)
  <1>. DEFINE f == Answer(r, a)
              t == s \o <<f>>
  <1>1. f \in BackFrame /\ f.to = r /\ f.answer = a /\ a # "none"
    <2>1. 0 \in 0..MaxOutput
      BY BufferAssumption
    <2>. QED
      BY <2>1 DEF Answer, BackFrame, Answers
  <1>2. /\ t \in Seq(BackFrame) /\ Len(s) \in Nat /\ Len(t) = Len(s) + 1
        /\ \A i \in DOMAIN t : \/ i \in DOMAIN s /\ i <= Len(s) /\ t[i] = s[i]
                               \/ i = Len(s) + 1 /\ t[i] = f
    BY <1>1, OneMore
  <1>. HIDE DEF t, f
  <1>3. \A i \in DOMAIN s : /\ s[i].to = r /\ s[i].answer = "none"
                            /\ s[i].seq = n + i /\ n + i <= N
    BY DEF InLine, Answered
  <1>4. ASSUME NEW i \in DOMAIN t
        PROVE  /\ t[i].to = r
               /\ t[i].answer = "none" => t[i].seq = n + i /\ n + i <= N
               /\ t[i].answer # "none" => i = Len(t)
               /\ t[i].answer = "ok" => ended = "ok" /\ n + i = N + 1
    <2>1. CASE i \in DOMAIN s /\ i <= Len(s) /\ t[i] = s[i]
      BY <1>3, <2>1
    <2>2. CASE i = Len(s) + 1 /\ t[i] = f
      <3>1. n + i = N + 1 /\ i = Len(t)
        BY <1>2, <2>2
      <3>. QED
        BY <1>1, <2>2, <3>1
    <2>. QED
      BY <1>2, <2>1, <2>2
  <1>. QED
    BY <1>2, <1>4 DEF InLine, t, f

\* What is sent of a run that is there already.
LEMMA ReplayInLine ==
    ASSUME NEW r \in Requests, NEW es, Len(es) \in Nat, Len(es) <= MaxOutput,
           NEW n \in Nat, n <= Len(es), NEW ended
    PROVE  /\ Replay(r, n, es) \in Seq(BackFrame)
           /\ InLine(Replay(r, n, es), r, n, Len(es), ended)
           /\ ~Answered(Replay(r, n, es))
           /\ n + Len(Replay(r, n, es)) = Len(es)
  <1>. DEFINE m == Len(es) - n
              s == Replay(r, n, es)
  <1>1. m \in Nat /\ DOMAIN s = 1..m /\ MaxOutput \in Nat
    BY BufferAssumption DEF Replay
  <1>2. \A i \in 1..m : s[i] = Event(r, n + i) /\ n + i \in 0..MaxOutput /\ n + i <= Len(es)
    BY <1>1 DEF Replay
  <1>3. \A i \in 1..m : /\ s[i] \in BackFrame /\ s[i].to = r /\ s[i].answer = "none"
                        /\ s[i].seq = n + i /\ n + i <= Len(es)
    <2>1. \A q \in 0..MaxOutput : /\ Event(r, q) \in BackFrame /\ Event(r, q).to = r
                                  /\ Event(r, q).answer = "none" /\ Event(r, q).seq = q
      BY DEF Event, BackFrame
    <2>. QED
      BY <1>2, <2>1
  <1>4. s \in [1..m -> BackFrame]
    <2>1. s = [i \in 1..m |-> Event(r, n + i)]
      BY DEF Replay
    <2>2. \A i \in 1..m : Event(r, n + i) \in BackFrame
      BY <1>2, <1>3
    <2>. QED
      BY <2>1, <2>2
  <1>. HIDE DEF s
  <1>5. s \in Seq(BackFrame)
    BY <1>1, <1>4, SeqDef
  <1>6. Len(s) = m
    BY <1>1, <1>5, LenProperties
  <1>7. InLine(s, r, n, Len(es), ended) /\ ~Answered(s)
    BY <1>1, <1>3 DEF InLine, Answered
  <1>8. n + Len(s) = Len(es)
    BY <1>6
  <1>. QED
    BY <1>5, <1>7, <1>8 DEF s

-----------------------------------------------------------------------------
(* The run: it forgets nothing that was told of it. *)

LEMMA RunFactsKept ==
    ASSUME BufferInv, RunOnce, RunFacts, RunStep
    PROVE  RunFacts'
  <1>. USE DEF RunFacts, process, disk, memory
  <1>1. /\ phase \in Phases /\ spawned \in 0..2 /\ stopped \in BOOLEAN /\ MaxOutput \in Nat
        /\ verdict \in Finals
    BY BufferAssumption DEF BufferInv, BufferTypeOK
  <1>2. CASE AgentStep
    BY <1>2 DEF AgentStep, AgentWrites, AgentExits, AgentKilled
  <1>3. CASE WatchStep
    <2>1. CASE Spawn
      BY <2>1, <1>1 DEF Spawn
    <2>2. CASE WriteFinal
      <3>1. meta # "none" /\ verdict # "none"
        BY <2>2 DEF WriteFinal, RunOnce
      <3>. QED
        BY <2>2, <3>1 DEF WriteFinal
    <2>3. CASE PollEnds
      <3>1. verdict' # "none"
        BY <1>1, <2>3 DEF PollEnds
      <3>. QED
        BY <2>3, <3>1 DEF PollEnds
    <2>4. CASE Released \/ SpawnFails
      <3>1. verdict' # "none"
        BY <2>4 DEF Released, SpawnFails
      <3>. QED
        BY <2>4, <3>1 DEF Released, SpawnFails
    <2>5. CASE Drained
      <3>1. verdict' # "none" /\ (logs' => logs)
        BY <2>5 DEF Drained
      <3>. QED
        BY <2>5, <3>1 DEF Drained
    <2>6. CASE RecordOwner
      BY <2>6 DEF RecordOwner
    <2>. QED
      BY <1>3, <2>1, <2>2, <2>3, <2>4, <2>5, <2>6 DEF WatchStep
  <1>4. CASE WriteMeta
    BY <1>4 DEF WriteMeta, StatusOf
  <1>5. CASE \E t \in 1..MaxOutput : Publish(t)
    BY <1>5 DEF Publish
  <1>6. CASE Abort \/ Crash \/ StopExecs
    BY <1>6 DEF Abort, Crash, StopExecs
  <1>7. CASE Recover
    <2>1. phase = "none"
      BY <1>7 DEF Recover, RecoverNothing, RecoverUnowned, RecoverLost, RecoverAdopts, Restart,
         BufferInv, PhaseFits
    <2>2. CASE RecoverLost
      <3>1. verdict' # "none"
        BY <2>2 DEF RecoverLost
      <3>. QED
        BY <2>1, <2>2, <3>1 DEF RecoverLost, Kept
    <2>. QED
      BY <1>7, <2>1, <2>2 DEF Recover, RecoverNothing, RecoverUnowned, RecoverAdopts, Kept
  <1>. QED
    BY <1>2, <1>3, <1>4, <1>5, <1>6, <1>7 DEF RunStep

\* Only a publication adds an event, and none follows a final, which stays.
LEMMA RunTells ==
    ASSUME BufferInv, RunOnce, RunStep
    PROVE  /\ final # "none" => final' = final /\ events' = events
           /\ (\E t \in 1..MaxOutput : Publish(t)) \/ events' = events
  <1>. USE DEF process, disk, memory
  <1>1. CASE AgentStep
    BY <1>1 DEF AgentStep, AgentWrites, AgentExits, AgentKilled
  <1>2. CASE WatchStep
    BY <1>2 DEF WatchStep, PollEnds, Drained, Released, WriteFinal, Spawn, SpawnFails,
       RecordOwner, BufferInv, PhaseFits
  <1>3. CASE WriteMeta
    BY <1>3 DEF WriteMeta
  <1>4. CASE \E t \in 1..MaxOutput : Publish(t)
    BY <1>4 DEF Publish, BufferInv, PhaseFits
  <1>5. CASE Abort \/ Crash \/ StopExecs
    BY <1>5 DEF Abort, Crash, StopExecs
  <1>6. CASE Recover
    BY <1>6 DEF Recover, RecoverNothing, RecoverUnowned, RecoverLost, RecoverAdopts, Kept
  <1>. QED
    BY <1>1, <1>2, <1>3, <1>4, <1>5, <1>6 DEF RunStep

\* Each event carries a byte at least, so there are no more than bytes.
LEMMA EventsBounded ==
    ASSUME BufferInv
    PROVE  Len(events) \in Nat /\ Len(events) <= MaxOutput
  <1>1. /\ Len(events) \in Nat /\ DOMAIN events = 1..Len(events)
        /\ \A i \in DOMAIN events : events[i].off \in Nat /\ events[i].to \in 0..MaxOutput
    BY EntryTypes DEF BufferInv
  <1>2. \A i \in DOMAIN events : /\ events[i].off = (IF i = 1 THEN 0 ELSE events[i - 1].to)
                                 /\ events[i].off < events[i].to
    BY DEF BufferInv, EventsTile
  <1>. DEFINE S == {i \in DOMAIN events : events[i].to < i}
  <1>3. CASE S = {}
    <2>1. CASE Len(events) = 0
      BY <2>1, BufferAssumption
    <2>2. CASE Len(events) # 0
      <3>1. Len(events) \in DOMAIN events
        BY <1>1, <2>2
      <3>2. ~(events[Len(events)].to < Len(events)) /\ events[Len(events)].to \in 0..MaxOutput
        BY <1>1, <1>3, <3>1
      <3>. QED
        BY <1>1, <3>2, BufferAssumption
    <2>. QED
      BY <2>1, <2>2
  <1>4. CASE S # {}
    <2>1. S \in SUBSET Nat
      BY <1>1
    <2>2. PICK m \in S : \A n \in S : ~(n < m)
      <3>1. IsWellFoundedOn(OpToRel(<, Nat), Nat)
        BY NatLessThanWellFounded
      <3>2. PICK m \in S : \A n \in S : ~(<<n, m>> \in OpToRel(<, Nat))
        BY <1>4, <2>1, <3>1, WFMin
      <3>. HIDE DEF S
      <3>. QED
        BY <2>1, <3>2 DEF OpToRel
    <2>3. m \in DOMAIN events /\ m \in Nat /\ events[m].to < m /\ events[m].off < events[m].to
          /\ events[m].off \in Nat /\ events[m].to \in Nat
      BY <1>1, <1>2, <2>2, BufferAssumption
    <2>4. m # 1
      BY <2>3
    <2>5. m - 1 \in DOMAIN events /\ m - 1 < m /\ m - 1 \in Nat
      BY <1>1, <2>3, <2>4
    <2>6. ~(events[m - 1].to < m - 1)
      BY <2>2, <2>5
    <2>7. events[m].off = events[m - 1].to /\ events[m - 1].to \in Nat
      BY <1>2, <2>3, <2>4
    <2>. QED
      BY <2>3, <2>5, <2>6, <2>7
  <1>. QED
    BY <1>3, <1>4

EventsFit == Len(events) \in Nat /\ Len(events) <= MaxOutput

LEMMA EventsBoundedNext == BufferInv' => EventsFit'
  <1>1. BufferInv => EventsFit
    BY EventsBounded DEF EventsFit
  <1>. QED
    BY <1>1, PTL

-----------------------------------------------------------------------------
(* Steps that leave the API's side alone *)

\* What holds of the turn and of an unused connection stays.
LEMMA ApiIdleKeeps ==
    ASSUME FrameInv, DeliveryInv, losses' \in 0..MaxLosses, UNCHANGED <<asock, api>>,
           RunFacts', StartersLinked', FramesTold', Delivers',
           Len(events) \in Nat, Len(events') \in Nat, Len(events) <= Len(events'),
           turn = "ok" => events' = events /\ final' = final,
           Waiting => /\ back' = back /\ wire' \in {wire, <<>>} /\ sub' \in {sub, "none"}
                      /\ starters' \subseteq starters
    PROVE  DeliveryInv'
  <1>. USE DEF api
  <1>1. Waiting' = Waiting /\ Recovering' = Recovering
    BY DEF Waiting, Recovering
  <1>2. WaitingIsQuiet'
    BY <1>1 DEF DeliveryInv, WaitingIsQuiet
  <1>3. AdapterInv'
    <2>1. Len(got) \in Nat
      BY LenProperties DEF FrameInv, SocketsAgree
    <2>2. Len(got') <= Len(events')
      BY <2>1 DEF DeliveryInv, AdapterInv
    <2>3. InOrderOnce'
      BY DEF DeliveryInv, AdapterInv, InOrderOnce
    <2>. QED
      BY <1>1, <2>2, <2>3 DEF DeliveryInv, AdapterInv
  <1>. QED
    BY <1>2, <1>3 DEF DeliveryInv

\* A pending request stays where it is, or its frame is lost.
LEMMA PendingKeeps ==
    ASSUME DeliveryInv, UNCHANGED api,
           req # "none" => /\ back' = back /\ wire' \in {wire, <<>>} /\ sub' \in {sub, "none"}
                           /\ starters' \subseteq starters /\ events' = events
                           /\ final = "ok" => final' = "ok"
    PROVE  Delivers'
  <1>. USE DEF api
  <1>1. CASE req = "none"
    BY <1>1 DEF Delivers
  <1>2. CASE req # "none"
    <2>1. InLine(back, req, Len(got), Len(events), final) /\ OnWire /\ SetUp /\ Followed
      BY <1>2 DEF DeliveryInv, Delivers
    <2>2. InLine(back, req, Len(got), Len(events), final)'
      BY <1>2, <2>1 DEF InLine
    <2>3. OnWire'
      BY <1>2, <2>1 DEF OnWire
    <2>4. SetUp'
      BY <1>2, <2>1 DEF SetUp
    <2>5. Followed'
      BY <1>2, <2>1 DEF Followed, Answered
    <2>. QED
      BY <2>2, <2>3, <2>4, <2>5 DEF Delivers
  <1>. QED
    BY <1>1, <1>2

\* A step that sends nothing.
LEMMA SilentKeeps ==
    ASSUME DispatchInv, DispatchInv', DeliveryInv, losses' \in 0..MaxLosses,
           UNCHANGED <<asock, api, back>>, RunFacts', StartersLinked',
           events' = events, final # "none" => final' = final,
           req # "none" \/ Waiting =>
              wire' \in {wire, <<>>} /\ sub' \in {sub, "none"} /\ starters' \subseteq starters
    PROVE  DeliveryInv'
  <1>1. FramesTold'
    BY DEF DeliveryInv, FramesTold
  <1>2. Delivers'
    BY PendingKeeps
  <1>3. Len(events) \in Nat
    BY EventsBounded DEF DispatchInv
  <1>4. turn = "ok" => final' = final
    BY DEF DeliveryInv, AdapterInv
  <1>5. Len(events) <= Len(events') /\ Len(events') \in Nat
    BY <1>3
  <1>. QED
    BY <1>1, <1>2, <1>3, <1>4, <1>5, ApiIdleKeeps DEF DispatchInv

LEMMA WatchesDelivers ==
    ASSUME DispatchInv, DispatchInv', DeliveryInv, Watches \/ DaemonStarts
    PROVE  DeliveryInv'
  <1>1. RunStep /\ UNCHANGED <<api, net>>
    BY DEF Watches, DaemonStarts, RunStep
  <1>2. RunFacts' /\ (final # "none" => final' = final)
    BY <1>1, RunFactsKept, RunTells DEF DispatchInv, FrameInv, DeliveryInv
  <1>3. events' = events
    BY DEF Watches, DaemonStarts, AgentStep, AgentWrites, AgentExits, AgentKilled, WatchStep,
       PollEnds, Drained, Released, WriteFinal, Spawn, SpawnFails, RecordOwner, StopExecs,
       Recover, RecoverNothing, RecoverUnowned, RecoverLost, RecoverAdopts, Kept, disk
  <1>4. starters' \subseteq starters
    BY <1>1, RunKeeps DEF DispatchInv, FrameInv
  <1>5. losses' \in 0..MaxLosses /\ StartersLinked'
    BY <1>1, <1>4 DEF net, DeliveryInv, StartersLinked
  <1>. QED
    BY <1>1, <1>2, <1>3, <1>4, <1>5, SilentKeeps DEF net

LEMMA DaemonDiesDelivers ==
    ASSUME DispatchInv, DispatchInv', DeliveryInv, DaemonDies
    PROVE  DeliveryInv'
  <1>1. RunStep /\ UNCHANGED <<asock, losses, back, api>>
        /\ dsock' = 0 /\ wire' = <<>> /\ sub' = "none"
    BY DEF DaemonDies, RunStep
  <1>2. RunFacts' /\ (final # "none" => final' = final)
    BY <1>1, RunFactsKept, RunTells DEF DispatchInv, FrameInv, DeliveryInv
  <1>3. events' = events /\ starters' = {}
    BY DEF DaemonDies, Crash, disk
  <1>4. losses' \in 0..MaxLosses /\ StartersLinked'
    BY <1>1, <1>3 DEF DeliveryInv, StartersLinked
  <1>. QED
    BY <1>1, <1>2, <1>3, <1>4, SilentKeeps

LEMMA RunFactsRest ==
    ASSUME RunFacts, UNCHANGED bufferVars
    PROVE  RunFacts' /\ events' = events /\ final' = final /\ starters' = starters
  BY DEF RunFacts, bufferVars, process, disk, memory

LEMMA DaemonLosesSocketDelivers ==
    ASSUME DispatchInv, DispatchInv', DeliveryInv, DaemonLosesSocket
    PROVE  DeliveryInv'
  <1>1. /\ UNCHANGED <<bufferVars, asock, back, api>> /\ starters = {}
        /\ dsock' = 0 /\ wire' = <<>> /\ sub' = "none" /\ Loses(dsock = asock)
    BY DEF DaemonLosesSocket, AtAwait, DispatchInv, BufferInv
  <1>2. RunFacts' /\ events' = events /\ final' = final /\ starters' = starters
    BY <1>1, RunFactsRest DEF DeliveryInv
  <1>3. losses' \in 0..MaxLosses
    BY <1>1, DispatchAssumption DEF Loses, DeliveryInv
  <1>4. StartersLinked'
    BY <1>1, <1>2 DEF StartersLinked
  <1>. QED
    BY <1>1, <1>2, <1>3, <1>4, SilentKeeps

LEMMA StutterDelivers ==
    ASSUME DispatchInv, DispatchInv', DeliveryInv, GraceEnds \/ Collects \/ UNCHANGED vars
    PROVE  DeliveryInv'
  <1>1. UNCHANGED <<bufferVars, api, net>>
    BY DEF GraceEnds, Collects, vars
  <1>2. RunFacts' /\ events' = events /\ final' = final /\ starters' = starters
    BY <1>1, RunFactsRest DEF DeliveryInv
  <1>3. losses' \in 0..MaxLosses /\ StartersLinked'
    BY <1>1, <1>2 DEF net, DeliveryInv, StartersLinked
  <1>. QED
    BY <1>1, <1>2, <1>3, SilentKeeps DEF net

-----------------------------------------------------------------------------
(* The daemon's frames *)

\* A frame is taken from a connection that carries the pending request or
\* belongs to a turn that waits for nothing.
LEMMA TakesFrame ==
    ASSUME DispatchInv, DeliveryInv, NEW kind, Takes(kind)
    PROVE  /\ ~Waiting /\ dsock # 0 /\ starters = {} /\ UNCHANGED <<gens, dsock, asock, losses, api>>
           /\ req # "none" => /\ kind = req /\ Head(wire).from = Len(got) /\ wire' = <<>>
                              /\ back = <<>> /\ sub = "none" /\ dsock = asock
  <1>1. /\ wire # <<>> /\ wire' = Tail(wire) /\ Head(wire).kind = kind
        /\ dsock # 0 /\ starters = {} /\ UNCHANGED <<gens, dsock, asock, losses, api>>
    BY DEF Takes, AtAwait, DispatchInv, BufferInv
  <1>2. ~Waiting
    BY <1>1 DEF DeliveryInv, WaitingIsQuiet
  <1>3. ASSUME req # "none"
        PROVE  /\ kind = req /\ Head(wire).from = Len(got) /\ wire' = <<>>
               /\ back = <<>> /\ sub = "none" /\ dsock = asock
    <2>1. /\ Len(wire) = 1 /\ wire[1].kind = req /\ wire[1].from = Len(got)
          /\ back = <<>> /\ sub = "none"
      BY <1>1, <1>3 DEF DeliveryInv, Delivers, OnWire
    <2>2. wire \in Seq(Request)
      BY DEF DispatchInv, FrameInv, SocketsAgree
    <2>3. Head(wire) = wire[1] /\ Tail(wire) \in Seq(Request) /\ Len(Tail(wire)) = 0
      BY <1>1, <2>1, <2>2, HeadTailProperties
    <2>4. Tail(wire) = <<>>
      BY <2>3, EmptySeq
    <2>5. dsock = asock
      BY <1>1, <1>3 DEF DispatchInv, FrameInv, SocketsAgree
    <2>. QED
      BY <1>1, <2>1, <2>3, <2>4, <2>5
  <1>. QED
    BY <1>1, <1>2, <1>3

LEMMA TakesCancelDelivers ==
    ASSUME DispatchInv, DispatchInv', DeliveryInv, TakesCancel
    PROVE  DeliveryInv'
  <1>1. Takes("cancel") /\ UNCHANGED <<back, sub>> /\ (Abort \/ UNCHANGED bufferVars)
    BY DEF TakesCancel
  <1>2. /\ ~Waiting /\ UNCHANGED <<gens, dsock, asock, losses, api>>
        /\ (req # "none" => req = "cancel")
    BY <1>1, TakesFrame
  <1>3. req = "none"
    BY <1>2 DEF DispatchInv, FrameInv, SocketsAgree, Requests
  <1>4. /\ RunFacts' /\ events' = events /\ starters' = starters
        /\ (final # "none" => final' = final)
    <2>1. CASE Abort
      <3>1. RunStep
        BY <2>1 DEF RunStep
      <3>. QED
        BY <2>1, <3>1, RunFactsKept, RunTells
           DEF DispatchInv, FrameInv, DeliveryInv, Abort, process
    <2>2. CASE UNCHANGED bufferVars
      BY <2>2, RunFactsRest DEF DeliveryInv
    <2>. QED
      BY <1>1, <2>1, <2>2
  <1>5. losses' \in 0..MaxLosses /\ StartersLinked'
    BY <1>1, <1>2, <1>4 DEF DeliveryInv, StartersLinked
  <1>. QED
    BY <1>1, <1>2, <1>3, <1>4, <1>5, SilentKeeps

\* What an unknown run has in its files.
LEMMA FreshIsEmpty ==
    ASSUME DispatchInv, RunFacts, Fresh
    PROVE  events = <<>> /\ final = "none"
  BY DEF Fresh, RunFacts

LEMMA TakesStartDelivers ==
    ASSUME DispatchInv, DispatchInv', DeliveryInv, TakesStart
    PROVE  DeliveryInv'
  <1>1. /\ ~Waiting /\ dsock # 0 /\ starters = {} /\ UNCHANGED <<gens, dsock, asock, losses, api>>
        /\ req # "none" => /\ req = "start" /\ wire' = <<>> /\ back = <<>> /\ sub = "none"
    BY TakesFrame DEF TakesStart
  <1>2. Fresh /\ ~Known /\ events = <<>> /\ final = "none"
    <2>1. StartIn(wire)
      <3>1. Takes("start") /\ "start" \in Requests \cup {"cancel"}
        BY DEF TakesStart, Requests
      <3>. QED
        BY <3>1, TakesKeeps
    <2>2. Fresh
      BY <2>1 DEF DispatchInv, FrameInv, StartIsFresh
    <2>. QED
      BY <2>2, FreshIsEmpty DEF DeliveryInv, Fresh, Known
  <1>3. ExecStart(dsock) /\ UNCHANGED <<sub, back>>
    BY <1>2 DEF TakesStart
  <1>4. /\ starters' = {dsock} /\ events' = <<>> /\ final' = "none" /\ ~logs'
        /\ phase' = "none" /\ events' = events /\ final' = final
    BY <1>1, <1>2, <1>3 DEF ExecStart, Fresh
  <1>5. RunFacts'
    BY <1>4 DEF RunFacts
  <1>6. StartersLinked' /\ FramesTold' /\ losses' \in 0..MaxLosses
    BY <1>1, <1>3, <1>4 DEF DeliveryInv, StartersLinked, FramesTold
  <1>7. Delivers'
    <2>1. CASE req = "none"
      BY <1>1, <2>1 DEF Delivers, api
    <2>2. CASE req # "none"
      <3>1. got = <<>>
        <4>1. Len(got) = 0
          <5>1. Len(got) \in Nat
            BY LenProperties DEF DispatchInv, FrameInv, SocketsAgree
          <5>2. Len(events) = 0
            BY <1>2
          <5>. QED
            BY <5>1, <5>2 DEF DeliveryInv, AdapterInv
        <4>. QED
          BY <4>1, EmptySeq DEF DispatchInv, FrameInv, SocketsAgree
      <3>2. InLine(<<>>, req', Len(got'), Len(events'), final')
        BY NothingInLine
      <3>. QED
        BY <1>1, <1>3, <2>2, <3>1, <3>2 DEF Delivers, OnWire, SetUp, Followed, api
    <2>. QED
      BY <2>1, <2>2
  <1>8. Len(events) \in Nat
    BY EventsBounded DEF DispatchInv
  <1>9. Len(events) <= Len(events') /\ Len(events') \in Nat
    BY <1>4, <1>8
  <1>. QED
    BY <1>1, <1>4, <1>5, <1>6, <1>7, <1>8, <1>9, ApiIdleKeeps DEF DispatchInv

\* A replay is well-formed wherever it begins.
LEMMA ReplayTold ==
    ASSUME NEW r \in Requests, NEW es, Len(es) \in Nat, Len(es) <= MaxOutput, NEW n \in Nat
    PROVE  Replay(r, n, es) \in Seq(BackFrame)
  <1>1. CASE n <= Len(es)
    BY <1>1, ReplayInLine
  <1>2. CASE ~(n <= Len(es))
    <2>1. 1..(Len(es) - n) = 1..0
      BY <1>2
    <2>2. Replay(r, n, es) = [i \in 1..0 |-> Event(r, n + i)]
      BY <2>1 DEF Replay
    <2>3. \A i \in 1..0 : Event(r, n + i) \in BackFrame
      OBVIOUS
    <2>4. Replay(r, n, es) \in [1..0 -> BackFrame]
      BY <2>2, <2>3
    <2>. QED
      BY <2>4, SeqDef
  <1>. QED
    BY <1>1, <1>2

\* of a collected buffer it is empty,
LEMMA ReplayNothing ==
    ASSUME NEW r, NEW n \in Nat
    PROVE  Replay(r, n, <<>>) = <<>>
  <1>1. 1..(Len(<<>>) - n) = {}
    OBVIOUS
  <1>. QED
    BY <1>1 DEF Replay

\* and the answer behind it is a frame.
LEMMA AnswerTold ==
    ASSUME NEW r \in Requests, NEW a \in Answers
    PROVE  Answer(r, a) \in BackFrame
  <1>1. 0 \in 0..MaxOutput
    BY BufferAssumption
  <1>. QED
    BY <1>1 DEF Answer, BackFrame

\* With nothing to replay the answer stands alone.
LEMMA AloneInLine ==
    ASSUME NEW r, r = <<>>, NEW f \in BackFrame
    PROVE  r \o <<f>> = <<f>>
  <1>1. <<f>> \in Seq(BackFrame)
    OBVIOUS
  <1>. QED
    BY <1>1, ConcatEmptySeq

LEMMA TakesResumeDelivers ==
    ASSUME DispatchInv, DispatchInv', DeliveryInv, TakesResume
    PROVE  DeliveryInv'
  <1>1. PICK kind \in {"probe", "resume"} : Takes(kind) /\ Serve(kind, Head(wire).from)
    BY DEF TakesResume
  <1>2. /\ ~Waiting /\ dsock # 0 /\ starters = {} /\ UNCHANGED <<gens, dsock, asock, losses, api>>
        /\ req # "none" => /\ kind = req /\ Head(wire).from = Len(got) /\ wire' = <<>>
                           /\ back = <<>> /\ sub = "none" /\ dsock = asock
    BY <1>1, TakesFrame
  <1>3. UNCHANGED bufferVars
    BY <1>1 DEF Serve
  <1>4. RunFacts' /\ events' = events /\ final' = final /\ starters' = {}
    BY <1>2, <1>3, RunFactsRest DEF DeliveryInv
  <1>5. StartersLinked' /\ losses' \in 0..MaxLosses
    BY <1>2, <1>4 DEF DeliveryInv, StartersLinked
  <1>6. Len(events) \in Nat /\ Len(events) <= MaxOutput
    BY EventsBounded DEF DispatchInv
  <1>. DEFINE n == Len(got)
              answer == Account
  <1>7. n \in Nat /\ n <= Len(events) /\ kind \in Requests
    BY LenProperties DEF DispatchInv, FrameInv, SocketsAgree, DeliveryInv, AdapterInv, Requests
  <1>8. /\ answer \in Answers /\ (answer = "ok" => final = "ok")
        /\ grace = "collected" => answer = "nobuffer"
    BY DEF Account, DispatchInv, BufferInv, BufferTypeOK, Finals, Answers
  <1>. HIDE DEF answer
  <1>9. CASE req # "none"
    <2>. DEFINE replay == Replay(kind, n, events)
    <2>1. /\ replay \in Seq(BackFrame) /\ InLine(replay, kind, n, Len(events), final)
          /\ ~Answered(replay) /\ n + Len(replay) = Len(events)
      BY <1>6, <1>7, ReplayInLine
    <2>2. CASE stream = "running"
      <3>1. sub' = kind /\ Send(replay)
        BY <1>1, <1>2, <1>9, <2>2 DEF Serve
      <3>. HIDE DEF replay
      <3>2. back' = replay
        <4>1. back' = <<>> \o replay
          BY <1>2, <1>9, <3>1 DEF Send
        <4>. QED
          BY <2>1, <4>1, ConcatEmptySeq
      <3>3. Delivers'
        BY <1>2, <1>4, <1>9, <2>1, <3>1, <3>2 DEF Delivers, OnWire, SetUp, Followed, api
      <3>4. FramesTold'
        BY <2>1, <3>2 DEF FramesTold
      <3>. QED
        BY <1>2, <1>4, <1>5, <1>6, <3>3, <3>4, ApiIdleKeeps DEF DispatchInv
    <2>3. CASE stream # "running"
      <3>. DEFINE kept == Replay(kind, n, OnDisk(events))
                  frames == kept \o <<Answer(kind, answer)>>
      <3>1. sub' = sub /\ Send(Append(kept, Answer(kind, answer)))
        BY <1>1, <1>2, <1>9, <2>3 DEF Serve, answer
      <3>7. kept \in Seq(BackFrame)
        <4>1. Len(OnDisk(events)) \in Nat /\ Len(OnDisk(events)) <= MaxOutput
          BY <1>6, BufferAssumption DEF OnDisk
        <4>. QED
          BY <1>7, <4>1, ReplayTold
      <3>8. grace = "collected" => kept = <<>>
        BY <1>7, ReplayNothing DEF OnDisk
      <3>9. grace # "collected" => kept = replay
        BY DEF OnDisk
      <3>. HIDE DEF replay, kept
      <3>2. /\ frames \in Seq(BackFrame)
            /\ InLine(frames, kind, n, Len(events), final)
        <4>1. CASE grace # "collected"
          BY <1>6, <1>7, <1>8, <2>1, <3>9, <4>1, AnswerInLine
        <4>2. CASE grace = "collected"
          <5>1. kept = <<>> /\ answer = "nobuffer"
            BY <1>8, <3>8, <4>2
          <5>2. Answer(kind, answer) \in BackFrame
            BY <1>7, <1>8, AnswerTold
          <5>3. frames = <<Answer(kind, answer)>>
            BY <5>1, <5>2, AloneInLine
          <5>. QED
            BY <5>1, <5>2, <5>3 DEF InLine, Answer
        <4>. QED
          BY <4>1, <4>2
      <3>3. Append(kept, Answer(kind, answer)) = frames
        BY <1>7, <1>8, <3>7, AnswerTold, AppendIsConcat
      <3>. HIDE DEF frames
      <3>4. back' = frames
        <4>1. back' = <<>> \o frames
          BY <1>2, <1>9, <3>1, <3>3 DEF Send
        <4>. QED
          BY <3>2, <4>1, ConcatEmptySeq
      <3>5. Delivers'
        BY <1>2, <1>4, <1>9, <3>1, <3>2, <3>4 DEF Delivers, OnWire, SetUp, Followed, api
      <3>6. FramesTold'
        BY <3>2, <3>4 DEF FramesTold
      <3>. QED
        BY <1>2, <1>4, <1>5, <1>6, <3>5, <3>6, ApiIdleKeeps DEF DispatchInv
    <2>. QED
      BY <2>2, <2>3
  <1>10. CASE req = "none"
    <2>. DEFINE from == Head(wire).from
                replay == Replay(kind, from, events)
                kept == Replay(kind, from, OnDisk(events))
                told == Answer(kind, answer)
    <2>1. from \in Nat
      <3>1. kind \in Requests \cup {"cancel"}
        BY <1>7
      <3>. QED
        BY <1>1, <3>1, TakesKeeps DEF Request
    <2>2. replay \in Seq(BackFrame) /\ kept \in Seq(BackFrame)
      <3>1. Len(OnDisk(events)) \in Nat /\ Len(OnDisk(events)) <= MaxOutput
        BY <1>6, BufferAssumption DEF OnDisk
      <3>. QED
        BY <1>6, <1>7, <2>1, <3>1, ReplayTold
    <2>3. told \in BackFrame
      BY <1>7, <1>8, AnswerTold
    <2>4. Send(replay) \/ Send(Append(kept, told))
      BY <1>1 DEF Serve, answer
    <2>. HIDE DEF replay, kept, told
    <2>5. Append(kept, told) \in Seq(BackFrame)
      BY <2>2, <2>3, AppendProperties
    <2>6. FramesTold'
      BY <2>2, <2>4, <2>5, ConcatProperties DEF DeliveryInv, FramesTold, Send
    <2>7. Delivers'
      BY <1>2, <1>10 DEF Delivers, api
    <2>. QED
      BY <1>2, <1>4, <1>5, <1>6, <2>6, <2>7, ApiIdleKeeps DEF DispatchInv
  <1>. QED
    BY <1>9, <1>10, <1>2 DEF DispatchInv, FrameInv, SocketsAgree

\* The start has been set up: its request follows the run from its first event.
LEMMA OpensDelivers ==
    ASSUME DispatchInv, DispatchInv', DeliveryInv, Opens
    PROVE  DeliveryInv'
  <1>1. PICK g \in starters : OpenStream(g) /\ sub' = IF g = dsock THEN "start" ELSE sub
    BY DEF Opens
  <1>2. UNCHANGED <<gens, dsock, asock, losses, wire, back, api>>
    BY DEF Opens
  <1>3. g = dsock /\ dsock # 0 /\ sub' = "start" /\ starters' = {} /\ starters # {}
        /\ events = <<>>
    BY <1>1 DEF DeliveryInv, StartersLinked, OpenStream, DispatchInv, BufferInv, StartsClean
  <1>4. events' = events /\ final' = final
    BY <1>1 DEF OpenStream
  <1>5. RunFacts'
    BY <1>1 DEF OpenStream, DeliveryInv, RunFacts
  <1>6. StartersLinked' /\ FramesTold' /\ losses' \in 0..MaxLosses
    BY <1>2, <1>3 DEF DeliveryInv, StartersLinked, FramesTold
  <1>7. ~Waiting
    BY <1>3 DEF DeliveryInv, WaitingIsQuiet
  <1>8. Delivers'
    <2>1. CASE req = "none"
      BY <1>2, <2>1 DEF Delivers, api
    <2>2. CASE req # "none"
      <3>1. req = "start" /\ back = <<>> /\ got = <<>> /\ wire = <<>>
        BY <1>3, <2>2 DEF DeliveryInv, Delivers, SetUp, OnWire
      <3>2. InLine(<<>>, req', Len(got'), Len(events'), final') /\ ~Answered(<<>>)
        BY NothingInLine
      <3>3. Len(got) + Len(back) = Len(events)
        BY <1>3, <3>1
      <3>. QED
        BY <1>2, <1>3, <1>4, <3>1, <3>2, <3>3 DEF Delivers, OnWire, SetUp, Followed, api
    <2>. QED
      BY <2>1, <2>2
  <1>9. Len(events) \in Nat /\ Len(events') \in Nat /\ Len(events) <= Len(events')
    BY <1>4, EventsBounded DEF DispatchInv
  <1>. QED
    BY <1>2, <1>4, <1>5, <1>6, <1>7, <1>8, <1>9, ApiIdleKeeps DEF DispatchInv

\* The event is told to whoever follows the run, if its connection is there.
LEMMA PublishesDelivers ==
    ASSUME DispatchInv, DispatchInv', DeliveryInv, Publishes
    PROVE  DeliveryInv'
  <1>1. PICK t \in 1..MaxOutput : Publish(t)
    BY DEF Publishes
  <1>2. /\ UNCHANGED <<gens, dsock, asock, losses, wire, sub, api>>
        /\ IF sub = "none" THEN UNCHANGED back ELSE Send(<<Event(sub, Len(events'))>>)
    BY DEF Publishes
  <1>. DEFINE N == Len(events)
  <1>3. /\ N \in Nat /\ Len(events') \in Nat /\ Len(events') <= MaxOutput
        /\ Len(events') = N + 1
    <2>1. Len(events) \in Nat /\ Len(events') \in Nat /\ Len(events') <= MaxOutput
      BY EventsBounded, EventsBoundedNext DEF DispatchInv, EventsFit
    <2>2. PICK e \in Entry : events' = Append(events, e)
      <3>1. [off |-> tail, to |-> t] \in Entry
        <4>1. tail \in 0..MaxOutput /\ t \in 0..MaxOutput
          BY BufferAssumption DEF DispatchInv, BufferInv, BufferTypeOK
        <4>. QED
          BY <4>1 DEF Entry
      <3>. QED
        BY <1>1, <3>1 DEF Publish
    <2>3. events \in Seq(Entry)
      BY DEF DispatchInv, BufferInv, BufferTypeOK
    <2>. QED
      BY <2>1, <2>2, <2>3, AppendProperties
  <1>4. final = "none" /\ final' = final /\ starters' = starters
    BY <1>1 DEF Publish, DispatchInv, BufferInv, PhaseFits, process
  <1>5. RunFacts'
    <2>1. RunStep
      BY <1>1 DEF RunStep
    <2>. QED
      BY <2>1, RunFactsKept DEF DispatchInv, FrameInv, DeliveryInv
  <1>6. StartersLinked' /\ losses' \in 0..MaxLosses /\ turn # "ok"
    BY <1>2, <1>4 DEF DeliveryInv, StartersLinked, AdapterInv
  <1>7. Waiting => back' = back
    BY <1>2 DEF DeliveryInv, WaitingIsQuiet
  <1>8. back \in Seq(BackFrame)
    BY DEF DeliveryInv, FramesTold
  <1>. HIDE DEF N
  <1>9. FramesTold'
    <2>1. CASE sub = "none"
      BY <1>2, <1>8, <2>1 DEF FramesTold
    <2>2. CASE sub # "none"
      <3>1. sub \in Requests
        BY <2>2 DEF DispatchInv, FrameInv, SocketsAgree
      <3>2. Event(sub, N + 1) \in BackFrame
        BY <1>3, <3>1, BufferAssumption DEF Event, BackFrame
      <3>3. back' = back \/ back' = back \o <<Event(sub, N + 1)>>
        BY <1>2, <1>3, <2>2 DEF Send
      <3>. QED
        BY <1>8, <3>2, <3>3, OneMore DEF FramesTold
    <2>. QED
      BY <2>1, <2>2
  <1>10. Delivers'
    <2>1. CASE req = "none"
      BY <1>2, <2>1 DEF Delivers, api
    <2>2. CASE req # "none"
      <3>1. /\ InLine(back, req, Len(got), N, final) /\ OnWire /\ SetUp /\ Followed
            /\ Len(got) \in Nat /\ asock # 0
        BY <2>2, LenProperties
           DEF DeliveryInv, Delivers, DispatchInv, FrameInv, SocketsAgree, N
      <3>2. CASE sub = "none"
        <4>1. InLine(back, req, Len(got), N + 1, final)
          <5>1. Len(back) \in Nat /\ DOMAIN back = 1..Len(back)
            BY <1>8, LenProperties
          <5>2. \A i \in DOMAIN back : Len(got) + i <= N => Len(got) + i <= N + 1
            BY <1>3, <3>1, <5>1
          <5>. QED
            BY <1>4, <3>1, <5>2 DEF InLine
        <4>2. UNCHANGED <<back, wire, sub, starters, req, got>>
          BY <1>2, <1>4, <3>2 DEF api
        <4>3. OnWire' /\ SetUp' /\ Followed'
          BY <3>1, <3>2, <4>2 DEF OnWire, SetUp, Followed
        <4>. QED
          BY <1>3, <1>4, <4>1, <4>2, <4>3 DEF Delivers
      <3>3. CASE sub # "none"
        <4>1. /\ sub = req /\ ~Answered(back) /\ Len(got) + Len(back) = N
              /\ wire = <<>> /\ starters = {} /\ req \in Requests
          BY <3>1, <3>3 DEF OnWire, SetUp, Followed, DispatchInv, FrameInv, SocketsAgree, N
        <4>2. dsock # 0 /\ dsock = asock
          BY <3>1, <3>3 DEF DeliveryInv, StartersLinked, DispatchInv, FrameInv, SocketsAgree
        <4>3. back' = back \o <<Event(req, N + 1)>>
          BY <1>2, <1>3, <3>3, <4>1, <4>2 DEF Send
        <4>4. /\ InLine(back', req, Len(got), N + 1, final) /\ ~Answered(back')
              /\ Len(got) + Len(back') = N + 1
          <5>1. N + 1 <= MaxOutput
            BY <1>3
          <5>. QED
            BY <1>3, <1>8, <3>1, <4>1, <4>3, <5>1, EventInLine
        <4>5. UNCHANGED <<wire, sub, starters, req, got>>
          BY <1>2, <1>4 DEF api
        <4>6. OnWire' /\ SetUp' /\ Followed'
          BY <1>3, <4>1, <4>4, <4>5 DEF OnWire, SetUp, Followed, Answered
        <4>. QED
          BY <1>3, <1>4, <4>4, <4>5, <4>6 DEF Delivers
      <3>. QED
        BY <3>2, <3>3
    <2>. QED
      BY <2>1, <2>2
  <1>11. Len(events) \in Nat /\ Len(events) <= Len(events')
    BY <1>3 DEF N
  <1>. QED
    BY <1>2, <1>3, <1>4, <1>5, <1>6, <1>7, <1>9, <1>10, <1>11, ApiIdleKeeps DEF DispatchInv

LEMMA CompletesDelivers ==
    ASSUME DispatchInv, DispatchInv', DeliveryInv, Completes
    PROVE  DeliveryInv'
  <1>1. /\ WriteMeta /\ sub' = "none"
        /\ UNCHANGED <<gens, dsock, asock, losses, wire, api>>
        /\ IF sub = "none" THEN UNCHANGED back ELSE Send(<<Answer(sub, final)>>)
    BY DEF Completes
  <1>2. events' = events /\ final' = final /\ starters' = starters
    BY <1>1 DEF WriteMeta, process
  <1>3. RunFacts'
    <2>1. RunStep
      BY <1>1 DEF RunStep
    <2>. QED
      BY <2>1, RunFactsKept DEF DispatchInv, FrameInv, DeliveryInv
  <1>4. StartersLinked' /\ losses' \in 0..MaxLosses
    BY <1>1, <1>2 DEF DeliveryInv, StartersLinked
  <1>5. back \in Seq(BackFrame) /\ final \in Answers
    <2>1. final # "none" /\ final \in Finals
      BY <1>1 DEF WriteMeta, DeliveryInv, RunFacts, DispatchInv, BufferInv, BufferTypeOK
    <2>. QED
      BY <2>1 DEF DeliveryInv, FramesTold, Finals, Answers
  <1>6. sub # "none" => sub \in Requests
    BY DEF DispatchInv, FrameInv, SocketsAgree
  <1>7. Waiting => back' = back
    BY <1>1 DEF DeliveryInv, WaitingIsQuiet
  <1>8. FramesTold'
    <2>1. CASE sub = "none"
      BY <1>1, <1>5, <2>1 DEF FramesTold
    <2>2. CASE sub # "none"
      <3>1. Answer(sub, final) \in BackFrame
        <4>1. 0 \in 0..MaxOutput
          BY BufferAssumption
        <4>. QED
          BY <1>5, <1>6, <2>2, <4>1 DEF Answer, BackFrame
      <3>2. back' = back \/ back' = back \o <<Answer(sub, final)>>
        BY <1>1, <2>2 DEF Send
      <3>. QED
        BY <1>5, <3>1, <3>2, OneMore DEF FramesTold
    <2>. QED
      BY <2>1, <2>2
  <1>9. Delivers'
    <2>1. CASE req = "none" \/ sub = "none"
      BY <1>1, <1>2, <2>1, PendingKeeps
    <2>2. CASE req # "none" /\ sub # "none"
      <3>1. /\ InLine(back, req, Len(got), Len(events), final) /\ OnWire /\ SetUp /\ Followed
            /\ Len(got) \in Nat /\ asock # 0 /\ Len(events) \in Nat
        BY <2>2, LenProperties, EventsBounded
           DEF DeliveryInv, Delivers, DispatchInv, FrameInv, SocketsAgree
      <3>2. /\ sub = req /\ ~Answered(back) /\ Len(got) + Len(back) = Len(events)
            /\ wire = <<>> /\ starters = {}
        BY <2>2, <3>1 DEF OnWire, SetUp, Followed
      <3>3. dsock # 0 /\ dsock = asock
        BY <2>2, <3>1 DEF DeliveryInv, StartersLinked, DispatchInv, FrameInv, SocketsAgree
      <3>4. back' = back \o <<Answer(req, final)>>
        BY <1>1, <2>2, <3>2, <3>3 DEF Send
      <3>5. InLine(back', req, Len(got), Len(events), final)
        BY <1>5, <1>6, <2>2, <3>1, <3>2, <3>4, AnswerInLine
      <3>. QED
        BY <1>1, <1>2, <3>2, <3>5 DEF Delivers, OnWire, SetUp, Followed, api
    <2>. QED
      BY <2>1, <2>2
  <1>10. Len(events) \in Nat /\ Len(events') \in Nat /\ Len(events) <= Len(events')
    BY <1>2, EventsBounded DEF DispatchInv
  <1>. QED
    BY <1>1, <1>2, <1>3, <1>4, <1>7, <1>8, <1>9, <1>10, ApiIdleKeeps DEF DispatchInv

-----------------------------------------------------------------------------
(* The connections and the API *)

\* A step of the API that has the run left alone and no request pending.
LEMMA SettledKeeps ==
    ASSUME DispatchInv, DispatchInv', DeliveryInv, losses' \in 0..MaxLosses, listed' \in BOOLEAN,
           UNCHANGED <<bufferVars, got>>, StartersLinked', back' \in Seq(BackFrame),
           req' = "none", turn' \in Done \cup {"driving", "suspended"},
           turn' = "driving" => got = <<>>,
           turn' = "ok" => final = "ok" /\ Len(got) = Len(events),
           Waiting' => back' = <<>> /\ wire' = <<>> /\ sub' = "none" /\ starters = {}
    PROVE  DeliveryInv'
  <1>1. RunFacts' /\ events' = events /\ final' = final /\ starters' = starters
    BY RunFactsRest DEF DeliveryInv
  <1>2. WaitingIsQuiet' /\ FramesTold' /\ Delivers'
    BY <1>1 DEF WaitingIsQuiet, FramesTold, Delivers
  <1>3. InOrderOnce' /\ Len(got') <= Len(events')
    BY <1>1 DEF DeliveryInv, AdapterInv, InOrderOnce
  <1>4. turn' = "new" \/ Recovering' => got' = <<>>
    BY DEF Recovering, Done
  <1>5. AdapterInv'
    BY <1>1, <1>3, <1>4 DEF AdapterInv
  <1>. QED
    BY <1>1, <1>2, <1>5 DEF DeliveryInv

LEMMA DialDelivers ==
    ASSUME DispatchInv, DispatchInv', DeliveryInv, Dial
    PROVE  DeliveryInv'
  <1>1. /\ gens' = gens + 1 /\ dsock' = gens' /\ asock' = gens'
        /\ wire' = <<>> /\ back' = <<>> /\ sub' = "none"
        /\ UNCHANGED <<bufferVars, got>> /\ starters = {}
        /\ IF asock # 0 THEN FailPending ELSE UNCHANGED <<req, turn>>
    BY DEF Dial, AtAwait, DispatchInv, BufferInv
  <1>2. dsock' # 0 /\ starters' = {}
    BY <1>1 DEF DispatchInv, FrameInv, SocketsAgree, bufferVars, process
  <1>3. StartersLinked' /\ losses' \in 0..MaxLosses /\ listed' \in BOOLEAN
    <2>1. PICK fails \in {FALSE, Actionable}, skips \in {FALSE, Skipped} :
            Loses(fails) /\ listed' = (Actionable /\ ~fails /\ ~skips)
      BY DEF Dial
    <2>2. losses' \in 0..MaxLosses
      BY <2>1, DispatchAssumption DEF Loses, DeliveryInv
    <2>3. (Actionable /\ ~fails /\ ~skips) \in BOOLEAN
      OBVIOUS
    <2>. QED
      BY <1>2, <2>1, <2>2, <2>3 DEF StartersLinked
  <1>4. RunFacts' /\ events' = events /\ final' = final
    BY <1>1, RunFactsRest DEF DeliveryInv
  <1>5. req' = "none"
    BY <1>1 DEF FailPending, DispatchInv, FrameInv, SocketsAgree
  <1>6. \/ turn' = turn /\ turn # "resuming" /\ (turn = "driving" => got = <<>>)
        \/ turn' = turn /\ asock = 0 /\ req = "none"
        \/ turn' = "suspended" /\ turn # "ok"
    BY <1>1 DEF FailPending, DispatchInv, FrameInv, SocketsAgree
  <1>7. AdapterInv'
    <2>1. InOrderOnce' /\ Len(got') <= Len(events')
      BY <1>1, <1>4 DEF DeliveryInv, AdapterInv, InOrderOnce
    <2>2. turn' = "new" \/ Recovering' => got' = <<>>
      BY <1>1, <1>5, <1>6 DEF Recovering, DeliveryInv, AdapterInv
    <2>. QED
      BY <1>1, <1>4, <1>5, <1>6, <2>1, <2>2 DEF AdapterInv, DeliveryInv
  <1>8. WaitingIsQuiet' /\ FramesTold' /\ Delivers'
    <2>1. <<>> \in Seq(BackFrame)
      BY EmptySeq
    <2>. QED
      BY <1>1, <1>2, <1>5, <2>1 DEF WaitingIsQuiet, FramesTold, Delivers
  <1>. QED
    BY <1>3, <1>4, <1>7, <1>8 DEF DeliveryInv

LEMMA ApiLosesSocketDelivers ==
    ASSUME DispatchInv, DispatchInv', DeliveryInv, ApiLosesSocket
    PROVE  DeliveryInv'
  <1>1. /\ asock # 0 /\ asock' = 0 /\ back' = <<>> /\ req' = "none" /\ FailPending
        /\ UNCHANGED <<bufferVars, dsock, sub, listed, got>> /\ Loses(dsock = asock)
    BY DEF ApiLosesSocket, FailPending
  <1>2. RunFacts' /\ events' = events /\ final' = final /\ starters' = starters
    BY <1>1, RunFactsRest DEF DeliveryInv
  <1>3. losses' \in 0..MaxLosses /\ StartersLinked' /\ listed' \in BOOLEAN
    BY <1>1, <1>2, DispatchAssumption DEF Loses, DeliveryInv, StartersLinked
  <1>4. \/ turn' = turn /\ turn # "resuming" /\ (turn = "driving" => got = <<>>)
        \/ turn' = "suspended" /\ turn # "ok"
    BY <1>1 DEF FailPending
  <1>5. AdapterInv'
    <2>1. InOrderOnce' /\ Len(got') <= Len(events')
      BY <1>1, <1>2 DEF DeliveryInv, AdapterInv, InOrderOnce
    <2>2. turn' = "new" \/ Recovering' => got' = <<>>
      BY <1>1, <1>4 DEF Recovering, DeliveryInv, AdapterInv
    <2>. QED
      BY <1>1, <1>2, <1>4, <2>1, <2>2 DEF AdapterInv, DeliveryInv
  <1>6. WaitingIsQuiet' /\ FramesTold' /\ Delivers'
    <2>1. <<>> \in Seq(BackFrame)
      BY EmptySeq
    <2>. QED
      BY <1>1, <2>1 DEF WaitingIsQuiet, Waiting, FramesTold, Delivers
  <1>. QED
    BY <1>2, <1>3, <1>5, <1>6 DEF DeliveryInv

\* A call over a connection that carries nothing else.
LEMMA CallDelivers ==
    ASSUME DispatchInv, DispatchInv', DeliveryInv, NEW kind \in Requests, Call(kind),
           UNCHANGED <<listed, got>>, asock # 0,
           back' = <<>>, wire = <<>>, sub = "none", starters = {},
           kind # "resume" => got = <<>>, turn' \in {"driving", "resuming"}
    PROVE  DeliveryInv'
  <1>1. UNCHANGED <<bufferVars, gens, dsock, asock, losses, sub>> /\ req' = kind
    BY DEF Call
  <1>2. RunFacts' /\ events' = events /\ final' = final /\ starters' = {}
    BY <1>1, RunFactsRest DEF DeliveryInv
  <1>3. losses' \in 0..MaxLosses /\ StartersLinked' /\ listed' \in BOOLEAN
    BY <1>1, <1>2 DEF DeliveryInv, StartersLinked
  <1>4. req' # "none" /\ turn' # "new" /\ turn' # "ok"
    BY <1>1 DEF Requests
  <1>5. AdapterInv'
    <2>1. InOrderOnce' /\ Len(got') <= Len(events')
      BY <1>2 DEF DeliveryInv, AdapterInv, InOrderOnce
    <2>2. ~Recovering'
      BY <1>4 DEF Recovering
    <2>. QED
      BY <1>2, <1>4, <2>1, <2>2 DEF AdapterInv
  <1>6. WaitingIsQuiet' /\ FramesTold'
    <2>1. <<>> \in Seq(BackFrame)
      BY EmptySeq
    <2>. QED
      BY <1>4, <2>1 DEF WaitingIsQuiet, Waiting, FramesTold
  <1>7. OnWire'
    <2>. DEFINE f == [kind |-> kind, from |-> IF kind = "resume" THEN Len(got) ELSE 0]
    <2>1. f.kind = kind /\ f.from = Len(got)
      BY EmptySeq
    <2>2. wire' = wire \/ wire' = Append(wire, f)
      BY DEF Call
    <2>. HIDE DEF f
    <2>3. Append(<<>>, f) = <<f>> /\ Len(<<f>>) = 1 /\ <<f>>[1] = f
      OBVIOUS
    <2>. QED
      BY <1>1, <1>2, <2>1, <2>2, <2>3 DEF OnWire
  <1>8. Delivers'
    <2>1. InLine(<<>>, req', Len(got'), Len(events'), final')
      BY NothingInLine
    <2>. QED
      BY <1>1, <1>2, <1>7, <2>1 DEF Delivers, SetUp, Followed
  <1>. QED
    BY <1>2, <1>3, <1>5, <1>6, <1>8 DEF DeliveryInv

LEMMA CallsDeliver ==
    ASSUME DispatchInv, DispatchInv', DeliveryInv, Dispatch \/ Probe \/ Resume
    PROVE  DeliveryInv'
  <1>. USE DEF DeliveryInv
  <1>1. CASE Dispatch /\ asock # 0
    <2>1. /\ Call("start") /\ turn = "new" /\ turn' = "driving"
          /\ UNCHANGED <<listed, got, back>>
      BY <1>1 DEF Dispatch
    <2>2. req = "none"
      BY <2>1 DEF AdapterInv
    <2>3. /\ back = <<>> /\ wire = <<>> /\ sub = "none" /\ starters = {} /\ got = <<>>
          /\ "start" \in Requests
      BY <1>1, <2>1, <2>2 DEF WaitingIsQuiet, Waiting, AdapterInv, Requests
    <2>. QED
      BY <1>1, <2>1, <2>3, CallDelivers
  <1>2. CASE Dispatch /\ asock = 0
    <2>1. /\ UNCHANGED <<bufferVars, gens, dsock, asock, losses, sub, req, wire>>
          /\ turn = "new" /\ turn' = "driving" /\ UNCHANGED <<listed, got, back>>
      BY <1>2 DEF Dispatch
    <2>2. req = "none" /\ got = <<>>
      BY <2>1 DEF AdapterInv
    <2>3. RunFacts' /\ starters' = starters
      BY <2>1, RunFactsRest
    <2>4. StartersLinked' /\ back' \in Seq(BackFrame)
      BY <2>1, <2>3 DEF StartersLinked, FramesTold
    <2>5. ~Waiting'
      BY <1>2, <2>1 DEF Waiting
    <2>. QED
      BY <2>1, <2>2, <2>4, <2>5, SettledKeeps
  <1>3. CASE Probe
    <2>1. /\ Call("probe") /\ Recovering /\ asock # 0 /\ UNCHANGED <<listed, turn, got, back>>
      BY <1>3 DEF Probe
    <2>2. /\ back = <<>> /\ wire = <<>> /\ sub = "none" /\ starters = {} /\ got = <<>>
          /\ turn' = "driving" /\ "probe" \in Requests
      BY <2>1 DEF WaitingIsQuiet, Waiting, AdapterInv, Requests, Recovering
    <2>. QED
      BY <2>1, <2>2, CallDelivers
  <1>4. CASE Resume
    <2>1. /\ Call("resume") /\ turn = "suspended" /\ asock # 0 /\ turn' = "resuming"
          /\ UNCHANGED <<listed, got, back>>
      BY <1>4 DEF Resume
    <2>2. req = "none"
      BY <2>1 DEF AdapterInv
    <2>3. /\ back = <<>> /\ wire = <<>> /\ sub = "none" /\ starters = {} /\ "resume" \in Requests
      BY <2>1, <2>2 DEF WaitingIsQuiet, Waiting, Requests
    <2>. QED
      BY <2>1, <2>3, CallDelivers
  <1>. QED
    BY <1>1, <1>2, <1>3, <1>4

LEMMA GivesUpDelivers ==
    ASSUME DispatchInv, DispatchInv', DeliveryInv, GivesUp
    PROVE  DeliveryInv'
  <1>1. /\ UNCHANGED <<bufferVars, net, listed, req, got>>
        /\ req = "none" /\ turn = "driving" /\ turn' = "suspended"
    BY DEF GivesUp, Recovering
  <1>2. RunFacts' /\ starters' = starters
    BY <1>1, RunFactsRest DEF DeliveryInv
  <1>3. StartersLinked' /\ back' \in Seq(BackFrame) /\ losses' \in 0..MaxLosses
    BY <1>1, <1>2 DEF StartersLinked, FramesTold, DeliveryInv, net
  <1>4. Waiting' => back' = <<>> /\ wire' = <<>> /\ sub' = "none" /\ starters = {}
    BY <1>1 DEF Waiting, WaitingIsQuiet, DeliveryInv, net
  <1>. QED
    BY <1>1, <1>3, <1>4, SettledKeeps DEF DeliveryInv

LEMMA JudgesDeliver ==
    ASSUME DispatchInv, DispatchInv', DeliveryInv, Judge \/ JudgeEnds
    PROVE  DeliveryInv'
  <1>1. /\ UNCHANGED <<bufferVars, net, listed, req, got>>
        /\ turn' = turn \/ (turn = "suspended" /\ turn' = "gone")
    BY DEF Judge, JudgeEnds, Unvetoed
  <1>2. RunFacts' /\ starters' = starters /\ events' = events /\ final' = final
    BY <1>1, RunFactsRest DEF DeliveryInv
  <1>3. StartersLinked' /\ FramesTold' /\ losses' \in 0..MaxLosses /\ listed' \in BOOLEAN
    BY <1>1, <1>2 DEF StartersLinked, FramesTold, DeliveryInv, net
  <1>4. AdapterInv'
    <2>1. InOrderOnce' /\ Len(got') <= Len(events')
      BY <1>1, <1>2 DEF DeliveryInv, AdapterInv, InOrderOnce
    <2>2. "gone" \in Done
      BY DEF Done
    <2>. QED
      BY <1>1, <1>2, <2>1, <2>2 DEF AdapterInv, DeliveryInv, Recovering
  <1>5. WaitingIsQuiet'
    BY <1>1, <1>2 DEF WaitingIsQuiet, Waiting, DeliveryInv, net
  <1>6. Delivers'
    BY <1>1, <1>2 DEF Delivers, OnWire, SetUp, Followed, InLine, Answered, DeliveryInv, net
  <1>. QED
    BY <1>2, <1>3, <1>4, <1>5, <1>6 DEF DeliveryInv

LEMMA CancelDelivers ==
    ASSUME DispatchInv, DispatchInv', DeliveryInv, Cancel
    PROVE  DeliveryInv'
  <1>1. /\ UNCHANGED <<bufferVars, gens, dsock, asock, losses, back, sub, listed, got>>
        /\ turn' = "cancelled" /\ req' = "none"
    BY DEF Cancel
  <1>2. RunFacts' /\ starters' = starters
    BY <1>1, RunFactsRest DEF DeliveryInv
  <1>3. StartersLinked' /\ back' \in Seq(BackFrame) /\ losses' \in 0..MaxLosses
    BY <1>1, <1>2 DEF StartersLinked, FramesTold, DeliveryInv
  <1>4. ~Waiting' /\ "cancelled" \in Done
    BY <1>1 DEF Waiting, Done
  <1>. QED
    BY <1>1, <1>3, <1>4, SettledKeeps DEF DeliveryInv

LEMMA GetsEventDelivers ==
    ASSUME DispatchInv, DispatchInv', DeliveryInv, GetsEvent
    PROVE  DeliveryInv'
  <1>1. /\ asock # 0 /\ back # <<>> /\ back' = Tail(back) /\ Head(back).answer = "none"
        /\ got' = IF Head(back).to = req THEN Append(got, Head(back).seq) ELSE got
        /\ UNCHANGED <<bufferVars, gens, dsock, asock, losses, wire, sub>>
        /\ UNCHANGED <<hello, judging, turn, req>>
    BY DEF GetsEvent, Receives, Frame
  <1>2. RunFacts' /\ starters' = starters /\ events' = events /\ final' = final
    BY <1>1, RunFactsRest DEF DeliveryInv
  <1>3. StartersLinked' /\ losses' \in 0..MaxLosses /\ listed' \in BOOLEAN
    BY <1>1, <1>2 DEF StartersLinked, DeliveryInv
  <1>4. back \in Seq(BackFrame) /\ Tail(back) \in Seq(BackFrame) /\ Head(back) \in BackFrame
    BY <1>1, HeadTailProperties DEF DeliveryInv, FramesTold
  <1>5. FramesTold' /\ ~Waiting /\ ~Waiting'
    BY <1>1, <1>4 DEF DeliveryInv, FramesTold, WaitingIsQuiet, Waiting
  <1>6. CASE req = "none"
    <2>1. got' = got
      BY <1>1, <1>4, <1>6 DEF BackFrame, Requests
    <2>2. AdapterInv'
      BY <1>1, <1>2, <2>1 DEF AdapterInv, Recovering, InOrderOnce, DeliveryInv
    <2>. QED
      BY <1>1, <1>2, <1>3, <1>5, <1>6, <2>2 DEF DeliveryInv, Delivers, WaitingIsQuiet
  <1>7. CASE req # "none"
    <2>1. /\ InLine(back, req, Len(got), Len(events), final) /\ OnWire /\ SetUp /\ Followed
          /\ Len(got) \in Nat /\ got \in Seq(Int) /\ Len(events) \in Nat
      BY <1>7, LenProperties, EventsBounded
         DEF DeliveryInv, Delivers, DispatchInv, FrameInv, SocketsAgree
    <2>2. /\ Head(back).to = req /\ Head(back).seq = Len(got) + 1 /\ Len(got) + 1 <= Len(events)
          /\ InLine(Tail(back), req, Len(got) + 1, Len(events), final)
          /\ Answered(Tail(back)) => Answered(back)
          /\ Len(Tail(back)) + 1 = Len(back) /\ Len(Tail(back)) \in Nat
      BY <1>1, <1>4, <2>1, TailInLine, LenProperties
    <2>3. got' = Append(got, Len(got) + 1)
      BY <1>1, <2>2
    <2>4. /\ Len(got') = Len(got) + 1 /\ got' \in Seq(Int) /\ got'[Len(got) + 1] = Len(got) + 1
          /\ \A i \in 1..Len(got) : got'[i] = got[i]
      BY <2>1, <2>3, AppendProperties
    <2>5. InOrderOnce'
      <3>1. DOMAIN got = 1..Len(got) /\ DOMAIN got' = 1..(Len(got) + 1)
        BY <2>1, <2>4, LenProperties
      <3>2. \A i \in 1..Len(got) : got[i] = i
        BY <3>1 DEF DeliveryInv, AdapterInv, InOrderOnce
      <3>3. ASSUME NEW i \in DOMAIN got' PROVE got'[i] = i
        <4>1. i \in 1..Len(got) \/ i = Len(got) + 1
          BY <2>1, <3>1
        <4>. QED
          BY <2>4, <3>2, <4>1
      <3>. QED
        BY <3>3 DEF InOrderOnce
    <2>6. turn \in {"driving", "resuming"} /\ turn # "new" /\ turn # "ok" /\ ~Recovering'
      BY <1>1, <1>7 DEF DeliveryInv, AdapterInv, Recovering
    <2>7. AdapterInv'
      BY <1>1, <1>2, <2>2, <2>4, <2>5, <2>6 DEF AdapterInv, DeliveryInv
    <2>8. wire = <<>> /\ starters = {}
      BY <1>1, <2>1 DEF OnWire, SetUp
    <2>9. Followed'
      <3>1. CASE sub = "none"
        BY <1>1, <3>1 DEF Followed
      <3>2. CASE sub # "none"
        <4>1. sub = req /\ ~Answered(back) /\ Len(got) + Len(back) = Len(events)
          BY <2>1, <3>2 DEF Followed
        <4>2. ~Answered(Tail(back))
          BY <2>2, <4>1
        <4>3. Len(got) + 1 + Len(Tail(back)) = Len(events)
          <5>1. Len(back) \in Nat
            BY <1>4, LenProperties
          <5>. QED
            <6>1. PICK a \in Nat, b \in Nat, c \in Nat, n \in Nat :
                      a = Len(got) /\ b = Len(Tail(back)) /\ c = Len(back) /\ n = Len(events)
              BY <2>1, <2>2, <5>1
            <6>2. b + 1 = c /\ a + c = n
              <7>1. Len(Tail(back)) + 1 = Len(back) /\ Len(got) + Len(back) = Len(events)
                BY <2>2, <4>1
              <7>. QED
                BY <6>1, <7>1, Zenon
            <6>3. a + 1 + b = n
              BY <6>2
            <6>. QED
              BY <6>1, <6>3, Zenon
        <4>. QED
          BY <1>1, <1>2, <2>4, <4>1, <4>2, <4>3 DEF Followed, Answered
      <3>. QED
        BY <3>1, <3>2
    <2>10. Delivers'
      BY <1>1, <1>2, <2>2, <2>4, <2>8, <2>9 DEF Delivers, OnWire, SetUp
    <2>. QED
      BY <1>2, <1>3, <1>5, <2>7, <2>10 DEF DeliveryInv, WaitingIsQuiet
  <1>. QED
    BY <1>6, <1>7

\* What the answer to a pending request leaves.
LEMMA AnswerLeaves ==
    ASSUME DispatchInv, DeliveryInv, Receives, Frame.answer # "none", Frame.to = req
    PROVE  /\ req # "none" /\ asock # 0 /\ back' = <<>> /\ wire = <<>>
           /\ sub = "none" /\ starters = {} /\ Frame.answer \in Answers
           /\ Frame.answer = "ok" => final = "ok" /\ Len(got) = Len(events)
  <1>1. /\ asock # 0 /\ back # <<>> /\ back' = Tail(back)
        /\ Head(back).answer # "none" /\ Head(back).to = req
    BY DEF Receives, Frame
  <1>2. back \in Seq(BackFrame) /\ Head(back) \in BackFrame
    BY <1>1, HeadTailProperties DEF DeliveryInv, FramesTold
  <1>3. req # "none" /\ Head(back).answer \in Answers
    BY <1>1, <1>2 DEF BackFrame, Requests
  <1>4. /\ InLine(back, req, Len(got), Len(events), final) /\ OnWire /\ SetUp /\ Followed
        /\ Len(got) \in Nat /\ Len(events) \in Nat
    BY <1>3, LenProperties, EventsBounded
       DEF DeliveryInv, Delivers, DispatchInv, FrameInv, SocketsAgree
  <1>5. /\ Tail(back) = <<>> /\ Answered(back)
        /\ Head(back).answer = "ok" => final = "ok" /\ Len(got) = Len(events)
    <2>1. PICK m \in Nat, n \in Nat :
              m = Len(got) /\ n = Len(events) /\ InLine(back, req, m, n, final)
      BY <1>4
    <2>2. back \in Seq(BackFrame) /\ back # <<>> /\ InLine(back, req, m, n, final)
      BY <1>1, <1>2, <2>1
    <2>3. /\ Head(back).answer # "none" => Tail(back) = <<>>
          /\ Head(back).answer # "none" => Answered(back)
      BY <2>2, TailInLine
    <2>4. Head(back).answer = "ok" => final = "ok" /\ m = n
      BY <2>2, TailInLine
    <2>. QED
      BY <1>1, <2>1, <2>3, <2>4
  <1>6. wire = <<>> /\ sub = "none" /\ starters = {}
    BY <1>1, <1>4, <1>5 DEF OnWire, SetUp, Followed
  <1>. QED
    BY <1>1, <1>3, <1>5, <1>6 DEF Frame

LEMMA GetsAnswerDelivers ==
    ASSUME DispatchInv, DispatchInv', DeliveryInv, GetsAnswer
    PROVE  DeliveryInv'
  <1>1. /\ Receives /\ Frame.answer # "none" /\ Frame.to = req /\ req' = "none"
        /\ turn' = IF Inconclusive(Frame.answer) THEN "suspended" ELSE TerminalFor(Frame.answer)
        /\ UNCHANGED <<bufferVars, gens, dsock, asock, losses, wire, sub>>
        /\ UNCHANGED <<hello, judging, got>>
    BY DEF GetsAnswer
  <1>2. /\ back' = <<>> /\ wire = <<>> /\ sub = "none" /\ starters = {}
        /\ Frame.answer = "ok" => final = "ok" /\ Len(got) = Len(events)
    BY <1>1, AnswerLeaves
  <1>3. /\ turn' \in {"suspended", "ok", "cancelled", "failed"}
        /\ turn' = "ok" => Frame.answer = "ok"
    BY <1>1 DEF TerminalFor
  <1>4. starters' = starters
    BY <1>1 DEF bufferVars, process
  <1>5. StartersLinked' /\ back' \in Seq(BackFrame) /\ losses' \in 0..MaxLosses
    BY <1>1, <1>2, <1>4, EmptySeq DEF StartersLinked, DeliveryInv
  <1>. QED
    BY <1>1, <1>2, <1>3, <1>5, SettledKeeps DEF DeliveryInv, Done

LEMMA RedispatchDelivers ==
    ASSUME DispatchInv, DispatchInv', DeliveryInv, Redispatch
    PROVE  DeliveryInv'
  <1>1. /\ Receives /\ Frame.answer # "none" /\ Frame.to = req /\ Call("start")
        /\ req = "probe" /\ got = <<>> /\ UNCHANGED <<hello, judging, turn, got>>
    BY DEF Redispatch, ProvesLost
  <1>2. asock # 0 /\ back' = <<>> /\ wire = <<>> /\ sub = "none" /\ starters = {}
    BY <1>1, AnswerLeaves
  <1>3. turn' = "driving" /\ "start" \in Requests
    BY <1>1 DEF DispatchInv, FrameInv, ProbeDrives, Requests
  <1>. QED
    BY <1>1, <1>2, <1>3, CallDelivers

LEMMA DropsAnswerDelivers ==
    ASSUME DispatchInv, DispatchInv', DeliveryInv, DropsAnswer
    PROVE  DeliveryInv'
  <1>1. /\ back # <<>> /\ back' = Tail(back) /\ asock # 0 /\ Head(back).to # req
        /\ UNCHANGED <<bufferVars, gens, dsock, asock, losses, wire, sub, api>>
    BY DEF DropsAnswer, Receives, Frame
  <1>2. RunFacts' /\ starters' = starters /\ events' = events /\ final' = final
    BY <1>1, RunFactsRest DEF DeliveryInv
  <1>3. StartersLinked' /\ losses' \in 0..MaxLosses
    BY <1>1, <1>2 DEF StartersLinked, DeliveryInv
  <1>4. back \in Seq(BackFrame) /\ FramesTold'
    BY <1>1, HeadTailProperties DEF DeliveryInv, FramesTold
  <1>5. ~Waiting
    BY <1>1 DEF DeliveryInv, WaitingIsQuiet
  <1>6. Len(events) \in Nat /\ Len(got) \in Nat
    BY EventsBounded, LenProperties DEF DispatchInv, FrameInv, SocketsAgree
  <1>7. req = "none"
    <2>1. SUFFICES ASSUME req # "none" PROVE FALSE
      OBVIOUS
    <2>2. InLine(back, req, Len(got), Len(events), final)
      BY <2>1 DEF DeliveryInv, Delivers
    <2>. QED
      BY <1>1, <1>4, <1>6, <2>2, TailInLine
  <1>8. Delivers'
    BY <1>1, <1>7 DEF Delivers, api
  <1>9. Len(events') \in Nat /\ Len(events) <= Len(events')
    BY <1>2, <1>6
  <1>. QED
    BY <1>1, <1>2, <1>3, <1>4, <1>5, <1>6, <1>8, <1>9, ApiIdleKeeps DEF DispatchInv

-----------------------------------------------------------------------------

LEMMA DeliveryInit ==
    ASSUME Init
    PROVE  DeliveryInv
  <1>1. losses \in 0..MaxLosses /\ listed \in BOOLEAN
    <2>1. 0 \in 0..MaxLosses /\ losses = 0 /\ listed = FALSE
      BY DispatchAssumption DEF Init
    <2>. QED
      BY <2>1
  <1>2. RunFacts /\ StartersLinked /\ WaitingIsQuiet /\ Delivers
    BY DEF Init, BufferInit, RunFacts, StartersLinked, WaitingIsQuiet, Delivers
  <1>3. FramesTold
    BY EmptySeq DEF Init, FramesTold
  <1>4. AdapterInv
    <2>1. Len(<<>>) <= Len(<<>>) /\ DOMAIN <<>> = {}
      OBVIOUS
    <2>. QED
      BY <2>1 DEF Init, BufferInit, AdapterInv, Recovering, InOrderOnce
  <1>. QED
    BY <1>1, <1>2, <1>3, <1>4 DEF DeliveryInv

LEMMA DeliveryNextKeeps == DispatchInv /\ DispatchInv' /\ DeliveryInv /\ [Next]_vars => DeliveryInv'
  <1>. SUFFICES ASSUME DispatchInv, DispatchInv', DeliveryInv, [Next]_vars
                PROVE  DeliveryInv'
    OBVIOUS
  <1>1. CASE DaemonStep
    BY <1>1, TakesStartDelivers, TakesResumeDelivers, TakesCancelDelivers, OpensDelivers,
       PublishesDelivers, CompletesDelivers DEF DaemonStep
  <1>2. CASE Watches \/ DaemonDies \/ DaemonStarts
    BY <1>2, WatchesDelivers, DaemonDiesDelivers
  <1>3. CASE Dial \/ DaemonLosesSocket \/ ApiLosesSocket
    BY <1>3, DialDelivers, DaemonLosesSocketDelivers, ApiLosesSocketDelivers
  <1>4. CASE ApiStep \/ Cancel
    BY <1>4, CallsDeliver, GivesUpDelivers, GetsEventDelivers, GetsAnswerDelivers,
       RedispatchDelivers, DropsAnswerDelivers, CancelDelivers DEF ApiStep
  <1>5. CASE Reconciles
    BY <1>5, CallsDeliver, JudgesDeliver DEF Reconciles
  <1>6. CASE GraceEnds \/ Collects \/ UNCHANGED vars
    BY <1>6, StutterDelivers
  <1>. QED
    BY <1>1, <1>2, <1>3, <1>4, <1>5, <1>6 DEF Next

\* In every reachable state a pending request is in one place, and what comes
\* back for it goes on where its turn's adapter stands.
THEOREM DeliveryHolds == SetupWaits = FALSE /\ Spec => [](DispatchInv /\ DeliveryInv)
  <1>1. Init => DeliveryInv
    BY DeliveryInit
  <1>2. DispatchInv /\ DispatchInv' /\ DeliveryInv /\ [Next]_vars => DeliveryInv'
    BY DeliveryNextKeeps
  <1>. QED
    BY <1>1, <1>2, DispatchInvHolds, PTL DEF Spec

\* A turn's adapters get each event of the run once and in order, over lost
\* connections, probes, suspensions and daemons that die.
THEOREM InOrderOnceHolds == SetupWaits = FALSE /\ Spec => []InOrderOnce
  <1>1. DeliveryInv => InOrderOnce
    BY DEF DeliveryInv, AdapterInv
  <1>. QED
    BY <1>1, DeliveryHolds, PTL

\* A turn that ends well has got every event of a run that has ended and whose
\* event log is whole.
THEOREM OkIsWholeHolds == SetupWaits = FALSE /\ Spec => []OkIsWhole
  <1>1. DispatchInv /\ DeliveryInv => OkIsWhole
    BY DEF DeliveryInv, AdapterInv, DispatchInv, BufferInv, FinalIsWhole, OkIsWhole
  <1>. QED
    BY <1>1, DeliveryHolds, PTL

-----------------------------------------------------------------------------
(* Types.  What a request asks for is never beyond the run's events, so the *)
(* frames of the wire are bounded as the run is.                            *)

WireFrame == [kind : Requests \cup {"cancel"}, from : 0..MaxOutput]
WireTold == wire \in Seq(WireFrame)

LEMMA CallTold ==
    ASSUME DispatchInv, DeliveryInv, WireTold, NEW kind \in Requests, Call(kind)
    PROVE  WireTold'
  <1>1. Len(got) \in 0..MaxOutput /\ 0 \in 0..MaxOutput
    <2>1. Len(got) \in Nat /\ Len(events) \in Nat /\ Len(events) <= MaxOutput
      BY LenProperties, EventsBounded DEF DispatchInv, FrameInv, SocketsAgree
    <2>2. Len(got) <= Len(events)
      BY DEF DeliveryInv, AdapterInv
    <2>. QED
      BY <2>1, <2>2, BufferAssumption
  <1>2. PICK n \in 0..MaxOutput :
            wire' = IF dsock # asock THEN wire ELSE Append(wire, [kind |-> kind, from |-> n])
    BY <1>1 DEF Call
  <1>3. [kind |-> kind, from |-> n] \in WireFrame
    BY DEF WireFrame
  <1>. QED
    BY <1>2, <1>3, AppendProperties DEF WireTold

LEMMA ToldNext ==
    ASSUME DispatchInv, DeliveryInv, WireTold, [Next]_vars
    PROVE  WireTold'
  <1>1. wire = <<>> \/ Tail(wire) \in Seq(WireFrame)
    BY HeadTailProperties DEF WireTold
  <1>2. <<>> \in Seq(WireFrame)
    BY EmptySeq
  <1>3. CASE \E kind \in Requests : Call(kind)
    BY <1>3, CallTold
  <1>4. CASE wire' = wire \/ wire' = <<>> \/ (wire # <<>> /\ wire' = Tail(wire))
    BY <1>1, <1>2, <1>4 DEF WireTold
  <1>5. CASE Cancel
    <2>1. [kind |-> "cancel", from |-> 0] \in WireFrame
      BY BufferAssumption DEF WireFrame
    <2>. QED
      BY <1>5, <2>1, AppendProperties DEF Cancel, WireTold
  <1>6. CASE DaemonStep
    BY <1>4, <1>6 DEF DaemonStep, TakesStart, TakesResume, TakesCancel, Takes, Opens,
       Publishes, Completes
  <1>7. CASE Watches \/ DaemonDies \/ DaemonStarts \/ Dial \/ DaemonLosesSocket \/ ApiLosesSocket
    BY <1>4, <1>7 DEF Watches, DaemonDies, DaemonStarts, Dial, DaemonLosesSocket,
       ApiLosesSocket, net
  <1>8. CASE ApiStep
    <2>1. "start" \in Requests /\ "probe" \in Requests
      BY DEF Requests
    <2>. QED
      BY <1>3, <1>4, <1>8, <2>1 DEF ApiStep, Dispatch, Probe, GivesUp, GetsEvent, GetsAnswer,
         Redispatch, DropsAnswer, net
  <1>9. CASE Reconciles
    BY <1>3, <1>4, <1>9 DEF Reconciles, Resume, Judge, JudgeEnds, net, Requests
  <1>10. CASE GraceEnds \/ Collects \/ UNCHANGED vars
    BY <1>4, <1>10 DEF GraceEnds, Collects, vars, net
  <1>. QED
    BY <1>5, <1>6, <1>7, <1>8, <1>9, <1>10 DEF Next

AgeTold == grace \in {"within", "over", "collected"} /\ missed \in BOOLEAN

LEMMA AgeNext == AgeTold /\ [Next]_vars => AgeTold'
  <1>. SUFFICES ASSUME AgeTold, [Next]_vars PROVE AgeTold'
    OBVIOUS
  <1>1. CASE Dial
    <2>1. PICK fails \in {FALSE, Actionable}, skips \in {FALSE, Skipped} :
            missed' = (missed \/ fails \/ skips)
      BY <1>1 DEF Dial
    <2>2. (missed \/ fails \/ skips) \in BOOLEAN
      OBVIOUS
    <2>3. grace' = grace
      BY <1>1 DEF Dial
    <2>. QED
      BY <2>1, <2>2, <2>3 DEF AgeTold
  <1>2. CASE DaemonStep \/ Watches \/ DaemonDies \/ DaemonStarts
    BY <1>2 DEF AgeTold, DaemonStep, TakesStart, TakesResume, TakesCancel, Takes, Opens, Publishes,
       Completes, Watches, DaemonDies, DaemonStarts, api
  <1>3. CASE GraceEnds \/ Collects \/ UNCHANGED vars
    BY <1>3 DEF AgeTold, GraceEnds, Collects, vars, api
  <1>4. CASE DaemonLosesSocket \/ ApiLosesSocket \/ ApiStep \/ Cancel \/ Reconciles
    BY <1>4 DEF AgeTold, DaemonLosesSocket, ApiLosesSocket, Cancel, ApiStep, Dispatch, Probe, GivesUp,
       GetsEvent, GetsAnswer, Redispatch, DropsAnswer, Reconciles, Resume, Judge, JudgeEnds, api
  <1>. QED
    BY <1>1, <1>2, <1>3, <1>4 DEF Next

LEMMA GotTyped ==
    ASSUME DispatchInv, DeliveryInv
    PROVE  got \in Seq(1..MaxOutput)
  <1>1. /\ got \in Seq(Int) /\ Len(got) \in Nat /\ DOMAIN got = 1..Len(got)
        /\ Len(events) \in Nat /\ Len(events) <= MaxOutput
    BY LenProperties, EventsBounded DEF DispatchInv, FrameInv, SocketsAgree
  <1>2. Len(got) <= Len(events) /\ \A i \in DOMAIN got : got[i] = i
    BY DEF DeliveryInv, AdapterInv, InOrderOnce
  <1>3. \A i \in 1..Len(got) : got[i] \in 1..MaxOutput
    BY <1>1, <1>2, BufferAssumption
  <1>4. got = [i \in 1..Len(got) |-> got[i]]
    BY <1>1, LenProperties
  <1>5. [i \in 1..Len(got) |-> got[i]] \in Seq(1..MaxOutput)
    BY <1>1, <1>3, IsASeq
  <1>. QED
    BY <1>4, <1>5

\* The dispatch, its connections and its frames keep their types: what a request
\* asks for and what is told of a run is never beyond the run's events.
THEOREM TypeCorrect == SetupWaits = FALSE /\ Spec => []TypeOK
  <1>1. Init => WireTold
    BY EmptySeq DEF Init, WireTold
  <1>2. DispatchInv /\ DeliveryInv /\ WireTold /\ [Next]_vars => WireTold'
    BY ToldNext
  <1>3. ASSUME DispatchInv, DeliveryInv, WireTold, AgeTold PROVE TypeOK
    <2>1. BufferTypeOK /\ gens \in Nat /\ {dsock, asock, absent, judging} \subseteq 0..gens
      BY <1>3 DEF DispatchInv, BufferInv, FrameInv, SocketsAgree
    <2>2. losses \in 0..MaxLosses /\ listed \in BOOLEAN
          /\ grace \in {"within", "over", "collected"} /\ missed \in BOOLEAN
      BY <1>3 DEF DeliveryInv, AgeTold
    <2>3. sub \in Requests \cup {"none"} /\ req \in Requests \cup {"none"}
      BY <1>3 DEF DispatchInv, FrameInv, SocketsAgree
    <2>4. back \in Seq([to : Requests, seq : 0..MaxOutput, answer : Answers \cup {"none"}])
      BY <1>3 DEF DeliveryInv, FramesTold, BackFrame
    <2>5. turn \in Done \cup {"new", "driving", "suspended", "resuming"}
      BY <1>3 DEF DeliveryInv, AdapterInv
    <2>6. starters \subseteq 1..gens
      <3>1. \A g \in starters : g = dsock /\ g # 0
        BY <1>3 DEF DeliveryInv, StartersLinked
      <3>2. dsock \in 0..gens
        BY <2>1
      <3>. QED
        BY <2>1, <3>1, <3>2
    <2>7. got \in Seq(1..MaxOutput)
      BY <1>3, GotTyped
    <2>8. wire \in Seq([kind : Requests \cup {"cancel"}, from : 0..MaxOutput])
      BY <1>3 DEF WireTold, WireFrame
    <2>. QED
      BY <2>1, <2>2, <2>3, <2>4, <2>5, <2>6, <2>7, <2>8 DEF TypeOK
  <1>4. Init => AgeTold
    BY DEF Init, AgeTold
  <1>. QED
    BY <1>1, <1>2, <1>3, <1>4, AgeNext, DeliveryHolds, PTL DEF Spec
=============================================================================
