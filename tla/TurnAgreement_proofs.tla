------------------------ MODULE TurnAgreement_proofs ------------------------
(***************************************************************************)
(* What a step of the instances does to the database, the agreement of     *)
(* log, execution row and slot that follows, and the turn ledger that the  *)
(* whole implements.                                                       *)
(***************************************************************************)
EXTENDS TurnSafety_proofs

-----------------------------------------------------------------------------
(***************************************************************************)
(* Six shapes of a step, seen from the database.                           *)
(***************************************************************************)
\* The turn rests: a renewal, a handoff or nothing at all happens to it.
Rests(n) ==
    /\ log'[n] = log[n]
    /\ exec'[n].gen = exec[n].gen
    /\ \/ exec'[n].state = exec[n].state
       \/ exec'[n].state \in OpenStates /\ exec[n].state \in OpenStates

OthersRest(m) == \A n \in Message : n # m => Rests(n)

Stays == UNCHANGED <<inflight, minted>> /\ \A n \in Message : Rests(n)

Opens(m) ==
    /\ inflight = None /\ inflight' = m
    /\ m \notin minted /\ minted' = minted \cup {m}
    /\ UNCHANGED <<exec, log>>

Abandons(m) ==
    /\ inflight = m /\ inflight' = None
    /\ exec[m].state = "absent"
    /\ \A i \in Instance : ~Dispatching(i, m)'
    /\ UNCHANGED <<minted, exec, log>>

Owns(m) ==
    /\ ~HasTerminal(m)
    /\ IsOpen(m) \/ (exec[m].state = "absent" /\ inflight = m)
    /\ exec'[m].state \in OpenStates
    /\ exec'[m].gen = exec[m].gen + 1
    /\ OthersRest(m)
    /\ UNCHANGED <<inflight, minted, log>>

Appends(m, kind) ==
    log' = [log EXCEPT ![m] =
               Append(@, [kind |-> kind, gen |-> exec[m].gen, by |-> exec[m].gen])]

Adds(m) ==
    /\ inflight = m
    /\ Appends(m, "row")
    /\ UNCHANGED <<inflight, minted, exec>>

Ends(m) ==
    /\ m \in minted
    /\ ~HasTerminal(m)
    /\ exec[m].state \notin ClosedStates
    /\ \E kind \in TerminalKinds : Appends(m, kind)
    /\ exec'[m].gen = exec[m].gen
    /\ \/ exec[m].state = "absent" /\ exec'[m].state = "absent"
       \/ exec[m].state # "absent" /\ exec'[m].state \in ClosedStates
    /\ inflight' = IF inflight = m THEN None ELSE inflight
    /\ OthersRest(m)
    /\ minted' = minted

Shape ==
    \/ Stays
    \/ \E m \in Message :
          Opens(m) \/ Abandons(m) \/ Owns(m) \/ Adds(m) \/ Ends(m)

-----------------------------------------------------------------------------
(***************************************************************************)
(* The actors' steps have one of these shapes.                             *)
(***************************************************************************)
\* A terminal that is written, accepted or refused.
LEMMA TerminalShape ==
  ASSUME TypeOK, Provenance, Agreement,
         NEW i \in Instance, NEW m \in Message, m \in minted,
         NEW g, NEW kind \in TerminalKinds,
         InsertTerminal(i, m, g, g, kind)
  PROVE  Stays \/ Ends(m)
<1>0. DbType /\ Dispatched(m)
  BY TypeSplit DEF Provenance
<1>1. CASE ~TerminalAccepted(i, m, g)
  BY <1>1 DEF InsertTerminal, db, Stays, Rests
<1>2. CASE TerminalAccepted(i, m, g)
  <2>1. ~HasTerminal(m) /\ MayClose(i, m, g)
    BY <1>2 DEF TerminalAccepted
  <2>2. exec[m].state \notin ClosedStates
    BY <2>1 DEF Agreement, ClosedTogether, ClosedStates
  <2>3. g = exec[m].gen
    BY <1>0, <2>1, <2>2 DEF MayClose, FenceHolds, IsOpen, Dispatched, DbType,
       ExecRow
  <2>4. /\ log' = [log EXCEPT ![m] =
                      Append(@, [kind |-> kind, gen |-> g, by |-> g])]
        /\ inflight' = IF inflight = m THEN None ELSE inflight
        /\ CloseExecution(m, kind)
        /\ minted' = minted
    BY <1>2 DEF InsertTerminal
  <2>5. \E k \in TerminalKinds : Appends(m, k)
    BY <2>3, <2>4 DEF Appends
  <2>6. \A n \in Message : n # m => log'[n] = log[n]
    BY <1>0, <2>4 DEF DbType
  <2>7. /\ \A n \in Message : n # m => exec'[n] = exec[n]
        /\ exec'[m].gen = exec[m].gen
        /\ exec[m].state = "absent" => exec'[m] = exec[m]
        /\ exec[m].state # "absent" => exec'[m].state \in ClosedStates
    BY <1>0, <2>4, CloseRow
  <2> QED
    BY <2>1, <2>2, <2>4, <2>5, <2>6, <2>7 DEF Ends, OthersRest, Rests
<1> QED
  BY <1>1, <1>2

\* A step that leaves the three tables and the slot alone.
LEMMA QuietShape ==
  ASSUME UNCHANGED <<inflight, minted, exec, log>>
  PROVE  Stays
BY DEF Stays, Rests

\* The slot given back by a dispatcher that owns no execution row.
LEMMA ReleaseShape ==
  ASSUME TypeOK, Provenance, NEW i \in Instance, NEW m \in Message,
         Dispatching(i, m), ReleaseSlot(m), SetCarrier(i, m, Idle)
  PROVE  Stays \/ Abandons(m)
<1>0. LocalType /\ ActorsKnow(i, m)
  BY TypeSplit DEF Provenance
<1>1. CASE inflight' = inflight
  BY <1>1, QuietShape DEF ReleaseSlot
<1>2. CASE inflight = m /\ inflight' = None
  <2>1. ASSUME NEW j \in Instance, Dispatching(j, m)' PROVE FALSE
    BY <1>0, <2>1, CarrierSet DEF Dispatching, Unstamped, Provenance, Idle
  <2> QED
    BY <1>0, <1>2, <2>1 DEF Abandons, ReleaseSlot, ActorsKnow
<1> QED
  BY <1>1, <1>2 DEF ReleaseSlot

\* A dispatching instance: claim, setup, first execution row, early failures.
LEMMA DispatchShape ==
  ASSUME TypeOK, Provenance, Agreement,
         NEW i \in Instance, NEW m \in Message, Dispatch(i, m)
  PROVE  Shape
<1>0. DbType /\ Dispatched(m) /\ ActorsKnow(i, m)
  BY TypeSplit DEF Provenance
<1>1. CASE ClaimTurn(i, m)
  BY <1>1 DEF ClaimTurn, Opens, Shape
<1>2. CASE SetupFails(i, m) \/ DispatchFails(i, m)
  <2>1. Dispatching(i, m) /\ ReleaseSlot(m) /\ SetCarrier(i, m, Idle)
    BY <1>2 DEF SetupFails, DispatchFails, Dispatching
  <2> QED
    BY <2>1, ReleaseShape DEF Shape
<1>3. CASE StartTurn(i, m)
  BY <1>3, QuietShape DEF StartTurn, Shape
<1>4. CASE StampExecution(i, m) \/ StampAnswerLost(i, m)
  <2>1. /\ Unstamped(i, m) /\ ~HasTerminal(m)
        /\ exec[m].state = "absent"
        /\ exec' = [exec EXCEPT ![m] = FirstRow(i)]
        /\ UNCHANGED <<inflight, minted, log>>
    BY <1>4 DEF StampExecution, StampAnswerLost
  <2>2. inflight = m
    BY <2>1 DEF Agreement, LogAgrees, Dispatching
  <2>3. exec[m].gen = 0
    BY <1>0, <2>1 DEF Dispatched
  <2>4. /\ exec'[m].gen = 1 /\ exec'[m].state \in OpenStates
        /\ \A n \in Message : n # m => exec'[n] = exec[n]
    BY <1>0, <2>1 DEF DbType, FirstRow, OpenStates
  <2>5. OthersRest(m)
    BY <2>1, <2>4 DEF OthersRest, Rests
  <2>6. Owns(m)
    BY <2>1, <2>2, <2>3, <2>4, <2>5 DEF Owns
  <2> QED
    BY <2>6 DEF Shape
<1>5. CASE StampRefused(i, m)
  <2>1. m \in minted
    BY <1>0, <1>5 DEF StampRefused, Unstamped, ActorsKnow
  <2>2. InsertTerminal(i, m, 0, 0, "error") /\ "error" \in TerminalKinds
    BY <1>5 DEF StampRefused, TerminalKinds
  <2> QED
    BY <2>1, <2>2, TerminalShape DEF Shape
<1> QED
  BY <1>1, <1>2, <1>3, <1>4, <1>5 DEF Dispatch

\* A takeover of an open execution whose log has no terminal.
LEMMA TakeOverShape ==
  ASSUME DbType, NEW i \in Instance, NEW m \in Message, NEW s \in OpenStates,
         exec' = [exec EXCEPT ![m] = TakenOver(i, m, s)],
         IsOpen(m), ~HasTerminal(m), UNCHANGED <<inflight, minted, log>>
  PROVE  Shape
<1>1. /\ \A n \in Message : n # m => exec'[n] = exec[n]
      /\ exec'[m].gen = exec[m].gen + 1
      /\ exec'[m].state \in OpenStates
  BY TakeOverRow
<1>2. Owns(m)
  BY <1>1 DEF Owns, OthersRest, Rests
<1> QED
  BY <1>2 DEF Shape

\* A handoff, swallowed or not.
LEMMA HandOffShape ==
  ASSUME DbType, NEW i \in Instance, NEW m \in Message, NEW g,
         \/ exec' = [exec EXCEPT ![m] = HandedOff(i, m, g)]
         \/ exec' = exec,
         UNCHANGED <<inflight, minted, log>>
  PROVE  Stays
<1>1. \A n \in Message :
         /\ exec'[n].gen = exec[n].gen
         /\ \/ exec'[n] = exec[n]
            \/ IsOpen(n) /\ exec'[n].state \in OpenStates
  BY HandOffRow
<1> QED
  BY <1>1 DEF Stays, Rests, IsOpen

\* A carrier's live stream writes under the generation of the execution row.
LEMMA LiveFence ==
  ASSUME TypeOK, Provenance, StreamsOwned,
         NEW i \in Instance, NEW m \in Message, Live(i, m)
  PROVE  /\ stream[i][m].gen = carrier[i][m].gen
         /\ RowAccepted(i, m, stream[i][m].gen) =>
               stream[i][m].gen = exec[m].gen
<1>1. StreamOwned(i, m) /\ ActorsKnow(i, m) /\ Dispatched(m)
  BY DEF StreamsOwned, Provenance
<1>2. carrier[i][m].gen = 0 => exec[m].gen = 0
  BY <1>1 DEF StreamOwned, ActorsKnow, Dispatching, Unstamped, Dispatched
<1> QED
  BY <1>1, <1>2 DEF StreamOwned, RowAccepted, FenceHolds

\* A carrier that writes, ends, stops, renews or is aborted.
LEMMA CarryShape ==
  ASSUME TypeOK, Provenance, StreamsOwned, Agreement,
         NEW i \in Instance, NEW m \in Message, Carry(i, m)
  PROVE  Shape
<1>0. DbType /\ Dispatched(m) /\ ActorsKnow(i, m)
  BY TypeSplit DEF Provenance
<1>1. CASE CarrierEmits(i, m)
  <2>1. CASE RowAccepted(i, m, stream[i][m].gen)
    <3>1. Live(i, m)
      BY <1>1 DEF CarrierEmits, Live
    <3>2. /\ inflight = m
          /\ InsertRow(i, m, stream[i][m].gen, carrier[i][m].gen)
      BY <1>1, <2>1 DEF CarrierEmits, RowAccepted
    <3>3. Adds(m)
      BY <2>1, <3>1, <3>2, LiveFence DEF Adds, Appends, InsertRow
    <3> QED
      BY <3>3 DEF Shape
  <2>2. CASE ~RowAccepted(i, m, stream[i][m].gen)
    BY <1>1, <2>2, QuietShape DEF CarrierEmits, db, Shape
  <2> QED
    BY <2>1, <2>2
<1>2. CASE CarrierEnds(i, m)
  <2>1. m \in minted
    BY <1>0, <1>2 DEF CarrierEnds, Carrying, ActorsKnow, Dispatched
  <2>2. CASE UNCHANGED db
    BY <2>2, QuietShape DEF db, Shape
  <2>3. CASE Live(i, m)
    <3>1. TerminalOf(i, m) \subseteq TerminalKinds
      BY DEF TerminalOf
    <3>2. PICK kind \in TerminalKinds :
             InsertTerminal(i, m, stream[i][m].gen, carrier[i][m].gen, kind)
      BY <1>2, <2>3, <3>1 DEF CarrierEnds, Live
    <3> QED
      BY <2>1, <2>3, <3>2, LiveFence, TerminalShape DEF Shape
  <2> QED
    BY <1>2, <2>2, <2>3 DEF CarrierEnds, Live
<1>3. CASE CarrierStops(i, m)
  <2>1. /\ \/ exec' = [exec EXCEPT ![m] = HandedOff(i, m, carrier[i][m].gen)]
           \/ exec' = exec
        /\ UNCHANGED <<inflight, minted, log>>
    BY <1>3 DEF CarrierStops
  <2> QED
    BY <1>0, <2>1, HandOffShape DEF Shape
<1>4. CASE CarrierLost(i, m) \/ AbortCarrier(i, m)
  BY <1>4, QuietShape DEF CarrierLost, AbortCarrier, db, Shape
<1>5. CASE RenewLease(i, m)
  <2>1. /\ \/ exec' = exec
           \/ exec' = [exec EXCEPT ![m] = [exec[m] EXCEPT !.lapsed = FALSE]]
        /\ UNCHANGED <<inflight, minted, log>>
    BY <1>5 DEF RenewLease
  <2>2. \A n \in Message : exec'[n].gen = exec[n].gen /\ exec'[n].state = exec[n].state
    <3>1. exec[m] \in ExecRow
      BY <1>0 DEF DbType
    <3>2. /\ [exec[m] EXCEPT !.lapsed = FALSE].gen = exec[m].gen
          /\ [exec[m] EXCEPT !.lapsed = FALSE].state = exec[m].state
      BY <3>1 DEF ExecRow
    <3> QED
      BY <1>0, <2>1, <3>2 DEF DbType
  <2> QED
    BY <2>1, <2>2 DEF Stays, Rests, Shape
<1> QED
  BY <1>1, <1>2, <1>3, <1>4, <1>5 DEF Carry

\* The adoption sweep: its claims own, its handlers rest.
LEMMA AdoptShape ==
  ASSUME TypeOK, NEW i \in Instance, NEW m \in Message, Adopt(i, m)
  PROVE  Shape
<1>0. DbType
  BY TypeSplit
<1>1. CASE SweepClaims(i, m)
  <2>1. /\ IsOpen(m) /\ ~HasTerminal(m)
        /\ UNCHANGED <<inflight, minted, log>>
    BY <1>1 DEF SweepClaims, AwaitsAdoption
  <2>2. /\ \A n \in Message : n # m => exec'[n] = exec[n]
        /\ exec'[m].gen = exec[m].gen + 1 /\ exec'[m].state = "adopting"
    BY <1>1, <1>0 DEF SweepClaims, TakenOver, DbType, ExecRow
  <2>3. Owns(m)
    BY <2>1, <2>2 DEF Owns, OthersRest, Rests, OpenStates
  <2> QED
    BY <2>3 DEF Shape
<1>2. CASE HandOffLateClaim(i, m)
  <2>1. /\ \/ exec' = [exec EXCEPT ![m] = HandedOff(i, m, sweeper[i][m].gen)]
           \/ exec' = exec
        /\ UNCHANGED <<inflight, minted, log>>
    BY <1>2 DEF HandOffLateClaim
  <2> QED
    BY <1>0, <2>1, HandOffShape DEF Shape
<1>3. CASE AdoptTurn(i, m) \/ GiveUp(i, m)
  BY <1>3, QuietShape DEF AdoptTurn, GiveUp, db, Shape
<1> QED
  BY <1>1, <1>2, <1>3 DEF Adopt

\* A hello that resumes a turn or preempts an adoption.
LEMMA ResumeShape ==
  ASSUME TypeOK, NEW i \in Instance, NEW m \in Message, Resume(i, m)
  PROVE  Shape
<1>0. DbType
  BY TypeSplit
<1>1. CASE HelloResumes(i, m) \/ PreemptTakes(i, m)
  BY <1>1, QuietShape DEF HelloResumes, PreemptTakes, db, Shape
<1>2. CASE ResumeClaims(i, m) /\ ~ResumeClaimable(m)
  BY <1>2, QuietShape DEF ResumeClaims, Shape
<1>3. CASE \/ ResumeClaims(i, m) /\ ResumeClaimable(m)
           \/ PreemptAdoption(i, m)
  <2>1. /\ exec' = [exec EXCEPT ![m] = TakenOver(i, m, "running")]
        /\ IsOpen(m) /\ ~HasTerminal(m)
        /\ UNCHANGED <<inflight, minted, log>>
    BY <1>3 DEF ResumeClaims, PreemptAdoption, ResumeClaimable
  <2> QED
    BY <1>0, <2>1, TakeOverShape DEF OpenStates
<1>4. CASE PreemptGivesBack(i, m)
  <2>1. /\ \/ exec' = [exec EXCEPT ![m] = HandedOff(i, m, waiter[i][m])]
           \/ exec' = exec
        /\ UNCHANGED <<inflight, minted, log>>
    BY <1>4 DEF PreemptGivesBack
  <2> QED
    BY <1>0, <2>1, HandOffShape DEF Shape
<1> QED
  BY <1>1, <1>2, <1>3, <1>4 DEF Resume

\* A path that closes a turn nobody carries.
LEMMA CloseShape ==
  ASSUME TypeOK, Provenance, Agreement,
         NEW i \in Instance, NEW m \in Message, Close(i, m)
  PROVE  Shape
<1>0. DbType /\ LocalType /\ Dispatched(m) /\ ActorsKnow(i, m)
  BY TypeSplit DEF Provenance
<1>1. CASE CloserClaims(i, m)
  <2>1. /\ \/ exec' = exec
           \/ IsOpen(m) /\ exec' = [exec EXCEPT ![m] = TakenOver(i, m, "adopting")]
        /\ ~HasTerminal(m)
        /\ UNCHANGED <<inflight, minted, log>>
    BY <1>1 DEF CloserClaims
  <2>2. CASE exec' = exec
    BY <2>1, <2>2, QuietShape DEF Shape
  <2>3. CASE IsOpen(m) /\ exec' = [exec EXCEPT ![m] = TakenOver(i, m, "adopting")]
    BY <1>0, <2>1, <2>3, TakeOverShape DEF OpenStates
  <2> QED
    BY <2>1, <2>2, <2>3
<1>2. CASE CloserOpens(i, m) \/ CloserFails(i, m)
  BY <1>2, QuietShape DEF CloserOpens, CloserFails, db, Shape
<1>3. CASE CloserWrites(i, m)
  <2>1. m \in minted /\ closer[i][m].kind \in TerminalKinds
    BY <1>3, <1>0 DEF CloserWrites, ActorsKnow, Dispatched, LocalType, Closer
  <2>2. InsertTerminal(i, m, closer[i][m].gen, closer[i][m].gen, closer[i][m].kind)
    BY <1>3 DEF CloserWrites
  <2> QED
    BY <2>1, <2>2, TerminalShape DEF Shape
<1> QED
  BY <1>1, <1>2, <1>3 DEF Close

\* The database clock, a cancel request and the stale-claim sweep.
LEMMA MessageShape ==
  ASSUME TypeOK, Provenance, Agreement, NEW m \in Message,
         LeaseLapses(m) \/ RequestCancel(m) \/ ClearStaleClaim(m)
  PROVE  Shape
<1>0. DbType
  BY TypeSplit
<1>1. CASE LeaseLapses(m)
  <2>1. \A n \in Message : /\ exec'[n].gen = exec[n].gen
                           /\ exec'[n].state = exec[n].state
    BY <1>0, <1>1 DEF LeaseLapses, DbType, ExecRow
  <2>2. Stays
    BY <1>1, <2>1 DEF LeaseLapses, Stays, Rests
  <2> QED
    BY <2>2 DEF Shape
<1>2. CASE RequestCancel(m)
  BY <1>2, QuietShape DEF RequestCancel, Shape
<1>3. CASE ClearStaleClaim(m)
  <2>1. /\ inflight = m /\ inflight' = None
        /\ UNCHANGED <<minted, exec, log, carrier>>
        /\ \A j \in Instance : carrier[j][m].kind # "setup"
    BY <1>3 DEF ClearStaleClaim, StaleClaim, local
  <2>2. m \notin written
    BY <1>3 DEF ClearStaleClaim, StaleClaim, Agreement, SlotFollowsTurn
  <2>3. exec[m].state = "absent"
    BY <2>2 DEF Provenance, Dispatched
  <2>4. ASSUME NEW j \in Instance, Dispatching(j, m)' PROVE FALSE
    BY <2>1, <2>2, <2>4 DEF Dispatching, Unstamped, Provenance, ActorsKnow, Tracked
  <2> QED
    BY <2>1, <2>3, <2>4 DEF Abandons, Shape
<1> QED
  BY <1>1, <1>2, <1>3

\* Drain, bulk handoff and crash of an instance.
LEMMA InstanceShape ==
  ASSUME TypeOK, NEW i \in Instance,
         Drain(i) \/ HandOffOwnedTurns(i) \/ Crash(i)
  PROVE  Shape
<1>0. DbType
  BY TypeSplit
<1>1. CASE Drain(i) \/ Crash(i)
  BY <1>1, QuietShape DEF Drain, Crash, db, Shape
<1>2. CASE HandOffOwnedTurns(i)
  <2>1. ASSUME NEW n \in Message PROVE Rests(n)
    <3>1. \/ exec'[n] = HandedOff(i, n, carrier[i][n].gen)
          \/ exec'[n] = exec[n]
      BY <1>2 DEF HandOffOwnedTurns
    <3>2. exec[n] \in ExecRow
      BY <1>0 DEF DbType
    <3>3. log'[n] = log[n]
      BY <1>2 DEF HandOffOwnedTurns
    <3> QED
      BY <3>1, <3>2, <3>3 DEF HandedOff, ExecRow, Rests, OpenStates
  <2>2. Stays
    BY <1>2, <2>1 DEF HandOffOwnedTurns, Stays
  <2> QED
    BY <2>2 DEF Shape
<1> QED
  BY <1>1, <1>2

\* Whatever the instances do, the database sees one of the six shapes.
LEMMA StepShape ==
  TypeOK /\ Provenance /\ StreamsOwned /\ Agreement /\ [Next]_vars => Shape
<1> SUFFICES ASSUME TypeOK, Provenance, StreamsOwned, Agreement, [Next]_vars
             PROVE  Shape
  OBVIOUS
<1>1. CASE UNCHANGED vars
  BY <1>1, QuietShape DEF vars, db, Shape
<1> QED
  BY <1>1, DispatchShape, CarryShape, AdoptShape, ResumeShape, CloseShape,
     MessageShape, InstanceShape DEF Next

-----------------------------------------------------------------------------
(***************************************************************************)
(* Only a claim of the slot makes a dispatcher.                            *)
(***************************************************************************)
NoNewDispatcher ==
    \A i \in Instance, m \in Message :
        Dispatching(i, m)' => Dispatching(i, m) \/ inflight' = m

\* A carrier that becomes something else than a dispatcher.
LEMMA NoDispatcherSet ==
  ASSUME LocalType, NEW i \in Instance, NEW m \in Message, NEW c,
         SetCarrier(i, m, c), c.kind # "setup",
         c.kind = "dispatch" => c.gen # 0 \/ Dispatching(i, m)
  PROVE  NoNewDispatcher
BY CarrierSet DEF NoNewDispatcher, Dispatching, Unstamped

\* Carriers that keep their kinds and generations.
LEMMA NoDispatcherKept ==
  ASSUME \A j \in Instance, n \in Message :
            /\ carrier'[j][n].kind = carrier[j][n].kind
            /\ carrier'[j][n].gen = carrier[j][n].gen
  PROVE  NoNewDispatcher
BY DEF NoNewDispatcher, Dispatching, Unstamped

\* A dispatching instance: only ClaimTurn makes a dispatcher.
LEMMA DispatchDispatchers ==
  ASSUME LocalType, NEW i \in Instance, NEW m \in Message, Dispatch(i, m)
  PROVE  NoNewDispatcher
<1>1. CASE ClaimTurn(i, m)
  <2>1. PICK c : SetCarrier(i, m, c)
    BY <1>1 DEF ClaimTurn
  <2>2. inflight' = m
    BY <1>1 DEF ClaimTurn
  <2> QED
    BY <2>1, <2>2, CarrierSet DEF NoNewDispatcher, Dispatching, Unstamped
<1>2. CASE StartTurn(i, m)
  <2> DEFINE c == [Idle EXCEPT !.kind = "dispatch"]
  <2>1. SetCarrier(i, m, c) /\ Dispatching(i, m)
    BY <1>2 DEF StartTurn, Dispatching
  <2>2. c.kind = "dispatch"
    BY DEF Idle
  <2> HIDE DEF c
  <2> QED
    BY <2>1, <2>2, NoDispatcherSet
<1>3. CASE StampExecution(i, m)
  <2> DEFINE c == [carrier[i][m] EXCEPT !.gen = 1]
  <2>1. SetCarrier(i, m, c) /\ carrier[i][m].kind = "dispatch"
    BY <1>3 DEF StampExecution, Unstamped
  <2>2. c.kind = "dispatch" /\ c.gen = 1
    <3>1. carrier[i][m] \in Carrier
      BY DEF LocalType
    <3> QED
      BY <2>1, <3>1 DEF Carrier
  <2> HIDE DEF c
  <2> QED
    BY <2>1, <2>2, NoDispatcherSet
<1>4. CASE \/ SetupFails(i, m) \/ DispatchFails(i, m)
           \/ StampAnswerLost(i, m) \/ StampRefused(i, m)
  <2>1. SetCarrier(i, m, Idle)
    BY <1>4 DEF SetupFails, DispatchFails, StampAnswerLost, StampRefused
  <2>2. Idle.kind = "idle"
    BY DEF Idle
  <2> QED
    BY <2>1, <2>2, NoDispatcherSet
<1> QED
  BY <1>1, <1>2, <1>3, <1>4 DEF Dispatch

\* A carrier goes on or turns idle.
LEMMA CarryDispatchers ==
  ASSUME LocalType, NEW i \in Instance, NEW m \in Message, Carry(i, m)
  PROVE  NoNewDispatcher
<1>1. CASE CarrierEnds(i, m) \/ CarrierStops(i, m) \/ CarrierLost(i, m)
  <2>1. SetCarrier(i, m, Idle) /\ Idle.kind = "idle"
    BY <1>1 DEF CarrierEnds, CarrierStops, CarrierLost, Idle
  <2> QED
    BY <2>1, NoDispatcherSet
<1>2. CASE CarrierEmits(i, m) \/ RenewLease(i, m) \/ AbortCarrier(i, m)
  <2>1. \/ SetCarrier(i, m, [carrier[i][m] EXCEPT !.abort = "lost"])
        \/ SetCarrier(i, m, [carrier[i][m] EXCEPT !.abort = "cancel"])
        \/ SetCarrier(i, m, carrier[i][m])
        \/ carrier' = carrier
    BY <1>2 DEF CarrierEmits, RenewLease, AbortCarrier
  <2>2. \A j \in Instance, n \in Message :
           /\ carrier'[j][n].kind = carrier[j][n].kind
           /\ carrier'[j][n].gen = carrier[j][n].gen
    BY <2>1, AbortKeepsCarrier
  <2> QED
    BY <2>2, NoDispatcherKept
<1> QED
  BY <1>1, <1>2 DEF Carry

\* Adoption, resume and closer never dispatch.
LEMMA TakeDispatchers ==
  ASSUME LocalType, NEW i \in Instance, NEW m \in Message,
         Adopt(i, m) \/ Resume(i, m) \/ Close(i, m)
  PROVE  NoNewDispatcher
<1>1. CASE carrier' = carrier
  BY <1>1, NoDispatcherKept
<1>2. CASE AdoptTurn(i, m) /\ carrier[i][m].kind \notin Tracked
  <2> DEFINE c == [kind |-> "adoption", abort |-> "no", gen |-> sweeper[i][m].gen]
  <2>1. SetCarrier(i, m, c)
    BY <1>2 DEF AdoptTurn
  <2>2. c.kind = "adoption"
    OBVIOUS
  <2> HIDE DEF c
  <2> QED
    BY <2>1, <2>2, NoDispatcherSet
<1>3. CASE HelloResumes(i, m)
  <2> DEFINE c == [Idle EXCEPT !.kind = "resume"]
  <2>1. SetCarrier(i, m, c)
    BY <1>3 DEF HelloResumes
  <2>2. c.kind = "resume"
    BY DEF Idle
  <2> HIDE DEF c
  <2> QED
    BY <2>1, <2>2, NoDispatcherSet
<1>4. CASE ResumeClaims(i, m)
  <2> DEFINE c == [carrier[i][m] EXCEPT !.gen = exec[m].gen + 1]
  <2>1. SetCarrier(i, m, c) \/ SetCarrier(i, m, Idle)
    BY <1>4 DEF ResumeClaims
  <2>2. c.kind = "resume"
    <3>1. carrier[i][m] \in Carrier /\ carrier[i][m].kind = "resume"
      BY <1>4 DEF LocalType, ResumeClaims
    <3> QED
      BY <3>1 DEF Carrier
  <2>3. Idle.kind = "idle"
    BY DEF Idle
  <2> HIDE DEF c
  <2> QED
    BY <2>1, <2>2, <2>3, NoDispatcherSet
<1>5. CASE PreemptAdoption(i, m)
  <2>1. PICK a \in {"cancel", carrier[i][m].abort} :
           SetCarrier(i, m, [carrier[i][m] EXCEPT !.abort = a])
    BY <1>5 DEF PreemptAdoption
  <2>2. \A j \in Instance, n \in Message :
           /\ carrier'[j][n].kind = carrier[j][n].kind
           /\ carrier'[j][n].gen = carrier[j][n].gen
    BY <2>1, AbortKeepsCarrier
  <2> QED
    BY <2>2, NoDispatcherKept
<1>6. CASE PreemptTakes(i, m)
  <2> DEFINE c == [kind |-> "resume", gen |-> waiter[i][m], abort |-> "no"]
  <2>1. SetCarrier(i, m, c)
    BY <1>6 DEF PreemptTakes
  <2>2. c.kind = "resume"
    OBVIOUS
  <2> HIDE DEF c
  <2> QED
    BY <2>1, <2>2, NoDispatcherSet
<1>7. CASE Adopt(i, m)
  BY <1>1, <1>2, <1>7
  DEF Adopt, SweepClaims, HandOffLateClaim, AdoptTurn, GiveUp
<1>8. CASE Resume(i, m)
  BY <1>1, <1>3, <1>4, <1>5, <1>6, <1>8 DEF Resume, PreemptGivesBack
<1>9. CASE Close(i, m)
  BY <1>1, <1>9
  DEF Close, CloserClaims, CloserOpens, CloserWrites, CloserFails, CloserDone
<1> QED
  BY <1>7, <1>8, <1>9

\* Every step but the claim of a slot leaves at most the dispatchers it finds.
LEMMA StepDispatchers == TypeOK /\ [Next]_vars => NoNewDispatcher
<1> SUFFICES ASSUME LocalType, [Next]_vars PROVE NoNewDispatcher
  BY TypeSplit
<1>1. CASE carrier' = carrier
  BY <1>1, NoDispatcherKept
<1>2. ASSUME NEW i \in Instance, Crash(i) PROVE NoNewDispatcher
  <2>1. ASSUME NEW j \in Instance, NEW n \in Message
        PROVE  carrier'[j][n] = Idle \/ carrier'[j][n] = carrier[j][n]
    BY <1>2 DEF Crash, LocalType
  <2> QED
    BY <2>1 DEF NoNewDispatcher, Dispatching, Unstamped, Idle
<1>3. ASSUME NEW m \in Message,
             LeaseLapses(m) \/ RequestCancel(m) \/ ClearStaleClaim(m)
      PROVE  carrier' = carrier
  BY <1>3 DEF LeaseLapses, RequestCancel, ClearStaleClaim, local
<1>4. ASSUME NEW i \in Instance, Drain(i) \/ HandOffOwnedTurns(i)
      PROVE  carrier' = carrier
  BY <1>4 DEF Drain, HandOffOwnedTurns, local
<1> QED
  BY <1>1, <1>2, <1>3, <1>4, DispatchDispatchers, CarryDispatchers,
     TakeDispatchers DEF Next, vars, local

-----------------------------------------------------------------------------
(***************************************************************************)
(* Third layer: Agreement, message by message and shape by shape.          *)
(***************************************************************************)
RowsAgree(m) ==
    /\ \A k \in DOMAIN log[m] :
          /\ log[m][k].gen <= exec[m].gen
          /\ log[m][k].gen = log[m][k].by
          /\ log[m][k].kind \in TerminalKinds => k = Len(log[m])
    /\ \A j, k \in DOMAIN log[m] : j <= k => log[m][j].gen <= log[m][k].gen
    /\ exec[m].state # "absent" =>
          (exec[m].state \in ClosedStates <=> HasTerminal(m))

SlotAgrees(m) ==
    /\ IsOpen(m) => inflight = m
    /\ inflight = m => ~HasTerminal(m)
    /\ \A i \in Instance : Dispatching(i, m) => inflight = m \/ HasTerminal(m)

\* Agreement is the conjunction over the messages.
LEMMA AgreementSplit ==
  Agreement <=> \A m \in Message : RowsAgree(m) /\ SlotAgrees(m)
BY DEF Agreement, LogAgrees, TerminalIsLast, GenerationsInOrder,
       AuthorsOwnRows, ClosedTogether, SlotFollowsTurn, RowsAgree, SlotAgrees

\* The same of the next state.
LEMMA AgreementNext ==
  ASSUME \A m \in Message : RowsAgree(m)' /\ SlotAgrees(m)'
  PROVE  Agreement'
BY DEF Agreement, LogAgrees, TerminalIsLast, GenerationsInOrder,
       AuthorsOwnRows, ClosedTogether, SlotFollowsTurn, RowsAgree, SlotAgrees

\* A turn that rests keeps its rows and stays open, closed or absent.
LEMMA RestsKeeps ==
  ASSUME NEW m, Rests(m)
  PROVE  /\ RowsAgree(m) => RowsAgree(m)'
         /\ IsOpen(m)' <=> IsOpen(m)
         /\ HasTerminal(m)' <=> HasTerminal(m)
BY DEF Rests, RowsAgree, IsOpen, HasTerminal, OpenStates, ClosedStates

\* One row behind the rows of a turn.
LEMMA AppendsRow ==
  ASSUME DbType, NEW m \in Message, NEW kind, Appends(m, kind)
  PROVE  /\ \A n \in Message : n # m => log'[n] = log[n]
         /\ Len(log[m]) \in Nat /\ DOMAIN log[m] = 1 .. Len(log[m])
         /\ Len(log'[m]) = Len(log[m]) + 1
         /\ DOMAIN log'[m] = 1 .. Len(log[m]) + 1
         /\ \A k \in 1 .. Len(log[m]) : log'[m][k] = log[m][k]
         /\ log'[m][Len(log[m]) + 1].kind = kind
         /\ log'[m][Len(log[m]) + 1].gen = exec[m].gen
         /\ log'[m][Len(log[m]) + 1].by = exec[m].gen
<1> DEFINE row == [kind |-> kind, gen |-> exec[m].gen, by |-> exec[m].gen]
<1>1. log \in [Message -> Seq(EventRow)] /\ log[m] \in Seq(EventRow)
  BY DEF DbType
<1>2. /\ log'[m] = Append(log[m], row)
      /\ \A n \in Message : n # m => log'[n] = log[n]
  BY <1>1 DEF Appends
<1>a. row.kind = kind /\ row.gen = exec[m].gen /\ row.by = exec[m].gen
  OBVIOUS
<1> HIDE DEF row
<1>3. /\ Len(log'[m]) = Len(log[m]) + 1
      /\ DOMAIN log'[m] = 1 .. Len(log[m]) + 1
      /\ \A k \in 1 .. Len(log[m]) : log'[m][k] = log[m][k]
      /\ log'[m][Len(log[m]) + 1] = row
  BY <1>1, <1>2
<1>4. Len(log[m]) \in Nat /\ DOMAIN log[m] = 1 .. Len(log[m])
  BY <1>1
<1> QED
  BY <1>a, <1>2, <1>3, <1>4

\* A row of the execution's generation, behind a log without a terminal.
LEMMA AppendsAgrees ==
  ASSUME DbType, NEW m \in Message, NEW kind, Appends(m, kind),
         RowsAgree(m), ~HasTerminal(m), exec'[m].gen = exec[m].gen
  PROVE  /\ \A k \in DOMAIN log'[m] :
               /\ log'[m][k].gen <= exec'[m].gen
               /\ log'[m][k].gen = log'[m][k].by
               /\ log'[m][k].kind \in TerminalKinds => k = Len(log'[m])
         /\ \A j, k \in DOMAIN log'[m] :
               j <= k => log'[m][j].gen <= log'[m][k].gen
         /\ HasTerminal(m)' <=> kind \in TerminalKinds
<1> DEFINE last == Len(log[m]) + 1
<1>1. /\ Len(log[m]) \in Nat /\ DOMAIN log[m] = 1 .. Len(log[m])
      /\ Len(log'[m]) = last /\ DOMAIN log'[m] = 1 .. last
      /\ \A k \in 1 .. Len(log[m]) : log'[m][k] = log[m][k]
      /\ log'[m][last].kind = kind
      /\ log'[m][last].gen = exec[m].gen
      /\ log'[m][last].by = exec[m].gen
  BY AppendsRow
<1>2. exec[m].gen \in Nat
  BY DEF DbType, ExecRow
<1>3. \A k \in 1 .. last : k = last \/ k \in 1 .. Len(log[m])
  BY <1>1
<1>4. \A k \in 1 .. Len(log[m]) :
         /\ log[m][k].gen <= exec[m].gen /\ log[m][k].gen = log[m][k].by
         /\ log[m][k].kind \notin TerminalKinds
  BY <1>1 DEF RowsAgree, HasTerminal
<1>5. \A j, k \in 1 .. Len(log[m]) : j <= k => log[m][j].gen <= log[m][k].gen
  BY <1>1 DEF RowsAgree
<1> HIDE DEF last
<1>6. ASSUME NEW k \in DOMAIN log'[m]
      PROVE  /\ log'[m][k].gen <= exec'[m].gen
             /\ log'[m][k].gen = log'[m][k].by
             /\ log'[m][k].kind \in TerminalKinds => k = Len(log'[m])
  BY <1>1, <1>2, <1>3, <1>4
<1>7. ASSUME NEW j \in DOMAIN log'[m], NEW k \in DOMAIN log'[m], j <= k
      PROVE  log'[m][j].gen <= log'[m][k].gen
  <2>1. CASE k = last
    BY <1>1, <1>2, <1>6, <2>1
  <2>2. CASE k # last
    <3>1. k \in 1 .. Len(log[m]) /\ j \in 1 .. Len(log[m])
      BY <1>1, <1>3, <1>7, <2>2 DEF last
    <3> QED
      BY <1>1, <1>5, <1>7, <3>1
  <2> QED
    BY <2>1, <2>2
<1>8. HasTerminal(m)' <=> kind \in TerminalKinds
  <2>1. last \in DOMAIN log'[m]
    BY <1>1 DEF last
  <2> QED
    BY <1>1, <1>3, <1>4, <2>1 DEF HasTerminal
<1> QED
  BY <1>6, <1>7, <1>8

\* A step that leaves every turn at rest.
LEMMA StaysAgrees ==
  ASSUME Agreement, NoNewDispatcher, Stays
  PROVE  Agreement'
<1> SUFFICES ASSUME NEW m \in Message PROVE RowsAgree(m)' /\ SlotAgrees(m)'
  BY AgreementNext
<1>1. RowsAgree(m) /\ SlotAgrees(m) /\ Rests(m)
  BY AgreementSplit DEF Stays
<1> QED
  BY <1>1, RestsKeeps DEF SlotAgrees, NoNewDispatcher, Stays

\* A new turn has an empty log, and the slot it takes was free.
LEMMA OpensAgrees ==
  ASSUME NoneAssumption, Provenance, Agreement, NoNewDispatcher,
         NEW m \in Message, Opens(m)
  PROVE  Agreement'
<1> SUFFICES ASSUME NEW n \in Message PROVE RowsAgree(n)' /\ SlotAgrees(n)'
  BY AgreementNext
<1>1. RowsAgree(n) /\ SlotAgrees(n) /\ Rests(n)
  BY AgreementSplit DEF Opens, Rests
<1>2. m \notin minted => ~HasTerminal(m)
  BY DEF Provenance, Dispatched, HasTerminal
<1> QED
  BY <1>1, <1>2, RestsKeeps DEF SlotAgrees, NoNewDispatcher, Opens, NoneAssumption

\* A slot given back by a turn without an execution row.
LEMMA AbandonsAgrees ==
  ASSUME NoneAssumption, Agreement, NoNewDispatcher,
         NEW m \in Message, Abandons(m)
  PROVE  Agreement'
<1> SUFFICES ASSUME NEW n \in Message PROVE RowsAgree(n)' /\ SlotAgrees(n)'
  BY AgreementNext
<1>1. RowsAgree(n) /\ SlotAgrees(n) /\ Rests(n)
  BY AgreementSplit DEF Abandons, Rests
<1>2. IsOpen(m) => FALSE
  BY DEF Abandons, IsOpen, OpenStates
<1> QED
  BY <1>1, <1>2, RestsKeeps DEF SlotAgrees, NoNewDispatcher, Abandons,
     NoneAssumption

\* A takeover, or the first execution row of a turn that has the slot.
LEMMA OwnsAgrees ==
  ASSUME DbType, Agreement, NoNewDispatcher, NEW m \in Message, Owns(m)
  PROVE  Agreement'
<1> SUFFICES ASSUME NEW n \in Message PROVE RowsAgree(n)' /\ SlotAgrees(n)'
  BY AgreementNext
<1>1. RowsAgree(n) /\ SlotAgrees(n)
  BY AgreementSplit
<1>2. CASE n # m
  BY <1>1, <1>2, RestsKeeps DEF SlotAgrees, NoNewDispatcher, Owns, OthersRest
<1>3. CASE n = m
  <2>1. HasTerminal(m)' <=> HasTerminal(m)
    BY DEF Owns, HasTerminal
  <2>2. SlotAgrees(m)'
    BY <1>1, <1>3, <2>1 DEF SlotAgrees, NoNewDispatcher, Owns
  <2>3. exec[m].gen \in Nat /\ \A k \in DOMAIN log[m] : log[m][k].gen \in Nat
    <3>1. exec[m] \in ExecRow /\ log[m] \in Seq(EventRow)
      BY DEF DbType
    <3>2. \A k \in DOMAIN log[m] : log[m][k] \in EventRow
      BY <3>1, ElementOfSeq
    <3> QED
      BY <3>1, <3>2 DEF ExecRow, EventRow
  <2>4. RowsAgree(m)'
    BY <1>1, <1>3, <2>1, <2>3 DEF RowsAgree, Owns, OpenStates, ClosedStates
  <2> QED
    BY <1>3, <2>2, <2>4
<1> QED
  BY <1>2, <1>3

\* A row of the current generation in the log of the turn in the slot.
LEMMA AddsAgrees ==
  ASSUME DbType, Agreement, NoNewDispatcher, NEW m \in Message, Adds(m)
  PROVE  Agreement'
<1> SUFFICES ASSUME NEW n \in Message PROVE RowsAgree(n)' /\ SlotAgrees(n)'
  BY AgreementNext
<1>1. RowsAgree(n) /\ SlotAgrees(n) /\ Appends(m, "row")
  BY AgreementSplit DEF Adds
<1>2. CASE n # m
  <2>1. Rests(n)
    BY <1>1, <1>2, AppendsRow DEF Rests, Adds
  <2> QED
    BY <1>1, <1>2, <2>1, RestsKeeps DEF SlotAgrees, NoNewDispatcher, Adds
<1>3. CASE n = m
  <2>1. ~HasTerminal(m) /\ "row" \notin TerminalKinds
    BY <1>1, <1>3 DEF SlotAgrees, Adds, TerminalKinds
  <2>2. exec' = exec /\ inflight' = inflight /\ inflight = m
    BY DEF Adds
  <2>3. ~HasTerminal(m)'
    BY <1>1, <1>3, <2>1, <2>2, AppendsAgrees
  <2>4. RowsAgree(m)'
    BY <1>1, <1>3, <2>1, <2>2, <2>3, AppendsAgrees DEF RowsAgree
  <2> QED
    BY <1>1, <1>3, <2>2, <2>3, <2>4 DEF SlotAgrees
<1> QED
  BY <1>2, <1>3

\* A terminal, its closed execution and the released slot.
LEMMA EndsAgrees ==
  ASSUME NoneAssumption, DbType, Agreement, NoNewDispatcher,
         NEW m \in Message, Ends(m)
  PROVE  Agreement'
<1> SUFFICES ASSUME NEW n \in Message PROVE RowsAgree(n)' /\ SlotAgrees(n)'
  BY AgreementNext
<1>1. RowsAgree(n) /\ SlotAgrees(n)
  BY AgreementSplit
<1>2. CASE n # m
  <2>1. Rests(n) /\ (inflight' = n <=> inflight = n)
    BY <1>2 DEF Ends, OthersRest, NoneAssumption
  <2> QED
    BY <1>1, <1>2, <2>1, RestsKeeps DEF SlotAgrees, NoNewDispatcher
<1>3. CASE n = m
  <2>1. PICK kind \in TerminalKinds : Appends(m, kind)
    BY DEF Ends
  <2>2. ~HasTerminal(m) /\ exec'[m].gen = exec[m].gen
    BY DEF Ends
  <2>3. HasTerminal(m)'
    BY <1>1, <1>3, <2>1, <2>2, AppendsAgrees
  <2>4. exec'[m].state = "absent" \/ exec'[m].state \in ClosedStates
    BY DEF Ends
  <2>5. RowsAgree(m)'
    BY <1>1, <1>3, <2>1, <2>2, <2>3, <2>4, AppendsAgrees DEF RowsAgree
  <2>6. inflight' # m /\ ~IsOpen(m)'
    BY <2>4 DEF Ends, IsOpen, OpenStates, ClosedStates, NoneAssumption
  <2> QED
    BY <1>3, <2>3, <2>5, <2>6 DEF SlotAgrees
<1> QED
  BY <1>2, <1>3

\* Each shape keeps the agreement.
LEMMA AgreementStep ==
  TypeOK /\ Provenance /\ StreamsOwned /\ Agreement /\ [Next]_vars => Agreement'
<1> SUFFICES ASSUME TypeOK, Provenance, StreamsOwned, Agreement, [Next]_vars
             PROVE  Agreement'
  OBVIOUS
<1>1. DbType /\ NoNewDispatcher /\ Shape
  BY TypeSplit, StepDispatchers, StepShape
<1> QED
  BY <1>1, StaysAgrees, OpensAgrees, AbandonsAgrees, OwnsAgrees, AddsAgrees,
     EndsAgrees, NoneAssumption DEF Shape

\* Nothing has happened yet.
LEMMA AgreementInit == Init => Agreement
BY NoneAssumption DEF Init, Agreement, LogAgrees, TerminalIsLast,
   GenerationsInOrder, AuthorsOwnRows, ClosedTogether, SlotFollowsTurn,
   Dispatching, Unstamped, HasTerminal, IsOpen, OpenStates, NoExec, Idle,
   NoneAssumption

\* Log, execution row and slot agree in every reachable state.
THEOREM AgreementHolds == Spec => []Agreement
<1>1. Init => Agreement
  BY AgreementInit
<1>2. TypeOK /\ Provenance /\ StreamsOwned /\ Agreement /\ [Next]_vars
        => Agreement'
  BY AgreementStep
<1> QED
  BY <1>1, <1>2, TypeCorrect, ProvenanceHolds, StreamsOwnedHolds, PTL DEF Spec

\* A turn's log has at most one terminal and nothing behind it, whatever
\* carriers, closers and cancels race for it (insertStreamEvent).
THEOREM TerminalIsLastHolds == Spec => []TerminalIsLast
BY AgreementHolds, PTL DEF Agreement

\* Nothing lands under an older generation once a takeover has committed
\* (turn fence of insertStreamEvent).
THEOREM GenerationsInOrderHolds == Spec => []GenerationsInOrder
BY AgreementHolds, PTL DEF Agreement

\* A row carries the fence of the actor that produced it (setTurnFence,
\* preemptAdoptionForResume).
THEOREM AuthorsOwnRowsHold == Spec => []AuthorsOwnRows
BY AgreementHolds, PTL DEF Agreement

\* An execution row is closed exactly when its turn's terminal is in the log
\* (the transaction of insertStreamEvent).
THEOREM ClosedTogetherHolds == Spec => []ClosedTogether
BY AgreementHolds, PTL DEF Agreement

\* An open execution keeps the session's slot, a closed turn holds none
\* (releaseInflightTurn, clearStaleInflightClaims).
THEOREM SlotFollowsTurnHolds == Spec => []SlotFollowsTurn
BY AgreementHolds, PTL DEF Agreement

-----------------------------------------------------------------------------
(***************************************************************************)
(* The refinement: each shape is a step of TurnLedger, or a stutter.       *)
(***************************************************************************)
Row(r) == [kind |-> r.kind, gen |-> r.gen]

\* The ledger's rows and epoch of a turn that keeps its own.
LEMMA LedgerSame ==
  /\ (\A n \in Message : log'[n] = log[n]) => LedgerRows' = LedgerRows
  /\ (\A n \in Message : exec'[n].gen = exec[n].gen) => LedgerEpoch' = LedgerEpoch
BY DEF LedgerRows, LedgerEpoch

\* The ledger's view of a log's end.
LEMMA LedgerEnded ==
  ASSUME NEW m \in Message
  PROVE  Ledger!Ended(m) <=> HasTerminal(m)
<1>1. /\ DOMAIN LedgerRows[m] = DOMAIN log[m]
      /\ \A k \in DOMAIN log[m] : LedgerRows[m][k].kind = log[m][k].kind
  BY DEF LedgerRows
<1> QED
  BY <1>1 DEF Ledger!Ended, Ledger!Terminal, HasTerminal, TerminalKinds

\* An appended row is appended in the ledger.
LEMMA LedgerAppends ==
  ASSUME DbType, NEW m \in Message, NEW kind \in TerminalKinds \cup {"row"},
         Appends(m, kind)
  PROVE  LedgerRows' = [LedgerRows EXCEPT ![m] =
            Append(@, [kind |-> kind, gen |-> LedgerEpoch[m]])]
<1> DEFINE r == [kind |-> kind, gen |-> exec[m].gen]
           E == [kind : TerminalKinds \cup {"row"}, gen : Nat]
           n == Len(log[m])
<1>1. /\ \A o \in Message : o # m => log'[o] = log[o]
      /\ n \in Nat /\ DOMAIN log[m] = 1 .. n /\ DOMAIN log'[m] = 1 .. n + 1
      /\ \A k \in 1 .. n : log'[m][k] = log[m][k]
      /\ log'[m][n + 1].kind = kind /\ log'[m][n + 1].gen = exec[m].gen
  BY AppendsRow
<1>2. \A k \in 1 .. n : log[m][k] \in EventRow
  <2>1. log[m] \in Seq(EventRow)
    BY DEF DbType
  <2> QED
    BY <2>1, ElementOfSeq
<1>3. /\ LedgerRows[m] = [k \in 1 .. n |-> [kind |-> log[m][k].kind, gen |-> log[m][k].gen]]
      /\ LedgerRows'[m] = [k \in 1 .. n + 1 |->
             [kind |-> log'[m][k].kind, gen |-> log'[m][k].gen]]
      /\ \A o \in Message : o # m => LedgerRows'[o] = LedgerRows[o]
  BY <1>1 DEF LedgerRows
<1>4. r \in E
  BY DEF DbType, ExecRow
<1>5. LedgerRows[m] \in Seq(E) /\ Len(LedgerRows[m]) = n
  BY <1>1, <1>2, <1>3 DEF EventRow
<1>6. LedgerRows'[m] = Append(LedgerRows[m], r)
  BY <1>1, <1>3, <1>4, <1>5
<1>7. LedgerEpoch[m] = exec[m].gen
  BY DEF LedgerEpoch
<1> HIDE DEF r
<1>8. LedgerRows' = [LedgerRows EXCEPT ![m] = Append(@, r)]
  BY <1>3, <1>6 DEF LedgerRows
<1> QED
  BY <1>7, <1>8 DEF r

\* A shape of a step, from a state where log, row and slot agree, is a step of
\* the ledger.
LEMMA ShapeRefines ==
  ASSUME TypeOK, Provenance, Agreement, Shape
  PROVE  [Ledger!Next]_(Ledger!ledger)
<1>0. DbType
  BY TypeSplit
<1>1. CASE Stays
  BY <1>1, LedgerSame DEF Stays, Rests, Ledger!ledger
<1>a. ASSUME NEW m \in Message
      PROVE  /\ LedgerEpoch[m] = exec[m].gen
             /\ exec[m].state = "absent" => LedgerEpoch[m] = 0
             /\ LedgerEpoch[m] # 0 => exec[m].state # "absent"
             /\ exec[m].state # "absent" => m \in minted
             /\ inflight = m => m \in minted
             /\ IsOpen(m) => inflight = m
             /\ inflight = m => ~HasTerminal(m)
             /\ exec[m].state \in OpenStates \cup ClosedStates \cup {"absent"}
  BY <1>0 DEF LedgerEpoch, Provenance, Dispatched, Agreement, SlotFollowsTurn,
     DbType, ExecRow
<1>2. ASSUME NEW m \in Message, Opens(m) PROVE Ledger!Open(m)
  BY <1>2, LedgerSame DEF Opens, Ledger!Open
<1>3. ASSUME NEW m \in Message, Abandons(m) PROVE Ledger!Abandon(m)
  BY <1>3, <1>a, LedgerSame DEF Abandons, Ledger!Abandon
<1>4. ASSUME NEW m \in Message, Owns(m) PROVE Ledger!Own(m)
  <2>1. m \in minted /\ ~Ledger!Ended(m)
    BY <1>4, <1>a, LedgerEnded DEF Owns, IsOpen
  <2>2. LedgerEpoch' = [LedgerEpoch EXCEPT ![m] = @ + 1]
    BY <1>4 DEF Owns, OthersRest, Rests, LedgerEpoch
  <2> QED
    BY <1>4, <2>1, <2>2, LedgerSame DEF Owns, Ledger!Own
<1>5. ASSUME NEW m \in Message, Adds(m) PROVE Ledger!Add(m)
  <2>1. ~Ledger!Ended(m)
    BY <1>5, <1>a, LedgerEnded DEF Adds
  <2>2. LedgerRows' = [LedgerRows EXCEPT ![m] =
           Append(@, [kind |-> "row", gen |-> LedgerEpoch[m]])]
    BY <1>0, <1>5, LedgerAppends DEF Adds
  <2>3. LedgerEpoch' = LedgerEpoch
    BY <1>5, LedgerSame DEF Adds
  <2> QED
    BY <1>5, <2>1, <2>2, <2>3 DEF Adds, Ledger!Add
<1>6. ASSUME NEW m \in Message, Ends(m) PROVE Ledger!End(m)
  <2>1. m \in minted /\ ~Ledger!Ended(m)
    BY <1>6, LedgerEnded DEF Ends
  <2>2. PICK kind \in TerminalKinds : Appends(m, kind)
    BY <1>6 DEF Ends
  <2>3. LedgerRows' = [LedgerRows EXCEPT ![m] =
           Append(@, [kind |-> kind, gen |-> LedgerEpoch[m]])]
    BY <1>0, <2>2, LedgerAppends
  <2>4. LedgerEpoch' = LedgerEpoch
    BY <1>6, LedgerSame DEF Ends, OthersRest, Rests
  <2>5. LedgerEpoch[m] # 0 => inflight = m
    BY <1>6, <1>a DEF Ends, IsOpen
  <2>6. kind \in Ledger!Terminal
    BY DEF Ledger!Terminal, TerminalKinds
  <2> QED
    BY <1>6, <2>1, <2>3, <2>4, <2>5, <2>6 DEF Ends, Ledger!End
<1> QED
  BY <1>1, <1>2, <1>3, <1>4, <1>5, <1>6 DEF Shape, Ledger!Next

\* The instances' initial state is the ledger's.
LEMMA InitRefines == Init => Ledger!Init
BY DEF Init, Ledger!Init, LedgerRows, LedgerEpoch, NoExec

\* Whatever instances, leases, sweeps, resumes and crashes do, a session's
\* readers and its next turn see a run of TurnLedger.
THEOREM ImplementsLedger == Spec => KeepsLedger
<1>1. Init => Ledger!Init
  BY InitRefines
<1>2. TypeOK /\ Provenance /\ StreamsOwned /\ Agreement /\ [Next]_vars
        => [Ledger!Next]_(Ledger!ledger)
  BY StepShape, ShapeRefines
<1> QED
  BY <1>1, <1>2, TypeCorrect, ProvenanceHolds, StreamsOwnedHolds,
     AgreementHolds, PTL DEF Spec, KeepsLedger, Ledger!Spec

-----------------------------------------------------------------------------
(***************************************************************************)
(* No two actors hold the same generation of a turn: a generation is       *)
(* handed out once, by the takeover that bumps the execution row, and only *)
(* passed on inside one process.                                           *)
(***************************************************************************)
Actors == {"carrier", "sweeper", "waiter", "closer"}

Fence(i, m, a) ==
    CASE a = "carrier" -> carrier[i][m].gen
      [] a = "sweeper" -> sweeper[i][m].gen
      [] a = "waiter" -> waiter[i][m]
      [] a = "closer" -> closer[i][m].gen

\* What a step may do to the held generations.
KeepsOrDrops(i, m, a) == Fence(i, m, a)' = Fence(i, m, a) \/ Fence(i, m, a)' = 0

OnlyDrops ==
    \A j \in Instance, n \in Message, b \in Actors : KeepsOrDrops(j, n, b)

OthersDrop(i, m, a) ==
    \A j \in Instance, n \in Message, b \in Actors :
        j # i \/ n # m \/ b # a => KeepsOrDrops(j, n, b)

Gains(i, m, a) ==
    /\ Fence(i, m, a)' = exec[m].gen + 1
    /\ exec'[m].gen = exec[m].gen + 1
    /\ OthersDrop(i, m, a)

Passes(i, m, a, b) ==
    /\ Fence(i, m, a)' = 0
    /\ Fence(i, m, b)' = Fence(i, m, a)
    /\ OthersDrop(i, m, b)

Handing ==
    \/ OnlyDrops
    \/ \E i \in Instance, m \in Message, a, b \in Actors :
          Gains(i, m, a) \/ Passes(i, m, a, b)

-----------------------------------------------------------------------------
(***************************************************************************)
(* The two properties in terms of Fence.                                   *)
(***************************************************************************)
Unique ==
    \A m \in Message, i, j \in Instance, a, b \in Actors :
        Fence(i, m, a) # 0 /\ Fence(i, m, a) = Fence(j, m, b) => i = j /\ a = b

HandedOut ==
    \A m \in Message, i \in Instance, a \in Actors : Fence(i, m, a) <= exec[m].gen

\* What an instance holds, actor by actor.
LEMMA HoldsFences ==
  ASSUME NEW i, NEW m
  PROVE  Holds(i, m) = {<<a, Fence(i, m, a)>> : a \in Actors}
BY DEF Holds, Fence, Actors

\* FencesUnique and FencesHandedOut, restated.
LEMMA FencesRestated ==
  /\ FencesUnique <=> Unique
  /\ FencesHandedOut <=> HandedOut
<1>1. ASSUME FencesUnique PROVE Unique
  <2> SUFFICES ASSUME NEW m \in Message, NEW i \in Instance, NEW j \in Instance,
                      NEW a \in Actors, NEW b \in Actors,
                      Fence(i, m, a) # 0, Fence(i, m, a) = Fence(j, m, b)
               PROVE  i = j /\ a = b
    BY DEF Unique
  <2>1. /\ <<a, Fence(i, m, a)>> \in Holds(i, m)
        /\ <<b, Fence(j, m, b)>> \in Holds(j, m)
    BY HoldsFences
  <2> QED
    BY <1>1, <2>1 DEF FencesUnique
<1>2. ASSUME Unique PROVE FencesUnique
  <2> SUFFICES ASSUME NEW m \in Message, NEW i \in Instance, NEW j \in Instance,
                      NEW x \in Holds(i, m), NEW y \in Holds(j, m),
                      x[2] # 0, x[2] = y[2]
               PROVE  i = j /\ x[1] = y[1]
    BY DEF FencesUnique
  <2>1. PICK a \in Actors : x = <<a, Fence(i, m, a)>>
    BY HoldsFences
  <2>2. PICK b \in Actors : y = <<b, Fence(j, m, b)>>
    BY HoldsFences
  <2> QED
    BY <1>2, <2>1, <2>2 DEF Unique
<1>3. ASSUME FencesHandedOut PROVE HandedOut
  <2> SUFFICES ASSUME NEW m \in Message, NEW i \in Instance, NEW a \in Actors
               PROVE  Fence(i, m, a) <= exec[m].gen
    BY DEF HandedOut
  <2>1. <<a, Fence(i, m, a)>> \in Holds(i, m)
    BY HoldsFences
  <2> QED
    BY <1>3, <2>1 DEF FencesHandedOut
<1>4. ASSUME HandedOut PROVE FencesHandedOut
  <2> SUFFICES ASSUME NEW m \in Message, NEW i \in Instance, NEW h \in Holds(i, m)
               PROVE  h[2] <= exec[m].gen
    BY DEF FencesHandedOut
  <2>1. PICK a \in Actors : h = <<a, Fence(i, m, a)>>
    BY HoldsFences
  <2> QED
    BY <1>4, <2>1 DEF HandedOut
<1> QED
  BY <1>1, <1>2, <1>3, <1>4

\* The held generations are numbers.
LEMMA FenceType ==
  ASSUME TypeOK, NEW i \in Instance, NEW m \in Message, NEW a \in Actors
  PROVE  Fence(i, m, a) \in Nat /\ exec[m].gen \in Nat
<1>1. /\ carrier[i][m] \in Carrier /\ sweeper[i][m] \in Claim
      /\ waiter[i][m] \in Nat /\ closer[i][m] \in Closer /\ exec[m] \in ExecRow
  BY DEF TypeOK
<1> QED
  BY <1>1 DEF Fence, Actors, Carrier, Claim, Closer, ExecRow

\* A handing step keeps fences unique while generations only grow.
LEMMA HandingKeeps ==
  ASSUME TypeOK, Unique, HandedOut, Handing,
         \A m \in Message : exec'[m].gen \in Nat /\ exec[m].gen <= exec'[m].gen
  PROVE  Unique' /\ HandedOut'
<1>1. CASE OnlyDrops
  <2>1. Unique'
    BY <1>1 DEF Unique, OnlyDrops, KeepsOrDrops
  <2>2. HandedOut'
    BY <1>1, FenceType DEF HandedOut, OnlyDrops, KeepsOrDrops
  <2> QED
    BY <2>1, <2>2
<1>2. ASSUME NEW i \in Instance, NEW m \in Message, NEW a \in Actors,
             Gains(i, m, a)
      PROVE  Unique' /\ HandedOut'
  <2>1. \A j \in Instance, b \in Actors :
           j # i \/ b # a => Fence(j, m, b)' <= exec[m].gen
    BY <1>2, FenceType DEF Gains, OthersDrop, KeepsOrDrops, HandedOut
  <2>2. Unique'
    BY <1>2, <2>1, FenceType DEF Gains, OthersDrop, KeepsOrDrops, Unique
  <2>3. HandedOut'
    BY <1>2, FenceType DEF Gains, OthersDrop, KeepsOrDrops, HandedOut
  <2> QED
    BY <2>2, <2>3
<1>3. ASSUME NEW i \in Instance, NEW m \in Message,
             NEW a \in Actors, NEW b \in Actors, Passes(i, m, a, b)
      PROVE  Unique' /\ HandedOut'
  <2>1. Unique'
    BY <1>3 DEF Passes, OthersDrop, KeepsOrDrops, Unique
  <2>2. HandedOut'
    BY <1>3, FenceType DEF Passes, OthersDrop, KeepsOrDrops, HandedOut
  <2> QED
    BY <2>1, <2>2
<1> QED
  BY <1>1, <1>2, <1>3 DEF Handing

-----------------------------------------------------------------------------
(***************************************************************************)
(* The actors' steps hand generations on as Handing says.                  *)
(***************************************************************************)
\* Updates of one claim, one waiting resume and one closer.
SetSweeper(i, m, c) == sweeper' = [sweeper EXCEPT ![i][m] = c]
SetWaiter(i, m, g) == waiter' = [waiter EXCEPT ![i][m] = g]
SetCloser(i, m, c) == closer' = [closer EXCEPT ![i][m] = c]

\* An update of one claim of the sweep.
LEMMA SweeperSet ==
  ASSUME LocalType, NEW i \in Instance, NEW m \in Message, NEW c,
         SetSweeper(i, m, c)
  PROVE  /\ sweeper'[i][m] = c
         /\ \A j \in Instance, n \in Message :
               j # i \/ n # m => sweeper'[j][n] = sweeper[j][n]
BY DEF SetSweeper, LocalType

\* An update of one waiting resume.
LEMMA WaiterSet ==
  ASSUME LocalType, NEW i \in Instance, NEW m \in Message, NEW g,
         SetWaiter(i, m, g)
  PROVE  /\ waiter'[i][m] = g
         /\ \A j \in Instance, n \in Message :
               j # i \/ n # m => waiter'[j][n] = waiter[j][n]
BY DEF SetWaiter, LocalType

\* An update of one closer.
LEMMA CloserSet ==
  ASSUME LocalType, NEW i \in Instance, NEW m \in Message, NEW c,
         SetCloser(i, m, c)
  PROVE  /\ closer'[i][m] = c
         /\ \A j \in Instance, n \in Message :
               j # i \/ n # m => closer'[j][n] = closer[j][n]
BY DEF SetCloser, LocalType

\* A carrier that turns idle, or keeps its generation, hands nothing on.
LEMMA CarrierDrops ==
  ASSUME LocalType, UNCHANGED <<sweeper, waiter, closer>>,
         \A j \in Instance, n \in Message :
            carrier'[j][n].gen = carrier[j][n].gen \/ carrier'[j][n].gen = 0
  PROVE  Handing
BY DEF Handing, OnlyDrops, KeepsOrDrops, Fence, Actors

\* One carrier that turns idle or keeps its generation.
LEMMA CarrierSetDrops ==
  ASSUME LocalType, UNCHANGED <<sweeper, waiter, closer>>,
         NEW i \in Instance, NEW m \in Message, NEW c, SetCarrier(i, m, c),
         c.gen = 0 \/ c.gen = carrier[i][m].gen
  PROVE  Handing
<1>1. \A j \in Instance, n \in Message :
         carrier'[j][n].gen = carrier[j][n].gen \/ carrier'[j][n].gen = 0
  BY CarrierSet
<1> QED
  BY <1>1, CarrierDrops

\* A carrier, a claim, a waiting resume or a closer gains the generation of a
\* takeover.
LEMMA CarrierGains ==
  ASSUME LocalType, UNCHANGED <<sweeper, waiter, closer>>,
         NEW i \in Instance, NEW m \in Message, NEW c, SetCarrier(i, m, c),
         c.gen = exec[m].gen + 1, exec'[m].gen = exec[m].gen + 1
  PROVE  Handing
<1>1. /\ carrier'[i][m].gen = exec[m].gen + 1
      /\ \A j \in Instance, n \in Message :
            j # i \/ n # m => carrier'[j][n] = carrier[j][n]
  BY CarrierSet
<1>2. Gains(i, m, "carrier")
  BY <1>1 DEF Gains, OthersDrop, KeepsOrDrops, Fence, Actors
<1> QED
  BY <1>2 DEF Handing, Actors

\* Dispatch: the stamp gains generation 1, everything else drops.
LEMMA DispatchHands ==
  ASSUME TypeOK, Provenance, NEW i \in Instance, NEW m \in Message,
         Dispatch(i, m)
  PROVE  Handing
<1>0. DbType /\ LocalType /\ Dispatched(m)
  BY TypeSplit DEF Provenance
<1>1. UNCHANGED <<sweeper, waiter, closer>>
  BY DEF Dispatch, ClaimTurn, SetupFails, StartTurn, DispatchFails,
     StampExecution, StampAnswerLost, StampRefused
<1>2. CASE StampExecution(i, m)
  <2> DEFINE c == [carrier[i][m] EXCEPT !.gen = 1]
  <2>1. /\ SetCarrier(i, m, c) /\ exec[m].state = "absent"
        /\ exec' = [exec EXCEPT ![m] = FirstRow(i)]
    BY <1>2 DEF StampExecution
  <2>2. exec[m].gen = 0 /\ exec'[m].gen = 1
    BY <1>0, <2>1 DEF Dispatched, DbType, FirstRow
  <2>3. c.gen = 1
    <3>1. carrier[i][m] \in Carrier
      BY <1>0 DEF LocalType
    <3> QED
      BY <3>1 DEF Carrier
  <2> HIDE DEF c
  <2>4. c.gen = exec[m].gen + 1 /\ exec'[m].gen = exec[m].gen + 1
    BY <2>2, <2>3
  <2> QED
    BY <1>0, <1>1, <2>1, <2>4, CarrierGains
<1>3. CASE \/ ClaimTurn(i, m) \/ SetupFails(i, m) \/ StartTurn(i, m)
           \/ DispatchFails(i, m) \/ StampAnswerLost(i, m) \/ StampRefused(i, m)
  <2> DEFINE s == [Idle EXCEPT !.kind = "setup"]
             d == [Idle EXCEPT !.kind = "dispatch"]
  <2>1. SetCarrier(i, m, s) \/ SetCarrier(i, m, d) \/ SetCarrier(i, m, Idle)
    BY <1>3 DEF ClaimTurn, SetupFails, StartTurn, DispatchFails,
       StampAnswerLost, StampRefused
  <2>2. s.gen = 0 /\ d.gen = 0 /\ Idle.gen = 0
    BY DEF Idle
  <2> HIDE DEF s, d
  <2> QED
    BY <1>0, <1>1, <2>1, <2>2, CarrierSetDrops
<1> QED
  BY <1>2, <1>3 DEF Dispatch

\* Carriers only drop generations.
LEMMA CarryHands ==
  ASSUME TypeOK, NEW i \in Instance, NEW m \in Message, Carry(i, m)
  PROVE  Handing
<1>0. LocalType
  BY TypeSplit
<1>1. UNCHANGED <<sweeper, waiter, closer>>
  BY DEF Carry, CarrierEmits, CarrierEnds, CarrierStops, CarrierLost,
     RenewLease, AbortCarrier
<1>2. CASE CarrierEnds(i, m) \/ CarrierStops(i, m) \/ CarrierLost(i, m)
  <2>1. SetCarrier(i, m, Idle) /\ Idle.gen = 0
    BY <1>2 DEF CarrierEnds, CarrierStops, CarrierLost, Idle
  <2> QED
    BY <1>0, <1>1, <2>1, CarrierSetDrops
<1>3. CASE CarrierEmits(i, m) \/ RenewLease(i, m) \/ AbortCarrier(i, m)
  <2>1. \/ SetCarrier(i, m, [carrier[i][m] EXCEPT !.abort = "lost"])
        \/ SetCarrier(i, m, [carrier[i][m] EXCEPT !.abort = "cancel"])
        \/ SetCarrier(i, m, carrier[i][m])
        \/ carrier' = carrier
    BY <1>3 DEF CarrierEmits, RenewLease, AbortCarrier
  <2>2. \A j \in Instance, n \in Message : carrier'[j][n].gen = carrier[j][n].gen
    BY <1>0, <2>1, AbortKeepsCarrier
  <2> QED
    BY <1>0, <1>1, <2>2, CarrierDrops
<1> QED
  BY <1>2, <1>3 DEF Carry

\* The sweep gains a generation and passes it to an adoption or a closer.
LEMMA AdoptHands ==
  ASSUME TypeOK, NEW i \in Instance, NEW m \in Message, Adopt(i, m)
  PROVE  Handing
<1>0. DbType /\ LocalType /\ NoClaim.gen = 0
  BY TypeSplit DEF NoClaim
<1>1. CASE SweepClaims(i, m)
  <2>1. PICK c : SetSweeper(i, m, c) /\ c.gen = exec[m].gen + 1
    <3> DEFINE c == [gen |-> exec[m].gen + 1,
                     giveUp |-> exec[m].adopts >= MaxAdoptAttempts]
    <3>1. SetSweeper(i, m, c)
      BY <1>1 DEF SweepClaims, SetSweeper
    <3>2. c.gen = exec[m].gen + 1
      OBVIOUS
    <3> HIDE DEF c
    <3> QED
      BY <3>1, <3>2
  <2>2. exec'[m].gen = exec[m].gen + 1
    BY <1>0, <1>1 DEF SweepClaims, TakenOver, DbType, ExecRow
  <2>3. UNCHANGED <<carrier, closer, waiter>>
    BY <1>1 DEF SweepClaims
  <2>4. Gains(i, m, "sweeper")
    BY <1>0, <2>1, <2>2, <2>3, SweeperSet
    DEF Gains, OthersDrop, KeepsOrDrops, Fence, Actors
  <2> QED
    BY <2>4 DEF Handing, Actors
<1>a. SetSweeper(i, m, NoClaim) =>
         /\ sweeper'[i][m].gen = 0
         /\ \A j \in Instance, n \in Message :
               sweeper'[j][n].gen = sweeper[j][n].gen \/ sweeper'[j][n].gen = 0
  BY <1>0, SweeperSet
<1>2. CASE SetSweeper(i, m, NoClaim) /\ UNCHANGED <<carrier, closer, waiter>>
  BY <1>a, <1>2 DEF Handing, OnlyDrops, KeepsOrDrops, Fence, Actors
<1>3. CASE AdoptTurn(i, m) /\ carrier[i][m].kind \notin Tracked
  <2> DEFINE c == [kind |-> "adoption", abort |-> "no", gen |-> sweeper[i][m].gen]
  <2>1. /\ SetCarrier(i, m, c) /\ SetSweeper(i, m, NoClaim)
        /\ UNCHANGED <<closer, waiter>>
    BY <1>3 DEF AdoptTurn, SetSweeper
  <2>2. c.gen = sweeper[i][m].gen
    OBVIOUS
  <2> HIDE DEF c
  <2>3. /\ carrier'[i][m].gen = sweeper[i][m].gen
        /\ \A j \in Instance, n \in Message :
              j # i \/ n # m => carrier'[j][n] = carrier[j][n]
    BY <1>0, <2>1, <2>2, CarrierSet
  <2>4. Passes(i, m, "sweeper", "carrier")
    BY <1>a, <2>1, <2>3 DEF Passes, OthersDrop, KeepsOrDrops, Fence, Actors
  <2> QED
    BY <2>4 DEF Handing, Actors
<1>4. CASE GiveUp(i, m) /\ carrier[i][m].kind \notin Tracked
  <2> DEFINE c == [step |-> "claimed", gen |-> sweeper[i][m].gen, kind |-> "error"]
  <2>1. /\ SetCloser(i, m, c) /\ SetSweeper(i, m, NoClaim)
        /\ UNCHANGED <<carrier, waiter>>
    BY <1>4 DEF GiveUp, SetSweeper, SetCloser
  <2>2. c.gen = sweeper[i][m].gen
    OBVIOUS
  <2> HIDE DEF c
  <2>3. /\ closer'[i][m].gen = sweeper[i][m].gen
        /\ \A j \in Instance, n \in Message :
              j # i \/ n # m => closer'[j][n] = closer[j][n]
    BY <1>0, <2>1, <2>2, CloserSet
  <2>4. Passes(i, m, "sweeper", "closer")
    BY <1>a, <2>1, <2>3 DEF Passes, OthersDrop, KeepsOrDrops, Fence, Actors
  <2> QED
    BY <2>4 DEF Handing, Actors
<1>5. CASE HandOffLateClaim(i, m)
  BY <1>2, <1>5 DEF HandOffLateClaim, SetSweeper
<1>6. CASE AdoptTurn(i, m) /\ carrier[i][m].kind \in Tracked
  BY <1>2, <1>6 DEF AdoptTurn, SetSweeper
<1>7. CASE GiveUp(i, m) /\ carrier[i][m].kind \in Tracked
  BY <1>2, <1>7 DEF GiveUp, SetSweeper
<1> QED
  BY <1>1, <1>3, <1>4, <1>5, <1>6, <1>7 DEF Adopt

\* A hello gains a generation, at once or while it waits for the slot.
LEMMA ResumeHands ==
  ASSUME TypeOK, NEW i \in Instance, NEW m \in Message, Resume(i, m)
  PROVE  Handing
<1>0. DbType /\ LocalType
  BY TypeSplit
<1>a. exec' = [exec EXCEPT ![m] = TakenOver(i, m, "running")]
        => exec'[m].gen = exec[m].gen + 1
  BY <1>0, TakeOverRow DEF OpenStates
<1>1. CASE HelloResumes(i, m)
  <2> DEFINE c == [Idle EXCEPT !.kind = "resume"]
  <2>1. SetCarrier(i, m, c) /\ UNCHANGED <<sweeper, waiter, closer>>
    BY <1>1 DEF HelloResumes
  <2>2. c.gen = 0
    BY DEF Idle
  <2> HIDE DEF c
  <2> QED
    BY <1>0, <2>1, <2>2, CarrierSetDrops
<1>2. CASE ResumeClaims(i, m)
  <2>1. UNCHANGED <<sweeper, waiter, closer>>
    BY <1>2 DEF ResumeClaims
  <2>2. CASE ResumeClaimable(m)
    <3> DEFINE c == [carrier[i][m] EXCEPT !.gen = exec[m].gen + 1]
    <3>1. SetCarrier(i, m, c) /\ exec'[m].gen = exec[m].gen + 1
      BY <1>a, <1>2, <2>2 DEF ResumeClaims
    <3>2. c.gen = exec[m].gen + 1
      <4>1. carrier[i][m] \in Carrier
        BY <1>0 DEF LocalType
      <4> QED
        BY <4>1 DEF Carrier
    <3> HIDE DEF c
    <3> QED
      BY <1>0, <2>1, <3>1, <3>2, CarrierGains
  <2>3. CASE ~ResumeClaimable(m)
    <3>1. SetCarrier(i, m, Idle) /\ Idle.gen = 0
      BY <1>2, <2>3 DEF ResumeClaims, Idle
    <3> QED
      BY <1>0, <2>1, <3>1, CarrierSetDrops
  <2> QED
    BY <2>2, <2>3
<1>3. CASE PreemptAdoption(i, m)
  <2>1. /\ SetWaiter(i, m, exec[m].gen + 1) /\ exec'[m].gen = exec[m].gen + 1
        /\ UNCHANGED <<sweeper, closer>>
    BY <1>a, <1>3 DEF PreemptAdoption, SetWaiter
  <2>2. PICK a \in {"cancel", carrier[i][m].abort} :
           SetCarrier(i, m, [carrier[i][m] EXCEPT !.abort = a])
    BY <1>3 DEF PreemptAdoption
  <2>3. \A j \in Instance, n \in Message : carrier'[j][n].gen = carrier[j][n].gen
    BY <1>0, <2>2, AbortKeepsCarrier
  <2>4. Gains(i, m, "waiter")
    BY <1>0, <2>1, <2>3, WaiterSet
    DEF Gains, OthersDrop, KeepsOrDrops, Fence, Actors
  <2> QED
    BY <2>4 DEF Handing, Actors
<1>4. CASE PreemptTakes(i, m)
  <2> DEFINE c == [kind |-> "resume", gen |-> waiter[i][m], abort |-> "no"]
  <2>1. /\ SetCarrier(i, m, c) /\ SetWaiter(i, m, 0)
        /\ UNCHANGED <<sweeper, closer>>
    BY <1>4 DEF PreemptTakes, SetWaiter
  <2>2. c.gen = waiter[i][m]
    OBVIOUS
  <2> HIDE DEF c
  <2>3. /\ carrier'[i][m].gen = waiter[i][m]
        /\ \A j \in Instance, n \in Message :
              j # i \/ n # m => carrier'[j][n] = carrier[j][n]
    BY <1>0, <2>1, <2>2, CarrierSet
  <2>4. Passes(i, m, "waiter", "carrier")
    BY <1>0, <2>1, <2>3, WaiterSet
    DEF Passes, OthersDrop, KeepsOrDrops, Fence, Actors
  <2> QED
    BY <2>4 DEF Handing, Actors
<1>5. CASE PreemptGivesBack(i, m)
  <2>1. SetWaiter(i, m, 0) /\ UNCHANGED <<carrier, sweeper, closer>>
    BY <1>5 DEF PreemptGivesBack, SetWaiter
  <2>2. \A j \in Instance, n \in Message :
           waiter'[j][n] = waiter[j][n] \/ waiter'[j][n] = 0
    BY <1>0, <2>1, WaiterSet
  <2> QED
    BY <2>1, <2>2 DEF Handing, OnlyDrops, KeepsOrDrops, Fence, Actors
<1> QED
  BY <1>1, <1>2, <1>3, <1>4, <1>5 DEF Resume

\* A closer gains the generation it claims.
LEMMA CloseHands ==
  ASSUME TypeOK, NEW i \in Instance, NEW m \in Message, Close(i, m)
  PROVE  Handing
<1>0. DbType /\ LocalType
  BY TypeSplit
<1>1. UNCHANGED <<carrier, sweeper, waiter>>
  BY DEF Close, CloserClaims, CloserOpens, CloserWrites, CloserFails, CloserDone
<1>2. ASSUME NEW c, SetCloser(i, m, c), c.gen = 0 \/ c.gen = closer[i][m].gen
      PROVE  Handing
  <2>1. \A j \in Instance, n \in Message :
           closer'[j][n].gen = closer[j][n].gen \/ closer'[j][n].gen = 0
    BY <1>0, <1>2, CloserSet
  <2> QED
    BY <1>1, <2>1 DEF Handing, OnlyDrops, KeepsOrDrops, Fence, Actors
<1>3. ASSUME NEW c, SetCloser(i, m, c), c.gen = exec[m].gen + 1,
             exec'[m].gen = exec[m].gen + 1
      PROVE  Handing
  <2>1. Gains(i, m, "closer")
    BY <1>0, <1>1, <1>3, CloserSet
    DEF Gains, OthersDrop, KeepsOrDrops, Fence, Actors
  <2> QED
    BY <2>1 DEF Handing, Actors
<1>4. CASE CloserClaims(i, m)
  <2>1. PICK kind \in CloserKinds(m) :
           \/ SetCloser(i, m, [step |-> "claimed", gen |-> 0, kind |-> kind])
           \/ /\ exec' = [exec EXCEPT ![m] = TakenOver(i, m, "adopting")]
              /\ SetCloser(i, m,
                    [step |-> "claimed", gen |-> exec[m].gen + 1, kind |-> kind])
    BY <1>4 DEF CloserClaims, SetCloser
  <2> DEFINE free == [step |-> "claimed", gen |-> 0, kind |-> kind]
             own == [step |-> "claimed", gen |-> exec[m].gen + 1, kind |-> kind]
  <2>2. free.gen = 0 /\ own.gen = exec[m].gen + 1
    OBVIOUS
  <2>3. \/ SetCloser(i, m, free)
        \/ SetCloser(i, m, own) /\ exec'[m].gen = exec[m].gen + 1
    BY <1>0, <2>1, TakeOverRow DEF OpenStates
  <2> HIDE DEF free, own
  <2> QED
    BY <1>2, <1>3, <2>2, <2>3
<1>5. CASE CloserOpens(i, m)
  <2> DEFINE c == [closer[i][m] EXCEPT !.step = "writing"]
  <2>1. SetCloser(i, m, c)
    BY <1>5 DEF CloserOpens, SetCloser
  <2>2. c.gen = closer[i][m].gen
    <3>1. closer[i][m] \in Closer
      BY <1>0 DEF LocalType
    <3> QED
      BY <3>1 DEF Closer
  <2> HIDE DEF c
  <2> QED
    BY <1>2, <2>1, <2>2
<1>6. CASE CloserWrites(i, m) \/ CloserFails(i, m)
  <2>1. SetCloser(i, m, NoCloser) /\ NoCloser.gen = 0
    BY <1>6 DEF CloserWrites, CloserFails, CloserDone, SetCloser, NoCloser
  <2> QED
    BY <1>2, <2>1
<1> QED
  BY <1>4, <1>5, <1>6 DEF Close

\* Whatever the step, held generations are kept, dropped, passed on inside a
\* process or gained with a takeover.
LEMMA StepHands == TypeOK /\ Provenance /\ [Next]_vars => Handing
<1> SUFFICES ASSUME TypeOK, Provenance, [Next]_vars PROVE Handing
  OBVIOUS
<1>0. LocalType
  BY TypeSplit
<1>1. CASE UNCHANGED <<carrier, sweeper, waiter, closer>>
  BY <1>1 DEF Handing, OnlyDrops, KeepsOrDrops, Fence
<1>2. ASSUME NEW i \in Instance, Crash(i) PROVE Handing
  <2>1. ASSUME NEW j \in Instance, NEW n \in Message
        PROVE  \/ /\ carrier'[j][n] = Idle /\ closer'[j][n] = NoCloser
                  /\ sweeper'[j][n] = NoClaim /\ waiter'[j][n] = 0
               \/ /\ carrier'[j][n] = carrier[j][n] /\ closer'[j][n] = closer[j][n]
                  /\ sweeper'[j][n] = sweeper[j][n] /\ waiter'[j][n] = waiter[j][n]
    BY <1>0, <1>2 DEF Crash, LocalType
  <2>2. Idle.gen = 0 /\ NoCloser.gen = 0 /\ NoClaim.gen = 0
    BY DEF Idle, NoCloser, NoClaim
  <2> QED
    BY <2>1, <2>2 DEF Handing, OnlyDrops, KeepsOrDrops, Fence, Actors
<1>3. ASSUME NEW m \in Message,
             LeaseLapses(m) \/ RequestCancel(m) \/ ClearStaleClaim(m)
      PROVE  UNCHANGED <<carrier, sweeper, waiter, closer>>
  BY <1>3 DEF LeaseLapses, RequestCancel, ClearStaleClaim, local
<1>4. ASSUME NEW i \in Instance, Drain(i) \/ HandOffOwnedTurns(i)
      PROVE  UNCHANGED <<carrier, sweeper, waiter, closer>>
  BY <1>4 DEF Drain, HandOffOwnedTurns, local
<1> QED
  BY <1>1, <1>2, <1>3, <1>4, DispatchHands, CarryHands, AdoptHands,
     ResumeHands, CloseHands DEF Next, vars, local

\* Generations of the execution rows never decrease.
LEMMA GenerationsGrow ==
  ASSUME DbType, Shape
  PROVE  \A m \in Message : exec'[m].gen \in Nat /\ exec[m].gen <= exec'[m].gen
<1>1. \A m \in Message : exec[m].gen \in Nat
  BY DEF DbType, ExecRow
<1>2. \A m \in Message :
         exec'[m].gen = exec[m].gen \/ exec'[m].gen = exec[m].gen + 1
  BY DEF Shape, Stays, Opens, Abandons, Owns, Adds, Ends, OthersRest, Rests
<1> QED
  BY <1>1, <1>2

\* No two actors hold the same generation of a turn, and every held one was
\* handed out by the execution row (claimTurnForAdoption, claimTurnForResume,
\* preemptAdoptionForResume, claimReconciliationFence).
THEOREM FencesUniqueHolds == Spec => [](FencesUnique /\ FencesHandedOut)
<1>1. Init => FencesUnique /\ FencesHandedOut
  BY FencesRestated DEF Init, Unique, HandedOut, Fence, Actors, NoExec, Idle,
     NoClaim, NoCloser
<1>2. TypeOK /\ Provenance /\ StreamsOwned /\ Agreement
        /\ FencesUnique /\ FencesHandedOut /\ [Next]_vars
        => (FencesUnique /\ FencesHandedOut)'
  <2> SUFFICES ASSUME TypeOK, Provenance, StreamsOwned, Agreement,
                      FencesUnique, FencesHandedOut, [Next]_vars
               PROVE  FencesUnique' /\ FencesHandedOut'
    OBVIOUS
  <2>1. DbType /\ Shape /\ Handing /\ Unique /\ HandedOut
    BY TypeSplit, StepShape, StepHands, FencesRestated
  <2>2. Unique' /\ HandedOut'
    BY <2>1, GenerationsGrow, HandingKeeps
  <2>3. (FencesUnique <=> Unique)' /\ (FencesHandedOut <=> HandedOut)'
    BY FencesRestated, PTL
  <2> QED
    BY <2>2, <2>3
<1> QED
  BY <1>1, <1>2, TypeCorrect, ProvenanceHolds, StreamsOwnedHolds,
     AgreementHolds, PTL DEF Spec
=============================================================================
