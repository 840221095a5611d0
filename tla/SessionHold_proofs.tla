-------------------------- MODULE SessionHold_proofs --------------------------
EXTENDS SessionHold, TLAPS

\* The records that handlers start from, and what they become in one assignment.
LEMMA NewRecords ==
  /\ NoCursor \in Cursors /\ NotOpening \in Opening /\ NotClosing \in Closing
  /\ NotMoving \in Move /\ NoJob \in Job
  /\ \A r \in Refs : [NotMoving EXCEPT !.pc = "move", !.to = r] \in Move
  /\ \A x \in {"load", "giveup", "clear"}, n \in 0..MaxStamp :
       [NoJob EXCEPT !.pc = x, !.stamp = n] \in Job
<1> USE HoldConstants DEF Cursors, NoCursor
<1>1. NoCursor \in Cursors /\ 0 \in 0..MaxLines /\ 0 \in 0..MaxStamp
  OBVIOUS
<1>2. NotOpening \in Opening /\ NotClosing \in Closing
  BY DEF NotOpening, Opening, NotClosing, Closing
<1>3. NotMoving \in Move
  BY <1>1 DEF NotMoving, Move
<1>4. NoJob \in Job
  BY <1>1 DEF NoJob, Job
<1>5. ASSUME NEW r \in Refs PROVE [NotMoving EXCEPT !.pc = "move", !.to = r] \in Move
  BY <1>3 DEF Move
<1>6. ASSUME NEW x \in {"load", "giveup", "clear"}, NEW n \in 0..MaxStamp
      PROVE  [NoJob EXCEPT !.pc = x, !.stamp = n] \in Job
  BY <1>4 DEF Job
<1> QED
  BY <1>1, <1>2, <1>3, <1>4, <1>5, <1>6

\* The step of one action, for the type invariant.
LEMMA TypeStep == TypeOK /\ [Next]_vars => TypeOK'
<1> SUFFICES ASSUME TypeOK, [Next]_vars PROVE TypeOK'
  OBVIOUS
<1> USE HoldConstants DEF TypeOK, vars, session, actors, lines
<1>0. CASE UNCHANGED vars
  BY <1>0 DEF Aimed
<1>1. ASSUME ClaimInflightTurn PROVE TypeOK'
  BY <1>1 DEF ClaimInflightTurn, Claimable, Idle, Aimed
<1>2. ASSUME TurnWrites PROVE TypeOK'
  BY <1>2 DEF TurnWrites, Aimed
<1>3. ASSUME SetRuntimeSyncCursor PROVE TypeOK'
  BY <1>3 DEF SetRuntimeSyncCursor, Cursors, NoCursor, Aimed
<1>4. ASSUME ReleaseInflightTurn PROVE TypeOK'
  BY <1>4 DEF ReleaseInflightTurn, Aimed
<1>5. ASSUME NEW r \in Refs, TurnMovesRef(r) PROVE TypeOK'
  BY <1>5 DEF TurnMovesRef, Fresh, Cursors, NoCursor, Aimed
<1>6. ASSUME NEW t \in Terminals, Open(t) PROVE TypeOK'
  <2>1. [row[t] EXCEPT !.status = "live"] \in TerminalRow
    BY <1>6 DEF Open, TerminalRow
  <2>2. [NotOpening EXCEPT !.pc = "acquire", !.ref = ref] \in Opening
    BY <1>6 DEF Open, Opening, NotOpening
  <2>3. /\ [NotOpening EXCEPT !.pc = "acquire", !.ref = ref].ref = ref
       /\ \A x \in Terminals \ {t} : opening'[x] = opening[x]
       /\ opening'[t] \in {opening[t], [NotOpening EXCEPT !.pc = "acquire", !.ref = ref]}
    BY <1>6 DEF Open, NotOpening
  <2>4. opening' \in [Terminals -> Opening]
    BY <1>6, <2>1, <2>2, <2>3 DEF Open
  <2>5. Aimed'
    BY <1>6, <2>3, <2>4 DEF Aimed, Open, NotOpening
  <2> QED
    BY <1>6, <2>1, <2>3, <2>4, <2>5 DEF Open
<1>7. ASSUME NEW t \in Terminals, HookStart(t) PROVE TypeOK'
  <2>1. [pc |-> "acquire", ref |-> ref, by |-> "hook"] \in Opening
    BY <1>7 DEF HookStart, Opening
  <2>2. opening' \in [Terminals -> Opening]
    BY <1>7, <2>1 DEF HookStart, Idle
  <2>3. Aimed'
    BY <1>7, <2>2 DEF Aimed, HookStart, Idle
  <2> QED
    BY <1>7, <2>2, <2>3 DEF HookStart, Idle
<1>8. ASSUME NEW t \in Terminals, AcquireSessionHolder(t) PROVE TypeOK'
  <2>1. opening[t] \in Opening /\ opening[t].pc = "acquire" /\ opening[t].ref \in Refs
    BY <1>8 DEF AcquireSessionHolder, Aimed
  <2>2. [opening[t] EXCEPT !.pc = "mark"] \in Opening
    BY <2>1 DEF Opening
  <2>3. [opening[t] EXCEPT !.pc = "mark"].ref \in Refs
    BY <2>1 DEF Opening
  <2>4. UNCHANGED <<moving, job>>
    BY <1>8 DEF AcquireSessionHolder
  <2>5. PICK o \in {[opening[t] EXCEPT !.pc = "mark"], NotOpening} :
          opening' = [opening EXCEPT ![t] = o]
    BY <1>8 DEF AcquireSessionHolder
  <2>6. o \in Opening /\ (o.pc # "idle" => o.ref \in Refs)
    <3>1. CASE o = [opening[t] EXCEPT !.pc = "mark"]
      BY <2>2, <2>3, <3>1
    <3>2. CASE o = NotOpening
      <4>1. NotOpening.pc = "idle"
        BY DEF NotOpening
      <4> QED
        BY <3>2, <4>1, NewRecords
    <3> QED
      BY <2>5, <3>1, <3>2
  <2>7. opening' \in [Terminals -> Opening]
    BY <2>5, <2>6
  <2>8. Aimed'
    BY <2>4, <2>5, <2>6 DEF Aimed
  <2> QED
    BY <1>8, <2>7, <2>8 DEF AcquireSessionHolder
<1>9. ASSUME NEW t \in Terminals, MarkHeld(t) PROVE TypeOK'
  <2>1. [row[t] EXCEPT !.held = TRUE] \in TerminalRow
    BY <1>9 DEF MarkHeld, TerminalRow
  <2>2. opening[t] \in Opening /\ opening[t].ref \in Refs
    BY <1>9 DEF MarkHeld, Aimed
  <2>3. [opening[t] EXCEPT !.pc = "spawn"] \in Opening
    BY <2>2 DEF Opening
  <2>4. [opening[t] EXCEPT !.pc = "spawn"].ref \in Refs /\ NotOpening.pc = "idle"
    BY <2>2 DEF Opening, NotOpening
  <2>5. PICK o \in {[opening[t] EXCEPT !.pc = "spawn"], NotOpening} :
          opening' = [opening EXCEPT ![t] = o]
    BY <1>9 DEF MarkHeld
  <2>6. opening' \in [Terminals -> Opening]
    BY <2>3, <2>5, NewRecords
  <2>7. UNCHANGED <<moving, job>>
    BY <1>9 DEF MarkHeld
  <2>8. o.pc # "idle" => o.ref \in Refs
    BY <2>4, <2>5
  <2>9. Aimed'
    BY <2>5, <2>7, <2>8 DEF Aimed
  <2> QED
    BY <1>9, <2>1, <2>6, <2>9 DEF MarkHeld
<1>10. ASSUME NEW t \in Terminals, Tunnel(t) PROVE TypeOK'
  <2>1. opening[t].ref \in Refs
    BY <1>10 DEF Tunnel, Aimed
  <2>2. opening' \in [Terminals -> Opening]
    BY <1>10, <2>1, NewRecords DEF Tunnel
  <2>3. Aimed'
    BY <1>10, <2>2 DEF Aimed, Tunnel, NotOpening
  <2> QED
    BY <1>10, <2>1, <2>2, <2>3 DEF Tunnel
<1>11. ASSUME NEW t \in Terminals, TunnelFails(t) PROVE TypeOK'
  <2>1. [row[t] EXCEPT !.status = "ended"] \in TerminalRow
    BY <1>11 DEF TunnelFails, TerminalRow
  <2>2. [pc |-> "release", owes |-> row[t].held] \in Closing
    BY <1>11 DEF TunnelFails, Closing, TerminalRow
  <2>3. opening' \in [Terminals -> Opening]
    BY <1>11, <2>1, <2>2, NewRecords DEF TunnelFails, Ended
  <2>4. Aimed'
    BY <1>11, <2>3 DEF Aimed, TunnelFails, Ended, NotOpening
  <2> QED
    BY <1>11, <2>1, <2>2, <2>3, <2>4 DEF TunnelFails, Ended
<1>12. ASSUME NEW t \in Terminals, OpeningStops(t) PROVE TypeOK'
  <2>1. opening' \in [Terminals -> Opening]
    BY <1>12, NewRecords DEF OpeningStops
  <2>2. Aimed'
    BY <1>12, <2>1 DEF Aimed, OpeningStops, NotOpening
  <2> QED
    BY <1>12, <2>1, <2>2 DEF OpeningStops
<1>13. ASSUME NEW t \in Terminals, TuiWrites(t) PROVE TypeOK'
  BY <1>13 DEF TuiWrites, Aimed
<1>14. ASSUME NEW t \in Terminals, NEW r \in Refs, TuiStarts(t, r) PROVE TypeOK'
  BY <1>14 DEF TuiStarts, Aimed
<1>15. ASSUME NEW t \in Terminals, NEW r \in Refs, TuiRenames(t, r) PROVE TypeOK'
  BY <1>15 DEF TuiRenames, Fresh, Aimed
<1>16. ASSUME NEW t \in Terminals, TuiEnds(t) PROVE TypeOK'
  BY <1>16 DEF TuiEnds, Aimed
<1>17. ASSUME NEW t \in Terminals, HookEnd(t) PROVE TypeOK'
  BY <1>17 DEF HookEnd, Aimed
<1>18. ASSUME NEW t \in Terminals, HookStaleHold(t) PROVE TypeOK'
  BY <1>18 DEF HookStaleHold, Aimed
<1>39. ASSUME NEW t \in Terminals, ReleaseHeldByHook(t) PROVE TypeOK'
  BY <1>39 DEF ReleaseHeldByHook, ReleaseSessionHolder, Stamp, Aimed
<1>40. ASSUME NEW t \in Terminals, GivingStops(t) PROVE TypeOK'
  BY <1>40 DEF GivingStops, Aimed
<1>19. ASSUME NEW t \in Terminals, EndTerminal(t) PROVE TypeOK'
  <2>1. [row[t] EXCEPT !.status = "ended"] \in TerminalRow
    BY <1>19 DEF EndTerminal, TerminalRow
  <2>2. \A x \in {"kill", "release"} : [pc |-> x, owes |-> row[t].held] \in Closing
    BY <1>19 DEF EndTerminal, Closing, TerminalRow
  <2> QED
    BY <1>19, <2>1, <2>2 DEF EndTerminal, Ended, Aimed
<1>20. ASSUME NEW t \in Terminals, KillByHandle(t) PROVE TypeOK'
  <2>1. [closing[t] EXCEPT !.pc = "release"] \in Closing
    BY <1>20 DEF KillByHandle, Closing
  <2> QED
    BY <1>20, <2>1 DEF KillByHandle, Aimed
<1>21. ASSUME NEW t \in Terminals, ReleaseAndImport(t) PROVE TypeOK'
  <2>1. NotClosing \in Closing
    BY NewRecords
  <2> QED
    BY <1>21, <2>1 DEF ReleaseAndImport, ReleaseSessionHolder, Stamp, Aimed
<1>22. ASSUME NEW t \in Terminals, ClosingStops(t) PROVE TypeOK'
  BY <1>22, NewRecords DEF ClosingStops, Aimed
<1>23. ASSUME NEW t \in Terminals, MoveLoads(t) PROVE TypeOK'
  <2>1. [pc |-> "read", from |-> ref, to |-> tui[t], cursor |-> cursor, end |-> 0] \in Move
    BY <1>23 DEF MoveLoads, Move, Cursors
  <2>2. moving' \in [Terminals -> Move]
    BY <1>23, <2>1 DEF MoveLoads
  <2>3. Aimed'
    BY <1>23, <2>2 DEF Aimed, MoveLoads
  <2> QED
    BY <1>23, <2>2, <2>3 DEF MoveLoads
<1>24. ASSUME NEW t \in Terminals, MoveReads(t) PROVE TypeOK'
  <2>1. moving[t] \in Move /\ file[moving[t].from] \in 0..MaxLines
    BY <1>24 DEF MoveReads, Aimed
  <2>2. [moving[t] EXCEPT !.pc = "append", !.end = file[moving[t].from]] \in Move
    BY <1>24, <2>1 DEF MoveReads, Move
  <2>3. moving' \in [Terminals -> Move]
    BY <1>24, <2>1, <2>2 DEF MoveReads, LineCount
  <2>4. Aimed'
    <3>1. /\ moving[t].pc = "read" /\ UNCHANGED <<opening, job>>
          /\ \A x \in Terminals \ {t} : moving'[x] = moving[x]
          /\ moving'[t].from = moving[t].from /\ moving'[t].to = moving[t].to
      BY <1>24, <2>1 DEF MoveReads, Move
    <3> QED
      BY <3>1 DEF Aimed
  <2> QED
    BY <1>24, <2>1, <2>3, <2>4 DEF MoveReads, LineCount
<1>25. ASSUME NEW t \in Terminals, MoveAppends(t) PROVE TypeOK'
  <2>1. moving[t].to \in Refs
    BY <1>25 DEF MoveAppends, Aimed
  <2>2. [NotMoving EXCEPT !.pc = "move", !.to = moving[t].to] \in Move
    BY <2>1, NewRecords
  <2>3. moving' \in [Terminals -> Move]
    BY <1>25, <2>1, <2>2 DEF MoveAppends
  <2>4. Aimed'
    BY <1>25, <2>3 DEF Aimed, MoveAppends, Move, NotMoving
  <2> QED
    BY <1>25, <2>1, <2>3, <2>4 DEF MoveAppends
<1>26. ASSUME NEW t \in Terminals, MoveHeldSessionRef(t) PROVE TypeOK'
  <2>1. moving[t].to \in Refs /\ NoCursor \in Cursors
    BY <1>26 DEF MoveHeldSessionRef, Aimed, Cursors
  <2>2. moving' \in [Terminals -> Move]
    BY <1>26, <2>1, NewRecords DEF MoveHeldSessionRef
  <2>3. Aimed'
    BY <1>26, <2>2 DEF Aimed, MoveHeldSessionRef, NotMoving
  <2> QED
    BY <1>26, <2>1, <2>2, <2>3 DEF MoveHeldSessionRef
<1>27. ASSUME NEW t \in Terminals, MoveStops(t) PROVE TypeOK'
  <2>1. moving' \in [Terminals -> Move]
    BY <1>27, NewRecords DEF MoveStops
  <2>2. Aimed'
    BY <1>27, <2>1 DEF Aimed, MoveStops, NotMoving
  <2> QED
    BY <1>27, <2>1, <2>2 DEF MoveStops
<1>28. ASSUME NEW j \in Jobs, SettleObserves(j) PROVE TypeOK'
  <2>1. pending \in 0..MaxStamp
    BY <1>28 DEF SettleObserves
  <2>2. [NoJob EXCEPT !.pc = "load", !.stamp = pending] \in Job
    BY <2>1, NewRecords
  <2>3. job' \in [Jobs -> Job]
    BY <1>28, <2>1, <2>2 DEF SettleObserves
  <2>4. Aimed'
    BY <1>28, <2>3 DEF Aimed, SettleObserves, NoJob
  <2> QED
    BY <1>28, <2>1, <2>3, <2>4 DEF SettleObserves
<1>29. ASSUME NEW j \in Jobs, SyncLoads(j) PROVE TypeOK'
  <2>1. [job[j] EXCEPT !.pc = "read", !.ref = ref, !.cursor = cursor] \in Job
    BY <1>29 DEF SyncLoads, Job
  <2>2. job' \in [Jobs -> Job]
    BY <1>29, <2>1 DEF SyncLoads
  <2>3. Aimed'
    BY <1>29, <2>2 DEF Aimed, SyncLoads, Job
  <2> QED
    BY <1>29, <2>2, <2>3 DEF SyncLoads
<1>30. ASSUME NEW j \in Jobs, SyncReads(j) PROVE TypeOK'
  <2>1. job[j] \in Job /\ file[job[j].ref] \in 0..MaxLines
    BY <1>30 DEF SyncReads, Aimed
  <2>2. [job[j] EXCEPT !.pc = "append", !.end = file[job[j].ref]] \in Job
    BY <1>30, <2>1 DEF SyncReads, Job
  <2>3. job' \in [Jobs -> Job]
    BY <1>30, <2>1, <2>2 DEF SyncReads, LineCount
  <2>4. Aimed'
    BY <1>30, <2>3 DEF Aimed, SyncReads, LineCount, Job
  <2> QED
    BY <1>30, <2>1, <2>3, <2>4 DEF SyncReads, LineCount
<1>31. ASSUME NEW j \in Jobs, AppendRecoveredMessages(j) PROVE TypeOK'
  <2>1. [job[j] EXCEPT !.pc = "advance"] \in Job
    BY <1>31 DEF AppendRecoveredMessages, Job
  <2>2. job' \in [Jobs -> Job]
    BY <1>31, <2>1 DEF AppendRecoveredMessages
  <2>3. Aimed'
    <3>1. /\ job[j].pc = "append" /\ UNCHANGED <<opening, moving>>
          /\ \A k \in Jobs \ {j} : job'[k] = job[k]
          /\ job'[j].ref = job[j].ref
      BY <1>31 DEF AppendRecoveredMessages, Job
    <3> QED
      BY <3>1 DEF Aimed
  <2>4. /\ job[j].ref \in Refs
        /\ unread' \in [Refs -> SUBSET (1..MaxLines)]
        /\ \A r \in Refs : unread'[r] \subseteq unread[r]
    <3>1. job[j].ref \in Refs
      BY <1>31 DEF AppendRecoveredMessages, Aimed
    <3>2. PICK taken : unread' = [unread EXCEPT ![job[j].ref] = @ \ taken]
      BY <1>31 DEF AppendRecoveredMessages
    <3>3. unread[job[j].ref] \ taken \in SUBSET (1..MaxLines)
      BY <3>1
    <3> QED
      BY <3>1, <3>2, <3>3
  <2> QED
    BY <1>31, <2>2, <2>3, <2>4 DEF AppendRecoveredMessages
<1>32. ASSUME NEW j \in Jobs, AdvanceRuntimeSyncCursor(j) PROVE TypeOK'
  <2>1. job[j].stamp \in 0..MaxStamp
    BY <1>32 DEF AdvanceRuntimeSyncCursor, Job
  <2>2. [NoJob EXCEPT !.pc = "clear", !.stamp = job[j].stamp] \in Job
    BY <2>1, NewRecords
  <2>3. job[j].end \in Cursors
    <3>1. job[j] \in Job
      OBVIOUS
    <3>2. job[j].end \in 0..MaxLines
      BY <3>1 DEF Job
    <3> QED
      BY <3>2 DEF Cursors
  <2>4. job' \in [Jobs -> Job]
    BY <1>32, <2>1, <2>2, <2>3, NewRecords DEF AdvanceRuntimeSyncCursor
  <2>5. Aimed'
    BY <1>32, <2>4 DEF Aimed, AdvanceRuntimeSyncCursor, Job, NoJob
  <2> QED
    BY <1>32, <2>1, <2>3, <2>4, <2>5 DEF AdvanceRuntimeSyncCursor
<1>33. ASSUME NEW j \in Jobs, SettleClears(j) PROVE TypeOK'
  <2>1. job' \in [Jobs -> Job]
    BY <1>33, NewRecords DEF SettleClears, Cleared
  <2>2. Aimed'
    BY <1>33, <2>1 DEF Aimed, SettleClears, Cleared, NoJob
  <2> QED
    BY <1>33, <2>1, <2>2 DEF SettleClears, Cleared
<1>34. ASSUME NEW j \in Jobs, AbandonObserves(j) PROVE TypeOK'
  <2>1. pending \in 0..MaxStamp
    BY <1>34 DEF AbandonObserves
  <2>2. [NoJob EXCEPT !.pc = "giveup", !.stamp = pending] \in Job
    BY <2>1, NewRecords
  <2>3. job' \in [Jobs -> Job]
    BY <1>34, <2>1, <2>2 DEF AbandonObserves
  <2>4. Aimed'
    BY <1>34, <2>3 DEF Aimed, AbandonObserves, NoJob
  <2> QED
    BY <1>34, <2>1, <2>3, <2>4 DEF AbandonObserves
<1>35. ASSUME NEW j \in Jobs, AbandonClears(j) PROVE TypeOK'
  <2>1. job' \in [Jobs -> Job]
    BY <1>35, NewRecords DEF AbandonClears, Cleared
  <2>2. Aimed'
    BY <1>35, <2>1 DEF Aimed, AbandonClears, Cleared, NoJob
  <2> QED
    BY <1>35, <2>1, <2>2 DEF AbandonClears, Cleared
<1>36. ASSUME NEW j \in Jobs, JobStops(j) PROVE TypeOK'
  <2>1. job' \in [Jobs -> Job]
    BY <1>36, NewRecords DEF JobStops
  <2>2. Aimed'
    BY <1>36, <2>1 DEF Aimed, JobStops, NoJob
  <2> QED
    BY <1>36, <2>1, <2>2 DEF JobStops
<1> QED
  BY <1>0, <1>1, <1>2, <1>3, <1>4, <1>5, <1>6, <1>7, <1>8, <1>9, <1>10, <1>11, <1>12, <1>13,
     <1>14, <1>15, <1>16, <1>17, <1>18, <1>19, <1>20, <1>21, <1>22, <1>23, <1>24, <1>25, <1>26,
     <1>27, <1>28, <1>29, <1>30, <1>31, <1>32, <1>33, <1>34, <1>35, <1>36, <1>39, <1>40 DEF
     Next, Turn, Terminal, Import

LEMMA TypeInit == Init => TypeOK
<1> SUFFICES ASSUME Init PROVE TypeOK
  OBVIOUS
<1> USE HoldConstants DEF Init
<1>1. [status |-> "none", held |-> FALSE] \in TerminalRow
  BY DEF TerminalRow
<1>2. Aimed
  BY DEF Aimed, NotMoving, NotOpening, NoJob
<1>3. 0 \in 0..MaxStamp /\ 0 \in 0..stamps /\ 0 \in 0..MaxLines
  OBVIOUS
<1> QED
  BY <1>1, <1>2, <1>3, NewRecords DEF TypeOK

(* Every reachable state is well typed: a release stamp is never one that is  *)
(* still to come, and no handler works on a transcript that was never named.  *)
THEOREM TypeCorrect == Spec => []TypeOK
<1>1. Init => TypeOK
  BY TypeInit
<1>2. TypeOK /\ [Next]_vars => TypeOK'
  BY TypeStep
<1> QED
  BY <1>1, <1>2, PTL DEF Spec

-----------------------------------------------------------------------------
(* A settle saw everything: the kinds of steps, by what they do to the row of  *)
(* the session and to the jobs.                                                *)

\* Steps that leave the row and the jobs alone and take lines at most away.
LEMMA RestStep ==
  ASSUME SettleInv, TypeOK', UNCHANGED <<inflight, holder, pending, ref, stamps, job>>,
         \A r \in Refs : unread'[r] \subseteq unread[r]
  PROVE  SettleInv'
<1>1. ref \in Refs
  BY DEF SettleInv, TypeOK
<1> QED
  BY <1>1 DEF SettleInv, TurnExcludes, StampsPast, SettleOnRef, SettleSawEverything

\* Steps under a hold, after which the session is held.
LEMMA HeldStep ==
  ASSUME SettleInv, TypeOK', UNCHANGED <<inflight, pending, stamps, job>>,
         ~inflight, holder' # NoTerminal
  PROVE  SettleInv'
BY DEF SettleInv, TurnExcludes, StampsPast, SettleOnRef, SettleSawEverything

\* A release: the stamp it gives is newer than any job's.
LEMMA ReleaseStep ==
  ASSUME SettleInv, TypeOK', NEW t \in Terminals, ReleaseSessionHolder(t), UNCHANGED job
  PROVE  SettleInv'
<1>1. /\ ~inflight' /\ pending' = stamps + 1 /\ stamps' = stamps + 1
      /\ \A j \in Jobs : job'[j].stamp = job[j].stamp
  BY HoldConstants DEF ReleaseSessionHolder, Stamp, SettleInv, TurnExcludes
<1>2. stamps \in Nat /\ \A j \in Jobs : job[j].stamp \in Nat /\ job[j].stamp <= stamps
  <2>1. stamps \in Nat /\ job \in [Jobs -> Job]
    BY HoldConstants DEF SettleInv, TypeOK
  <2>2. \A x \in Job : x.stamp \in Nat
    BY HoldConstants DEF Job
  <2> QED
    BY <2>1, <2>2 DEF SettleInv, StampsPast
<1>3. \A j \in Jobs : job'[j].stamp # pending' /\ job'[j].stamp <= stamps'
  BY <1>1, <1>2
<1> QED
  BY <1>1, <1>3 DEF SettleInv, TurnExcludes, StampsPast, SettleOnRef, SettleSawEverything

\* Steps of a turn: nothing is pending while it runs.
LEMMA TurnStep ==
  ASSUME SettleInv, TypeOK', UNCHANGED <<holder, stamps, job>>, pending' = 0,
         holder = NoTerminal
  PROVE  SettleInv'
BY DEF SettleInv, TurnExcludes, StampsPast, SettleOnRef, SettleSawEverything

\* Steps of a job that leave what it learnt true.
LEMMA JobStep ==
  ASSUME SettleInv, TypeOK', NEW j \in Jobs,
         UNCHANGED <<inflight, holder, ref, stamps>>, pending' \in {pending, 0},
         \A r \in Refs : unread'[r] \subseteq unread[r],
         \A k \in Jobs \ {j} : job'[k] = job[k],
         job'[j].stamp <= stamps,
         /\ job'[j].pc \in {"read", "append", "advance"}
         /\ job'[j].stamp = pending' /\ pending' # 0 /\ holder = NoTerminal
         => /\ job'[j].ref = ref
            /\ job'[j].pc # "read" => unread'[ref] \subseteq 1..job'[j].end
  PROVE  SettleInv'
<1>1. ref \in Refs
  BY DEF SettleInv, TypeOK
<1>2. TurnExcludes' /\ StampsPast'
  BY DEF SettleInv, TurnExcludes, StampsPast
<1>3. SettleOnRef'
  BY DEF SettleInv, SettleOnRef
<1>4. SettleSawEverything'
  BY <1>1 DEF SettleInv, SettleSawEverything
<1> QED
  BY <1>2, <1>3, <1>4 DEF SettleInv

\* Every step keeps the invariant.
LEMMA SettleStep == SettleInv /\ [Next]_vars => SettleInv'
<1> SUFFICES ASSUME SettleInv, [Next]_vars PROVE SettleInv'
  OBVIOUS
<1> USE TypeStep
<1>0. TypeOK'
  BY DEF SettleInv
<1> USE <1>0
<1>37. CASE UNCHANGED vars
  BY <1>37, RestStep DEF vars, session, actors, lines
<1>1. ASSUME ClaimInflightTurn PROVE SettleInv'
  BY <1>1, TurnStep DEF ClaimInflightTurn, Claimable, Idle, session, actors, lines, SettleInv,
     TurnExcludes
<1>2. ASSUME TurnWrites PROVE SettleInv'
  BY <1>2, RestStep DEF TurnWrites, session, actors, lines
<1>3. ASSUME SetRuntimeSyncCursor PROVE SettleInv'
  BY <1>3, RestStep DEF SetRuntimeSyncCursor, session, actors, lines
<1>4. ASSUME ReleaseInflightTurn PROVE SettleInv'
  BY <1>4, TurnStep DEF ReleaseInflightTurn, session, actors, lines, SettleInv, TurnExcludes
<1>5. ASSUME NEW r \in Refs, TurnMovesRef(r) PROVE SettleInv'
  BY <1>5, TurnStep DEF TurnMovesRef, session, actors, lines, SettleInv, TurnExcludes
<1>6. ASSUME NEW t \in Terminals, Open(t) PROVE SettleInv'
  BY <1>6, RestStep DEF Open, session, actors, lines
<1>7. ASSUME NEW t \in Terminals, HookStart(t) PROVE SettleInv'
  BY <1>7, RestStep DEF HookStart, session, actors, lines
<1>8. ASSUME NEW t \in Terminals, AcquireSessionHolder(t) PROVE SettleInv'
  <2>1. CASE holder' = t /\ ~inflight
    BY <1>8, <2>1, HeldStep, HoldConstants DEF AcquireSessionHolder, session, actors, lines
  <2>2. CASE holder' = holder
    BY <1>8, <2>2, RestStep DEF AcquireSessionHolder, session, actors, lines
  <2> QED
    BY <1>8, <2>1, <2>2 DEF AcquireSessionHolder, Idle
<1>9. ASSUME NEW t \in Terminals, MarkHeld(t) PROVE SettleInv'
  BY <1>9, RestStep DEF MarkHeld, session, actors, lines
<1>10. ASSUME NEW t \in Terminals, Tunnel(t) PROVE SettleInv'
  BY <1>10, RestStep DEF Tunnel, session, actors, lines
<1>11. ASSUME NEW t \in Terminals, TunnelFails(t) PROVE SettleInv'
  BY <1>11, RestStep DEF TunnelFails, session, actors, lines
<1>12. ASSUME NEW t \in Terminals, OpeningStops(t) PROVE SettleInv'
  BY <1>12, RestStep DEF OpeningStops, session, actors, lines
<1>13. ASSUME NEW t \in Terminals, TuiWrites(t) PROVE SettleInv'
  <2>1. UNCHANGED <<inflight, holder, pending, ref, stamps, job>>
    BY <1>13 DEF TuiWrites, session, actors
  <2>2. CASE holder = t
    BY <2>1, <2>2, HeldStep, HoldConstants DEF SettleInv, TurnExcludes
  <2>3. CASE holder # t
    <3>1. unread' = unread
      BY <1>13, <2>3 DEF TuiWrites, SettleInv, TypeOK
    <3> QED
      BY <2>1, <3>1, RestStep
  <2> QED
    BY <2>2, <2>3
<1>14. ASSUME NEW t \in Terminals, NEW r \in Refs, TuiStarts(t, r) PROVE SettleInv'
  BY <1>14, RestStep DEF TuiStarts, session, actors, lines
<1>15. ASSUME NEW t \in Terminals, NEW r \in Refs, TuiRenames(t, r) PROVE SettleInv'
  BY <1>15, RestStep DEF TuiRenames, session, actors, lines
<1>16. ASSUME NEW t \in Terminals, TuiEnds(t) PROVE SettleInv'
  BY <1>16, RestStep DEF TuiEnds, session, actors, lines
<1>17. ASSUME NEW t \in Terminals, HookEnd(t) PROVE SettleInv'
  BY <1>17, RestStep DEF HookEnd, session, lines
<1>18. ASSUME NEW t \in Terminals, HookStaleHold(t) PROVE SettleInv'
  BY <1>18, RestStep DEF HookStaleHold, session, lines
<1>39. ASSUME NEW t \in Terminals, ReleaseHeldByHook(t) PROVE SettleInv'
  <2>1. CASE ReleaseSessionHolder(t)
    BY <1>39, <2>1, ReleaseStep DEF ReleaseHeldByHook
  <2>2. CASE UNCHANGED session
    BY <1>39, <2>2, RestStep DEF ReleaseHeldByHook, session, lines
  <2> QED
    BY <1>39, <2>1, <2>2 DEF ReleaseHeldByHook
<1>40. ASSUME NEW t \in Terminals, GivingStops(t) PROVE SettleInv'
  BY <1>40, RestStep DEF GivingStops, session, lines
<1>19. ASSUME NEW t \in Terminals, EndTerminal(t) PROVE SettleInv'
  BY <1>19, RestStep DEF EndTerminal, session, actors, lines
<1>20. ASSUME NEW t \in Terminals, KillByHandle(t) PROVE SettleInv'
  BY <1>20, RestStep DEF KillByHandle, session, actors, lines
<1>21. ASSUME NEW t \in Terminals, ReleaseAndImport(t) PROVE SettleInv'
  <2>1. CASE ReleaseSessionHolder(t)
    BY <1>21, <2>1, ReleaseStep DEF ReleaseAndImport
  <2>2. CASE UNCHANGED session
    BY <1>21, <2>2, RestStep DEF ReleaseAndImport, session, lines
  <2> QED
    BY <1>21, <2>1, <2>2 DEF ReleaseAndImport
<1>22. ASSUME NEW t \in Terminals, ClosingStops(t) PROVE SettleInv'
  BY <1>22, RestStep DEF ClosingStops, session, actors, lines
<1>23. ASSUME NEW t \in Terminals, MoveLoads(t) PROVE SettleInv'
  BY <1>23, RestStep DEF MoveLoads, session, actors, lines
<1>24. ASSUME NEW t \in Terminals, MoveReads(t) PROVE SettleInv'
  BY <1>24, RestStep DEF MoveReads, session, actors, lines
<1>25. ASSUME NEW t \in Terminals, MoveAppends(t) PROVE SettleInv'
  <2>1. UNCHANGED <<inflight, holder, pending, ref, stamps, job>>
    BY <1>25 DEF MoveAppends, session
  <2>2. PICK x, taken : unread' = [unread EXCEPT ![x] = @ \ taken]
    BY <1>25 DEF MoveAppends
  <2>3. unread \in [Refs -> SUBSET (1..MaxLines)]
    BY DEF SettleInv, TypeOK
  <2> QED
    BY <2>1, <2>2, <2>3, RestStep
<1>26. ASSUME NEW t \in Terminals, MoveHeldSessionRef(t) PROVE SettleInv'
  <2>1. UNCHANGED <<inflight, holder, pending, stamps, job, unread>>
    BY <1>26 DEF MoveHeldSessionRef, lines
  <2>2. CASE holder = t
    BY <2>1, <2>2, HeldStep, HoldConstants DEF SettleInv, TurnExcludes
  <2>3. CASE holder # t
    BY <1>26, <2>1, <2>3, RestStep DEF MoveHeldSessionRef, MoveFence
  <2> QED
    BY <2>2, <2>3
<1>27. ASSUME NEW t \in Terminals, MoveStops(t) PROVE SettleInv'
  BY <1>27, RestStep DEF MoveStops, session, actors, lines
<1>38. /\ 0 <= stamps /\ pending <= stamps /\ job \in [Jobs -> Job]
       /\ unread \in [Refs -> SUBSET (1..MaxLines)] /\ ref \in Refs
       /\ \A j \in Jobs : job[j].stamp <= stamps
       /\ \A r \in Refs : unread[r] \subseteq 1..file[r]
  BY HoldConstants DEF SettleInv, TypeOK, StampsPast
<1>28. ASSUME NEW j \in Jobs, SettleObserves(j) PROVE SettleInv'
  <2>1. job'[j].stamp <= stamps /\ job'[j].pc \notin {"read", "append", "advance"}
    BY <1>28, <1>38 DEF SettleObserves, NoJob
  <2> QED
    BY <1>28, <2>1, <1>38, JobStep DEF SettleObserves, session, lines
<1>29. ASSUME NEW j \in Jobs, SyncLoads(j) PROVE SettleInv'
  <2>1. job[j] \in Job
    BY <1>38
  <2>2. job'[j].stamp = job[j].stamp /\ job'[j].ref = ref /\ job'[j].pc = "read"
    BY <1>29, <1>38, <2>1 DEF SyncLoads, Job
  <2> QED
    BY <1>29, <2>2, <1>38, JobStep DEF SyncLoads, session, lines
<1>30. ASSUME NEW j \in Jobs, SyncReads(j) PROVE SettleInv'
  <2>1. job[j] \in Job
    BY <1>38
  <2>2. /\ job[j].pc = "read" /\ job'[j].pc = "append" /\ job'[j].stamp = job[j].stamp
        /\ job'[j].ref = job[j].ref /\ job'[j].end = file[job[j].ref]
        /\ \A k \in Jobs \ {j} : job'[k] = job[k]
        /\ UNCHANGED <<session, file, unread>>
    BY <1>30, <1>38, <2>1 DEF SyncReads, LineCount, Job, lines
  <2>3. job[j].stamp = pending /\ pending # 0 /\ holder = NoTerminal => job[j].ref = ref
    BY <2>2 DEF SettleInv, SettleOnRef
  <2> QED
    BY <2>2, <2>3, <1>38, JobStep DEF session
<1>31. ASSUME NEW j \in Jobs, AppendRecoveredMessages(j) PROVE SettleInv'
  <2>1. job[j] \in Job
    BY <1>38
  <2>2. PICK x, taken : unread' = [unread EXCEPT ![x] = @ \ taken]
    BY <1>31 DEF AppendRecoveredMessages
  <2>3. \A r \in Refs : unread'[r] \subseteq unread[r]
    BY <2>2, <1>38
  <2>4. /\ job[j].pc = "append" /\ job'[j].pc = "advance" /\ job'[j].stamp = job[j].stamp
        /\ job'[j].ref = job[j].ref /\ job'[j].end = job[j].end
        /\ \A k \in Jobs \ {j} : job'[k] = job[k]
        /\ UNCHANGED <<inflight, holder, pending, ref, stamps>>
    BY <1>31, <1>38, <2>1 DEF AppendRecoveredMessages, Job, session
  <2>5. job[j].stamp = pending /\ pending # 0 /\ holder = NoTerminal
        => job[j].ref = ref /\ unread[ref] \subseteq 1..job[j].end
    BY <2>4 DEF SettleInv, SettleSawEverything
  <2> QED
    BY <2>3, <2>4, <2>5, <1>38, JobStep
<1>32. ASSUME NEW j \in Jobs, AdvanceRuntimeSyncCursor(j) PROVE SettleInv'
  <2>1. job'[j].stamp <= stamps /\ job'[j].pc \notin {"read", "append", "advance"}
    BY <1>32, <1>38 DEF AdvanceRuntimeSyncCursor, NoJob
  <2> QED
    BY <1>32, <2>1, <1>38, JobStep DEF AdvanceRuntimeSyncCursor, session, lines
<1>33. ASSUME NEW j \in Jobs, SettleClears(j) PROVE SettleInv'
  <2>1. job'[j].stamp <= stamps /\ job'[j].pc \notin {"read", "append", "advance"}
    BY <1>33, <1>38 DEF SettleClears, NoJob
  <2> QED
    BY <1>33, <2>1, <1>38, JobStep DEF SettleClears, session, lines, Cleared
<1>34. ASSUME NEW j \in Jobs, AbandonObserves(j) PROVE SettleInv'
  <2>1. job'[j].stamp <= stamps /\ job'[j].pc \notin {"read", "append", "advance"}
    BY <1>34, <1>38 DEF AbandonObserves, NoJob
  <2> QED
    BY <1>34, <2>1, <1>38, JobStep DEF AbandonObserves, session, lines
<1>35. ASSUME NEW j \in Jobs, AbandonClears(j) PROVE SettleInv'
  <2>1. job'[j].stamp <= stamps /\ job'[j].pc \notin {"read", "append", "advance"}
    BY <1>35, <1>38 DEF AbandonClears, NoJob
  <2>2. \A r \in Refs : unread'[r] \subseteq unread[r]
    BY <1>35, <1>38 DEF AbandonClears
  <2> QED
    BY <1>35, <2>1, <2>2, JobStep DEF AbandonClears, Cleared
<1>36. ASSUME NEW j \in Jobs, JobStops(j) PROVE SettleInv'
  <2>1. job'[j].stamp <= stamps /\ job'[j].pc \notin {"read", "append", "advance"}
    BY <1>36, <1>38 DEF JobStops, NoJob
  <2> QED
    BY <1>36, <2>1, <1>38, JobStep DEF JobStops, session, lines
<1> QED
  BY <1>37, <1>1, <1>2, <1>3, <1>4, <1>5, <1>6, <1>7, <1>8, <1>9, <1>10, <1>11, <1>12, <1>13,
     <1>14, <1>15, <1>16, <1>17, <1>18, <1>19, <1>20, <1>21, <1>22, <1>23, <1>24, <1>25, <1>26,
     <1>27, <1>28, <1>29, <1>30, <1>31, <1>32, <1>33, <1>34, <1>35, <1>36, <1>39, <1>40 DEF
     Next, Turn, Terminal, Import

LEMMA SettleInit == Init => SettleInv
<1> SUFFICES ASSUME Init PROVE SettleInv
  OBVIOUS
<1>1. TypeOK
  BY TypeInit
<1>2. \A j \in Jobs : job[j].pc = "idle" /\ job[j].stamp = 0
  BY DEF Init, NoJob
<1> QED
  BY <1>1, <1>2 DEF Init, SettleInv, TurnExcludes, StampsPast, SettleOnRef, SettleSawEverything

LEMMA SettleHolds == Spec => []SettleInv
  BY SettleInit, SettleStep, PTL DEF Spec

(* What a settle read is still all there is to read whenever the stamp it      *)
(* observed is the session's: clearing importPendingSince by equality never     *)
(* lets a turn run ahead of lines a terminal wrote after the read.             *)
THEOREM SettleSawEverythingHolds == Spec => []SettleSawEverything
<1>1. SettleInv => SettleSawEverything
  BY DEF SettleInv
<1> QED
  BY <1>1, SettleHolds, PTL

-----------------------------------------------------------------------------
(* While the session keeps its ref, nothing a terminal wrote is left behind or *)
(* buried.  A sync that read up to some line has passed every line up to there *)
(* by the time it stores its cursor, and a settle that has run to its end with *)
(* a stamp still standing has left nothing.                                    *)

\* No unread line of the session's transcript lies at or below line n.
Past(n) == \A l \in unread[ref] : n < l

JobFits(j) ==
  /\ job[j].pc \in {"read", "append", "advance"} =>
       job[j].ref = ref /\ job[j].cursor <= file[ref] /\ Past(job[j].cursor)
  /\ job[j].pc \in {"append", "advance"} => job[j].end <= file[ref]
  /\ job[j].pc = "advance" => Past(job[j].end)
  /\ job[j].pc = "clear" /\ job[j].stamp = pending /\ pending # 0 /\ holder = NoTerminal
       => unread[ref] = {}

KeptInv ==
  /\ NothingLeftBehind /\ cursor <= file[ref] /\ Past(cursor)
  /\ \A j \in Jobs : JobFits(j)

\* The lines of the session's transcript and the cursors into it are numbers.
LEMMA Numbers ==
  ASSUME TypeOK
  PROVE  /\ ref \in Refs /\ file[ref] \in Nat /\ cursor \in Int /\ NoCursor \in Int
         /\ \A l \in unread[ref] : l \in Nat /\ 1 <= l /\ l <= file[ref]
         /\ \A j \in Jobs : /\ job[j] \in Job /\ job[j].cursor \in Int
                            /\ job[j].end \in Nat /\ job[j].stamp \in Nat
<1>1. ref \in Refs /\ file[ref] \in 0..MaxLines /\ cursor \in Cursors
      /\ unread[ref] \subseteq 1..file[ref]
  BY DEF TypeOK
<1>2. \A c \in Cursors : c \in Int
  BY HoldConstants DEF Cursors, NoCursor
<1>3. ASSUME NEW j \in Jobs
      PROVE  /\ job[j] \in Job /\ job[j].cursor \in Int
             /\ job[j].end \in Nat /\ job[j].stamp \in Nat
  <2>1. job[j] \in Job
    BY DEF TypeOK
  <2>2. job[j].cursor \in Cursors /\ job[j].end \in 0..MaxLines /\ job[j].stamp \in 0..MaxStamp
    BY <2>1 DEF Job
  <2> QED
    BY <1>2, <2>1, <2>2, HoldConstants
<1>4. NoCursor \in Int
  BY DEF NoCursor
<1>5. file[ref] \in Nat
  BY <1>1, HoldConstants
<1>6. ASSUME NEW l \in unread[ref] PROVE l \in Nat /\ 1 <= l /\ l <= file[ref]
  BY <1>1, <1>5
<1> QED
  BY <1>1, <1>2, <1>3, <1>4, <1>5, <1>6

\* A line that is past a number stays so: unread lines are read, or written new.
LEMMA PastStays ==
  ASSUME TypeOK, ref' = ref, NEW n \in Int, n <= file[ref], Past(n),
         \A l \in unread'[ref] : l \in unread[ref] \/ file[ref] < l,
         \A l \in unread'[ref] : l \in Nat
  PROVE  Past(n)'
<1>1. file[ref] \in Nat
  BY Numbers
<1>2. ASSUME NEW l \in unread'[ref] PROVE n < l
  BY <1>1, <1>2 DEF Past
<1> QED
  BY <1>2 DEF Past

\* The lines of a step that adds unread lines at the end of the transcript only.
LinesGrow == /\ ref' = ref /\ file[ref] <= file'[ref]
             /\ \A l \in unread'[ref] : l \in unread[ref] \/ file[ref] < l

LEMMA CursorsStay ==
  ASSUME TypeOK, TypeOK', KeptInv, LinesGrow, UNCHANGED <<cursor, job>>
  PROVE  /\ cursor' <= file'[ref'] /\ Past(cursor)'
         /\ \A j \in Jobs :
              /\ job'[j].pc \in {"read", "append", "advance"} =>
                   job'[j].ref = ref' /\ job'[j].cursor <= file'[ref'] /\ Past(job[j].cursor)'
              /\ job'[j].pc \in {"append", "advance"} => job'[j].end <= file'[ref']
              /\ job'[j].pc = "advance" => Past(job[j].end)'
<1>1. /\ ref' = ref /\ ref \in Refs /\ file[ref] \in Nat /\ file'[ref] \in Nat
      /\ file[ref] <= file'[ref]
      /\ \A l \in unread'[ref] : l \in Nat
  <2>1. file \in [Refs -> 0..MaxLines] /\ file' \in [Refs -> 0..MaxLines] /\ ref \in Refs
        /\ unread' \in [Refs -> SUBSET (1..MaxLines)]
    BY DEF TypeOK
  <2> QED
    BY <2>1, HoldConstants DEF LinesGrow
<1>2. ASSUME NEW n \in Int, n <= file[ref], Past(n)
      PROVE  n <= file'[ref'] /\ Past(n)'
  <2>1. n <= file'[ref']
    BY <1>1, <1>2
  <2>2. Past(n)'
    BY <1>1, <1>2, PastStays DEF LinesGrow
  <2> QED
    BY <2>1, <2>2
<1>3. cursor' <= file'[ref'] /\ Past(cursor)'
  <2>1. cursor \in Int /\ cursor <= file[ref] /\ Past(cursor) /\ cursor' = cursor
    BY Numbers DEF KeptInv
  <2> QED
    BY <1>2, <2>1
<1>4. ASSUME NEW j \in Jobs
      PROVE  /\ job'[j].pc \in {"read", "append", "advance"} =>
                  job'[j].ref = ref' /\ job'[j].cursor <= file'[ref'] /\ Past(job[j].cursor)'
             /\ job'[j].pc \in {"append", "advance"} => job'[j].end <= file'[ref']
             /\ job'[j].pc = "advance" => Past(job[j].end)'
  <2>1. job'[j] = job[j] /\ JobFits(j) /\ job[j].cursor \in Int /\ job[j].end \in Int
    BY Numbers DEF KeptInv
  <2>2. CASE job[j].pc \in {"read", "append", "advance"}
    <3>1. job[j].ref = ref /\ job[j].cursor <= file[ref] /\ Past(job[j].cursor)
      BY <2>1, <2>2 DEF JobFits
    <3>2. job'[j].cursor <= file'[ref'] /\ Past(job[j].cursor)'
      BY <1>2, <2>1, <3>1
    <3>3. job'[j].pc \in {"append", "advance"} => job'[j].end <= file'[ref']
      <4>1. job'[j].pc \in {"append", "advance"} => job[j].end <= file[ref]
        BY <2>1 DEF JobFits
      <4> QED
        BY <1>1, <2>1, <4>1
    <3>4. job'[j].pc = "advance" => Past(job[j].end)'
      <4>1. job'[j].pc = "advance" => job[j].end <= file[ref] /\ Past(job[j].end)
        BY <2>1 DEF JobFits
      <4> QED
        BY <1>2, <2>1, <4>1
    <3> QED
      BY <1>1, <2>1, <3>1, <3>2, <3>3, <3>4
  <2>3. CASE job[j].pc \notin {"read", "append", "advance"}
    BY <2>1, <2>3
  <2> QED
    BY <2>2, <2>3
<1> QED
  BY <1>3, <1>4

\* Steps that leave the hold alone and take lines at most away.
LEMMA RestKeeps ==
  ASSUME TypeOK, TypeOK', KeptInv, ref' = ref, file[ref] <= file'[ref],
         unread'[ref] \subseteq unread[ref],
         UNCHANGED <<holder, pending, cursor, job>>
  PROVE  KeptInv'
<1>1. LinesGrow
  BY DEF LinesGrow
<1>2. /\ cursor' <= file'[ref'] /\ Past(cursor)'
      /\ \A j \in Jobs :
           /\ job'[j].pc \in {"read", "append", "advance"} =>
                job'[j].ref = ref' /\ job'[j].cursor <= file'[ref'] /\ Past(job[j].cursor)'
           /\ job'[j].pc \in {"append", "advance"} => job'[j].end <= file'[ref']
           /\ job'[j].pc = "advance" => Past(job[j].end)'
  BY <1>1, CursorsStay
<1>3. NothingLeftBehind'
  BY DEF KeptInv, NothingLeftBehind
<1>4. ASSUME NEW j \in Jobs PROVE JobFits(j)'
  <2>1. job[j].pc = "clear" /\ job[j].stamp = pending /\ pending # 0 /\ holder = NoTerminal
        => unread[ref] = {}
    BY DEF KeptInv, JobFits
  <2>2. /\ job'[j].pc = "clear" /\ job'[j].stamp = pending' /\ pending' # 0
        /\ holder' = NoTerminal
        => unread'[ref'] = {}
    BY <2>1
  <2> QED
    BY <1>2, <2>2 DEF JobFits
<1> QED
  BY <1>2, <1>3, <1>4 DEF KeptInv

\* Steps after which the session is held.
LEMMA HeldKeeps ==
  ASSUME TypeOK, TypeOK', KeptInv, LinesGrow, UNCHANGED <<cursor, job>>, holder' # NoTerminal
  PROVE  KeptInv'
<1>1. /\ cursor' <= file'[ref'] /\ Past(cursor)'
      /\ \A j \in Jobs :
           /\ job'[j].pc \in {"read", "append", "advance"} =>
                job'[j].ref = ref' /\ job'[j].cursor <= file'[ref'] /\ Past(job[j].cursor)'
           /\ job'[j].pc \in {"append", "advance"} => job'[j].end <= file'[ref']
           /\ job'[j].pc = "advance" => Past(job[j].end)'
  BY CursorsStay
<1>2. \A j \in Jobs : JobFits(j)'
  BY <1>1 DEF JobFits
<1> QED
  BY <1>1, <1>2 DEF KeptInv, NothingLeftBehind

\* A release gives a stamp that no job has.
LEMMA ReleaseKeeps ==
  ASSUME TypeOK, TypeOK', SettleInv, KeptInv, NEW t \in Terminals, ReleaseSessionHolder(t),
         UNCHANGED <<job, lines>>
  PROVE  KeptInv'
<1>1. LinesGrow /\ UNCHANGED <<cursor, job>>
  <2>1. ref' = ref /\ file' = file /\ unread' = unread /\ cursor' = cursor
    BY DEF ReleaseSessionHolder, lines
  <2>2. file[ref] <= file'[ref]
    BY <2>1, Numbers
  <2> QED
    BY <2>1, <2>2 DEF LinesGrow
<1>2. /\ cursor' <= file'[ref'] /\ Past(cursor)'
      /\ \A j \in Jobs :
           /\ job'[j].pc \in {"read", "append", "advance"} =>
                job'[j].ref = ref' /\ job'[j].cursor <= file'[ref'] /\ Past(job[j].cursor)'
           /\ job'[j].pc \in {"append", "advance"} => job'[j].end <= file'[ref']
           /\ job'[j].pc = "advance" => Past(job[j].end)'
  BY <1>1, CursorsStay
<1>3. stamps \in Nat /\ pending' = stamps + 1
  BY HoldConstants DEF ReleaseSessionHolder, Stamp, TypeOK
<1>4. \A j \in Jobs : job[j].stamp \in Nat /\ job[j].stamp <= stamps
  BY Numbers DEF SettleInv, StampsPast
<1>5. \A j \in Jobs : job'[j].stamp # pending'
  BY <1>1, <1>3, <1>4
<1>6. \A j \in Jobs : JobFits(j)'
  BY <1>2, <1>5 DEF JobFits
<1>7. NothingLeftBehind'
  BY <1>3 DEF NothingLeftBehind
<1> QED
  BY <1>2, <1>6, <1>7 DEF KeptInv

\* Steps of a job: it takes lines at most away, and what it clears was left by
\* nobody.
LEMMA JobKeeps ==
  ASSUME TypeOK, TypeOK', KeptInv, NEW j \in Jobs,
         UNCHANGED <<holder, ref, file>>, unread'[ref] \subseteq unread[ref],
         pending' = pending \/ (pending' = 0 /\ unread'[ref] = {}),
         \A k \in Jobs \ {j} : job'[k] = job[k],
         cursor' <= file[ref], Past(cursor)', JobFits(j)'
  PROVE  KeptInv'
<1>1. NothingLeftBehind'
  BY DEF KeptInv, NothingLeftBehind
<1>2. ASSUME NEW n, Past(n) PROVE \A l \in unread'[ref'] : n < l
  BY <1>2 DEF Past
<1>3. ASSUME NEW k \in Jobs \ {j} PROVE JobFits(k)'
  <2>1. JobFits(k) /\ job'[k] = job[k]
    BY DEF KeptInv
  <2>2. /\ job'[k].pc \in {"read", "append", "advance"} =>
             job'[k].ref = ref' /\ job'[k].cursor <= file'[ref'] /\ Past(job[k].cursor)'
        /\ job'[k].pc \in {"append", "advance"} => job'[k].end <= file'[ref']
        /\ job'[k].pc = "advance" => Past(job[k].end)'
    BY <2>1 DEF JobFits, Past
  <2>3. /\ job'[k].pc = "clear" /\ job'[k].stamp = pending' /\ pending' # 0
        /\ holder' = NoTerminal
        => unread'[ref'] = {}
    BY <2>1 DEF JobFits
  <2> QED
    BY <2>2, <2>3 DEF JobFits
<1>4. \A k \in Jobs : JobFits(k)'
  BY <1>3
<1> QED
  BY <1>1, <1>4 DEF KeptInv

\* What a job has learnt when it begins to read, read, took, stored or cleared.
LEMMA JobLearns ==
  ASSUME TypeOK, TypeOK', SettleInv, KeptInv, ref' = ref, NEW j \in Jobs,
         \/ SyncLoads(j) \/ SyncReads(j) \/ AppendRecoveredMessages(j)
         \/ AdvanceRuntimeSyncCursor(j) \/ SettleClears(j)
         \/ SettleObserves(j) \/ AbandonObserves(j) \/ AbandonClears(j) \/ JobStops(j)
  PROVE  KeptInv'
<1>1. /\ job \in [Jobs -> Job] /\ job[j] \in Job /\ ref \in Refs
      /\ file[ref] \in Nat /\ cursor <= file[ref] /\ Past(cursor)
      /\ unread \in [Refs -> SUBSET (1..MaxLines)]
      /\ cursor \in Int /\ job[j].cursor \in Int /\ job[j].end \in Nat
      /\ \A l \in unread[ref] : l \in Nat /\ 1 <= l /\ l <= file[ref]
  <2>1. job \in [Jobs -> Job] /\ unread \in [Refs -> SUBSET (1..MaxLines)]
    BY DEF TypeOK
  <2> QED
    BY <2>1, Numbers DEF KeptInv
<1>2. NothingLeftBehind /\ JobFits(j)
  BY DEF KeptInv
<1>3. CASE SyncLoads(j)
  <2>1. /\ job'[j].pc = "read" /\ job'[j].ref = ref /\ job'[j].cursor = cursor
        /\ \A k \in Jobs \ {j} : job'[k] = job[k]
    BY <1>1, <1>3 DEF SyncLoads, Job
  <2>2. UNCHANGED <<holder, ref, file, unread, pending, cursor>>
    BY <1>3 DEF SyncLoads, session, lines
  <2>3. Past(cursor)'
    BY <1>1, <2>2 DEF Past
  <2>4. JobFits(j)'
    <3>1. job'[j].ref = ref' /\ job'[j].cursor <= file'[ref'] /\ Past(job[j].cursor)'
      BY <1>1, <2>1, <2>2 DEF Past
    <3> QED
      BY <2>1, <3>1 DEF JobFits
  <2> QED
    BY <1>1, <2>1, <2>2, <2>3, <2>4, JobKeeps
<1>4. CASE SyncReads(j)
  <2>1. /\ job[j].pc = "read" /\ job'[j].pc = "append" /\ job'[j].ref = job[j].ref
        /\ job'[j].cursor = job[j].cursor /\ job'[j].end = file[job[j].ref]
        /\ \A k \in Jobs \ {j} : job'[k] = job[k]
    BY <1>1, <1>4 DEF SyncReads, LineCount, Job
  <2>2. UNCHANGED <<holder, ref, file, unread, pending, cursor>>
    BY <1>4 DEF SyncReads, session, lines
  <2>3. Past(cursor)'
    BY <1>1, <2>2 DEF Past
  <2>4. JobFits(j)'
    <3>1. job[j].ref = ref /\ job[j].cursor <= file[ref] /\ Past(job[j].cursor)
      BY <1>2, <2>1 DEF JobFits
    <3>2. /\ job'[j].ref = ref' /\ job'[j].cursor <= file'[ref'] /\ Past(job[j].cursor)'
          /\ job'[j].end <= file'[ref']
      BY <1>1, <2>1, <2>2, <3>1 DEF Past
    <3> QED
      BY <2>1, <3>2 DEF JobFits
  <2> QED
    BY <1>1, <2>1, <2>2, <2>3, <2>4, JobKeeps
<1>5. CASE AppendRecoveredMessages(j)
  <2>1. /\ job[j].pc = "append" /\ job'[j].pc = "advance" /\ job'[j].ref = job[j].ref
        /\ job'[j].cursor = job[j].cursor /\ job'[j].end = job[j].end
        /\ \A k \in Jobs \ {j} : job'[k] = job[k]
    BY <1>1, <1>5 DEF AppendRecoveredMessages, Job
  <2>2. UNCHANGED <<holder, ref, file, pending, cursor>>
    BY <1>5 DEF AppendRecoveredMessages, session
  <2>3. job[j].ref = ref /\ job[j].cursor <= file[ref] /\ Past(job[j].cursor)
        /\ job[j].end <= file[ref]
    BY <1>2, <2>1 DEF JobFits
  <2>4. unread'[ref] = unread[ref] \ Taken(job[j].cursor, job[j].end)
    BY <1>1, <1>5, <2>3 DEF AppendRecoveredMessages
  <2>5. ASSUME NEW l \in unread'[ref] PROVE job[j].end < l
    <3>1. l \in unread[ref] /\ l \notin Taken(job[j].cursor, job[j].end)
      BY <2>4
    <3>2. l \in Nat /\ 1 <= l /\ job[j].cursor < l
      BY <1>1, <2>3, <3>1 DEF Past
    <3>3. CASE job[j].cursor = NoCursor
      BY <1>1, <3>1, <3>2, <3>3 DEF Taken
    <3>4. CASE job[j].cursor # NoCursor
      BY <1>1, <3>1, <3>2, <3>4 DEF Taken
    <3> QED
      BY <3>3, <3>4
  <2>6. Past(cursor)'
    BY <1>1, <2>2, <2>4 DEF Past
  <2>7. JobFits(j)'
    <3>1. /\ job'[j].ref = ref' /\ job'[j].cursor <= file'[ref'] /\ Past(job[j].cursor)'
          /\ job'[j].end <= file'[ref']
      BY <2>1, <2>2, <2>3, <2>4 DEF Past
    <3>2. Past(job[j].end)'
      BY <2>1, <2>2, <2>5 DEF Past
    <3> QED
      BY <2>1, <3>1, <3>2 DEF JobFits
  <2>8. unread'[ref] \subseteq unread[ref] /\ cursor' <= file[ref]
    BY <1>1, <2>2, <2>4
  <2> QED
    BY <2>1, <2>2, <2>6, <2>7, <2>8, JobKeeps
<1>6. CASE AdvanceRuntimeSyncCursor(j)
  <2>1. /\ job[j].pc = "advance" /\ cursor' \in {cursor, job[j].end}
        /\ UNCHANGED <<holder, pending, ref, file, unread>>
        /\ \A k \in Jobs \ {j} : job'[k] = job[k]
    BY <1>1, <1>6 DEF AdvanceRuntimeSyncCursor, lines
  <2>2. /\ job[j].ref = ref /\ job[j].end <= file[ref] /\ Past(job[j].end)
    BY <1>2, <2>1 DEF JobFits
  <2>3. cursor' <= file[ref] /\ Past(cursor)'
    BY <1>1, <2>1, <2>2 DEF Past
  <2>4. /\ job'[j].pc \in {"idle", "clear"}
        /\ job'[j].pc = "clear" => job'[j].stamp = job[j].stamp
    BY <1>1, <1>6 DEF AdvanceRuntimeSyncCursor, NoJob
  <2>5. ASSUME job'[j].pc = "clear", job'[j].stamp = pending', pending' # 0,
               holder' = NoTerminal
        PROVE  unread'[ref'] = {}
    <3>1. unread[ref] \subseteq 1..job[j].end
      BY <2>1, <2>4, <2>5 DEF SettleInv, SettleSawEverything
    <3>2. \A l \in unread[ref] : job[j].end < l
      BY <2>2 DEF Past
    <3>3. \A l \in unread[ref] : FALSE
      BY <1>1, <3>1, <3>2
    <3> QED
      BY <2>1, <3>3
  <2>6. JobFits(j)'
    BY <2>4, <2>5 DEF JobFits
  <2> QED
    BY <2>1, <2>3, <2>6, JobKeeps
<1>7. CASE SettleClears(j)
  <2>1. /\ job[j].pc = "clear" /\ pending' = Cleared(j) /\ job'[j].pc = "idle"
        /\ UNCHANGED <<holder, ref, cursor, file, unread>>
        /\ \A k \in Jobs \ {j} : job'[k] = job[k]
    BY <1>1, <1>7 DEF SettleClears, NoJob, lines
  <2>2. pending' = pending \/ (pending' = 0 /\ unread'[ref] = {})
    BY <1>2, <2>1 DEF Cleared, JobFits
  <2>3. Past(cursor)' /\ JobFits(j)' /\ cursor' <= file[ref]
    BY <1>1, <2>1 DEF Past, JobFits
  <2> QED
    BY <2>1, <2>2, <2>3, JobKeeps
<1>8. CASE SettleObserves(j) \/ AbandonObserves(j) \/ JobStops(j)
  <2>1. /\ job'[j].pc \in {"idle", "load", "giveup"}
        /\ \A k \in Jobs \ {j} : job'[k] = job[k]
    <3>1. CASE SettleObserves(j)
      BY <1>1, <3>1 DEF SettleObserves, NoJob
    <3>2. CASE AbandonObserves(j)
      BY <1>1, <3>2 DEF AbandonObserves, NoJob
    <3>3. CASE JobStops(j)
      BY <1>1, <3>3 DEF JobStops, NoJob
    <3> QED
      BY <1>8, <3>1, <3>2, <3>3
  <2>2. UNCHANGED <<holder, ref, file, unread, pending, cursor>>
    BY <1>8 DEF SettleObserves, AbandonObserves, JobStops, session, lines
  <2>3. Past(cursor)' /\ JobFits(j)' /\ cursor' <= file[ref]
    BY <1>1, <2>1, <2>2 DEF Past, JobFits
  <2> QED
    BY <2>1, <2>2, <2>3, JobKeeps
<1>9. CASE AbandonClears(j)
  <2>1. /\ pending' = Cleared(j) /\ job'[j].pc = "idle"
        /\ UNCHANGED <<holder, ref, cursor, file>>
        /\ \A k \in Jobs \ {j} : job'[k] = job[k]
    BY <1>1, <1>9 DEF AbandonClears, NoJob
  <2>2. unread' = IF pending' # pending THEN [unread EXCEPT ![ref] = {}] ELSE unread
    BY <1>9 DEF AbandonClears
  <2>3. unread'[ref] = (IF pending' # pending THEN {} ELSE unread[ref])
    BY <1>1, <2>2
  <2>4. pending' = pending \/ (pending' = 0 /\ unread'[ref] = {})
    BY <2>1, <2>3 DEF Cleared
  <2>5. Past(cursor)' /\ JobFits(j)' /\ cursor' <= file[ref]
    BY <1>1, <2>1, <2>3 DEF Past, JobFits
  <2> QED
    BY <2>1, <2>3, <2>4, <2>5, JobKeeps
<1> QED
  BY <1>3, <1>4, <1>5, <1>6, <1>7, <1>8, <1>9

\* A step that leaves row, jobs and lines alone.
LEMMA QuietKeeps ==
  ASSUME TypeOK, TypeOK', KeptInv, UNCHANGED <<holder, pending, ref, cursor, job, lines>>
  PROVE  KeptInv'
<1>1. file[ref] <= file'[ref] /\ unread'[ref] \subseteq unread[ref]
  BY Numbers DEF lines
<1> QED
  BY <1>1, RestKeeps

LEMMA TurnKeeps ==
  ASSUME TypeOK, TypeOK', SettleInv, KeptInv, ref' = ref, Turn
  PROVE  KeptInv'
<1>1. CASE ClaimInflightTurn \/ ReleaseInflightTurn
  <2>1. UNCHANGED <<holder, pending, ref, cursor, job, lines>>
    BY <1>1 DEF ClaimInflightTurn, ReleaseInflightTurn, actors
  <2> QED
    BY <2>1, QuietKeeps
<1>2. CASE TurnWrites
  <2>1. UNCHANGED <<holder, pending, ref, cursor, job, unread>>
    BY <1>2 DEF TurnWrites, session, actors
  <2>2. file[ref] <= file'[ref]
    <3>1. file \in [Refs -> 0..MaxLines] /\ ref \in Refs
      BY DEF TypeOK
    <3>2. file'[ref] = file[ref] + 1
      BY <1>2, <3>1 DEF TurnWrites
    <3> QED
      BY <3>2, Numbers
  <2> QED
    BY <2>1, <2>2, RestKeeps
<1>3. CASE SetRuntimeSyncCursor
  <2>1. /\ UNCHANGED <<holder, pending, ref, job, file, unread>>
        /\ cursor' \in {file[ref], NoCursor} /\ unread[ref] = {}
    BY <1>3 DEF SetRuntimeSyncCursor, actors, lines, SettleInv, TurnExcludes, KeptInv,
       NothingLeftBehind
  <2>2. cursor' <= file'[ref'] /\ Past(cursor)'
    BY <2>1, Numbers DEF Past, NoCursor
  <2>3. NothingLeftBehind' /\ \A j \in Jobs : JobFits(j)'
    BY <2>1 DEF KeptInv, NothingLeftBehind, JobFits, Past
  <2> QED
    BY <2>2, <2>3 DEF KeptInv
<1>4. CASE \E r \in Refs : TurnMovesRef(r)
  BY <1>4 DEF TurnMovesRef, Fresh
<1> QED
  BY <1>1, <1>2, <1>3, <1>4 DEF Turn

LEMMA TerminalKeeps ==
  ASSUME TypeOK, TypeOK', SettleInv, KeptInv, ref' = ref, NEW t \in Terminals, Terminal(t)
  PROVE  KeptInv'
<1>1. CASE \/ Open(t) \/ HookStart(t) \/ MarkHeld(t) \/ Tunnel(t) \/ TunnelFails(t)
           \/ OpeningStops(t) \/ TuiEnds(t) \/ HookEnd(t) \/ HookStaleHold(t) \/ GivingStops(t)
           \/ EndTerminal(t) \/ KillByHandle(t) \/ ClosingStops(t)
           \/ MoveLoads(t) \/ MoveReads(t) \/ MoveStops(t)
           \/ \E r \in Refs : TuiStarts(t, r) \/ TuiRenames(t, r)
  <2>1. UNCHANGED <<session, job, lines>>
    BY <1>1 DEF Open, HookStart, MarkHeld, Tunnel, TunnelFails, OpeningStops, TuiEnds, HookEnd,
       HookStaleHold, GivingStops, EndTerminal, KillByHandle, ClosingStops, MoveLoads,
       MoveReads, MoveStops, TuiStarts, TuiRenames
  <2> QED
    BY <2>1, QuietKeeps DEF session
<1>2. CASE AcquireSessionHolder(t)
  <2>1. /\ holder' = t \/ holder' = holder
        /\ UNCHANGED <<pending, ref, cursor, job, lines>>
    BY <1>2 DEF AcquireSessionHolder
  <2>2. CASE holder' = t
    <3>1. LinesGrow
      BY <2>1, Numbers DEF LinesGrow, lines
    <3> QED
      BY <2>1, <2>2, <3>1, HeldKeeps, HoldConstants
  <2> QED
    BY <2>1, <2>2, QuietKeeps
<1>3. CASE TuiWrites(t)
  <2>1. UNCHANGED <<session, job>> /\ file[ref] \in Nat /\ tui[t] \in Refs
        /\ file \in [Refs -> 0..MaxLines] /\ unread \in [Refs -> SUBSET (1..MaxLines)]
        /\ ref \in Refs
    BY <1>3, Numbers DEF TuiWrites, actors, TypeOK
  <2>2. file' = [file EXCEPT ![tui[t]] = @ + 1]
    BY <1>3 DEF TuiWrites
  <2>3. file[ref] <= file'[ref]
    BY <2>1, <2>2
  <2>4. CASE holder = t
    <3>1. unread' = [unread EXCEPT ![tui[t]] = @ \cup {file[tui[t]] + 1}]
      BY <1>3, <2>4 DEF TuiWrites
    <3>2. \A l \in unread'[ref] : l \in unread[ref] \/ file[ref] < l
      <4>1. CASE tui[t] = ref
        <5>1. unread'[ref] = unread[ref] \cup {file[ref] + 1}
          BY <2>1, <3>1, <4>1
        <5>2. file[ref] < file[ref] + 1
          BY <2>1
        <5> QED
          BY <5>1, <5>2
      <4>2. CASE tui[t] # ref
        BY <2>1, <3>1, <4>2
      <4> QED
        BY <4>1, <4>2
    <3>3. LinesGrow
      BY <2>3, <3>2 DEF LinesGrow
    <3> QED
      BY <2>1, <2>4, <3>3, HeldKeeps, HoldConstants DEF session
  <2>5. CASE holder # t
    <3>1. unread'[ref] = unread[ref]
      BY <1>3, <2>1, <2>5 DEF TuiWrites
    <3> QED
      BY <2>1, <2>3, <3>1, RestKeeps DEF session
  <2> QED
    BY <2>4, <2>5
<1>4. CASE ReleaseHeldByHook(t) \/ ReleaseAndImport(t)
  <2>1. /\ ReleaseSessionHolder(t) \/ UNCHANGED session
        /\ UNCHANGED <<job, lines>>
    BY <1>4 DEF ReleaseHeldByHook, ReleaseAndImport
  <2>2. CASE ReleaseSessionHolder(t)
    BY <2>1, <2>2, ReleaseKeeps
  <2>3. CASE UNCHANGED session
    BY <2>1, <2>3, QuietKeeps DEF session
  <2> QED
    BY <2>1, <2>2, <2>3
<1>5. CASE MoveAppends(t)
  <2>1. UNCHANGED <<session, job, file>>
    BY <1>5 DEF MoveAppends
  <2>2. PICK x, taken : unread' = [unread EXCEPT ![x] = @ \ taken]
    BY <1>5 DEF MoveAppends
  <2>3. unread \in [Refs -> SUBSET (1..MaxLines)] /\ ref \in Refs
    BY DEF TypeOK
  <2>4. unread'[ref] \subseteq unread[ref]
    BY <2>2, <2>3
  <2>5. file[ref] <= file'[ref]
    BY <2>1, Numbers
  <2> QED
    BY <2>1, <2>4, <2>5, RestKeeps DEF session
<1>6. CASE MoveHeldSessionRef(t)
  <2>1. UNCHANGED <<holder, pending, job, lines>> /\ cursor' \in {cursor, NoCursor}
    BY <1>6 DEF MoveHeldSessionRef
  <2>2. CASE cursor' = cursor
    BY <2>1, <2>2, QuietKeeps
  <2>3. CASE cursor' = NoCursor
    <3>1. cursor' <= file'[ref'] /\ Past(cursor)'
      BY <2>1, <2>3, Numbers DEF Past, NoCursor, lines
    <3>2. NothingLeftBehind' /\ \A j \in Jobs : JobFits(j)'
      BY <2>1 DEF KeptInv, NothingLeftBehind, JobFits, Past, lines
    <3> QED
      BY <3>1, <3>2 DEF KeptInv
  <2> QED
    BY <2>1, <2>2, <2>3
<1> QED
  BY <1>1, <1>2, <1>3, <1>4, <1>5, <1>6 DEF Terminal

LEMMA KeptStep ==
  TypeOK /\ TypeOK' /\ SettleInv /\ KeptInv /\ [Next]_vars /\ [ref' = ref]_ref => KeptInv'
<1> SUFFICES ASSUME TypeOK, TypeOK', SettleInv, KeptInv, [Next]_vars, ref' = ref
             PROVE  KeptInv'
  OBVIOUS
<1>1. CASE Turn
  BY <1>1, TurnKeeps
<1>2. CASE \E t \in Terminals : Terminal(t)
  BY <1>2, TerminalKeeps
<1>3. CASE \E j \in Jobs : Import(j)
  BY <1>3, JobLearns DEF Import
<1>4. CASE UNCHANGED vars
  BY <1>4, QuietKeeps DEF vars, session, actors
<1> QED
  BY <1>1, <1>2, <1>3, <1>4 DEF Next

LEMMA KeptHolds == Spec /\ [][ref' = ref]_ref => []KeptInv
<1>1. Init => KeptInv
  BY HoldConstants DEF Init, KeptInv, NothingLeftBehind, Past, JobFits, NoCursor, NoJob
<1> QED
  BY <1>1, KeptStep, TypeCorrect, SettleHolds, PTL DEF Spec

(* As long as the session stays on its transcript, nothing that a terminal     *)
(* wrote under its hold is missing from the cloud when the next turn may start: *)
(* whichever of the ways the hold was given back, with any number of imports,  *)
(* abandons and terminals at once, and whoever dies.                           *)
THEOREM NothingLeftBehindHolds == Spec /\ [][ref' = ref]_ref => []NothingLeftBehind
<1>1. KeptInv => NothingLeftBehind
  BY DEF KeptInv
<1> QED
  BY <1>1, KeptHolds, PTL

(* As long as the session stays on its transcript, its sync cursor never passes *)
(* a line the cloud lacks, so that no later import overlooks one.              *)
THEOREM NothingBuriedHolds == Spec /\ [][ref' = ref]_ref => []NothingBuried
<1>1. TypeOK /\ KeptInv => NothingBuried
  <2> SUFFICES ASSUME TypeOK, KeptInv, NEW l \in unread[ref], l \in 1..cursor
               PROVE  FALSE
    BY DEF NothingBuried
  <2>1. cursor < l /\ cursor \in Int /\ l \in Nat
    BY Numbers DEF KeptInv, Past
  <2> QED
    BY <2>1
<1> QED
  BY <1>1, KeptHolds, TypeCorrect, PTL

-----------------------------------------------------------------------------
(* The promise of one transcript: which of its steps each step of the handlers *)
(* and the jobs is.                                                            *)

\* A step of the promise changes something or stutters.
LEMMA PromiseStep ==
  ASSUME inflight \in BOOLEAN, holder \in Terminals \cup {NoTerminal},
         \/ Promised!TurnBegins \/ Promised!TurnEnds
         \/ \E t \in Terminals : Promised!Takes(t)
         \/ Promised!Gives \/ Promised!Imports \/ Promised!Settles
         \/ \E l \in 1..MaxLines : Promised!Writes(l)
         \/ \E l \in 0..MaxLines : Promised!Passes(l)
         \/ UNCHANGED Promised!transcript
  PROVE  [Promised!Next]_Promised!transcript
<1>1. CASE Promised!TurnBegins
  BY <1>1 DEF Promised!TurnBegins, Promised!Free, Promised!Next
<1>2. CASE Promised!TurnEnds
  BY <1>2 DEF Promised!TurnEnds, Promised!Next
<1>3. CASE \E t \in Terminals : Promised!Takes(t)
  BY <1>3, HoldConstants DEF Promised!Takes, Promised!Free, Promised!Next
<1>4. CASE Promised!Gives
  BY <1>4 DEF Promised!Gives, Promised!Next
<1>5. CASE Promised!Imports
  BY <1>5 DEF Promised!Imports, Promised!Next, Promised!transcript
<1>6. CASE Promised!Settles
  BY <1>6 DEF Promised!Settles, Promised!Next
<1>7. CASE \E l \in 1..MaxLines : Promised!Writes(l)
  BY <1>7 DEF Promised!Writes, Promised!Next, Promised!transcript
<1>8. CASE \E l \in 0..MaxLines : Promised!Passes(l)
  BY <1>8 DEF Promised!Passes, Promised!Next, Promised!transcript
<1>9. CASE UNCHANGED Promised!transcript
  BY <1>9
<1> QED
  BY <1>1, <1>2, <1>3, <1>4, <1>5, <1>6, <1>7, <1>8, <1>9

\* Steps that leave the row and the unread lines of the session's transcript.
LEMMA QuietPromise ==
  ASSUME UNCHANGED <<inflight, holder, pending, ref, cursor>>, unread'[ref] = unread[ref]
  PROVE  UNCHANGED Promised!transcript
BY DEF Promised!transcript, LinesPassed

\* Steps that only take lines of the session's transcript, beside any turn.
LEMMA ImportPromise ==
  ASSUME UNCHANGED <<inflight, holder, pending, ref, cursor>>, ~inflight,
         unread'[ref] \subseteq unread[ref]
  PROVE  Promised!Imports
BY DEF Promised!Imports, LinesPassed

\* Steps that only set the cursor, to a line that no unread one lies below.
LEMMA PassPromise ==
  ASSUME TypeOK, UNCHANGED <<inflight, holder, pending, ref, unread>>,
         cursor' \in Cursors, Past(cursor)', holder = NoTerminal \/ cursor' = NoCursor
  PROVE  \E l \in 0..MaxLines : Promised!Passes(l)
<1>1. LinesPassed' \in 0..MaxLines
  BY HoldConstants DEF LinesPassed, Cursors
<1>2. \A x \in unread[ref] : LinesPassed' < x
  <2>1. \A x \in unread[ref] : x \in Nat /\ 1 <= x
    BY Numbers
  <2> QED
    BY <2>1 DEF Past, LinesPassed
<1>3. holder = NoTerminal \/ LinesPassed' = 0
  BY DEF LinesPassed
<1>4. Promised!Passes(LinesPassed')
  BY <1>2, <1>3 DEF Promised!Passes
<1> QED
  BY <1>1, <1>4

LEMMA TurnPromise ==
  ASSUME TypeOK, TypeOK', SettleInv, KeptInv, KeptInv', ref' = ref, Turn
  PROVE  [Promised!Next]_Promised!transcript
<1> USE DEF TypeOK
<1>1. CASE ClaimInflightTurn
  <2>1. Promised!TurnBegins
    BY <1>1 DEF ClaimInflightTurn, Claimable, Idle, lines, Promised!TurnBegins, Promised!Free,
       LinesPassed
  <2> QED
    BY <2>1, PromiseStep
<1>2. CASE ReleaseInflightTurn
  <2>1. Promised!TurnEnds
    BY <1>2 DEF ReleaseInflightTurn, lines, Promised!TurnEnds, LinesPassed
  <2> QED
    BY <2>1, PromiseStep
<1>3. CASE TurnWrites
  <2>1. UNCHANGED Promised!transcript
    BY <1>3, QuietPromise DEF TurnWrites, session
  <2> QED
    BY <2>1, PromiseStep
<1>4. CASE SetRuntimeSyncCursor
  <2>1. holder = NoTerminal
    BY <1>4 DEF SetRuntimeSyncCursor, SettleInv, TurnExcludes
  <2>2. \E l \in 0..MaxLines : Promised!Passes(l)
    BY <1>4, <2>1, PassPromise DEF SetRuntimeSyncCursor, lines, KeptInv
  <2> QED
    BY <2>2, PromiseStep
<1>5. CASE \E r \in Refs : TurnMovesRef(r)
  BY <1>5 DEF TurnMovesRef, Fresh
<1> QED
  BY <1>1, <1>2, <1>3, <1>4, <1>5 DEF Turn

LEMMA TerminalPromise ==
  ASSUME TypeOK, TypeOK', SettleInv, KeptInv, KeptInv', ref' = ref,
         NEW t \in Terminals, Terminal(t)
  PROVE  [Promised!Next]_Promised!transcript
<1>0. /\ inflight \in BOOLEAN /\ holder \in Terminals \cup {NoTerminal}
      /\ t # NoTerminal /\ ref \in Refs
      /\ file \in [Refs -> 0..MaxLines] /\ unread \in [Refs -> SUBSET (1..MaxLines)]
  BY HoldConstants DEF TypeOK
<1>1. CASE \/ Open(t) \/ HookStart(t) \/ MarkHeld(t) \/ Tunnel(t) \/ TunnelFails(t)
           \/ OpeningStops(t) \/ TuiEnds(t) \/ HookEnd(t) \/ HookStaleHold(t) \/ GivingStops(t)
           \/ EndTerminal(t) \/ KillByHandle(t) \/ ClosingStops(t)
           \/ MoveLoads(t) \/ MoveReads(t) \/ MoveStops(t)
           \/ \E r \in Refs : TuiStarts(t, r) \/ TuiRenames(t, r)
  <2>1. UNCHANGED <<session, lines>>
    BY <1>1 DEF Open, HookStart, MarkHeld, Tunnel, TunnelFails, OpeningStops, TuiEnds, HookEnd,
       HookStaleHold, GivingStops, EndTerminal, KillByHandle, ClosingStops, MoveLoads,
       MoveReads, MoveStops, TuiStarts, TuiRenames
  <2>2. UNCHANGED Promised!transcript
    BY <2>1, QuietPromise DEF session, lines
  <2> QED
    BY <1>0, <2>2, PromiseStep
<1>2. CASE AcquireSessionHolder(t)
  <2>1. Promised!Takes(t) \/ UNCHANGED Promised!transcript
    <3>1. CASE Idle /\ holder' = t
      BY <1>2, <3>1 DEF AcquireSessionHolder, Idle, lines, Promised!Takes, Promised!Free,
         LinesPassed
    <3>2. CASE holder' = holder
      BY <1>2, <3>2, QuietPromise DEF AcquireSessionHolder, lines
    <3> QED
      BY <1>2, <3>1, <3>2 DEF AcquireSessionHolder
  <2> QED
    BY <1>0, <2>1, PromiseStep
<1>3. CASE TuiWrites(t)
  <2>1. UNCHANGED session /\ tui[t] \in Refs /\ file[tui[t]] < MaxLines
    BY <1>3 DEF TuiWrites, TypeOK
  <2>2. CASE holder = t /\ tui[t] = ref
    <3>1. unread'[ref] = unread[ref] \cup {file[ref] + 1}
      BY <1>0, <1>3, <2>2 DEF TuiWrites
    <3>2. file[ref] + 1 \in 1..MaxLines
      BY <1>0, <2>1, <2>2, HoldConstants
    <3>3. file[ref] + 1 > LinesPassed /\ \A x \in unread[ref] : x < file[ref] + 1
      BY <1>0, Numbers DEF LinesPassed, KeptInv
    <3>4. ~inflight /\ LinesPassed' = LinesPassed
      BY <1>0, <2>1, <2>2 DEF SettleInv, TurnExcludes, LinesPassed, session
    <3>5. Promised!Writes(file[ref] + 1)
      BY <1>0, <2>1, <2>2, <3>1, <3>3, <3>4 DEF session, Promised!Writes
    <3> QED
      BY <1>0, <3>2, <3>5, PromiseStep
  <2>3. CASE ~(holder = t /\ tui[t] = ref)
    <3>1. unread'[ref] = unread[ref]
      BY <1>0, <1>3, <2>1, <2>3 DEF TuiWrites
    <3>2. UNCHANGED Promised!transcript
      BY <2>1, <3>1, QuietPromise DEF session
    <3> QED
      BY <1>0, <3>2, PromiseStep
  <2> QED
    BY <2>2, <2>3
<1>4. CASE ReleaseHeldByHook(t) \/ ReleaseAndImport(t)
  <2>1. ReleaseSessionHolder(t) \/ UNCHANGED session
    BY <1>4 DEF ReleaseHeldByHook, ReleaseAndImport
  <2>2. UNCHANGED lines
    BY <1>4 DEF ReleaseHeldByHook, ReleaseAndImport
  <2>3. CASE ReleaseSessionHolder(t)
    <3>1. stamps \in Nat /\ pending' = stamps + 1
      BY <2>3, HoldConstants DEF ReleaseSessionHolder, Stamp, TypeOK
    <3>2. pending' # 0
      BY <3>1
    <3>3. ~inflight /\ LinesPassed' = LinesPassed
      BY <1>0, <2>3 DEF ReleaseSessionHolder, SettleInv, TurnExcludes, LinesPassed
    <3>4. Promised!Gives
      BY <1>0, <2>2, <2>3, <3>2, <3>3 DEF ReleaseSessionHolder, lines, Promised!Gives
    <3> QED
      BY <1>0, <3>4, PromiseStep
  <2>4. CASE UNCHANGED session
    <3>1. UNCHANGED Promised!transcript
      BY <2>2, <2>4, QuietPromise DEF session, lines
    <3> QED
      BY <1>0, <3>1, PromiseStep
  <2> QED
    BY <2>1, <2>3, <2>4
<1>5. CASE MoveAppends(t)
  <2> DEFINE m == moving[t]
             taken == Taken(m.cursor, m.end) \cap unread[m.from]
  <2>1. /\ UNCHANGED session /\ unread' = [unread EXCEPT ![m.from] = @ \ taken]
        /\ taken = {} \/ ~inflight
    BY <1>5 DEF MoveAppends
  <2>2. CASE taken = {}
    <3>1. unread'[ref] = unread[ref]
      BY <1>0, <2>1, <2>2
    <3>2. UNCHANGED Promised!transcript
      BY <2>1, <3>1, QuietPromise DEF session
    <3> QED
      BY <1>0, <3>2, PromiseStep
  <2>3. CASE ~inflight
    <3>1. unread'[ref] \subseteq unread[ref]
      BY <1>0, <2>1
    <3>2. Promised!Imports
      BY <2>1, <2>3, <3>1, ImportPromise DEF session
    <3> QED
      BY <1>0, <3>2, PromiseStep
  <2> QED
    BY <2>1, <2>2, <2>3
<1>6. CASE MoveHeldSessionRef(t)
  <2>1. /\ UNCHANGED <<inflight, holder, pending, file, unread>>
        /\ cursor' \in {cursor, NoCursor}
    BY <1>6 DEF MoveHeldSessionRef, lines
  <2>2. CASE cursor' = cursor
    <3>1. UNCHANGED Promised!transcript
      BY <2>1, <2>2, QuietPromise
    <3> QED
      BY <1>0, <3>1, PromiseStep
  <2>3. CASE cursor' = NoCursor
    <3>1. \E l \in 0..MaxLines : Promised!Passes(l)
      BY <2>1, <2>3, PassPromise, NewRecords DEF KeptInv
    <3> QED
      BY <1>0, <3>1, PromiseStep
  <2> QED
    BY <2>1, <2>2, <2>3
<1> QED
  BY <1>1, <1>2, <1>3, <1>4, <1>5, <1>6 DEF Terminal

LEMMA JobPromise ==
  ASSUME TypeOK, TypeOK', SettleInv, KeptInv, KeptInv', ref' = ref,
         NEW j \in Jobs, Import(j)
  PROVE  [Promised!Next]_Promised!transcript
<1>0. /\ inflight \in BOOLEAN /\ holder \in Terminals \cup {NoTerminal}
      /\ ref \in Refs /\ unread \in [Refs -> SUBSET (1..MaxLines)] /\ pending \in Nat
      /\ cursor' \in Cursors
  BY HoldConstants DEF TypeOK
<1>1. CASE \/ SettleObserves(j) \/ SyncLoads(j) \/ SyncReads(j)
           \/ AbandonObserves(j) \/ JobStops(j)
  <2>1. UNCHANGED <<session, lines>>
    BY <1>1 DEF SettleObserves, SyncLoads, SyncReads, AbandonObserves, JobStops
  <2>2. UNCHANGED Promised!transcript
    BY <2>1, QuietPromise DEF session, lines
  <2> QED
    BY <1>0, <2>2, PromiseStep
<1>2. CASE AppendRecoveredMessages(j)
  <2> DEFINE taken == Taken(job[j].cursor, job[j].end) \cap unread[job[j].ref]
  <2>1. /\ UNCHANGED session /\ unread' = [unread EXCEPT ![job[j].ref] = @ \ taken]
        /\ taken = {} \/ Idle
    BY <1>2 DEF AppendRecoveredMessages
  <2>2. CASE taken = {}
    <3>1. unread'[ref] = unread[ref]
      BY <1>0, <2>1, <2>2
    <3>2. UNCHANGED Promised!transcript
      BY <2>1, <3>1, QuietPromise DEF session
    <3> QED
      BY <1>0, <3>2, PromiseStep
  <2>3. CASE Idle
    <3>1. unread'[ref] \subseteq unread[ref]
      BY <1>0, <2>1
    <3>2. Promised!Imports
      BY <2>1, <2>3, <3>1, ImportPromise DEF session, Idle
    <3> QED
      BY <1>0, <3>2, PromiseStep
  <2> QED
    BY <2>1, <2>2, <2>3
<1>3. CASE AdvanceRuntimeSyncCursor(j)
  <2>1. /\ UNCHANGED <<inflight, holder, pending, file, unread>>
        /\ cursor' = cursor \/ holder = NoTerminal
    BY <1>3 DEF AdvanceRuntimeSyncCursor, lines, Idle
  <2>2. CASE cursor' = cursor
    <3>1. UNCHANGED Promised!transcript
      BY <2>1, <2>2, QuietPromise
    <3> QED
      BY <1>0, <3>1, PromiseStep
  <2>3. CASE holder = NoTerminal
    <3>1. \E l \in 0..MaxLines : Promised!Passes(l)
      BY <1>0, <2>1, <2>3, PassPromise DEF KeptInv
    <3> QED
      BY <1>0, <3>1, PromiseStep
  <2> QED
    BY <2>1, <2>2, <2>3
<1>4. CASE SettleClears(j) \/ AbandonClears(j)
  <2>1. UNCHANGED <<inflight, holder, cursor>> /\ pending' = Cleared(j)
    BY <1>4 DEF SettleClears, AbandonClears
  <2>2. CASE pending' = pending
    <3>1. unread'[ref] = unread[ref]
      BY <1>4, <2>2 DEF SettleClears, AbandonClears, lines
    <3>2. UNCHANGED Promised!transcript
      BY <2>1, <2>2, <3>1, QuietPromise
    <3> QED
      BY <1>0, <3>2, PromiseStep
  <2>3. CASE pending' # pending
    <3>1. pending' = 0 /\ pending # 0 /\ holder = NoTerminal /\ pending = job[j].stamp
      BY <2>1, <2>3 DEF Cleared
    <3>2. unread'[ref] = {}
      <4>1. CASE SettleClears(j)
        BY <3>1, <4>1 DEF SettleClears, lines, KeptInv, JobFits
      <4>2. CASE AbandonClears(j)
        BY <1>0, <2>3, <4>2 DEF AbandonClears
      <4> QED
        BY <1>4, <4>1, <4>2
    <3>3. LinesPassed' = LinesPassed
      BY <2>1 DEF LinesPassed
    <3>4. Promised!Settles
      BY <2>1, <3>1, <3>2, <3>3 DEF Promised!Settles
    <3> QED
      BY <1>0, <3>4, PromiseStep
  <2> QED
    BY <2>2, <2>3
<1> QED
  BY <1>1, <1>2, <1>3, <1>4 DEF Import

(* As long as the session stays on its transcript, everything the handlers,    *)
(* hooks and jobs do to it, with any number of them at once and whoever dies,  *)
(* is a step of the promise: one writer at a time, an import owed from the step *)
(* that gives a hold back, no turn before it is settled, no line passed by.    *)
THEOREM ImplementsTranscript == Spec /\ [][ref' = ref]_ref => KeepsTranscript
<1>1. Init => Promised!Init
  <2> SUFFICES ASSUME Init PROVE Promised!Init
    OBVIOUS
  <2>1. /\ inflight = FALSE /\ holder = NoTerminal /\ pending = 0 /\ unread[ref] = {}
        /\ LinesPassed = 0
    BY HoldConstants DEF Init, LinesPassed
  <2> QED
    BY <2>1 DEF Promised!Init
<1>2. TypeOK /\ TypeOK' /\ SettleInv /\ KeptInv /\ KeptInv' /\ [Next]_vars /\ [ref' = ref]_ref
      => [Promised!Next]_Promised!transcript
  <2> SUFFICES ASSUME TypeOK, TypeOK', SettleInv, KeptInv, KeptInv', [Next]_vars, ref' = ref
               PROVE  [Promised!Next]_Promised!transcript
    OBVIOUS
  <2>1. CASE Turn
    BY <2>1, TurnPromise
  <2>2. CASE \E t \in Terminals : Terminal(t)
    BY <2>2, TerminalPromise
  <2>3. CASE \E j \in Jobs : Import(j)
    BY <2>3, JobPromise
  <2>4. CASE UNCHANGED vars
    BY <2>4, QuietPromise DEF vars, session, lines
  <2> QED
    BY <2>1, <2>2, <2>3, <2>4 DEF Next
<1> QED
  BY <1>1, <1>2, TypeCorrect, SettleHolds, KeptHolds, PTL DEF Spec, KeepsTranscript,
     Promised!Spec

(* The session stays on its transcript if there is no other one.               *)
THEOREM OneTranscript ==
  ASSUME Refs = {FirstRef}
  PROVE  Spec => [](NothingLeftBehind /\ NothingBuried) /\ KeepsTranscript
<1>1. TypeOK /\ TypeOK' => [ref' = ref]_ref
  BY DEF TypeOK
<1> QED
  BY <1>1, TypeCorrect, NothingLeftBehindHolds, NothingBuriedHolds, ImplementsTranscript, PTL
=============================================================================
