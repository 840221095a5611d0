------------------------- MODULE TurnSafety_proofs -------------------------
(***************************************************************************)
(* TurnOwnership for any instances, messages and bounds: its types, the    *)
(* layers of TurnInvariant, which hold in every reachable state, and with  *)
(* them its safety properties.                                             *)
(***************************************************************************)
EXTENDS TurnInvariant, SequenceTheorems, TLAPS

-----------------------------------------------------------------------------
(***************************************************************************)
(* Types of the database rows and of the instances' memory.                *)
(***************************************************************************)
DbType ==
    /\ inflight \in Message \cup {None}
    /\ exec \in [Message -> ExecRow]
    /\ log \in [Message -> Seq(EventRow)]
    /\ minted \in SUBSET Message
    /\ written \in SUBSET Message
    /\ cancelReq \in SUBSET Message

LocalType ==
    /\ carrier \in [Instance -> [Message -> Carrier]]
    /\ stream \in [Instance -> [Message -> Stream]]
    /\ closer \in [Instance -> [Message -> Closer]]
    /\ sweeper \in [Instance -> [Message -> Claim]]
    /\ waiter \in [Instance -> [Message -> Nat]]
    /\ draining \in [Instance -> BOOLEAN]

\* TypeOK is the two together.
LEMMA TypeSplit == TypeOK <=> DbType /\ LocalType
  BY DEF TypeOK, DbType, LocalType

\* The constant records have their types.
LEMMA Records ==
  /\ NoExec \in ExecRow /\ Idle \in Carrier /\ NoStream \in Stream
  /\ NoCloser \in Closer /\ NoClaim \in Claim
BY DEF NoExec, ExecRow, Idle, Carrier, Kinds, NoStream, Stream,
       NoCloser, Closer, TerminalKinds, NoClaim, Claim

\* Updates of one field of an execution row.
LEMMA RowUpdates ==
  ASSUME NEW row \in ExecRow
  PROVE  /\ \A s \in OpenStates \cup ClosedStates :
              [row EXCEPT !.state = s] \in ExecRow
         /\ \A b \in BOOLEAN : [row EXCEPT !.lapsed = b] \in ExecRow
         /\ [row EXCEPT !.adopts = @ + 1] \in ExecRow
         /\ \A i \in Instance, s \in OpenStates :
              [row EXCEPT !.state = s, !.owner = i, !.gen = @ + 1,
                          !.lapsed = FALSE] \in ExecRow
         /\ [row EXCEPT !.state = "handoff", !.lapsed = FALSE] \in ExecRow
         /\ \A s \in ClosedStates :
              [row EXCEPT !.state = s, !.lapsed = FALSE] \in ExecRow
<1>1. ASSUME NEW s \in OpenStates \cup ClosedStates
      PROVE  [row EXCEPT !.state = s] \in ExecRow
  BY DEF ExecRow
<1>2. ASSUME NEW b \in BOOLEAN
      PROVE  [row EXCEPT !.lapsed = b] \in ExecRow
  BY DEF ExecRow
<1>3. [row EXCEPT !.adopts = @ + 1] \in ExecRow
  BY DEF ExecRow
<1>4. ASSUME NEW i \in Instance, NEW s \in OpenStates
      PROVE  [row EXCEPT !.state = s, !.owner = i, !.gen = @ + 1,
                         !.lapsed = FALSE] \in ExecRow
  <2>1. row.gen + 1 \in Nat
    BY DEF ExecRow
  <2> QED
    BY <2>1 DEF ExecRow
<1>5. [row EXCEPT !.state = "handoff", !.lapsed = FALSE] \in ExecRow
  BY DEF ExecRow, OpenStates
<1>6. ASSUME NEW s \in ClosedStates
      PROVE  [row EXCEPT !.state = s, !.lapsed = FALSE] \in ExecRow
  BY DEF ExecRow
<1> QED
  BY <1>1, <1>2, <1>3, <1>4, <1>5, <1>6

\* Takeovers, handoffs and first stamps yield execution rows.
LEMMA RowTypes ==
  ASSUME DbType, NEW i \in Instance, NEW m \in Message
  PROVE  /\ exec[m] \in ExecRow
         /\ \A s \in OpenStates : TakenOver(i, m, s) \in ExecRow
         /\ \A g \in Nat : HandedOff(i, m, g) \in ExecRow
         /\ FirstRow(i) \in ExecRow
         /\ exec[m].gen \in Nat
<1>1. exec[m] \in ExecRow
  BY DEF DbType
<1>2. FirstRow(i) \in ExecRow
  BY DEF FirstRow, ExecRow, OpenStates
<1>3. exec[m].gen \in Nat
  BY <1>1 DEF ExecRow
<1> QED
  BY <1>1, <1>2, <1>3, RowUpdates DEF TakenOver, HandedOff

\* A row written to the execution table keeps its type.
LEMMA ExecUpdate ==
  ASSUME DbType, NEW m \in Message, NEW row \in ExecRow
  PROVE  [exec EXCEPT ![m] = row] \in [Message -> ExecRow]
BY DEF DbType

\* A record written to one slot of an instance's memory keeps the types.
LEMMA SlotUpdate ==
  ASSUME NEW S, NEW f \in [Instance -> [Message -> S]],
         NEW i \in Instance, NEW m \in Message, NEW v \in S
  PROVE  [f EXCEPT ![i][m] = v] \in [Instance -> [Message -> S]]
OBVIOUS

\* SetCarrier stores a carrier.
LEMMA CarrierUpdate ==
  ASSUME LocalType, NEW i \in Instance, NEW m \in Message,
         NEW c \in Carrier, SetCarrier(i, m, c)
  PROVE  carrier' \in [Instance -> [Message -> Carrier]]
BY SlotUpdate DEF SetCarrier, LocalType

\* The stream operations store streams.
LEMMA StreamUpdate ==
  ASSUME LocalType, NEW i \in Instance, NEW m \in Message, NEW g \in Nat,
         DropStream(i, m) \/ OpenStream(i, m, g) \/ EndStream(i, m, g)
           \/ UNCHANGED stream
  PROVE  stream' \in [Instance -> [Message -> Stream]]
<1>0. stream \in [Instance -> [Message -> Stream]]
  BY DEF LocalType
<1>1. [up |-> TRUE, ended |-> FALSE, gen |-> g] \in Stream
  BY DEF Stream
<1>2. CASE DropStream(i, m)
  BY <1>0, <1>2, Records, SlotUpdate DEF DropStream
<1>3. CASE OpenStream(i, m, g)
  BY <1>0, <1>1, <1>3, SlotUpdate DEF OpenStream
<1>4. CASE EndStream(i, m, g)
  <2>1. stream' = stream \/ DropStream(i, m)
    BY <1>4 DEF EndStream, DropStream
  <2> QED
    BY <1>0, <1>2, <2>1
<1> QED
  BY <1>0, <1>2, <1>3, <1>4

\* A handoff or takeover that may not have happened keeps the rows typed.
LEMMA RowMayChange ==
  ASSUME DbType, NEW m \in Message, NEW row \in ExecRow,
         exec' = [exec EXCEPT ![m] = row] \/ exec' = exec
  PROVE  exec' \in [Message -> ExecRow]
BY ExecUpdate DEF DbType

\* An accepted or refused terminal keeps the rows well typed.
LEMMA InsertTerminalType ==
  ASSUME DbType, NEW i \in Instance, NEW m \in Message, NEW g \in Nat,
         NEW by \in Nat, NEW kind \in TerminalKinds,
         InsertTerminal(i, m, g, by, kind)
  PROVE  DbType'
<1>1. CASE TerminalAccepted(i, m, g)
  <2>1. [kind |-> kind, gen |-> g, by |-> by] \in EventRow
    BY DEF EventRow
  <2>2. log' \in [Message -> Seq(EventRow)]
    <3> DEFINE row == [kind |-> kind, gen |-> g, by |-> by]
    <3>1. log[m] \in Seq(EventRow)
      BY DEF DbType
    <3>2. Append(log[m], row) \in Seq(EventRow)
      BY <2>1, <3>1, AppendProperties
    <3>3. log' = [log EXCEPT ![m] = Append(log[m], row)]
      BY <1>1 DEF InsertTerminal
    <3> HIDE DEF row
    <3> QED
      BY <3>2, <3>3 DEF DbType
  <2>3. inflight' \in Message \cup {None}
    <3>1. inflight' = IF inflight = m THEN None ELSE inflight
      BY <1>1 DEF InsertTerminal
    <3> QED
      BY <3>1 DEF DbType
  <2>4. exec' \in [Message -> ExecRow]
    <3>1. ClosedAs(kind) \in ClosedStates
      BY DEF ClosedAs, TerminalKinds, ClosedStates
    <3>2. [exec[m] EXCEPT !.state = ClosedAs(kind), !.lapsed = FALSE] \in ExecRow
      BY <3>1, RowUpdates DEF DbType
    <3>3. exec' = exec
          \/ exec' = [exec EXCEPT ![m] =
                         [exec[m] EXCEPT !.state = ClosedAs(kind), !.lapsed = FALSE]]
      BY <1>1 DEF InsertTerminal, CloseExecution
    <3> QED
      BY <3>2, <3>3, ExecUpdate DEF DbType
  <2> QED
    BY <1>1, <2>2, <2>3, <2>4 DEF InsertTerminal, DbType
<1>2. CASE ~TerminalAccepted(i, m, g)
  BY <1>2 DEF InsertTerminal, DbType, db
<1> QED
  BY <1>1, <1>2

\* So does a non-terminal row.
LEMMA InsertRowType ==
  ASSUME DbType, NEW i \in Instance, NEW m \in Message, NEW g \in Nat,
         NEW by \in Nat, InsertRow(i, m, g, by)
  PROVE  DbType'
<1>1. [kind |-> "row", gen |-> g, by |-> by] \in EventRow
  BY DEF EventRow
<1>2. log' \in [Message -> Seq(EventRow)]
  BY <1>1 DEF InsertRow, DbType
<1> QED
  BY <1>2 DEF InsertRow, DbType

\* A release of the slot changes nothing else.
LEMMA ReleaseSlotType ==
  ASSUME DbType, NEW m \in Message, ReleaseSlot(m)
  PROVE  DbType'
BY DEF DbType, ReleaseSlot

-----------------------------------------------------------------------------
(***************************************************************************)
(* One lemma per group of actions, one step per action.                    *)
(***************************************************************************)
\* Dispatch keeps the types.
LEMMA DispatchType ==
  ASSUME DbType, LocalType, NEW i \in Instance, NEW m \in Message,
         Dispatch(i, m)
  PROVE  DbType' /\ LocalType'
<1>a. \A k \in Kinds, n \in Nat, a \in {"no", "cancel", "lost"} :
         [kind |-> k, gen |-> n, abort |-> a] \in Carrier
  BY DEF Carrier
<1>b. \A u, e \in BOOLEAN, n \in Nat : [up |-> u, ended |-> e, gen |-> n] \in Stream
  BY DEF Stream
<1>1. CASE ClaimTurn(i, m)
  <2>1. [Idle EXCEPT !.kind = "setup"] \in Carrier
    BY DEF Idle, Carrier, Kinds
  <2>2. DbType'
    BY <1>1 DEF ClaimTurn, DbType
  <2> QED
    BY <1>1, <2>1, <2>2, SlotUpdate DEF ClaimTurn, LocalType, SetCarrier
<1>2. CASE SetupFails(i, m)
  <2>1. DbType'
    BY <1>2, ReleaseSlotType DEF SetupFails
  <2> QED
    BY <1>2, <2>1, Records, SlotUpdate DEF SetupFails, LocalType, SetCarrier
<1>3. CASE StartTurn(i, m)
  <2>1. [Idle EXCEPT !.kind = "dispatch"] \in Carrier
    BY DEF Idle, Carrier, Kinds
  <2>2. DbType'
    BY <1>3 DEF StartTurn, DbType
  <2>3. stream' \in [Instance -> [Message -> Stream]]
    BY <1>3, <1>b, SlotUpdate DEF StartTurn, OpenStream, LocalType
  <2> QED
    BY <1>3, <2>1, <2>2, <2>3, SlotUpdate DEF StartTurn, LocalType, SetCarrier
<1>4. CASE DispatchFails(i, m)
  <2>1. DbType'
    BY <1>4, ReleaseSlotType DEF DispatchFails
  <2> QED
    BY <1>4, <2>1, Records, SlotUpdate
    DEF DispatchFails, LocalType, SetCarrier, DropStream
<1>5. CASE StampExecution(i, m)
  <2>1. exec' \in [Message -> ExecRow]
    BY <1>5, RowTypes, ExecUpdate DEF StampExecution
  <2>2. carrier[i][m] \in Carrier /\ stream[i][m] \in Stream
    BY DEF LocalType
  <2>3. [carrier[i][m] EXCEPT !.gen = 1] \in Carrier
    BY <2>2 DEF Carrier
  <2>4. stream' \in [Instance -> [Message -> Stream]]
    <3>1. \A n \in Nat : [stream[i][m] EXCEPT !.gen = n] \in Stream
      BY <2>2 DEF Stream
    <3>2. stream[i][m].gen \in Nat
      BY <2>2 DEF Stream
    <3>3. stream' = [stream EXCEPT ![i][m] =
             [stream[i][m] EXCEPT !.gen =
                IF stream[i][m].up THEN 1 ELSE stream[i][m].gen]]
      BY <1>5 DEF StampExecution, SetStreamFence
    <3> QED
      BY <3>1, <3>2, <3>3, SlotUpdate DEF LocalType
  <2>5. DbType'
    BY <1>5, <2>1 DEF StampExecution, DbType
  <2> QED
    BY <1>5, <2>3, <2>4, <2>5, SlotUpdate DEF StampExecution, LocalType, SetCarrier
<1>6. CASE StampAnswerLost(i, m)
  <2>1. exec' \in [Message -> ExecRow]
    BY <1>6, RowTypes, ExecUpdate DEF StampAnswerLost
  <2>2. DbType'
    BY <1>6, <2>1 DEF StampAnswerLost, DbType
  <2> QED
    BY <1>6, <2>2, Records, SlotUpdate
    DEF StampAnswerLost, LocalType, SetCarrier, DropStream
<1>7. CASE StampRefused(i, m)
  <2>1. DbType'
    BY <1>7, InsertTerminalType DEF StampRefused, TerminalKinds
  <2> QED
    BY <1>7, <2>1, Records, SlotUpdate
    DEF StampRefused, LocalType, SetCarrier, DropStream
<1> QED
  BY <1>1, <1>2, <1>3, <1>4, <1>5, <1>6, <1>7 DEF Dispatch

\* Carriers keep the types.
LEMMA CarryType ==
  ASSUME DbType, LocalType, NEW i \in Instance, NEW m \in Message,
         Carry(i, m)
  PROVE  DbType' /\ LocalType'
<1>a. carrier[i][m] \in Carrier /\ carrier[i][m].gen \in Nat
  BY DEF LocalType, Carrier
<1>b. stream[i][m] \in Stream /\ stream[i][m].gen \in Nat
  BY DEF LocalType, Stream
<1>c. \A a \in {"no", "cancel", "lost"} :
         [carrier[i][m] EXCEPT !.abort = a] \in Carrier
  BY <1>a DEF Carrier
<1>1. CASE CarrierEmits(i, m)
  <2>1. CASE RowAccepted(i, m, stream[i][m].gen)
    <3>1. InsertRow(i, m, stream[i][m].gen, carrier[i][m].gen)
          /\ UNCHANGED local
      BY <1>1, <2>1 DEF CarrierEmits, local
    <3> QED
      BY <3>1, <1>a, <1>b, InsertRowType DEF local, LocalType
  <2>2. CASE ~RowAccepted(i, m, stream[i][m].gen)
    <3>1. /\ UNCHANGED db /\ DropStream(i, m)
          /\ \/ SetCarrier(i, m, [carrier[i][m] EXCEPT !.abort = "lost"])
             \/ SetCarrier(i, m, carrier[i][m])
          /\ UNCHANGED <<closer, sweeper, waiter, draining>>
      BY <1>1, <2>2 DEF CarrierEmits
    <3>2. DbType'
      BY <3>1 DEF db, DbType
    <3>3. carrier' \in [Instance -> [Message -> Carrier]]
      BY <3>1, <1>a, <1>c, CarrierUpdate
    <3>4. stream' \in [Instance -> [Message -> Stream]]
      BY <3>1, <1>b, StreamUpdate
    <3> QED
      BY <3>1, <3>2, <3>3, <3>4 DEF LocalType
  <2> QED
    BY <2>1, <2>2
<1>2. CASE CarrierEnds(i, m)
  <2>1. TerminalOf(i, m) \subseteq TerminalKinds
    BY DEF TerminalOf, TerminalKinds
  <2>2. PICK kind \in TerminalKinds :
           \/ InsertTerminal(i, m, stream[i][m].gen, carrier[i][m].gen, kind)
           \/ UNCHANGED db
    BY <1>2, <2>1 DEF CarrierEnds
  <2>3. DbType'
    BY <2>2, <1>a, <1>b, InsertTerminalType DEF db, DbType
  <2>4. /\ DropStream(i, m) \/ UNCHANGED stream
        /\ SetCarrier(i, m, Idle)
        /\ UNCHANGED <<closer, sweeper, waiter, draining>>
    BY <1>2 DEF CarrierEnds
  <2>5. carrier' \in [Instance -> [Message -> Carrier]]
    BY <2>4, Records, CarrierUpdate
  <2>6. stream' \in [Instance -> [Message -> Stream]]
    BY <2>4, <1>b, StreamUpdate
  <2> QED
    BY <2>3, <2>4, <2>5, <2>6 DEF LocalType
<1>3. CASE CarrierStops(i, m)
  <2>1. \/ exec' = [exec EXCEPT ![m] = HandedOff(i, m, carrier[i][m].gen)]
        \/ exec' = exec
    BY <1>3 DEF CarrierStops
  <2>2. HandedOff(i, m, carrier[i][m].gen) \in ExecRow
    BY <1>a, RowTypes
  <2>3. exec' \in [Message -> ExecRow]
    BY <2>1, <2>2, RowMayChange
  <2>4. SetCarrier(i, m, Idle) /\ EndStream(i, m, carrier[i][m].gen)
    BY <1>3 DEF CarrierStops
  <2>5. carrier' \in [Instance -> [Message -> Carrier]]
    BY <2>4, Records, CarrierUpdate
  <2>6. stream' \in [Instance -> [Message -> Stream]]
    BY <2>4, <1>a, StreamUpdate
  <2> QED
    BY <1>3, <2>3, <2>5, <2>6 DEF CarrierStops, DbType, LocalType
<1>4. CASE CarrierLost(i, m)
  <2>1. SetCarrier(i, m, Idle) /\ EndStream(i, m, carrier[i][m].gen)
    BY <1>4 DEF CarrierLost
  <2>2. carrier' \in [Instance -> [Message -> Carrier]]
    BY <2>1, Records, CarrierUpdate
  <2>3. stream' \in [Instance -> [Message -> Stream]]
    BY <2>1, <1>a, StreamUpdate
  <2> QED
    BY <1>4, <2>2, <2>3 DEF CarrierLost, db, DbType, LocalType
<1>5. CASE RenewLease(i, m)
  <2>1. exec' \in [Message -> ExecRow]
    <3>1. [exec[m] EXCEPT !.lapsed = FALSE] \in ExecRow
      BY RowTypes, RowUpdates
    <3>2. \/ exec' = exec
          \/ exec' = [exec EXCEPT ![m] = [exec[m] EXCEPT !.lapsed = FALSE]]
      BY <1>5 DEF RenewLease
    <3> QED
      BY <3>1, <3>2, ExecUpdate DEF DbType
  <2>2. DbType'
    BY <1>5, <2>1 DEF RenewLease, DbType
  <2>3. carrier' \in [Instance -> [Message -> Carrier]]
    <3>1. \/ carrier' = carrier
          \/ SetCarrier(i, m, [carrier[i][m] EXCEPT !.abort = "lost"])
      BY <1>5 DEF RenewLease
    <3>2. CASE carrier' = carrier
      BY <3>2 DEF LocalType
    <3>3. CASE SetCarrier(i, m, [carrier[i][m] EXCEPT !.abort = "lost"])
      BY <3>3, <1>c, CarrierUpdate
    <3> QED
      BY <3>1, <3>2, <3>3
  <2> QED
    BY <1>5, <2>2, <2>3 DEF RenewLease, LocalType
<1>6. CASE AbortCarrier(i, m)
  BY <1>6, <1>c, SlotUpdate DEF AbortCarrier, db, DbType, LocalType, SetCarrier
<1> QED
  BY <1>1, <1>2, <1>3, <1>4, <1>5, <1>6 DEF Carry

\* Adoption keeps the types.
LEMMA AdoptType ==
  ASSUME DbType, LocalType, NEW i \in Instance, NEW m \in Message,
         Adopt(i, m)
  PROVE  DbType' /\ LocalType'
<1>a. exec[m] \in ExecRow /\ exec[m].gen \in Nat /\ exec[m].gen + 1 \in Nat
  BY RowTypes
<1>b. sweeper[i][m] \in Claim /\ sweeper[i][m].gen \in Nat
  BY DEF LocalType, Claim
<1>1. CASE SweepClaims(i, m)
  <2>1. [TakenOver(i, m, "adopting") EXCEPT !.adopts = @ + 1] \in ExecRow
    BY RowTypes, RowUpdates DEF OpenStates
  <2>2. exec' \in [Message -> ExecRow]
    BY <1>1, <2>1, ExecUpdate DEF SweepClaims
  <2>3. DbType'
    BY <1>1, <2>2 DEF SweepClaims, DbType
  <2>4. [gen |-> exec[m].gen + 1,
         giveUp |-> exec[m].adopts >= MaxAdoptAttempts] \in Claim
    BY <1>a, BoundsAssumption DEF Claim, ExecRow
  <2>5. sweeper' \in [Instance -> [Message -> Claim]]
    BY <1>1, <2>4, SlotUpdate DEF SweepClaims, LocalType
  <2> QED
    BY <1>1, <2>3, <2>5 DEF SweepClaims, LocalType
<1>2. CASE HandOffLateClaim(i, m)
  <2>0. \/ exec' = [exec EXCEPT ![m] = HandedOff(i, m, sweeper[i][m].gen)]
        \/ exec' = exec
    BY <1>2 DEF HandOffLateClaim
  <2>1. exec' \in [Message -> ExecRow]
    BY <2>0, <1>b, RowTypes, RowMayChange
  <2>2. DbType'
    BY <1>2, <2>1 DEF HandOffLateClaim, DbType
  <2> QED
    BY <1>2, <2>2, Records, SlotUpdate DEF HandOffLateClaim, LocalType
<1>3. CASE AdoptTurn(i, m)
  <2>1. [kind |-> "adoption", abort |-> "no", gen |-> sweeper[i][m].gen]
           \in Carrier
    BY <1>b DEF Carrier, Kinds
  <2>2. \/ carrier' = carrier /\ stream' = stream
        \/ /\ SetCarrier(i, m, [kind |-> "adoption", abort |-> "no",
                                gen |-> sweeper[i][m].gen])
           /\ OpenStream(i, m, sweeper[i][m].gen)
    BY <1>3 DEF AdoptTurn
  <2>3. carrier' \in [Instance -> [Message -> Carrier]]
    <3>1. CASE carrier' = carrier
      BY <3>1 DEF LocalType
    <3>2. CASE SetCarrier(i, m, [kind |-> "adoption", abort |-> "no",
                                 gen |-> sweeper[i][m].gen])
      BY <3>2, <2>1, CarrierUpdate
    <3> QED
      BY <2>2, <3>1, <3>2
  <2>4. stream' \in [Instance -> [Message -> Stream]]
    BY <2>2, <1>b, StreamUpdate
  <2> QED
    BY <1>3, <2>3, <2>4, Records, SlotUpdate
    DEF AdoptTurn, db, DbType, LocalType
<1>4. CASE GiveUp(i, m)
  <2>1. [step |-> "claimed", gen |-> sweeper[i][m].gen, kind |-> "error"]
           \in Closer
    BY <1>b DEF Closer, TerminalKinds
  <2>2. closer' \in [Instance -> [Message -> Closer]]
    <3>1. \/ closer' = closer
          \/ closer' = [closer EXCEPT ![i][m] = [step |-> "claimed",
                           gen |-> sweeper[i][m].gen, kind |-> "error"]]
      BY <1>4 DEF GiveUp
    <3>2. CASE closer' = closer
      BY <3>2 DEF LocalType
    <3>3. CASE closer' = [closer EXCEPT ![i][m] = [step |-> "claimed",
                            gen |-> sweeper[i][m].gen, kind |-> "error"]]
      BY <3>3, <2>1, SlotUpdate DEF LocalType
    <3> QED
      BY <3>1, <3>2, <3>3
  <2>3. sweeper' \in [Instance -> [Message -> Claim]]
    BY <1>4, Records, SlotUpdate DEF GiveUp, LocalType
  <2> QED
    BY <1>4, <2>2, <2>3 DEF GiveUp, db, DbType, LocalType
<1> QED
  BY <1>1, <1>2, <1>3, <1>4 DEF Adopt

\* Resume keeps the types.
LEMMA ResumeType ==
  ASSUME DbType, LocalType, NEW i \in Instance, NEW m \in Message,
         Resume(i, m)
  PROVE  DbType' /\ LocalType'
<1>a. exec[m] \in ExecRow /\ exec[m].gen \in Nat /\ exec[m].gen + 1 \in Nat
  BY RowTypes
<1>b. carrier[i][m] \in Carrier /\ waiter[i][m] \in Nat
  BY DEF LocalType
<1>c. \A n \in Nat : [up |-> TRUE, ended |-> FALSE, gen |-> n] \in Stream
  BY DEF Stream
<1>d. TakenOver(i, m, "running") \in ExecRow
  BY RowTypes DEF OpenStates
<1>1. CASE HelloResumes(i, m)
  <2>1. [Idle EXCEPT !.kind = "resume"] \in Carrier
    BY DEF Idle, Carrier, Kinds
  <2> QED
    BY <1>1, <2>1, SlotUpdate DEF HelloResumes, db, DbType, LocalType, SetCarrier
<1>2. CASE ResumeClaims(i, m)
  <2>0. \/ /\ exec' = [exec EXCEPT ![m] = TakenOver(i, m, "running")]
           /\ SetCarrier(i, m, [carrier[i][m] EXCEPT !.gen = exec[m].gen + 1])
           /\ OpenStream(i, m, exec[m].gen + 1)
        \/ exec' = exec /\ SetCarrier(i, m, Idle) /\ stream' = stream
    BY <1>2 DEF ResumeClaims
  <2>1. exec' \in [Message -> ExecRow]
    BY <2>0, <1>d, RowMayChange
  <2>2. [carrier[i][m] EXCEPT !.gen = exec[m].gen + 1] \in Carrier
    BY <1>a, <1>b DEF Carrier
  <2>3. carrier' \in [Instance -> [Message -> Carrier]]
    BY <2>0, <2>2, Records, CarrierUpdate
  <2>4. stream' \in [Instance -> [Message -> Stream]]
    BY <2>0, <1>a, StreamUpdate
  <2> QED
    BY <1>2, <2>1, <2>3, <2>4 DEF ResumeClaims, DbType, LocalType
<1>3. CASE PreemptAdoption(i, m)
  <2>1. exec' \in [Message -> ExecRow]
    BY <1>3, <1>d, ExecUpdate DEF PreemptAdoption
  <2>2. [carrier[i][m] EXCEPT !.abort = IF @ = "no" THEN "cancel" ELSE @]
           \in Carrier
    BY <1>b DEF Carrier
  <2>3. carrier' \in [Instance -> [Message -> Carrier]]
    BY <1>3, <2>2, SlotUpdate DEF PreemptAdoption, SetCarrier, LocalType
  <2>4. waiter' \in [Instance -> [Message -> Nat]]
    BY <1>3, <1>a, SlotUpdate DEF PreemptAdoption, LocalType
  <2> QED
    BY <1>3, <2>1, <2>3, <2>4 DEF PreemptAdoption, DbType, LocalType
<1>4. CASE PreemptTakes(i, m)
  <2>1. [kind |-> "resume", gen |-> waiter[i][m], abort |-> "no"] \in Carrier
    BY <1>b DEF Carrier, Kinds
  <2>2. carrier' \in [Instance -> [Message -> Carrier]]
    BY <1>4, <2>1, SlotUpdate DEF PreemptTakes, SetCarrier, LocalType
  <2>3. stream' \in [Instance -> [Message -> Stream]]
    BY <1>4, <1>b, <1>c, SlotUpdate DEF PreemptTakes, OpenStream, LocalType
  <2>4. waiter' \in [Instance -> [Message -> Nat]]
    BY <1>4, SlotUpdate DEF PreemptTakes, LocalType
  <2> QED
    BY <1>4, <2>2, <2>3, <2>4 DEF PreemptTakes, db, DbType, LocalType
<1>5. CASE PreemptGivesBack(i, m)
  <2>0. \/ exec' = [exec EXCEPT ![m] = HandedOff(i, m, waiter[i][m])]
        \/ exec' = exec
    BY <1>5 DEF PreemptGivesBack
  <2>1. exec' \in [Message -> ExecRow]
    BY <2>0, <1>b, RowTypes, RowMayChange
  <2>2. waiter' \in [Instance -> [Message -> Nat]]
    BY <1>5, SlotUpdate DEF PreemptGivesBack, LocalType
  <2> QED
    BY <1>5, <2>1, <2>2 DEF PreemptGivesBack, DbType, LocalType
<1> QED
  BY <1>1, <1>2, <1>3, <1>4, <1>5 DEF Resume

\* A closer that is done keeps the types.
LEMMA CloserDoneType ==
  ASSUME LocalType, NEW i \in Instance, NEW m \in Message, CloserDone(i, m)
  PROVE  LocalType'
<1>1. closer' \in [Instance -> [Message -> Closer]]
  BY Records, SlotUpdate DEF CloserDone, LocalType
<1>2. \/ stream' = [stream EXCEPT ![i][m] = NoStream]
      \/ stream' = stream
  BY DEF CloserDone
<1>3. stream' \in [Instance -> [Message -> Stream]]
  <2>1. DropStream(i, m) \/ UNCHANGED stream
    BY <1>2 DEF DropStream
  <2> QED
    BY <2>1, StreamUpdate
<1> QED
  BY <1>1, <1>3 DEF CloserDone, LocalType

\* Closers keep the types.
LEMMA CloseType ==
  ASSUME DbType, LocalType, NEW i \in Instance, NEW m \in Message,
         Close(i, m)
  PROVE  DbType' /\ LocalType'
<1>a. exec[m] \in ExecRow /\ exec[m].gen \in Nat /\ exec[m].gen + 1 \in Nat
  BY RowTypes
<1>b. /\ closer[i][m] \in Closer /\ closer[i][m].gen \in Nat
      /\ closer[i][m].kind \in TerminalKinds
  BY DEF LocalType, Closer
<1>c. TakenOver(i, m, "adopting") \in ExecRow
  BY RowTypes DEF OpenStates
<1>1. CASE CloserClaims(i, m)
  <2>1. PICK kind \in CloserKinds(m) :
           \/ /\ closer' = [closer EXCEPT ![i][m] =
                    [step |-> "claimed", gen |-> 0, kind |-> kind]]
              /\ exec' = exec
           \/ /\ exec' = [exec EXCEPT ![m] = TakenOver(i, m, "adopting")]
              /\ closer' = [closer EXCEPT ![i][m] =
                    [step |-> "claimed", gen |-> exec[m].gen + 1, kind |-> kind]]
    BY <1>1 DEF CloserClaims
  <2>2. \A n \in Nat : [step |-> "claimed", gen |-> n, kind |-> kind] \in Closer
    BY DEF CloserKinds, Closer, TerminalKinds
  <2>3. exec' \in [Message -> ExecRow]
    BY <2>1, <1>c, RowMayChange
  <2>4. closer' \in [Instance -> [Message -> Closer]]
    <3>1. PICK n \in Nat : closer' = [closer EXCEPT ![i][m] =
             [step |-> "claimed", gen |-> n, kind |-> kind]]
      BY <2>1, <1>a
    <3> QED
      BY <3>1, <2>2, SlotUpdate DEF LocalType
  <2> QED
    BY <1>1, <2>3, <2>4 DEF CloserClaims, DbType, LocalType
<1>2. CASE CloserOpens(i, m)
  <2>1. [closer[i][m] EXCEPT !.step = "writing"] \in Closer
    BY <1>b DEF Closer
  <2>2. closer' \in [Instance -> [Message -> Closer]]
    <3>1. closer' = [closer EXCEPT ![i][m] =
                        [closer[i][m] EXCEPT !.step = "writing"]]
      BY <1>2 DEF CloserOpens
    <3> QED
      BY <3>1, <2>1, SlotUpdate DEF LocalType
  <2>3. [up |-> TRUE, ended |-> TRUE, gen |-> closer[i][m].gen] \in Stream
    BY <1>b DEF Stream
  <2>4. stream' \in [Instance -> [Message -> Stream]]
    BY <1>2, <2>3, SlotUpdate DEF CloserOpens, LocalType
  <2> QED
    BY <1>2, <2>2, <2>4 DEF CloserOpens, db, DbType, LocalType
<1>3. CASE CloserWrites(i, m)
  <2>1. DbType'
    BY <1>3, <1>b, InsertTerminalType DEF CloserWrites
  <2>2. LocalType'
    BY <1>3, CloserDoneType DEF CloserWrites
  <2> QED
    BY <2>1, <2>2
<1>4. CASE CloserFails(i, m)
  <2>1. LocalType'
    BY <1>4, CloserDoneType DEF CloserFails
  <2> QED
    BY <1>4, <2>1 DEF CloserFails, db, DbType
<1> QED
  BY <1>1, <1>2, <1>3, <1>4 DEF Close

\* Steps of the database clock, cancels and the stale-claim sweep.
LEMMA MessageStepType ==
  ASSUME DbType, LocalType, NEW m \in Message,
         LeaseLapses(m) \/ RequestCancel(m) \/ ClearStaleClaim(m)
  PROVE  DbType' /\ LocalType'
<1>1. CASE LeaseLapses(m)
  <2>1. [exec[m] EXCEPT !.lapsed = TRUE] \in ExecRow
    BY RowUpdates DEF DbType
  <2>2. exec' = [exec EXCEPT ![m] = [exec[m] EXCEPT !.lapsed = TRUE]]
    BY <1>1 DEF LeaseLapses
  <2>3. exec' \in [Message -> ExecRow]
    BY <2>1, <2>2, RowMayChange
  <2> QED
    BY <1>1, <2>3 DEF LeaseLapses, DbType, local, LocalType
<1>2. CASE RequestCancel(m)
  BY <1>2 DEF RequestCancel, DbType, local, LocalType
<1>3. CASE ClearStaleClaim(m)
  BY <1>3 DEF ClearStaleClaim, DbType, local, LocalType
<1> QED
  BY <1>1, <1>2, <1>3

\* Drain, bulk handoff and crash.
LEMMA InstanceStepType ==
  ASSUME DbType, LocalType, NEW i \in Instance,
         Drain(i) \/ HandOffOwnedTurns(i) \/ Crash(i)
  PROVE  DbType' /\ LocalType'
<1>1. CASE Drain(i)
  BY <1>1 DEF Drain, db, DbType, LocalType
<1>2. CASE HandOffOwnedTurns(i)
  <2>1. ASSUME NEW m \in Message
        PROVE  /\ HandedOff(i, m, carrier[i][m].gen) \in ExecRow
               /\ exec[m] \in ExecRow
    <3>1. carrier[i][m].gen \in Nat
      BY DEF LocalType, Carrier
    <3> QED
      BY <3>1, RowTypes
  <2>2. exec' \in [Message -> ExecRow]
    BY <1>2, <2>1 DEF HandOffOwnedTurns
  <2> QED
    BY <1>2, <2>2 DEF HandOffOwnedTurns, DbType, local, LocalType
<1>3. CASE Crash(i)
  <2>1. carrier' \in [Instance -> [Message -> Carrier]]
    BY <1>3, Records DEF Crash, LocalType
  <2>2. stream' \in [Instance -> [Message -> Stream]]
    BY <1>3, Records DEF Crash, LocalType
  <2>3. closer' \in [Instance -> [Message -> Closer]]
    BY <1>3, Records DEF Crash, LocalType
  <2>4. sweeper' \in [Instance -> [Message -> Claim]]
    BY <1>3, Records DEF Crash, LocalType
  <2>5. waiter' \in [Instance -> [Message -> Nat]]
    BY <1>3 DEF Crash, LocalType
  <2> QED
    BY <1>3, <2>1, <2>2, <2>3, <2>4, <2>5 DEF Crash, db, DbType, LocalType
<1> QED
  BY <1>1, <1>2, <1>3

\* The initial state has the types.
LEMMA InitType == Init => TypeOK
<1> SUFFICES ASSUME Init PROVE TypeOK
  OBVIOUS
<1>1. <<>> \in Seq(EventRow)
  OBVIOUS
<1>2. DbType
  BY <1>1, Records DEF Init, DbType
<1>3. LocalType
  BY Records DEF Init, LocalType
<1> QED
  BY <1>2, <1>3, TypeSplit

\* Every step keeps the types.
LEMMA StepType == TypeOK /\ [Next]_vars => TypeOK'
<1> SUFFICES ASSUME DbType, LocalType, [Next]_vars PROVE DbType' /\ LocalType'
  <2>1. TypeOK' <=> DbType' /\ LocalType'
    BY DEF TypeOK, DbType, LocalType
  <2> QED
    BY <2>1, TypeSplit
<1>1. ASSUME NEW i \in Instance, NEW m \in Message,
             Dispatch(i, m) \/ Carry(i, m) \/ Adopt(i, m)
               \/ Resume(i, m) \/ Close(i, m)
      PROVE  DbType' /\ LocalType'
  BY <1>1, DispatchType, CarryType, AdoptType, ResumeType, CloseType
<1>2. CASE UNCHANGED vars
  BY <1>2 DEF vars, db, local, DbType, LocalType
<1> QED
  BY <1>1, <1>2, MessageStepType, InstanceStepType DEF Next

\* Whatever the instances do, every variable keeps its type.
THEOREM TypeCorrect == Spec => []TypeOK
<1>1. Init => TypeOK
  BY InitType
<1>2. TypeOK /\ [Next]_vars => TypeOK'
  BY StepType
<1> QED
  BY <1>1, <1>2, PTL DEF Spec

-----------------------------------------------------------------------------
(***************************************************************************)
(* First layer: Provenance.  Most actions are quiet: they create neither   *)
(* ids nor assistant rows nor execution rows, and no new dispatcher.       *)
(***************************************************************************)
QuietDb ==
    /\ minted' = minted /\ written' = written
    /\ inflight' = inflight \/ inflight' = None
    /\ \A m \in Message :
          /\ exec'[m].state = "absent" <=> exec[m].state = "absent"
          /\ exec'[m].gen = 0 <=> exec[m].gen = 0
          /\ m \notin minted => log'[m] = log[m]

QuietActors ==
    \A i \in Instance, m \in Message :
        /\ \/ carrier'[i][m].kind = carrier[i][m].kind
           \/ carrier'[i][m].kind = "idle"
           \/ carrier'[i][m].kind \in Tracked /\ m \in written
        /\ Dispatching(i, m)' => Dispatching(i, m)
        /\ closer'[i][m].step # "none" => m \in written
        /\ sweeper'[i][m] # NoClaim => exec[m].state # "absent"
        /\ waiter'[i][m] # 0 => exec[m].state # "absent"

\* A quiet step keeps Provenance.
LEMMA QuietKeeps ==
  ASSUME NoneAssumption, Provenance, QuietDb, QuietActors
  PROVE  Provenance'
<1>1. ASSUME NEW m \in Message PROVE Dispatched(m)'
  BY <1>1 DEF Provenance, Dispatched, QuietDb, NoneAssumption
<1>2. ASSUME NEW i \in Instance, NEW m \in Message PROVE ActorsKnow(i, m)'
  <2>1. Dispatched(m) /\ ActorsKnow(i, m)
    BY DEF Provenance
  <2> QED
    BY <2>1 DEF Dispatched, ActorsKnow, QuietDb, QuietActors, Tracked
<1>3. ASSUME NEW i \in Instance, NEW j \in Instance, NEW m \in Message,
             Dispatching(i, m)', Dispatching(j, m)'
      PROVE  i = j
  BY <1>3 DEF Provenance, QuietActors
<1> QED
  BY <1>1, <1>2, <1>3 DEF Provenance

\* Closing an execution touches its state only.
LEMMA CloseRow ==
  ASSUME DbType, NEW m \in Message, NEW kind \in TerminalKinds,
         CloseExecution(m, kind)
  PROVE  /\ \A n \in Message : n # m => exec'[n] = exec[n]
         /\ exec'[m].gen = exec[m].gen
         /\ exec[m].state = "absent" => exec'[m] = exec[m]
         /\ exec[m].state # "absent" => exec'[m].state \in ClosedStates
<1>0. exec \in [Message -> ExecRow] /\ exec[m] \in ExecRow
  BY DEF DbType
<1>1. ClosedAs(kind) \in ClosedStates
  BY DEF ClosedAs, TerminalKinds, ClosedStates
<1>2. CASE exec' = exec /\ exec[m].state = "absent"
  BY <1>2
<1>3. CASE /\ exec' = [exec EXCEPT ![m] =
                 [exec[m] EXCEPT !.state = ClosedAs(kind), !.lapsed = FALSE]]
           /\ exec[m].state # "absent"
  <2> DEFINE row == [exec[m] EXCEPT !.state = ClosedAs(kind), !.lapsed = FALSE]
  <2>1. row.gen = exec[m].gen /\ row.state = ClosedAs(kind)
    BY <1>0 DEF ExecRow
  <2>2. exec' = [exec EXCEPT ![m] = row]
    BY <1>3
  <2> HIDE DEF row
  <2> QED
    BY <1>0, <1>1, <1>3, <2>1, <2>2
<1> QED
  BY <1>2, <1>3 DEF CloseExecution

\* A terminal, accepted or not, is quiet.
LEMMA TerminalQuiet ==
  ASSUME DbType, NEW i \in Instance, NEW m \in minted, NEW g, NEW by,
         NEW kind \in TerminalKinds, m \in Message,
         InsertTerminal(i, m, g, by, kind)
  PROVE  QuietDb
<1>2. CASE TerminalAccepted(i, m, g)
  <2>1. \A n \in Message : n # m => log'[n] = log[n]
    BY <1>2 DEF InsertTerminal, DbType
  <2>2. CloseExecution(m, kind)
    BY <1>2 DEF InsertTerminal
  <2>3. \A n \in Message : /\ exec'[n].gen = exec[n].gen
                           /\ exec'[n].state = "absent" <=> exec[n].state = "absent"
    BY <2>2, CloseRow DEF ClosedStates
  <2> QED
    BY <1>2, <2>1, <2>3 DEF InsertTerminal, QuietDb
<1>3. CASE ~TerminalAccepted(i, m, g)
  BY <1>3 DEF InsertTerminal, QuietDb, db
<1> QED
  BY <1>2, <1>3

\* Dispatch: the one place where ids, rows and first owners appear.
LEMMA DispatchProvenance ==
  ASSUME TypeOK, Provenance, NEW i \in Instance, NEW m \in Message,
         Dispatch(i, m)
  PROVE  Provenance'
<1>0. DbType /\ LocalType
  BY TypeSplit
<1>a. Dispatched(m) /\ ActorsKnow(i, m)
  BY DEF Provenance
<1>1. CASE ClaimTurn(i, m)
  <2>1. \A n \in Message : Dispatched(n)'
    BY <1>1 DEF ClaimTurn, Provenance, Dispatched
  <2>2. \A j \in Instance, n \in Message : ActorsKnow(j, n)'
    BY <1>1, <1>0 DEF ClaimTurn, SetCarrier, Provenance, Dispatched, ActorsKnow,
       Dispatching, Unstamped, LocalType, Tracked, Idle
  <2>3. \A j, k \in Instance, n \in Message :
           Dispatching(j, n)' /\ Dispatching(k, n)' => j = k
    BY <1>1, <1>0 DEF ClaimTurn, SetCarrier, Provenance, Dispatched, ActorsKnow,
       Dispatching, Unstamped, LocalType, Tracked, Idle
  <2> QED
    BY <2>1, <2>2, <2>3 DEF Provenance
<1>2. CASE SetupFails(i, m)
  <2>1. QuietDb
    BY <1>2 DEF SetupFails, ReleaseSlot, QuietDb
  <2>2. QuietActors
    BY <1>2, <1>0 DEF SetupFails, SetCarrier, QuietActors, LocalType, Idle,
       Dispatching, Unstamped, Provenance, ActorsKnow
  <2> QED
    BY <2>1, <2>2, QuietKeeps, NoneAssumption
<1>3. CASE StartTurn(i, m)
  <2>1. \A n \in Message : Dispatched(n)'
    BY <1>3, <1>a DEF StartTurn, Provenance, Dispatched, ActorsKnow
  <2>2. \A j \in Instance, n \in Message : ActorsKnow(j, n)'
    BY <1>3, <1>0, <1>a DEF StartTurn, SetCarrier, Provenance, Dispatched,
       ActorsKnow, Dispatching, Unstamped, LocalType, Tracked, Idle
  <2>3. \A j, k \in Instance, n \in Message :
           Dispatching(j, n)' /\ Dispatching(k, n)' => j = k
    BY <1>3, <1>0 DEF StartTurn, SetCarrier, Provenance,
       Dispatching, Unstamped, LocalType, Idle
  <2> QED
    BY <2>1, <2>2, <2>3 DEF Provenance
<1>4. CASE DispatchFails(i, m)
  <2>1. QuietDb
    BY <1>4 DEF DispatchFails, ReleaseSlot, QuietDb
  <2>2. QuietActors
    BY <1>4, <1>0 DEF DispatchFails, SetCarrier, QuietActors, LocalType, Idle,
       Dispatching, Unstamped, Provenance, ActorsKnow
  <2> QED
    BY <2>1, <2>2, QuietKeeps, NoneAssumption
<1>5. CASE StampExecution(i, m)
  <2>0. /\ exec'[m].state = "running" /\ exec'[m].gen = 1
        /\ \A n \in Message : n # m => exec'[n] = exec[n]
    BY <1>5, <1>0 DEF StampExecution, FirstRow, DbType
  <2>1. \A n \in Message : Dispatched(n)'
    BY <1>5, <2>0, <1>a DEF StampExecution, Provenance, Dispatched,
       ActorsKnow, Unstamped, Tracked
  <2>2. \A j \in Instance, n \in Message : ActorsKnow(j, n)'
    <3>1. /\ carrier'[i][m].kind = "dispatch" /\ carrier'[i][m].gen = 1
          /\ \A j \in Instance, n \in Message :
                j # i \/ n # m => carrier'[j][n] = carrier[j][n]
      BY <1>5, <1>0 DEF StampExecution, SetCarrier, LocalType, Unstamped, Carrier
    <3>2. \A j \in Instance : Dispatching(j, m)' => FALSE
      BY <1>5, <3>1 DEF StampExecution, Provenance, Dispatching, Unstamped
    <3> QED
      BY <1>5, <2>0, <3>1, <3>2 DEF StampExecution, Provenance, ActorsKnow,
         Dispatching, Unstamped, Tracked
  <2>3. \A j, k \in Instance, n \in Message :
           Dispatching(j, n)' /\ Dispatching(k, n)' => j = k
    BY <1>5, <1>0 DEF StampExecution, SetCarrier, Provenance,
       Dispatching, Unstamped, LocalType, Carrier
  <2> QED
    BY <2>1, <2>2, <2>3 DEF Provenance
<1>6. CASE StampAnswerLost(i, m)
  <2>0. /\ exec'[m].state = "running" /\ exec'[m].gen = 1
        /\ \A n \in Message : n # m => exec'[n] = exec[n]
    BY <1>6, <1>0 DEF StampAnswerLost, FirstRow, DbType
  <2>1. \A n \in Message : Dispatched(n)'
    BY <1>6, <2>0, <1>a DEF StampAnswerLost, Provenance, Dispatched,
       ActorsKnow, Unstamped, Tracked
  <2>2. \A j \in Instance, n \in Message : ActorsKnow(j, n)'
    <3>1. /\ carrier'[i][m].kind = "idle"
          /\ \A j \in Instance, n \in Message :
                j # i \/ n # m => carrier'[j][n] = carrier[j][n]
      BY <1>6, <1>0 DEF StampAnswerLost, SetCarrier, LocalType, Idle
    <3>2. \A j \in Instance : Dispatching(j, m)' => FALSE
      BY <1>6, <3>1 DEF StampAnswerLost, Provenance, Dispatching, Unstamped
    <3> QED
      BY <1>6, <2>0, <3>1, <3>2 DEF StampAnswerLost, Provenance, ActorsKnow,
         Dispatching, Unstamped, Tracked
  <2>3. \A j, k \in Instance, n \in Message :
           Dispatching(j, n)' /\ Dispatching(k, n)' => j = k
    BY <1>6, <1>0 DEF StampAnswerLost, SetCarrier, Provenance,
       Dispatching, Unstamped, LocalType, Idle
  <2> QED
    BY <2>1, <2>2, <2>3 DEF Provenance
<1>7. CASE StampRefused(i, m)
  <2>1. QuietDb
    BY <1>7, <1>0, <1>a, TerminalQuiet
    DEF StampRefused, Unstamped, ActorsKnow, TerminalKinds
  <2>2. QuietActors
    BY <1>7, <1>0 DEF StampRefused, SetCarrier, QuietActors, LocalType, Idle,
       Dispatching, Unstamped, Provenance, ActorsKnow
  <2> QED
    BY <2>1, <2>2, QuietKeeps, NoneAssumption
<1> QED
  BY <1>1, <1>2, <1>3, <1>4, <1>5, <1>6, <1>7 DEF Dispatch

\* A handoff that may have happened keeps generations, and keeps a row open.
LEMMA HandOffRow ==
  ASSUME DbType, NEW i \in Instance, NEW m \in Message, NEW g,
         \/ exec' = [exec EXCEPT ![m] = HandedOff(i, m, g)]
         \/ exec' = exec
  PROVE  \A n \in Message :
            /\ exec'[n].gen = exec[n].gen
            /\ \/ exec'[n] = exec[n]
               \/ IsOpen(n) /\ exec'[n].state \in OpenStates
<1>0. exec \in [Message -> ExecRow] /\ exec[m] \in ExecRow
  BY DEF DbType
<1>1. /\ HandedOff(i, m, g).gen = exec[m].gen
      /\ \/ HandedOff(i, m, g) = exec[m]
         \/ IsOpen(m) /\ HandedOff(i, m, g).state \in OpenStates
  BY <1>0 DEF HandedOff, ExecRow, IsOpen, OpenStates
<1>2. CASE exec' = exec
  BY <1>2
<1>3. CASE exec' = [exec EXCEPT ![m] = HandedOff(i, m, g)]
  BY <1>0, <1>1, <1>3
<1> QED
  BY <1>2, <1>3

\* An abort changes neither what a carrier is nor its generation.
LEMMA AbortKeepsCarrier ==
  ASSUME LocalType, NEW i \in Instance, NEW m \in Message, NEW a,
         \/ SetCarrier(i, m, [carrier[i][m] EXCEPT !.abort = a])
         \/ SetCarrier(i, m, carrier[i][m])
         \/ carrier' = carrier
  PROVE  \A j \in Instance, n \in Message :
            /\ carrier'[j][n].kind = carrier[j][n].kind
            /\ carrier'[j][n].gen = carrier[j][n].gen
<1>0. carrier \in [Instance -> [Message -> Carrier]] /\ carrier[i][m] \in Carrier
  BY DEF LocalType
<1>1. CASE SetCarrier(i, m, [carrier[i][m] EXCEPT !.abort = a])
  <2> DEFINE c == [carrier[i][m] EXCEPT !.abort = a]
  <2>1. c.kind = carrier[i][m].kind /\ c.gen = carrier[i][m].gen
    BY <1>0 DEF Carrier
  <2>2. carrier' = [carrier EXCEPT ![i][m] = c]
    BY <1>1 DEF SetCarrier
  <2> HIDE DEF c
  <2> QED
    BY <1>0, <2>1, <2>2
<1>2. CASE SetCarrier(i, m, carrier[i][m]) \/ carrier' = carrier
  BY <1>0, <1>2 DEF SetCarrier
<1> QED
  BY <1>1, <1>2

\* A takeover of an open row keeps it open under the next generation.
LEMMA TakeOverRow ==
  ASSUME DbType, NEW i \in Instance, NEW m \in Message, NEW s \in OpenStates,
         exec' = [exec EXCEPT ![m] = TakenOver(i, m, s)]
  PROVE  /\ \A n \in Message : n # m => exec'[n] = exec[n]
         /\ exec'[m].gen = exec[m].gen + 1
         /\ exec'[m].state \in OpenStates
BY DEF DbType, ExecRow, TakenOver

\* Open rows that stay open are quiet.
LEMMA RowsQuiet ==
  ASSUME DbType,
         UNCHANGED <<inflight, log, minted, written>>,
         \A n \in Message :
            \/ exec'[n] = exec[n]
            \/ /\ IsOpen(n) /\ exec'[n].state \in OpenStates
               /\ exec'[n].gen = exec[n].gen
            \/ /\ IsOpen(n) /\ exec'[n].state \in OpenStates
               /\ exec[n].gen # 0 /\ exec'[n].gen = exec[n].gen + 1
  PROVE  QuietDb
<1>1. ASSUME NEW n \in Message
      PROVE  /\ exec'[n].state = "absent" <=> exec[n].state = "absent"
             /\ exec'[n].gen = 0 <=> exec[n].gen = 0
  <2>1. exec[n].gen \in Nat
    BY DEF DbType, ExecRow
  <2> QED
    BY <2>1 DEF IsOpen, OpenStates
<1> QED
  BY <1>1 DEF QuietDb

\* Carriers are quiet.
LEMMA CarryProvenance ==
  ASSUME TypeOK, Provenance, NEW i \in Instance, NEW m \in Message,
         Carry(i, m)
  PROVE  Provenance'
<1>0. DbType /\ LocalType
  BY TypeSplit
<1>a. Dispatched(m) /\ ActorsKnow(i, m)
  BY DEF Provenance
<1>b. carrier[i][m].kind \in Tracked => m \in minted
  BY <1>a DEF Dispatched, ActorsKnow
<1>1. CASE CarrierEmits(i, m)
  <2>1. QuietDb
    <3>1. CASE RowAccepted(i, m, stream[i][m].gen)
      BY <1>1, <1>0, <1>a, <3>1
      DEF CarrierEmits, InsertRow, RowAccepted, QuietDb, DbType, Dispatched
    <3>2. CASE ~RowAccepted(i, m, stream[i][m].gen)
      BY <1>1, <3>2 DEF CarrierEmits, QuietDb, db
    <3> QED
      BY <3>1, <3>2
  <2>2. QuietActors
    <3>1. \/ SetCarrier(i, m, [carrier[i][m] EXCEPT !.abort = "lost"])
          \/ SetCarrier(i, m, carrier[i][m])
          \/ carrier' = carrier
      BY <1>1 DEF CarrierEmits
    <3>2. \A j \in Instance, n \in Message :
             /\ carrier'[j][n].kind = carrier[j][n].kind
             /\ carrier'[j][n].gen = carrier[j][n].gen
      BY <3>1, <1>0, AbortKeepsCarrier
    <3> QED
      BY <3>2, <1>1 DEF CarrierEmits, QuietActors, Dispatching, Unstamped,
         Provenance, ActorsKnow
  <2> QED
    BY <2>1, <2>2, QuietKeeps, NoneAssumption
<1>2. CASE CarrierEnds(i, m)
  <2>1. QuietDb
    <3>1. TerminalOf(i, m) \subseteq TerminalKinds
      BY DEF TerminalOf, TerminalKinds
    <3>2. PICK kind \in TerminalKinds :
             \/ InsertTerminal(i, m, stream[i][m].gen, carrier[i][m].gen, kind)
             \/ UNCHANGED db
      BY <1>2, <3>1 DEF CarrierEnds
    <3>3. m \in minted
      BY <1>2, <1>b DEF CarrierEnds, Carrying
    <3>4. CASE InsertTerminal(i, m, stream[i][m].gen, carrier[i][m].gen, kind)
      BY <3>3, <3>4, <1>0, TerminalQuiet
    <3>5. CASE UNCHANGED db
      BY <3>5 DEF QuietDb, db
    <3> QED
      BY <3>2, <3>4, <3>5
  <2>2. QuietActors
    BY <1>2, <1>0 DEF CarrierEnds, SetCarrier, QuietActors, LocalType, Idle,
       Dispatching, Unstamped, Provenance, ActorsKnow
  <2> QED
    BY <2>1, <2>2, QuietKeeps, NoneAssumption
<1>3. CASE CarrierStops(i, m)
  <2>1. QuietDb
    <3>1. \/ exec' = [exec EXCEPT ![m] = HandedOff(i, m, carrier[i][m].gen)]
          \/ exec' = exec
      BY <1>3 DEF CarrierStops
    <3>2. UNCHANGED <<inflight, log, minted, written>>
      BY <1>3 DEF CarrierStops
    <3> QED
      BY <3>1, <3>2, <1>0, HandOffRow, RowsQuiet
  <2>2. QuietActors
    BY <1>3, <1>0 DEF CarrierStops, SetCarrier, QuietActors, LocalType, Idle,
       Dispatching, Unstamped, Provenance, ActorsKnow
  <2> QED
    BY <2>1, <2>2, QuietKeeps, NoneAssumption
<1>4. CASE CarrierLost(i, m)
  <2>1. QuietDb
    BY <1>4 DEF CarrierLost, QuietDb, db
  <2>2. QuietActors
    BY <1>4, <1>0 DEF CarrierLost, SetCarrier, QuietActors, LocalType, Idle,
       Dispatching, Unstamped, Provenance, ActorsKnow
  <2> QED
    BY <2>1, <2>2, QuietKeeps, NoneAssumption
<1>5. CASE RenewLease(i, m)
  <2>1. QuietDb
    <3>1. \/ exec' = exec
          \/ exec' = [exec EXCEPT ![m] = [exec[m] EXCEPT !.lapsed = FALSE]]
      BY <1>5 DEF RenewLease
    <3>2. \A n \in Message : /\ exec'[n].gen = exec[n].gen
                             /\ exec'[n].state = exec[n].state
      <4>1. \A n \in Message : exec[n] \in ExecRow
        BY <1>0 DEF DbType
      <4>2. /\ [exec[m] EXCEPT !.lapsed = FALSE].gen = exec[m].gen
            /\ [exec[m] EXCEPT !.lapsed = FALSE].state = exec[m].state
        BY <4>1 DEF ExecRow
      <4> QED
        BY <3>1, <4>2, <1>0 DEF DbType
    <3> QED
      BY <1>5, <3>2 DEF RenewLease, QuietDb
  <2>2. QuietActors
    <3>1. \/ SetCarrier(i, m, [carrier[i][m] EXCEPT !.abort = "lost"])
          \/ carrier' = carrier
      BY <1>5 DEF RenewLease
    <3> QED
      BY <3>1, <1>5, <1>0, AbortKeepsCarrier DEF RenewLease, QuietActors,
         Dispatching, Unstamped, Provenance, ActorsKnow
  <2> QED
    BY <2>1, <2>2, QuietKeeps, NoneAssumption
<1>6. CASE AbortCarrier(i, m)
  <2>1. QuietDb
    BY <1>6 DEF AbortCarrier, QuietDb, db
  <2>2. QuietActors
    BY <1>6, <1>0, AbortKeepsCarrier DEF AbortCarrier, QuietActors,
       Dispatching, Unstamped, Provenance, ActorsKnow
  <2> QED
    BY <2>1, <2>2, QuietKeeps, NoneAssumption
<1> QED
  BY <1>1, <1>2, <1>3, <1>4, <1>5, <1>6 DEF Carry

\* The adoption sweep takes over turns that have an execution row.
LEMMA AdoptProvenance ==
  ASSUME TypeOK, Provenance, NEW i \in Instance, NEW m \in Message,
         Adopt(i, m)
  PROVE  Provenance'
<1>0. DbType /\ LocalType
  BY TypeSplit
<1>a. Dispatched(m) /\ ActorsKnow(i, m)
  BY DEF Provenance
<1>1. CASE SweepClaims(i, m)
  <2>1. QuietDb
    <3>1. /\ \A n \in Message : n # m => exec'[n] = exec[n]
          /\ exec'[m].gen = exec[m].gen + 1 /\ exec'[m].state = "adopting"
      BY <1>1, <1>0 DEF SweepClaims, TakenOver, DbType, ExecRow
    <3>2. IsOpen(m) /\ exec[m].gen # 0
      BY <1>1, <1>a DEF SweepClaims, AwaitsAdoption, IsOpen, OpenStates, Dispatched
    <3>3. UNCHANGED <<inflight, log, minted, written>>
      BY <1>1 DEF SweepClaims
    <3> QED
      BY <3>1, <3>2, <3>3, <1>0, RowsQuiet DEF OpenStates
  <2>2. QuietActors
    BY <1>1, <1>0, <1>a DEF SweepClaims, AwaitsAdoption, IsOpen, OpenStates,
       QuietActors, LocalType, Dispatching, Unstamped, Provenance, ActorsKnow
  <2> QED
    BY <2>1, <2>2, QuietKeeps, NoneAssumption
<1>2. CASE HandOffLateClaim(i, m)
  <2>1. QuietDb
    <3>1. \/ exec' = [exec EXCEPT ![m] = HandedOff(i, m, sweeper[i][m].gen)]
          \/ exec' = exec
      BY <1>2 DEF HandOffLateClaim
    <3>2. UNCHANGED <<inflight, log, minted, written>>
      BY <1>2 DEF HandOffLateClaim
    <3> QED
      BY <3>1, <3>2, <1>0, HandOffRow, RowsQuiet
  <2>2. QuietActors
    BY <1>2, <1>0 DEF HandOffLateClaim, QuietActors, LocalType,
       Dispatching, Unstamped, Provenance, ActorsKnow
  <2> QED
    BY <2>1, <2>2, QuietKeeps, NoneAssumption
<1>3. CASE AdoptTurn(i, m)
  <2>1. QuietDb
    BY <1>3 DEF AdoptTurn, QuietDb, db
  <2>2. m \in written
    BY <1>3, <1>a DEF AdoptTurn, ActorsKnow, Dispatched
  <2>3. QuietActors
    BY <1>3, <1>0, <2>2 DEF AdoptTurn, SetCarrier, QuietActors, LocalType,
       Tracked, Dispatching, Unstamped, Provenance, ActorsKnow
  <2> QED
    BY <2>1, <2>3, QuietKeeps, NoneAssumption
<1>4. CASE GiveUp(i, m)
  <2>1. QuietDb
    BY <1>4 DEF GiveUp, QuietDb, db
  <2>2. m \in written
    BY <1>4, <1>a DEF GiveUp, ActorsKnow, Dispatched
  <2>3. QuietActors
    BY <1>4, <1>0, <2>2 DEF GiveUp, QuietActors, LocalType,
       Dispatching, Unstamped, Provenance, ActorsKnow
  <2> QED
    BY <2>1, <2>3, QuietKeeps, NoneAssumption
<1> QED
  BY <1>1, <1>2, <1>3, <1>4 DEF Adopt

\* A hello takes over turns that have an execution row.
LEMMA ResumeProvenance ==
  ASSUME TypeOK, Provenance, NEW i \in Instance, NEW m \in Message,
         Resume(i, m)
  PROVE  Provenance'
<1>0. DbType /\ LocalType
  BY TypeSplit
<1>a. Dispatched(m) /\ ActorsKnow(i, m)
  BY DEF Provenance
<1>b. ResumeClaimable(m) =>
         IsOpen(m) /\ exec[m].gen # 0 /\ exec[m].state # "absent" /\ m \in written
  BY <1>a DEF ResumeClaimable, IsOpen, OpenStates, Dispatched
<1>c. ASSUME exec' = [exec EXCEPT ![m] = TakenOver(i, m, "running")],
             ResumeClaimable(m), UNCHANGED <<inflight, log, minted, written>>
      PROVE  QuietDb
  BY <1>0, <1>b, <1>c, TakeOverRow, RowsQuiet DEF OpenStates
<1>1. CASE HelloResumes(i, m)
  <2>1. QuietDb
    BY <1>1 DEF HelloResumes, QuietDb, db
  <2>2. QuietActors
    BY <1>1, <1>0 DEF HelloResumes, SetCarrier, QuietActors, LocalType, Idle,
       Tracked, Dispatching, Unstamped, Provenance, ActorsKnow
  <2> QED
    BY <2>1, <2>2, QuietKeeps, NoneAssumption
<1>2. CASE ResumeClaims(i, m)
  <2>1. QuietDb
    <3>1. CASE ResumeClaimable(m)
      BY <1>2, <1>c, <3>1 DEF ResumeClaims
    <3>2. CASE ~ResumeClaimable(m)
      BY <1>2, <3>2 DEF ResumeClaims, QuietDb
    <3> QED
      BY <3>1, <3>2
  <2>2. \A j \in Instance, n \in Message :
           /\ \/ carrier'[j][n].kind = carrier[j][n].kind
              \/ carrier'[j][n].kind = "idle"
           /\ carrier'[j][n].kind = "dispatch" =>
                 carrier'[j][n].gen = carrier[j][n].gen
    <3> DEFINE c == [carrier[i][m] EXCEPT !.gen = exec[m].gen + 1]
    <3>1. carrier[i][m] \in Carrier /\ carrier[i][m].kind = "resume"
      BY <1>0, <1>2 DEF LocalType, ResumeClaims
    <3>2. c.kind = "resume"
      BY <3>1 DEF Carrier
    <3>3. \/ carrier' = [carrier EXCEPT ![i][m] = c]
          \/ carrier' = [carrier EXCEPT ![i][m] = Idle]
      BY <1>2 DEF ResumeClaims, SetCarrier
    <3> HIDE DEF c
    <3>4. CASE carrier' = [carrier EXCEPT ![i][m] = c]
      BY <1>0, <3>1, <3>2, <3>4 DEF LocalType
    <3>5. CASE carrier' = [carrier EXCEPT ![i][m] = Idle]
      BY <1>0, <3>1, <3>5 DEF LocalType, Idle
    <3> QED
      BY <3>3, <3>4, <3>5
  <2>3. QuietActors
    BY <1>2, <2>2 DEF ResumeClaims, QuietActors, Dispatching, Unstamped,
       Provenance, ActorsKnow
  <2> QED
    BY <2>1, <2>3, QuietKeeps, NoneAssumption
<1>3. CASE PreemptAdoption(i, m)
  <2>1. QuietDb
    BY <1>3, <1>c DEF PreemptAdoption
  <2>2. \A j \in Instance, n \in Message :
           /\ carrier'[j][n].kind = carrier[j][n].kind
           /\ carrier'[j][n].gen = carrier[j][n].gen
    <3>1. PICK a \in {"cancel", carrier[i][m].abort} :
             SetCarrier(i, m, [carrier[i][m] EXCEPT !.abort = a])
      BY <1>3 DEF PreemptAdoption
    <3> QED
      BY <3>1, <1>0, AbortKeepsCarrier
  <2>3. QuietActors
    BY <1>3, <1>0, <1>b, <2>2 DEF PreemptAdoption, QuietActors, LocalType,
       Dispatching, Unstamped, Provenance, ActorsKnow
  <2> QED
    BY <2>1, <2>3, QuietKeeps, NoneAssumption
<1>4. CASE PreemptTakes(i, m)
  <2>1. QuietDb
    BY <1>4 DEF PreemptTakes, QuietDb, db
  <2>2. m \in written
    BY <1>4, <1>a DEF PreemptTakes, ActorsKnow, Dispatched
  <2>3. QuietActors
    BY <1>4, <1>0, <2>2 DEF PreemptTakes, SetCarrier, QuietActors, LocalType,
       Tracked, Dispatching, Unstamped, Provenance, ActorsKnow
  <2> QED
    BY <2>1, <2>3, QuietKeeps, NoneAssumption
<1>5. CASE PreemptGivesBack(i, m)
  <2>1. QuietDb
    <3>1. \/ exec' = [exec EXCEPT ![m] = HandedOff(i, m, waiter[i][m])]
          \/ exec' = exec
      BY <1>5 DEF PreemptGivesBack
    <3>2. UNCHANGED <<inflight, log, minted, written>>
      BY <1>5 DEF PreemptGivesBack
    <3> QED
      BY <3>1, <3>2, <1>0, HandOffRow, RowsQuiet
  <2>2. QuietActors
    BY <1>5, <1>0 DEF PreemptGivesBack, QuietActors, LocalType,
       Dispatching, Unstamped, Provenance, ActorsKnow
  <2> QED
    BY <2>1, <2>2, QuietKeeps, NoneAssumption
<1> QED
  BY <1>1, <1>2, <1>3, <1>4, <1>5 DEF Resume

\* A closer acts on turns that have an assistant row.
LEMMA CloseProvenance ==
  ASSUME TypeOK, Provenance, NEW i \in Instance, NEW m \in Message,
         Close(i, m)
  PROVE  Provenance'
<1>0. DbType /\ LocalType
  BY TypeSplit
<1>a. Dispatched(m) /\ ActorsKnow(i, m)
  BY DEF Provenance
<1>1. CASE CloserClaims(i, m)
  <2>1. PICK kind \in CloserKinds(m) :
           \/ /\ closer' = [closer EXCEPT ![i][m] =
                    [step |-> "claimed", gen |-> 0, kind |-> kind]]
              /\ exec' = exec
           \/ /\ IsOpen(m)
              /\ exec' = [exec EXCEPT ![m] = TakenOver(i, m, "adopting")]
              /\ closer' = [closer EXCEPT ![i][m] =
                    [step |-> "claimed", gen |-> exec[m].gen + 1, kind |-> kind]]
    BY <1>1 DEF CloserClaims
  <2>2. UNCHANGED <<inflight, log, minted, written, carrier, sweeper, waiter>>
        /\ m \in written
    BY <1>1 DEF CloserClaims
  <2>3. QuietDb
    <3>1. CASE exec' = exec
      BY <2>2, <3>1 DEF QuietDb
    <3>2. CASE IsOpen(m) /\ exec' = [exec EXCEPT ![m] = TakenOver(i, m, "adopting")]
      BY <1>0, <1>a, <2>2, <3>2, TakeOverRow, RowsQuiet
      DEF OpenStates, IsOpen, Dispatched
    <3> QED
      BY <2>1, <3>1, <3>2
  <2>4. \A j \in Instance, n \in Message :
           j # i \/ n # m => closer'[j][n] = closer[j][n]
    BY <2>1, <1>0 DEF LocalType
  <2>5. QuietActors
    BY <2>2, <2>4 DEF QuietActors, Dispatching, Unstamped, Provenance, ActorsKnow
  <2> QED
    BY <2>3, <2>5, QuietKeeps, NoneAssumption
<1>2. CASE CloserOpens(i, m)
  <2>1. QuietDb
    BY <1>2 DEF CloserOpens, QuietDb, db
  <2>2. QuietActors
    BY <1>2, <1>0, <1>a DEF CloserOpens, QuietActors, LocalType, Closer,
       Dispatching, Unstamped, Provenance, ActorsKnow
  <2> QED
    BY <2>1, <2>2, QuietKeeps, NoneAssumption
<1>3. CASE CloserDone(i, m) /\ QuietDb
  <2>1. QuietActors
    BY <1>3, <1>0 DEF CloserDone, QuietActors, LocalType, NoCloser,
       Dispatching, Unstamped, Provenance, ActorsKnow
  <2> QED
    BY <1>3, <2>1, QuietKeeps, NoneAssumption
<1>4. CASE CloserWrites(i, m)
  <2>1. m \in minted /\ closer[i][m].kind \in TerminalKinds
    BY <1>4, <1>0, <1>a DEF CloserWrites, ActorsKnow, Dispatched, LocalType, Closer
  <2>2. QuietDb
    BY <1>4, <1>0, <2>1, TerminalQuiet DEF CloserWrites
  <2> QED
    BY <1>3, <1>4, <2>2 DEF CloserWrites
<1>5. CASE CloserFails(i, m)
  <2>1. QuietDb
    BY <1>5 DEF CloserFails, QuietDb, db
  <2> QED
    BY <1>3, <1>5, <2>1 DEF CloserFails
<1> QED
  BY <1>1, <1>2, <1>4, <1>5 DEF Close

\* Clock, cancel, stale-claim sweep, drain, handoff, crash, stutter.
LEMMA OtherProvenance ==
  ASSUME TypeOK, Provenance,
         \/ \E m \in Message :
               LeaseLapses(m) \/ RequestCancel(m) \/ ClearStaleClaim(m)
         \/ \E i \in Instance : Drain(i) \/ HandOffOwnedTurns(i) \/ Crash(i)
         \/ UNCHANGED vars
  PROVE  Provenance'
<1>0. DbType /\ LocalType
  BY TypeSplit
<1>a. ASSUME UNCHANGED <<carrier, closer, sweeper, waiter>>
      PROVE  QuietActors
  BY <1>a DEF QuietActors, Dispatching, Unstamped, Provenance, ActorsKnow
<1>1. ASSUME NEW m \in Message, LeaseLapses(m) PROVE Provenance'
  <2>1. \A n \in Message : /\ exec'[n].gen = exec[n].gen
                           /\ exec'[n].state = exec[n].state
    BY <1>0, <1>1 DEF LeaseLapses, DbType, ExecRow
  <2>2. QuietDb
    BY <1>1, <2>1 DEF LeaseLapses, QuietDb
  <2> QED
    BY <1>1, <1>a, <2>2, QuietKeeps, NoneAssumption DEF LeaseLapses, local
<1>2. ASSUME NEW m \in Message, RequestCancel(m) \/ ClearStaleClaim(m)
      PROVE  Provenance'
  <2>1. QuietDb
    BY <1>2 DEF RequestCancel, ClearStaleClaim, QuietDb
  <2> QED
    BY <1>2, <1>a, <2>1, QuietKeeps, NoneAssumption
    DEF RequestCancel, ClearStaleClaim, local
<1>3. ASSUME NEW i \in Instance, Drain(i) \/ UNCHANGED vars PROVE Provenance'
  <2>1. QuietDb
    BY <1>3 DEF Drain, QuietDb, vars, db
  <2> QED
    BY <1>3, <1>a, <2>1, QuietKeeps, NoneAssumption DEF Drain, vars, local
<1>4. ASSUME NEW i \in Instance, HandOffOwnedTurns(i) PROVE Provenance'
  <2>1. ASSUME NEW n \in Message
        PROVE  \/ exec'[n] = exec[n]
               \/ /\ IsOpen(n) /\ exec'[n].state \in OpenStates
                  /\ exec'[n].gen = exec[n].gen
    <3>1. \/ exec'[n] = HandedOff(i, n, carrier[i][n].gen)
          \/ exec'[n] = exec[n]
      BY <1>4 DEF HandOffOwnedTurns
    <3>2. exec[n] \in ExecRow
      BY <1>0 DEF DbType
    <3> QED
      BY <3>1, <3>2 DEF HandedOff, ExecRow, IsOpen, OpenStates
  <2>2. QuietDb
    BY <1>0, <1>4, <2>1, RowsQuiet DEF HandOffOwnedTurns
  <2> QED
    BY <1>4, <1>a, <2>2, QuietKeeps, NoneAssumption DEF HandOffOwnedTurns, local
<1>5. ASSUME NEW i \in Instance, Crash(i) PROVE Provenance'
  <2>1. QuietDb
    BY <1>5 DEF Crash, QuietDb, db
  <2>2. ASSUME NEW j \in Instance, NEW n \in Message
        PROVE  \/ /\ carrier'[j][n] = Idle /\ closer'[j][n] = NoCloser
                  /\ sweeper'[j][n] = NoClaim /\ waiter'[j][n] = 0
               \/ /\ carrier'[j][n] = carrier[j][n] /\ closer'[j][n] = closer[j][n]
                  /\ sweeper'[j][n] = sweeper[j][n] /\ waiter'[j][n] = waiter[j][n]
    BY <1>0, <1>5 DEF Crash, LocalType
  <2>3. QuietActors
    BY <2>2 DEF QuietActors, Idle, NoCloser, Dispatching, Unstamped,
       Provenance, ActorsKnow
  <2> QED
    BY <2>1, <2>3, QuietKeeps, NoneAssumption
<1>6. CASE UNCHANGED vars
  BY <1>6 DEF vars, db, local, Provenance, Dispatched, ActorsKnow, Dispatching,
     Unstamped
<1> QED
  BY <1>1, <1>2, <1>3, <1>4, <1>5, <1>6

\* Every step keeps Provenance.
LEMMA ProvenanceStep == TypeOK /\ Provenance /\ [Next]_vars => Provenance'
BY DispatchProvenance, CarryProvenance, AdoptProvenance, ResumeProvenance,
   CloseProvenance, OtherProvenance DEF Next

\* Nothing has happened yet.
LEMMA ProvenanceInit == Init => Provenance
BY NoneAssumption DEF Init, Provenance, Dispatched, ActorsKnow, NoExec, Idle,
   NoCloser, NoClaim, Dispatching, Unstamped, Tracked, NoneAssumption

\* An id is used before its assistant row exists, the row before anyone
\* carries, claims or owns the turn, and one dispatcher brings it to its first
\* execution row (sendMessage, startAssistantTurn, upsertTurnExecution).
THEOREM ProvenanceHolds == Spec => []Provenance
<1>1. Init => Provenance
  BY ProvenanceInit
<1>2. TypeOK /\ Provenance /\ [Next]_vars => Provenance'
  BY ProvenanceStep
<1> QED
  BY <1>1, <1>2, TypeCorrect, PTL DEF Spec
-----------------------------------------------------------------------------
(***************************************************************************)
(* Second layer: StreamsOwned.  Every action touches the carrier and the   *)
(* stream of one instance and one turn, a crash those of one instance.     *)
(***************************************************************************)
\* SetCarrier changes one carrier.
LEMMA CarrierSet ==
  ASSUME LocalType, NEW i \in Instance, NEW m \in Message, NEW c,
         SetCarrier(i, m, c)
  PROVE  /\ carrier'[i][m] = c
         /\ \A j \in Instance, n \in Message :
               j # i \/ n # m => carrier'[j][n] = carrier[j][n]
BY DEF SetCarrier, LocalType

\* An update of one stream.
SetStream(i, m, s) == stream' = [stream EXCEPT ![i][m] = s]

\* An update of one stream changes that stream only.
LEMMA StreamSet ==
  ASSUME LocalType, NEW i \in Instance, NEW m \in Message, NEW s,
         SetStream(i, m, s)
  PROVE  /\ stream'[i][m] = s
         /\ \A j \in Instance, n \in Message :
               j # i \/ n # m => stream'[j][n] = stream[j][n]
BY DEF SetStream, LocalType

\* A step of one actor on one turn leaves the other streams alone.
OthersKept(i, m) ==
    \A j \in Instance, n \in Message :
        j # i \/ n # m => /\ stream'[j][n] = stream[j][n]
                          /\ carrier'[j][n] = carrier[j][n]

\* If the one pair a step touches is owned, all are.
LEMMA OneActor ==
  ASSUME StreamsOwned, NEW i \in Instance, NEW m \in Message,
         OthersKept(i, m), StreamOwned(i, m)'
  PROVE  StreamsOwned'
BY DEF StreamsOwned, StreamOwned, Live, OthersKept

\* Without a live stream there is nothing to own.
LEMMA NotLive ==
  ASSUME NEW i, NEW m, ~Live(i, m)'
  PROVE  StreamOwned(i, m)'
BY DEF StreamOwned

\* Dropping the stream, or ending the one of the carrier's own fence, leaves
\* nothing live.
LEMMA DropLeavesNone ==
  ASSUME LocalType, NEW i \in Instance, NEW m \in Message,
         StreamOwned(i, m),
         \/ DropStream(i, m)
         \/ EndStream(i, m, carrier[i][m].gen)
  PROVE  /\ ~Live(i, m)'
         /\ \A j \in Instance, n \in Message :
               j # i \/ n # m => stream'[j][n] = stream[j][n]
<1>1. CASE SetStream(i, m, NoStream)
  BY <1>1, StreamSet DEF Live, NoStream
<1>2. CASE stream' = stream /\ ~(stream[i][m].up /\ stream[i][m].gen = carrier[i][m].gen)
  BY <1>2 DEF Live, StreamOwned
<1> QED
  BY <1>1, <1>2 DEF DropStream, EndStream, SetStream

\* Dispatch opens an unfenced stream and fences it with the stamp.
LEMMA DispatchStreams ==
  ASSUME TypeOK, Provenance, StreamsOwned,
         NEW i \in Instance, NEW m \in Message, Dispatch(i, m)
  PROVE  StreamsOwned'
<1>0. LocalType /\ StreamOwned(i, m) /\ ActorsKnow(i, m)
  BY TypeSplit DEF StreamsOwned, Provenance
<1>1. CASE ClaimTurn(i, m) \/ SetupFails(i, m)
  <2>1. PICK c : SetCarrier(i, m, c)
    BY <1>1 DEF ClaimTurn, SetupFails
  <2>2. stream' = stream
    BY <1>1 DEF ClaimTurn, SetupFails
  <2>3. ~Live(i, m)
    BY <1>0, <1>1 DEF StreamOwned, ActorsKnow, ClaimTurn, SetupFails, Tracked
  <2> QED
    BY <1>0, <2>1, <2>2, <2>3, CarrierSet, OneActor, NotLive
    DEF OthersKept, Live
<1>2. CASE StartTurn(i, m)
  <2>1. /\ SetCarrier(i, m, [Idle EXCEPT !.kind = "dispatch"])
        /\ SetStream(i, m, [up |-> TRUE, ended |-> FALSE, gen |-> 0])
    BY <1>2 DEF StartTurn, OpenStream, SetStream
  <2>2. /\ carrier'[i][m].kind = "dispatch" /\ carrier'[i][m].gen = 0
        /\ stream'[i][m].gen = 0
    BY <1>0, <2>1, CarrierSet, StreamSet DEF Idle
  <2>3. OthersKept(i, m)
    BY <1>0, <2>1, CarrierSet, StreamSet DEF OthersKept
  <2> QED
    BY <2>2, <2>3, OneActor DEF StreamOwned, Tracked
<1>3. CASE DispatchFails(i, m) \/ StampAnswerLost(i, m) \/ StampRefused(i, m)
  <2>1. SetCarrier(i, m, Idle) /\ DropStream(i, m)
    BY <1>3 DEF DispatchFails, StampAnswerLost, StampRefused
  <2> QED
    BY <1>0, <2>1, CarrierSet, DropLeavesNone, OneActor, NotLive DEF OthersKept
<1>4. CASE StampExecution(i, m)
  <2> DEFINE c == [carrier[i][m] EXCEPT !.gen = 1]
             g == IF stream[i][m].up THEN 1 ELSE stream[i][m].gen
             s == [stream[i][m] EXCEPT !.gen = g]
  <2>1. carrier[i][m] \in Carrier /\ stream[i][m] \in Stream
    BY <1>0 DEF LocalType
  <2>2. /\ c.kind = carrier[i][m].kind /\ c.gen = 1
        /\ s.up = stream[i][m].up /\ s.ended = stream[i][m].ended
        /\ s.up => s.gen = 1
    BY <2>1 DEF Carrier, Stream
  <2>3. SetCarrier(i, m, c) /\ SetStream(i, m, s)
    BY <1>4 DEF StampExecution, SetStreamFence, SetStream
  <2>4. carrier[i][m].kind = "dispatch"
    BY <1>4 DEF StampExecution, Unstamped
  <2> HIDE DEF c, s
  <2>5. /\ carrier'[i][m] = c /\ stream'[i][m] = s
        /\ OthersKept(i, m)
    BY <1>0, <2>3, CarrierSet, StreamSet DEF OthersKept
  <2> QED
    BY <2>2, <2>4, <2>5, OneActor DEF StreamOwned, Live, Tracked
<1> QED
  BY <1>1, <1>2, <1>3, <1>4 DEF Dispatch

\* A carrier that stops takes its own stream along.
LEMMA CarryStreams ==
  ASSUME TypeOK, StreamsOwned,
         NEW i \in Instance, NEW m \in Message, Carry(i, m)
  PROVE  StreamsOwned'
<1>0. LocalType /\ StreamOwned(i, m)
  BY TypeSplit DEF StreamsOwned
<1>a. ASSUME stream' = stream,
             \A j \in Instance, n \in Message :
                /\ carrier'[j][n].kind = carrier[j][n].kind
                /\ carrier'[j][n].gen = carrier[j][n].gen
      PROVE  StreamsOwned'
  BY <1>a DEF StreamsOwned, StreamOwned, Live
<1>1. CASE CarrierEmits(i, m)
  <2>1. CASE UNCHANGED <<carrier, stream>>
    BY <1>a, <2>1
  <2>2. CASE DropStream(i, m)
    <3>1. \/ SetCarrier(i, m, [carrier[i][m] EXCEPT !.abort = "lost"])
          \/ SetCarrier(i, m, carrier[i][m])
          \/ UNCHANGED carrier
      BY <1>1 DEF CarrierEmits
    <3>2. \A j \in Instance, n \in Message :
             j # i \/ n # m => carrier'[j][n] = carrier[j][n]
      BY <1>0, <3>1, CarrierSet
    <3> QED
      BY <1>0, <2>2, <3>2, DropLeavesNone, OneActor, NotLive DEF OthersKept
  <2> QED
    BY <1>1, <2>1, <2>2 DEF CarrierEmits
<1>2. CASE CarrierEnds(i, m)
  <2>1. SetCarrier(i, m, Idle)
    BY <1>2 DEF CarrierEnds
  <2>2. DropStream(i, m) \/ (stream' = stream /\ ~Live(i, m))
    BY <1>2 DEF CarrierEnds, Live
  <2>3. /\ ~Live(i, m)'
        /\ \A j \in Instance, n \in Message :
              j # i \/ n # m => stream'[j][n] = stream[j][n]
    BY <1>0, <2>2, DropLeavesNone DEF Live
  <2> QED
    BY <1>0, <2>1, <2>3, CarrierSet, OneActor, NotLive DEF OthersKept
<1>3. CASE CarrierStops(i, m) \/ CarrierLost(i, m)
  <2>1. SetCarrier(i, m, Idle) /\ EndStream(i, m, carrier[i][m].gen)
    BY <1>3 DEF CarrierStops, CarrierLost
  <2> QED
    BY <1>0, <2>1, CarrierSet, DropLeavesNone, OneActor, NotLive DEF OthersKept
<1>4. CASE RenewLease(i, m) \/ AbortCarrier(i, m)
  <2>1. /\ stream' = stream
        /\ \/ SetCarrier(i, m, [carrier[i][m] EXCEPT !.abort = "lost"])
           \/ SetCarrier(i, m, [carrier[i][m] EXCEPT !.abort = "cancel"])
           \/ carrier' = carrier
    BY <1>4 DEF RenewLease, AbortCarrier
  <2> QED
    BY <1>0, <1>a, <2>1, AbortKeepsCarrier
<1> QED
  BY <1>1, <1>2, <1>3, <1>4 DEF Carry

\* A carrier that takes a turn over opens a stream under its own fence.
LEMMA TakesWithStream ==
  ASSUME LocalType, StreamsOwned, NEW i \in Instance, NEW m \in Message,
         NEW c, c.kind \in Tracked, c.gen # 0,
         SetCarrier(i, m, c), OpenStream(i, m, c.gen)
  PROVE  StreamsOwned'
<1>1. SetStream(i, m, [up |-> TRUE, ended |-> FALSE, gen |-> c.gen])
  BY DEF OpenStream, SetStream
<1>2. carrier'[i][m] = c /\ stream'[i][m].gen = c.gen /\ OthersKept(i, m)
  BY <1>1, CarrierSet, StreamSet DEF OthersKept
<1> QED
  BY <1>2, OneActor DEF StreamOwned

\* An adoption opens the stream of its claim.
LEMMA AdoptStreams ==
  ASSUME TypeOK, StreamsOwned,
         NEW i \in Instance, NEW m \in Message, Adopt(i, m)
  PROVE  StreamsOwned'
<1>0. LocalType
  BY TypeSplit
<1>1. CASE UNCHANGED <<carrier, stream>>
  BY <1>1 DEF StreamsOwned, StreamOwned, Live
<1>2. CASE AdoptTurn(i, m) /\ carrier[i][m].kind \notin Tracked
  <2> DEFINE c == [kind |-> "adoption", abort |-> "no", gen |-> sweeper[i][m].gen]
  <2>1. SetCarrier(i, m, c) /\ OpenStream(i, m, sweeper[i][m].gen)
    BY <1>2 DEF AdoptTurn
  <2>2. sweeper[i][m] \in Claim
    BY <1>0 DEF LocalType
  <2>3. sweeper[i][m].gen # 0
    BY <1>2, <2>2 DEF AdoptTurn, Claim, NoClaim
  <2>4. c.kind \in Tracked /\ c.gen = sweeper[i][m].gen
    BY DEF Tracked
  <2> HIDE DEF c
  <2> QED
    BY <1>0, <2>1, <2>3, <2>4, TakesWithStream
<1> QED
  BY <1>1, <1>2 DEF Adopt, SweepClaims, HandOffLateClaim, AdoptTurn, GiveUp

\* A resume opens the stream of its claim.
LEMMA ResumeStreams ==
  ASSUME TypeOK, StreamsOwned,
         NEW i \in Instance, NEW m \in Message, Resume(i, m)
  PROVE  StreamsOwned'
<1>0. DbType /\ LocalType /\ StreamOwned(i, m)
  BY TypeSplit DEF StreamsOwned
<1>a. ASSUME NEW c, SetCarrier(i, m, c), stream' = stream, ~Live(i, m)
      PROVE  StreamsOwned'
  BY <1>0, <1>a, CarrierSet, OneActor, NotLive DEF OthersKept, Live
<1>1. CASE HelloResumes(i, m)
  BY <1>0, <1>1, <1>a DEF HelloResumes, StreamOwned, Tracked
<1>2. CASE ResumeClaims(i, m)
  <2>1. CASE ~ResumeClaimable(m)
    BY <1>0, <1>2, <1>a, <2>1 DEF ResumeClaims, StreamOwned
  <2>2. CASE ResumeClaimable(m)
    <3> DEFINE c == [carrier[i][m] EXCEPT !.gen = exec[m].gen + 1]
    <3>1. carrier[i][m] \in Carrier /\ carrier[i][m].kind = "resume"
          /\ exec[m].gen \in Nat
      BY <1>0, <1>2 DEF LocalType, DbType, ExecRow, ResumeClaims
    <3>2. c.kind = "resume" /\ c.gen = exec[m].gen + 1
      BY <3>1 DEF Carrier
    <3>3. SetCarrier(i, m, c) /\ OpenStream(i, m, exec[m].gen + 1)
      BY <1>2, <2>2 DEF ResumeClaims
    <3> HIDE DEF c
    <3> QED
      BY <1>0, <3>1, <3>2, <3>3, TakesWithStream DEF Tracked
  <2> QED
    BY <2>1, <2>2
<1>3. CASE PreemptAdoption(i, m)
  <2>1. PICK a \in {"cancel", carrier[i][m].abort} :
           SetCarrier(i, m, [carrier[i][m] EXCEPT !.abort = a])
    BY <1>3 DEF PreemptAdoption
  <2>2. \A j \in Instance, n \in Message :
           /\ carrier'[j][n].kind = carrier[j][n].kind
           /\ carrier'[j][n].gen = carrier[j][n].gen
    BY <1>0, <2>1, AbortKeepsCarrier
  <2>3. stream' = stream
    BY <1>3 DEF PreemptAdoption
  <2> QED
    BY <2>2, <2>3 DEF StreamsOwned, StreamOwned, Live
<1>4. CASE PreemptTakes(i, m)
  <2> DEFINE c == [kind |-> "resume", gen |-> waiter[i][m], abort |-> "no"]
  <2>1. SetCarrier(i, m, c) /\ OpenStream(i, m, waiter[i][m]) /\ waiter[i][m] # 0
    BY <1>4 DEF PreemptTakes
  <2>2. c.kind \in Tracked /\ c.gen = waiter[i][m]
    BY DEF Tracked
  <2> HIDE DEF c
  <2> QED
    BY <1>0, <2>1, <2>2, TakesWithStream
<1>5. CASE PreemptGivesBack(i, m)
  BY <1>5 DEF PreemptGivesBack, StreamsOwned, StreamOwned, Live
<1> QED
  BY <1>1, <1>2, <1>3, <1>4, <1>5 DEF Resume

\* A closer's stream takes no rows.
LEMMA CloseStreams ==
  ASSUME TypeOK, StreamsOwned,
         NEW i \in Instance, NEW m \in Message, Close(i, m)
  PROVE  StreamsOwned'
<1>0. LocalType
  BY TypeSplit
<1>1. CASE CloserClaims(i, m)
  BY <1>1 DEF CloserClaims, StreamsOwned, StreamOwned, Live
<1>a. ASSUME NEW s, SetStream(i, m, s), ~s.up \/ s.ended, carrier' = carrier
      PROVE  StreamsOwned'
  BY <1>0, <1>a, StreamSet, OneActor, NotLive DEF OthersKept, Live
<1>2. CASE CloserOpens(i, m)
  <2>1. /\ carrier' = carrier
        /\ SetStream(i, m, [up |-> TRUE, ended |-> TRUE, gen |-> closer[i][m].gen])
    BY <1>2 DEF CloserOpens, SetStream
  <2> QED
    BY <2>1, <1>a
<1>3. CASE CloserDone(i, m)
  <2>1. carrier' = carrier /\ (SetStream(i, m, NoStream) \/ stream' = stream)
    BY <1>3 DEF CloserDone, SetStream
  <2>2. CASE SetStream(i, m, NoStream)
    BY <2>1, <2>2, <1>a DEF NoStream
  <2>3. CASE stream' = stream
    BY <2>1, <2>3 DEF StreamsOwned, StreamOwned, Live
  <2> QED
    BY <2>1, <2>2, <2>3
<1> QED
  BY <1>1, <1>2, <1>3 DEF Close, CloserWrites, CloserFails

\* A step takes the streams' ownership from one reachable state to the next.
LEMMA StreamsStep == TypeOK /\ Provenance /\ StreamsOwned /\ [Next]_vars
                        => StreamsOwned'
<1> SUFFICES ASSUME TypeOK, Provenance, StreamsOwned, [Next]_vars
             PROVE  StreamsOwned'
  OBVIOUS
<1>0. LocalType
  BY TypeSplit
<1>1. CASE UNCHANGED <<carrier, stream>>
  BY <1>1 DEF StreamsOwned, StreamOwned, Live
<1>2. ASSUME NEW i \in Instance, NEW m \in Message,
             Dispatch(i, m) \/ Carry(i, m) \/ Adopt(i, m)
               \/ Resume(i, m) \/ Close(i, m)
      PROVE  StreamsOwned'
  BY <1>2, DispatchStreams, CarryStreams, AdoptStreams, ResumeStreams, CloseStreams
<1>3. ASSUME NEW i \in Instance, Crash(i) PROVE StreamsOwned'
  <2>1. ASSUME NEW j \in Instance, NEW n \in Message
        PROVE  \/ stream'[j][n] = NoStream
               \/ stream'[j][n] = stream[j][n] /\ carrier'[j][n] = carrier[j][n]
    BY <1>0, <1>3 DEF Crash, LocalType
  <2> QED
    BY <2>1 DEF StreamsOwned, StreamOwned, Live, NoStream
<1>4. ASSUME NEW m \in Message,
             LeaseLapses(m) \/ RequestCancel(m) \/ ClearStaleClaim(m)
      PROVE  UNCHANGED <<carrier, stream>>
  BY <1>4 DEF LeaseLapses, RequestCancel, ClearStaleClaim, local
<1>5. ASSUME NEW i \in Instance, Drain(i) \/ HandOffOwnedTurns(i)
      PROVE  UNCHANGED <<carrier, stream>>
  BY <1>5 DEF Drain, HandOffOwnedTurns, local
<1> QED
  BY <1>1, <1>2, <1>3, <1>4, <1>5 DEF Next, vars, local

\* A stream that takes rows belongs to the carrier that runs in its instance
\* and bears that carrier's fence (setTurnFence, preemptAdoptionForResume).
THEOREM StreamsOwnedHolds == Spec => []StreamsOwned
<1>1. Init => StreamsOwned
  BY DEF Init, StreamsOwned, StreamOwned, Live, NoStream
<1>2. TypeOK /\ Provenance /\ StreamsOwned /\ [Next]_vars => StreamsOwned'
  BY StreamsStep
<1> QED
  BY <1>1, <1>2, TypeCorrect, ProvenanceHolds, PTL DEF Spec
=============================================================================
