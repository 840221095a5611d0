----------------------- MODULE ChannelBridge_proofs -----------------------
(***************************************************************************)
(* ChannelBridge for any number of messages, errors and deaths: messages   *)
(* run once and are not lost, replies are owed and posted once.            *)
(***************************************************************************)
EXTENDS ChannelBridge, TLAPS

\* A row has its own message.  A live handler has its row, runs nothing the row
\* does not carry, and knows whether the turn it planned exists.  A turn was planned
\* in its row, which waits no more, and has none but the row's text.
RowFits(e) ==
    /\ e \in row[e].text
    /\ hand[e].pc # "none" =>
         /\ row[e].status = "processing" /\ row[e].tries > 0
         /\ hand[e].text \subseteq row[e].text
         /\ hand[e].pc \in {"planned", "busy"} => row[e].plan /\ ~HasRun(e)
         /\ hand[e].pc \in {"sent", "owed"} => HasRun(e)
    /\ HasRun(e) =>
         /\ row[e].plan /\ row[e].status \notin {"absent", "queued"}
         /\ turn[e].text \subseteq row[e].text

\* Nothing is owed or observed before the turn exists; its handler owes the reply
\* before it tells the observer, and an observer that knows its turn has the row
\* accepted.  An observer without a recorded row has inserted none before its reply.
ObserverFits(e) ==
    /\ ~HasRun(e) => out[e].status = "none" /\ watch[e] = "none" /\ e \notin unrecorded
    /\ hand[e].pc = "sent" => out[e].status = "none" /\ e \notin unrecorded
    /\ hand[e].pc = "owed" => out[e].status # "none" \/ e \in unrecorded
    /\ watch[e] = "bound" => hand[e].pc \in {"sent", "owed"}
    /\ watch[e] \notin {"none", "bound"} => row[e].status = "accepted"
    /\ e \in unrecorded /\ watch[e] \in {"bound", "waiting"} => out[e].status = "none"

\* Whoever is sending the reply has the outbox row, stamped.
SenderFits(e) ==
    /\ sender[e] # "none" => out[e].status = "processing"
    /\ sender[e] \in {"sending", "posted"} => out[e].stamped
    /\ watch[e] \in {"sending", "posted"} => out[e].status = "queued" /\ out[e].stamped
    /\ watch[e] = "noting" => out[e].status = "dropped"

\* A reply that was posted once, and not blindly repeated, is on nobody's way to
\* the platform again: its row is stamped, or closed.
PostFits(e) ==
    e \notin doubtful =>
       /\ posts[e] < 2
       /\ posts[e] # 0 =>
            /\ out[e].status \notin {"none", "pending"}
            /\ watch[e] \notin {"sending", "noting"} /\ sender[e] # "sending"
            /\ out[e].stamped \/ out[e].status \in {"sent", "dropped"}

Fits(e) == RowFits(e) /\ ObserverFits(e) /\ SenderFits(e) /\ PostFits(e)

\* No listing has read more than the row carries.
SeenFits(e) == \A r \in seen[e] : r.text \subseteq row[e].text

LocalInv == TypeOK /\ \A e \in Messages : Fits(e) /\ SeenFits(e)
-----------------------------------------------------------------------------
(* Types *)

\* TypeOK by groups of variables: an action that leaves a group alone keeps it.
InboundType ==
    /\ row \in [Messages -> RowType] /\ hand \in [Messages -> HandType]

SeenType == seen \in [Messages -> SUBSET ReadingType]

SessionType ==
    /\ slot \in Guests \cup {"free", "turn"} /\ turn \in [Messages -> TurnType]
    /\ runs \in [Messages -> Nat]

ReplyType ==
    /\ posts \in [Messages -> Nat]
    /\ watch \in [Messages -> {"none", "bound", "waiting", "sending", "noting",
                               "posted", "draining"}]
    /\ out \in [Messages -> OutType]
    /\ sender \in [Messages -> {"none", "claimed", "sending", "posted"}]
    /\ unrecorded \subseteq Messages /\ doubtful \subseteq Messages

CountType == drain \in BOOLEAN /\ visits \in 0 .. MaxVisits /\ faults \in 0 .. MaxFaults

LEMMA TypeSplits == TypeOK <=> InboundType /\ SeenType /\ SessionType /\ ReplyType /\ CountType
  BY DEF TypeOK, InboundType, SeenType, SessionType, ReplyType, CountType

LEMMA TypeSplitsNext ==
    ASSUME InboundType', SeenType', SessionType', ReplyType', CountType' PROVE TypeOK'
  BY DEF TypeOK, InboundType, SeenType, SessionType, ReplyType, CountType

LEMMA InitTyped == Init => TypeOK
  <1>. SUFFICES ASSUME Init PROVE TypeOK
    OBVIOUS
  <1>1. InboundType
    BY DEF Init, InboundType, RowType, HandType, NoHand
  <1>5. SeenType
    BY DEF Init, SeenType
  <1>2. SessionType
    <2>1. NoTurn \in TurnType
      BY DEF TurnType, NoTurn
    <2>. QED
      BY <2>1 DEF Init, SessionType
  <1>3. ReplyType
    BY DEF Init, ReplyType, OutType
  <1>4. CountType
    <2>1. 0 \in 0 .. MaxVisits /\ 0 \in 0 .. MaxFaults
      BY BridgeAssumption
    <2>. QED
      BY <2>1 DEF Init, CountType
  <1>. QED
    BY <1>1, <1>2, <1>3, <1>4, <1>5, TypeSplits

\* What a listing reads of a row is typed as the row is.
LEMMA SeenTyped ==
    ASSUME InboundType', SeenType, Lists
    PROVE  SeenType'
  <1>1. ASSUME NEW e \in Messages
        PROVE  seen'[e] \in SUBSET ReadingType
    <2>1. Reading(e)' \in ReadingType
      BY DEF Reading, ReadingType, InboundType, RowType
    <2>2. seen[e] \in SUBSET ReadingType
      BY DEF SeenType
    <2>. QED
      BY <2>1, <2>2 DEF Lists
  <1>. QED
    BY <1>1 DEF SeenType, Lists

LEMMA RowsTyped ==
    ASSUME InboundType, NEW e \in Messages
    PROVE  row[e] \in RowType /\ hand[e] \in HandType /\ NoHand \in HandType
  BY DEF InboundType, HandType, NoHand

\* The rows that a claim and a requeue write.
LEMMA TakenTyped ==
    ASSUME NEW r \in RowType, NEW n \in Nat
    PROVE  /\ [r EXCEPT !.status = "processing", !.queued = FALSE, !.tries = n] \in RowType
           /\ [r EXCEPT !.status = "queued", !.queued = TRUE, !.plan = FALSE, !.tries = n] \in RowType
  BY DEF RowType

\* The last word of a handler.
LEMMA SettleTyped ==
    ASSUME InboundType, NEW e \in Messages, NEW r \in RowType, Settle(e, r)
    PROVE  InboundType'
  BY RowsTyped DEF InboundType, Settle

LEMMA StatusTyped ==
    ASSUME InboundType, NEW e \in Messages,
           NEW s \in {"absent", "queued", "processing", "failed"} \cup Settled
    PROVE  [row[e] EXCEPT !.status = s] \in RowType
  BY RowsTyped DEF RowType

\* An outbox row with another status or stamp.
LEMMA OutTyped ==
    ASSUME ReplyType, NEW e \in Messages, NEW b \in BOOLEAN,
           NEW s \in {"none", "pending", "queued", "processing", "failed"} \cup Resolved
    PROVE  /\ [out[e] EXCEPT !.status = s] \in OutType
           /\ [out[e] EXCEPT !.stamped = b] \in OutType
           /\ [out[e] EXCEPT !.status = s, !.stamped = b] \in OutType
  <1>1. out[e] \in OutType
    BY DEF ReplyType
  <1>. QED
    BY <1>1 DEF OutType

\* A requeue gives back the attempt that its claim has counted (RowFits).
LEMMA HandlerTyped ==
    ASSUME TypeOK, NEW e \in Messages, RowFits(e), Handler(e)
    PROVE  InboundType' /\ SessionType' /\ ReplyType'
  <1>. USE TypeSplits
  <1>0. InboundType /\ SessionType /\ ReplyType /\ row[e] \in RowType /\ hand[e] \in HandType
    BY RowsTyped
  <1>a. ASSUME UNCHANGED <<session, observer, outbound, others>>
        PROVE  SessionType' /\ ReplyType'
    BY <1>0, <1>a DEF SessionType, ReplyType, session, observer, outbound
  <1>1. CASE Arrive(e)
    <2>1. [row[e] EXCEPT !.status = "queued"] \in RowType
      BY <1>0, StatusTyped
    <2>. QED
      BY <1>0, <1>a, <1>1, <2>1 DEF Arrive, InboundType
  <1>2. CASE Claim(e)
    <2>1. PICK r \in seen[e] :
             hand' = [hand EXCEPT ![e] = [pc |-> "claimed", text |-> r.text, first |-> ~r.queued]]
      BY <1>2 DEF Claim
    <2>2. r.text \subseteq Messages /\ r.queued \in BOOLEAN
      BY <2>1 DEF SeenType, ReadingType
    <2>3. [pc |-> "claimed", text |-> r.text, first |-> ~r.queued] \in HandType
      BY <2>2 DEF HandType
    <2>4. Claimed(e) \in RowType
      <3>1. row[e].tries + 1 \in Nat
        BY <1>0 DEF RowType
      <3>. QED
        BY <1>0, <3>1, TakenTyped DEF Claimed
    <2>. QED
      BY <1>0, <1>a, <1>2, <2>1, <2>3, <2>4 DEF Claim, InboundType
  <1>3. CASE Refuses(e) \/ SendDiscards(e)
    <2>1. [row[e] EXCEPT !.status = "dropped"] \in RowType
      BY <1>0, StatusTyped DEF Settled
    <2>. QED
      BY <1>0, <1>a, <1>3, <2>1, SettleTyped DEF Refuses, SendDiscards
  <1>4. CASE AdoptOwes(e)
    <2>1. [out[e] EXCEPT !.status = "pending"] \in OutType
      BY <1>0, OutTyped
    <2>. QED
      BY <1>0, <1>4, <2>1 DEF AdoptOwes, InboundType, SessionType, ReplyType, inbound, session, observer
  <1>5. CASE Adopts(e)
    <2>1. [row[e] EXCEPT !.status = "accepted"] \in RowType
      BY <1>0, StatusTyped DEF Settled
    <2>. QED
      BY <1>0, <1>a, <1>5, <2>1, SettleTyped DEF Adopts
  <1>6. CASE Plans(e)
    <2>1. [row[e] EXCEPT !.plan = TRUE] \in RowType /\ [hand[e] EXCEPT !.pc = "planned"] \in HandType
      BY <1>0 DEF RowType, HandType
    <2>. QED
      BY <1>0, <1>a, <1>6, <2>1 DEF Plans, InboundType
  <1>7. CASE SendRuns(e)
    <2>1. /\ [state |-> "running", text |-> hand[e].text] \in TurnType
          /\ [hand[e] EXCEPT !.pc = "sent"] \in HandType
      BY <1>0 DEF TurnType, HandType
    <2>2. runs' \in [Messages -> Nat] /\ slot' = "turn"
      BY <1>0, <1>7 DEF SendRuns, SessionType
    <2>3. SessionType' /\ InboundType'
      BY <1>0, <1>7, <2>1, <2>2 DEF SendRuns, Creates, SessionType, InboundType
    <2>. QED
      BY <1>0, <1>7, <2>3 DEF SendRuns, ReplyType, outbound
  <1>8. CASE SendBusy(e)
    <2>1. [hand[e] EXCEPT !.pc = "busy"] \in HandType
      BY <1>0 DEF HandType
    <2>. QED
      BY <1>0, <1>a, <1>8, <2>1 DEF SendBusy, InboundType
  <1>9. CASE Queues(e)
    <2>1. row[e].tries - 1 \in Nat
      BY <1>0, <1>9 DEF Queues, RowFits, RowType
    <2>2. [row[e] EXCEPT !.status = "queued", !.queued = TRUE, !.plan = FALSE,
                         !.tries = @ - 1] \in RowType
      BY <1>0, <2>1, TakenTyped
    <2>. QED
      BY <1>0, <1>a, <1>9, <2>2, SettleTyped DEF Queues
  <1>10. CASE Owes(e)
    <2>1. [out[e] EXCEPT !.status = "pending"] \in OutType /\ [hand[e] EXCEPT !.pc = "owed"] \in HandType
      BY <1>0, OutTyped DEF HandType
    <2>. QED
      BY <1>0, <1>10, <2>1 DEF Owes, InboundType, SessionType, ReplyType, session, observer
  <1>11. CASE Accepts(e)
    <2>1. [row[e] EXCEPT !.status = "accepted"] \in RowType
      BY <1>0, StatusTyped DEF Settled
    <2>. QED
      BY <1>0, <1>11, <2>1, SettleTyped DEF Accepts, SessionType, ReplyType, session, outbound
  <1>. QED
    BY <1>1, <1>2, <1>3, <1>4, <1>5, <1>6, <1>7, <1>8, <1>9, <1>10, <1>11 DEF Handler

\* The outbox with one row taken over, sent or closed.
LEMMA TakenOut ==
    ASSUME ReplyType, NEW e \in Messages, NEW s \in {"queued", "sent", "dropped"},
           NEW b \in BOOLEAN
    PROVE  [out EXCEPT ![e].status = s, ![e].stamped = b] \in [Messages -> OutType]
  <1>1. [out[e] EXCEPT !.status = s, !.stamped = b] \in OutType
    BY OutTyped DEF Resolved
  <1>. QED
    BY <1>1 DEF ReplyType

\* A merge keeps the rows well typed.
LEMMA DrainTyped ==
    ASSUME InboundType, DrainQueue
    PROVE  row' \in [Messages -> RowType]
  <1>1. CASE UNCHANGED row
    BY <1>1 DEF InboundType
  <1>2. CASE \E c \in Waiting :
               LET prefix == {d \in Waiting : d <= c}
               IN prefix # {c} /\ Collect(prefix, c)
    <2>1. PICK c \in Waiting : Collect({d \in Waiting : d <= c}, c)
      BY <1>2
    <2>. DEFINE prefix == {d \in Waiting : d <= c}
                merged == UNION {row[d].text : d \in prefix}
    <2>2. merged \subseteq Messages
      BY DEF InboundType, RowType, Waiting
    <2>3. ASSUME NEW x \in Messages
          PROVE  /\ row[x] \in RowType /\ [row[x] EXCEPT !.text = merged] \in RowType
                 /\ [row[x] EXCEPT !.status = "accepted"] \in RowType
      <3>1. row[x] \in RowType
        BY DEF InboundType
      <3>. HIDE DEF merged
      <3>. QED
        BY <3>1, <2>2 DEF RowType, Settled
    <2>. HIDE DEF merged
    <2>4. row' = [x \in Messages |->
                    CASE x = c -> [row[x] EXCEPT !.text = merged]
                      [] x \in prefix \ {c} -> [row[x] EXCEPT !.status = "accepted"]
                      [] OTHER -> row[x]]
      BY <2>1 DEF Collect, merged
    <2>. QED
      BY <2>3, <2>4
  <1>. QED
    BY <1>1, <1>2 DEF DrainQueue

LEMMA ObserverTyped ==
    ASSUME TypeOK, NEW e \in Messages, Observer(e)
    PROVE  InboundType' /\ SessionType' /\ ReplyType'
  <1>. USE TypeSplits
  <1>0. InboundType /\ SessionType /\ ReplyType
    OBVIOUS
  <1>a. ASSUME UNCHANGED inbound PROVE InboundType'
    BY <1>0, <1>a DEF InboundType, inbound
  <1>b. ASSUME UNCHANGED session PROVE SessionType'
    BY <1>0, <1>b DEF SessionType, session
  <1>1. CASE TurnEnds(e)
    <2>1. PICK s \in {"done", "error", "stuck"} : turn' = [turn EXCEPT ![e].state = s]
      BY <1>1 DEF TurnEnds
    <2>2. [turn[e] EXCEPT !.state = s] \in TurnType
      BY <1>0 DEF SessionType, TurnType
    <2>. QED
      BY <1>0, <1>a, <1>1, <2>1, <2>2 DEF TurnEnds, SessionType, ReplyType, observer, outbound
  <1>2. CASE Suspends(e) \/ LosesReply(e)
    BY <1>0, <1>a, <1>b, <1>2 DEF Suspends, LosesReply, ReplyType, outbound
  <1>3. CASE TakesReply(e)
    BY <1>0, <1>a, <1>b, <1>3, TakenOut DEF TakesReply, ReplyType
  <1>4. CASE TakesFailure(e)
    <2>1. [out[e] EXCEPT !.status = "dropped"] \in OutType
      BY <1>0, OutTyped DEF Resolved
    <2>. QED
      BY <1>0, <1>a, <1>b, <1>4, <2>1 DEF TakesFailure, ReplyType
  <1>5. CASE InlinePosts(e)
    BY <1>0, <1>a, <1>b, <1>5 DEF InlinePosts, Post, ReplyType
  <1>6. CASE InlineMarks(e)
    BY <1>0, <1>a, <1>b, <1>6, TakenOut DEF InlineMarks, Sent, ReplyType
  <1>7. CASE Drains(e)
    BY <1>0, <1>b, <1>7, DrainTyped DEF Drains, InboundType, ReplyType, outbound
  <1>. QED
    BY <1>1, <1>2, <1>3, <1>4, <1>5, <1>6, <1>7 DEF Observer

LEMMA SweepTyped ==
    ASSUME TypeOK, NEW e \in Messages, Sweep(e)
    PROVE  InboundType' /\ SessionType' /\ ReplyType'
  <1>. USE TypeSplits
  <1>0. InboundType /\ SessionType /\ ReplyType
    OBVIOUS
  <1>a. ASSUME UNCHANGED inbound PROVE InboundType'
    BY <1>0, <1>a DEF InboundType, inbound
  <1>b. ASSUME UNCHANGED session PROVE SessionType'
    BY <1>0, <1>b DEF SessionType, session
  <1>c. /\ [out[e] EXCEPT !.status = "queued"] \in OutType
        /\ [out[e] EXCEPT !.status = "processing"] \in OutType
        /\ [out[e] EXCEPT !.stamped = TRUE] \in OutType
    BY <1>0, OutTyped
  <1>1. CASE Reconciles(e)
    BY <1>0, <1>a, <1>b, <1>c, <1>1 DEF Reconciles, ReplyType, observer
  <1>2. CASE SweepClaims(e)
    BY <1>0, <1>a, <1>b, <1>c, <1>2 DEF SweepClaims, ReplyType, observer
  <1>3. CASE LooksUp(e)
    <2>1. out' = out \/ Sent(e)
      BY <1>3 DEF LooksUp
    <2>2. out' \in [Messages -> OutType]
      <3>1. [out EXCEPT ![e].status = "sent", ![e].stamped = FALSE] \in [Messages -> OutType]
        BY <1>0, TakenOut
      <3>. QED
        BY <1>0, <2>1, <3>1 DEF Sent, ReplyType
    <2>. QED
      BY <1>0, <1>a, <1>b, <1>3, <2>2 DEF LooksUp, ReplyType, observer
  <1>4. CASE Stamps(e)
    BY <1>0, <1>a, <1>b, <1>c, <1>4 DEF Stamps, ReplyType, observer
  <1>5. CASE SweepPosts(e)
    BY <1>0, <1>a, <1>b, <1>5 DEF SweepPosts, Post, ReplyType, observer
  <1>6. CASE SweepMarks(e)
    BY <1>0, <1>a, <1>b, <1>6, TakenOut DEF SweepMarks, Sent, ReplyType, observer
  <1>. QED
    BY <1>1, <1>2, <1>3, <1>4, <1>5, <1>6 DEF Sweep

\* A send that throws.
LEMMA ThrowTyped ==
    ASSUME ReplyType, NEW e \in Messages, SendThrows(e)
    PROVE  /\ out' \in [Messages -> OutType] /\ posts' \in [Messages -> Nat]
           /\ doubtful' \subseteq Messages
  <1>1. PICK s \in {"failed", "dead"} :
           out' = [out EXCEPT ![e] = [status |-> s, stamped |-> FALSE, tries |-> @.tries + 1]]
    BY DEF SendThrows
  <1>2. [status |-> s, stamped |-> FALSE, tries |-> out[e].tries + 1] \in OutType
    BY DEF ReplyType, OutType, Resolved
  <1>3. posts' \in [Messages -> Nat] /\ doubtful' \subseteq Messages
    BY DEF SendThrows, Post, ReplyType
  <1>. QED
    BY <1>1, <1>2, <1>3 DEF ReplyType

LEMMA FaultTyped ==
    ASSUME TypeOK, NEW e \in Messages, Fault(e)
    PROVE  InboundType' /\ SessionType' /\ ReplyType'
  <1>. USE TypeSplits
  <1>0. InboundType /\ SessionType /\ ReplyType /\ row[e] \in RowType /\ hand[e] \in HandType
    BY RowsTyped
  <1>a. ASSUME UNCHANGED inbound PROVE InboundType'
    BY <1>0, <1>a DEF InboundType, inbound
  <1>b. ASSUME UNCHANGED session PROVE SessionType'
    BY <1>0, <1>b DEF SessionType, session
  <1>c. /\ [row[e] EXCEPT !.status = "dropped"] \in RowType
        /\ Retried(e) \in RowType
    <2>1. (IF row[e].tries >= MaxAttempts THEN "dead" ELSE "failed") \in {"dead", "failed"}
      OBVIOUS
    <2>. QED
      BY <1>0, <2>1, StatusTyped DEF Settled, Retried
  <1>1. CASE Fails(e)
    <2>1. InboundType'
      BY <1>0, <1>c, <1>1, SettleTyped DEF Fails
    <2>. QED
      BY <1>0, <1>b, <1>1, <2>1 DEF Fails, ReplyType, outbound
  <1>2. CASE SendFails(e)
    <2>1. [state |-> "stuck", text |-> hand[e].text] \in TurnType
      BY <1>0 DEF TurnType, HandType
    <2>2. InboundType'
      BY <1>0, <1>c, <1>2, SettleTyped DEF SendFails
    <2>. QED
      BY <1>0, <1>2, <2>1, <2>2 DEF SendFails, Creates, SessionType, ReplyType, observer, outbound
  <1>3. CASE OwesNot(e)
    <2>1. [hand[e] EXCEPT !.pc = "owed"] \in HandType
      BY <1>0 DEF HandType
    <2>. QED
      BY <1>0, <1>b, <1>3, <2>1 DEF OwesNot, InboundType, ReplyType, outbound
  <1>4. CASE HandlerDies(e)
    BY <1>0, <1>b, <1>4, RowsTyped DEF HandlerDies, InboundType, ReplyType, outbound
  <1>5. CASE ObserverDies(e)
    BY <1>0, <1>a, <1>b, <1>5 DEF ObserverDies, ReplyType, outbound
  <1>6. CASE SenderDies(e)
    BY <1>0, <1>a, <1>b, <1>6 DEF SenderDies, ReplyType, observer
  <1>7. CASE InlineFails(e)
    BY <1>0, <1>a, <1>b, <1>7, ThrowTyped DEF InlineFails, ReplyType
  <1>8. CASE SweepFails(e)
    BY <1>0, <1>a, <1>b, <1>8, ThrowTyped DEF SweepFails, ReplyType, observer
  <1>. QED
    BY <1>1, <1>2, <1>3, <1>4, <1>5, <1>6, <1>7, <1>8 DEF Fault

LEMMA OthersTyped ==
    ASSUME TypeOK, Stop \/ Visit \/ Leave \/ EarlierDrains
    PROVE  InboundType' /\ SessionType' /\ ReplyType' /\ drain' \in BOOLEAN
           /\ visits' \in 0 .. MaxVisits
  <1>. USE TypeSplits, BridgeAssumption
  <1>0. InboundType /\ SessionType /\ ReplyType /\ CountType
    OBVIOUS
  <1>a. ASSUME UNCHANGED <<observer, outbound>> PROVE ReplyType'
    BY <1>0, <1>a DEF ReplyType, observer, outbound
  <1>b. ASSUME UNCHANGED session PROVE SessionType'
    BY <1>0, <1>b DEF SessionType, session
  <1>1. CASE Stop
    <2>1. \A e \in Messages : [row[e] EXCEPT !.status = "dropped"] \in RowType
      BY <1>0, StatusTyped DEF Settled
    <2>2. InboundType'
      BY <1>0, <1>1, <2>1 DEF Stop, InboundType
    <2>. QED
      BY <1>0, <1>a, <1>b, <1>1, <2>2 DEF Stop, others, CountType
  <1>2. CASE Visit
    <2>1. visits' \in 0 .. MaxVisits
      BY <1>0, <1>2 DEF Visit, CountType
    <2>2. InboundType' /\ SessionType'
      BY <1>0, <1>2 DEF Visit, SessionType, InboundType, inbound
    <2>. QED
      BY <1>0, <1>a, <1>2, <2>1, <2>2 DEF Visit, CountType
  <1>3. CASE Leave
    <2>1. InboundType' /\ SessionType'
      BY <1>0, <1>3 DEF Leave, SessionType, InboundType, inbound
    <2>2. drain' \in BOOLEAN
      BY <1>0, <1>3, Zenon DEF Leave, CountType
    <2>. QED
      BY <1>0, <1>a, <1>3, <2>1, <2>2 DEF Leave, CountType
  <1>4. CASE EarlierDrains
    <2>1. InboundType'
      BY <1>0, <1>4, DrainTyped DEF EarlierDrains, InboundType
    <2>. QED
      BY <1>0, <1>a, <1>b, <1>4, <2>1 DEF EarlierDrains, CountType
  <1>. QED
    BY <1>1, <1>2, <1>3, <1>4
\* What one message does leaves the rest of the conversation alone.
LEMMA OthersKept ==
    ASSUME NEW e, Handler(e) \/ Observer(e) \/ Sweep(e) \/ Fault(e)
    PROVE  UNCHANGED others
  <1>1. Handler(e) => UNCHANGED others
    BY DEF Handler, Arrive, Claim, Refuses, AdoptOwes, Adopts, Plans, SendRuns, SendBusy,
           Queues, SendDiscards, Owes, Accepts
  <1>2. Observer(e) => UNCHANGED others
    BY DEF Observer, TurnEnds, Suspends, TakesReply, TakesFailure, LosesReply, InlinePosts,
           InlineMarks, Drains
  <1>3. Sweep(e) => UNCHANGED others
    BY DEF Sweep, Reconciles, SweepClaims, LooksUp, Stamps, SweepPosts, SweepMarks
  <1>4. Fault(e) => UNCHANGED others
    BY DEF Fault, Fails, SendFails, OwesNot, InlineFails, SweepFails, HandlerDies,
           ObserverDies, SenderDies
  <1>. QED
    BY <1>1, <1>2, <1>3, <1>4

LEMMA RowsStep ==
    ASSUME LocalInv, Step
    PROVE  InboundType' /\ SessionType' /\ ReplyType' /\ CountType'
  <1>. USE TypeSplits DEF LocalInv
  <1>2. ASSUME UNCHANGED faults, Stop \/ Visit \/ Leave \/ EarlierDrains
        PROVE  InboundType' /\ SessionType' /\ ReplyType' /\ CountType'
    BY <1>2, OthersTyped DEF CountType
  <1>3. ASSUME UNCHANGED faults, NEW e \in Messages, Handler(e) \/ Observer(e) \/ Sweep(e)
        PROVE  InboundType' /\ SessionType' /\ ReplyType' /\ CountType'
    <2>1. InboundType' /\ SessionType' /\ ReplyType'
      BY <1>3, HandlerTyped, ObserverTyped, SweepTyped DEF Fits
    <2>. QED
      BY <1>3, <2>1, OthersKept DEF CountType, others
  <1>4. ASSUME faults < MaxFaults, faults' = faults + 1, NEW e \in Messages, Fault(e)
        PROVE  InboundType' /\ SessionType' /\ ReplyType' /\ CountType'
    <2>1. InboundType' /\ SessionType' /\ ReplyType' /\ UNCHANGED others
      BY <1>4, FaultTyped, OthersKept
    <2>2. faults' \in 0 .. MaxFaults
      BY <1>4, BridgeAssumption DEF CountType
    <2>. QED
      BY <1>4, <2>1, <2>2 DEF CountType, others
  <1>. QED
    BY <1>2, <1>3, <1>4 DEF Step

LEMMA TypeStep == LocalInv /\ [Next]_vars => TypeOK'
  <1>. SUFFICES ASSUME LocalInv, [Next]_vars PROVE TypeOK'
    OBVIOUS
  <1>1. CASE UNCHANGED vars
    BY <1>1 DEF vars, inbound, session, observer, outbound, others, TypeOK, LocalInv
  <1>2. CASE Next
    BY <1>2, RowsStep, SeenTyped, TypeSplits, TypeSplitsNext DEF Next, LocalInv
  <1>. QED
    BY <1>1, <1>2
-----------------------------------------------------------------------------
(* Each message by itself *)

\* A step leaves everything of message d as it is.
Alone(d) ==
    /\ row'[d] = row[d] /\ hand'[d] = hand[d] /\ turn'[d] = turn[d]
    /\ watch'[d] = watch[d] /\ (d \in unrecorded' <=> d \in unrecorded)
    /\ out'[d] = out[d] /\ sender'[d] = sender[d]
    /\ posts'[d] = posts[d] /\ (d \in doubtful' <=> d \in doubtful)

\* What fits stays so for a message that a step leaves alone.
LEMMA AloneFits == ASSUME NEW d \in Messages, Fits(d), Alone(d) PROVE Fits(d)'
  BY DEF Alone, Fits, RowFits, ObserverFits, SenderFits, PostFits, HasRun

\* Whoever acts for one message leaves the others alone, a drain excepted.
LEMMA HandlerAlone ==
    ASSUME TypeOK, NEW e \in Messages, Handler(e), NEW d \in Messages \ {e}
    PROVE  Alone(d)
  BY DEF TypeOK, Handler, Arrive, Claim, Refuses, AdoptOwes, Adopts, Plans, SendRuns, SendBusy,
         Queues, SendDiscards, Owes, Accepts, Settle, Creates, Alone, inbound, session, observer,
         outbound

LEMMA ObserverAlone ==
    ASSUME TypeOK, NEW e \in Messages, Observer(e), ~Drains(e), NEW d \in Messages \ {e}
    PROVE  Alone(d)
  BY DEF TypeOK, Observer, TurnEnds, Suspends, TakesReply, TakesFailure, LosesReply, InlinePosts,
         InlineMarks, Post, Sent, Alone, inbound, session, observer, outbound

LEMMA SweepAlone ==
    ASSUME TypeOK, NEW e \in Messages, Sweep(e), NEW d \in Messages \ {e}
    PROVE  Alone(d)
  BY DEF TypeOK, Sweep, Reconciles, SweepClaims, LooksUp, Stamps, SweepPosts, SweepMarks,
         Post, Sent, Alone, inbound, session, observer, outbound

LEMMA FaultAlone ==
    ASSUME TypeOK, NEW e \in Messages, Fault(e), NEW d \in Messages \ {e}
    PROVE  Alone(d)
  BY DEF TypeOK, Fault, Fails, SendFails, OwesNot, InlineFails, SweepFails, HandlerDies,
         ObserverDies, SenderDies, SendThrows, Settle, Creates, Post, Alone, inbound, session,
         observer, outbound

\* What fits stays so for the message that a step is about.
LEMMA HandlerFits ==
    ASSUME TypeOK, NEW e \in Messages, Fits(e), SeenFits(e), Handler(e)
    PROVE  Fits(e)'
  <1>. USE DEF Fits, RowFits, ObserverFits, SenderFits, PostFits, HasRun
  <1>0. /\ row[e] \in RowType /\ hand[e] \in HandType /\ turn[e] \in TurnType
        /\ out[e] \in OutType /\ e \in DOMAIN row /\ e \in DOMAIN hand /\ e \in DOMAIN turn
        /\ e \in DOMAIN watch /\ e \in DOMAIN out
    BY DEF TypeOK
  <1>1. CASE Arrive(e)
    BY <1>0, <1>1 DEF Arrive, RowType, session, observer, outbound
  <1>2. CASE Claim(e)
    <2>1. PICK r \in seen[e] :
             hand' = [hand EXCEPT ![e] = [pc |-> "claimed", text |-> r.text, first |-> ~r.queued]]
      BY <1>2 DEF Claim
    <2>2. hand'[e].text \subseteq row[e].text /\ hand'[e].pc = "claimed"
      BY <1>0, <2>1 DEF SeenFits
    <2>3. row' = [row EXCEPT ![e] = Claimed(e)]
      BY <1>2 DEF Claim
    <2>4. /\ row'[e].status = "processing" /\ row'[e].tries > 0
          /\ row'[e].text = row[e].text /\ row'[e].plan = row[e].plan
      <3>1. row[e].tries + 1 > 0
        BY <1>0 DEF RowType
      <3>2. row'[e] = [row[e] EXCEPT !.status = "processing", !.queued = FALSE,
                                     !.tries = row[e].tries + 1]
        BY <1>0, <2>3 DEF Claimed
      <3>. QED
        BY <1>0, <3>1, <3>2 DEF RowType
    <2>5. /\ hand[e].pc = "none" /\ row[e].status # "accepted"
          /\ UNCHANGED <<session, observer, outbound>>
      BY <1>2 DEF Claim, Recoverable
    <2>. QED
      BY <2>2, <2>4, <2>5 DEF session, observer, outbound
  <1>3. CASE Refuses(e) \/ SendDiscards(e)
    BY <1>0, <1>3 DEF Refuses, SendDiscards, Settle, NoHand, RowType, session, observer, outbound
  <1>4. CASE AdoptOwes(e)
    BY <1>0, <1>4 DEF AdoptOwes, HasTurn, OutType, inbound, session, observer
  <1>5. CASE Adopts(e)
    BY <1>0, <1>5 DEF Adopts, Settle, NoHand, RowType, session, observer, outbound
  <1>6. CASE Plans(e)
    BY <1>0, <1>6 DEF Plans, HasTurn, RowType, HandType, session, observer, outbound
  <1>7. CASE SendRuns(e)
    BY <1>0, <1>7 DEF SendRuns, Creates, HandType, outbound
  <1>8. CASE SendBusy(e)
    BY <1>0, <1>8 DEF SendBusy, HandType, session, observer, outbound
  <1>9. CASE Queues(e)
    BY <1>0, <1>9 DEF Queues, Settle, NoHand, RowType, session, observer, outbound
  <1>10. CASE Owes(e)
    BY <1>0, <1>10 DEF Owes, HandType, OutType, session, observer
  <1>11. CASE Accepts(e)
    BY <1>0, <1>11 DEF Accepts, Settle, NoHand, RowType, session, outbound
  <1>. QED
    BY <1>1, <1>2, <1>3, <1>4, <1>5, <1>6, <1>7, <1>8, <1>9, <1>10, <1>11 DEF Handler

LEMMA ObserverFitsStep ==
    ASSUME TypeOK, NEW e \in Messages, Fits(e), Observer(e), ~Drains(e)
    PROVE  Fits(e)'
  <1>. USE DEF Fits, RowFits, ObserverFits, SenderFits, PostFits, HasRun
  <1>0. /\ turn[e] \in TurnType /\ out[e] \in OutType /\ posts[e] \in Nat
        /\ e \in DOMAIN turn /\ e \in DOMAIN watch /\ e \in DOMAIN out /\ e \in DOMAIN posts
    BY DEF TypeOK
  <1>1. CASE TurnEnds(e)
    BY <1>0, <1>1 DEF TurnEnds, TurnType, inbound, observer, outbound
  <1>2. CASE Suspends(e) \/ LosesReply(e)
    BY <1>0, <1>2 DEF Suspends, LosesReply, inbound, session, outbound
  <1>3. CASE TakesReply(e)
    BY <1>0, <1>3 DEF TakesReply, Mine, OutType, inbound, session
  <1>4. CASE TakesFailure(e)
    BY <1>0, <1>4 DEF TakesFailure, Mine, OutType, inbound, session
  <1>5. CASE InlinePosts(e)
    BY <1>0, <1>5 DEF InlinePosts, Post, inbound, session
  <1>6. CASE InlineMarks(e)
    BY <1>0, <1>6 DEF InlineMarks, Sent, OutType, inbound, session
  <1>. QED
    BY <1>1, <1>2, <1>3, <1>4, <1>5, <1>6 DEF Observer

LEMMA SweepFits ==
    ASSUME TypeOK, NEW e \in Messages, Fits(e), Sweep(e)
    PROVE  Fits(e)'
  <1>. USE DEF Fits, RowFits, ObserverFits, SenderFits, PostFits, HasRun
  <1>0. /\ out[e] \in OutType /\ posts[e] \in Nat
        /\ e \in DOMAIN sender /\ e \in DOMAIN out /\ e \in DOMAIN posts
    BY DEF TypeOK
  <1>1. CASE Reconciles(e)
    BY <1>0, <1>1 DEF Reconciles, OutType, inbound, session, observer
  <1>2. CASE SweepClaims(e)
    BY <1>0, <1>2 DEF SweepClaims, OutType, inbound, session, observer
  <1>3. CASE LooksUp(e)
    BY <1>0, <1>3 DEF LooksUp, Sent, OutType, inbound, session, observer
  <1>4. CASE Stamps(e)
    BY <1>0, <1>4 DEF Stamps, OutType, inbound, session, observer
  <1>5. CASE SweepPosts(e)
    BY <1>0, <1>5 DEF SweepPosts, Post, inbound, session, observer
  <1>6. CASE SweepMarks(e)
    BY <1>0, <1>6 DEF SweepMarks, Sent, OutType, inbound, session, observer
  <1>. QED
    BY <1>1, <1>2, <1>3, <1>4, <1>5, <1>6 DEF Sweep

LEMMA FaultFits ==
    ASSUME TypeOK, NEW e \in Messages, Fits(e), Fault(e)
    PROVE  Fits(e)'
  <1>. USE DEF Fits, RowFits, ObserverFits, SenderFits, PostFits, HasRun
  <1>0. /\ row[e] \in RowType /\ hand[e] \in HandType /\ turn[e] \in TurnType
        /\ out[e] \in OutType /\ posts[e] \in Nat /\ e \in DOMAIN row /\ e \in DOMAIN hand
        /\ e \in DOMAIN turn /\ e \in DOMAIN watch /\ e \in DOMAIN out /\ e \in DOMAIN sender
        /\ e \in DOMAIN posts
    BY DEF TypeOK
  <1>1. CASE Fails(e)
    BY <1>0, <1>1 DEF Fails, Settle, Retried, NoHand, RowType, session, outbound
  <1>2. CASE SendFails(e)
    BY <1>0, <1>2 DEF SendFails, Creates, Settle, Retried, NoHand, RowType, observer, outbound
  <1>3. CASE OwesNot(e)
    BY <1>0, <1>3 DEF OwesNot, HandType, session, outbound
  <1>4. CASE HandlerDies(e)
    BY <1>0, <1>4 DEF HandlerDies, NoHand, session, outbound
  <1>5. CASE ObserverDies(e)
    BY <1>0, <1>5 DEF ObserverDies, inbound, session, outbound
  <1>6. CASE SenderDies(e)
    BY <1>0, <1>6 DEF SenderDies, inbound, session, observer
  <1>7. CASE InlineFails(e)
    BY <1>0, <1>7 DEF InlineFails, SendThrows, Post, OutType, inbound, session
  <1>8. CASE SweepFails(e)
    BY <1>0, <1>8 DEF SweepFails, SendThrows, Post, OutType, inbound, session, observer
  <1>. QED
    BY <1>1, <1>2, <1>3, <1>4, <1>5, <1>6, <1>7, <1>8 DEF Fault

\* A message that waits has neither a handler nor a turn: /stop and a drain of
\* the queue, which touch no other row, disturb nothing.
LEMMA QueueFits ==
    ASSUME NEW d \in Messages, Fits(d), d \notin Waiting => row'[d] = row[d],
           d \in row'[d].text, hand' = hand, turn' = turn, unrecorded' = unrecorded, UNCHANGED outbound,
           watch'[d] = watch[d] \/ watch'[d] = "none"
    PROVE  Fits(d)'
  BY DEF Fits, RowFits, ObserverFits, SenderFits, PostFits, HasRun, Waiting, outbound

\* A drain changes rows that wait, and leaves each its own message.
LEMMA DrainRows ==
    ASSUME TypeOK, DrainQueue, NEW d \in Messages, d \in row[d].text
    PROVE  /\ d \notin Waiting => row'[d] = row[d]
           /\ row[d].text \subseteq row'[d].text
  <1>1. CASE UNCHANGED row
    BY <1>1
  <1>2. CASE \E c \in Waiting :
               LET prefix == {x \in Waiting : x <= c}
               IN prefix # {c} /\ Collect(prefix, c)
    <2>1. PICK c \in Waiting : Collect({x \in Waiting : x <= c}, c)
      BY <1>2
    <2>2. c \in {x \in Waiting : x <= c}
      BY BridgeAssumption DEF Waiting
    <2>. QED
      BY <2>1, <2>2 DEF Collect, TypeOK, RowType
  <1>. QED
    BY <1>1, <1>2 DEF DrainQueue

LEMMA DrainFits ==
    ASSUME LocalInv, NEW e \in Messages, Drains(e), NEW d \in Messages
    PROVE  Fits(d)'
  <1>1. watch'[d] = watch[d] \/ watch'[d] = "none"
    BY DEF Drains, LocalInv, TypeOK
  <1>. QED
    BY <1>1, DrainRows, QueueFits DEF Drains, LocalInv, Fits, RowFits, session

LEMMA OthersFit ==
    ASSUME LocalInv, Stop \/ Visit \/ Leave \/ EarlierDrains, NEW d \in Messages
    PROVE  Fits(d)'
  <1>. USE DEF LocalInv
  <1>1. CASE Stop
    <2>1. row'[d] = IF d \in Waiting THEN [row[d] EXCEPT !.status = "dropped"] ELSE row[d]
      BY <1>1 DEF Stop
    <2>2. d \in row'[d].text
      BY <2>1 DEF TypeOK, RowType, Fits, RowFits
    <2>. QED
      BY <1>1, <2>1, <2>2, QueueFits DEF Stop, session, observer
  <1>2. CASE Visit \/ Leave
    BY <1>2, AloneFits DEF Visit, Leave, Alone, inbound, observer, outbound
  <1>3. CASE EarlierDrains
    BY <1>3, DrainRows, QueueFits DEF EarlierDrains, Fits, RowFits, session, observer
  <1>. QED
    BY <1>1, <1>2, <1>3

LEMMA LocalInit == Init => LocalInv
  <1>. SUFFICES ASSUME Init PROVE LocalInv
    OBVIOUS
  <1>1. ASSUME NEW e \in Messages PROVE Fits(e)
    BY DEF Init, Fits, RowFits, ObserverFits, SenderFits, PostFits, HasRun, NoHand, NoTurn
  <1>. QED
    BY <1>1, InitTyped DEF LocalInv, SeenFits, Init

-----------------------------------------------------------------------------
(* The texts *)

\* A row whose message runs in the turn of another, or waits for it.
Merged(x) == row[x].status = "accepted" /\ ~HasRun(x)

\* Of two rows that carry the same message, one has been merged away.
TextsApart ==
    \A x, y, d \in Messages :
        x # y /\ d \in row[x].text /\ d \in row[y].text => Merged(x) \/ Merged(y)

\* A message that has run has run once, in a turn whose text has it.
RunsInTurns ==
    \A d \in Messages : runs[d] # 0 =>
        runs[d] = 1 /\ \E x \in Messages : HasRun(x) /\ d \in turn[x].text

BridgeInv == LocalInv /\ TextsApart /\ RunsInTurns /\ NothingLost /\ ReplyOwed

\* All but the merge: no row gets another text, no accepted row another status, no
\* turn another text; a row is accepted when it has its turn and what that is owed.
KeepsTexts ==
    \A x \in Messages :
        /\ row'[x].text = row[x].text
        /\ HasRun(x) => HasRun(x)' /\ turn'[x].text = turn[x].text
        /\ row[x].status = "accepted" => row'[x].status = "accepted" /\ (HasRun(x)' => HasRun(x))
        /\ row'[x].status = "accepted" => row[x].status = "accepted" \/ HasRun(x)

\* Where the texts are kept, rows stay apart, nothing is lost and no run is forgotten.
LEMMA TextsKept ==
    ASSUME TextsApart, KeepsTexts
    PROVE  TextsApart'
  <1>. SUFFICES ASSUME NEW x \in Messages, NEW y \in Messages, NEW d \in Messages,
                       x # y, d \in row'[x].text, d \in row'[y].text
                PROVE  Merged(x)' \/ Merged(y)'
    BY DEF TextsApart
  <1>1. Merged(x) \/ Merged(y)
    BY DEF TextsApart, KeepsTexts
  <1>. QED
    BY <1>1 DEF Merged, KeepsTexts

LEMMA LostNothing ==
    ASSUME NothingLost, KeepsTexts, \A e \in Messages : Fits(e)
    PROVE  NothingLost'
  <1>. SUFFICES ASSUME NEW e \in Messages, row'[e].status = "accepted"
                PROVE  \E c \in Messages :
                          e \in row'[c].text /\ (HasRun(c)' \/ row'[c].status # "accepted")
    BY DEF NothingLost
  <1>1. CASE row[e].status = "accepted"
    <2>1. PICK c \in Messages : e \in row[c].text /\ (HasRun(c) \/ row[c].status # "accepted")
      BY <1>1 DEF NothingLost
    <2>. QED
      BY <2>1 DEF KeepsTexts
  <1>2. CASE HasRun(e)
    BY <1>2 DEF KeepsTexts, Fits, RowFits
  <1>. QED
    BY <1>1, <1>2 DEF KeepsTexts

LEMMA RunsKept ==
    ASSUME RunsInTurns, KeepsTexts, runs' = runs
    PROVE  RunsInTurns'
  BY DEF RunsInTurns, KeepsTexts

\* All actions but the merge keep the texts; only a turn's start counts runs.
LEMMA HandlerKeeps ==
    ASSUME LocalInv, NEW e \in Messages, Handler(e)
    PROVE  /\ KeepsTexts
           /\ ~SendRuns(e) => runs' = runs
  <1>. USE DEF LocalInv
  <1>0. /\ row \in [Messages -> RowType] /\ turn \in [Messages -> TurnType] /\ Fits(e)
        /\ row[e] \in RowType
    BY DEF TypeOK
  <1>1. ASSUME NEW x \in Messages \ {e}
        PROVE  row'[x] = row[x] /\ turn'[x] = turn[x]
    BY HandlerAlone DEF Alone
  <1>2. /\ row'[e].text = row[e].text
        /\ HasRun(e) => HasRun(e)' /\ turn'[e].text = turn[e].text
        /\ row[e].status = "accepted" => row'[e].status = "accepted" /\ (HasRun(e)' => HasRun(e))
        /\ row'[e].status = "accepted" => row[e].status = "accepted" \/ HasRun(e)
    <2>1. CASE SendRuns(e)
      BY <1>0, <2>1 DEF SendRuns, Creates, Fits, RowFits, HasRun
    <2>2. CASE Adopts(e) \/ Accepts(e)
      BY <1>0, <2>2 DEF Adopts, Accepts, Settle, HasTurn, Fits, RowFits, HasRun, RowType, session
    <2>3. CASE Claim(e)
      BY <1>0, <2>3 DEF Claim, Claimed, Recoverable, HasRun, RowType, session
    <2>4. CASE Refuses(e) \/ SendDiscards(e) \/ Queues(e)
      <3>1. row[e].status # "accepted" /\ turn' = turn
        BY <1>0, <2>4 DEF Refuses, SendDiscards, Queues, Fits, RowFits, session
      <3>2. row'[e].text = row[e].text /\ row'[e].status # "accepted"
        <4>1. CASE row' = [row EXCEPT ![e] = [row[e] EXCEPT !.status = "dropped"]]
          BY <1>0, <4>1 DEF RowType
        <4>2. CASE Queues(e)
          BY <1>0, <4>2 DEF Queues, Settle, RowType
        <4>. QED
          BY <2>4, <4>1, <4>2 DEF Refuses, SendDiscards, Settle
      <3>. QED
        BY <3>1, <3>2 DEF HasRun
    <2>5. CASE Arrive(e) \/ AdoptOwes(e) \/ Plans(e) \/ SendBusy(e) \/ Owes(e)
      BY <1>0, <2>5 DEF Arrive, AdoptOwes, Plans, SendBusy, Owes, HasRun, RowType, inbound,
         session
    <2>. QED
      BY <2>1, <2>2, <2>3, <2>4, <2>5 DEF Handler
  <1>3. ~SendRuns(e) => runs' = runs
    BY DEF Handler, Arrive, Claim, Refuses, AdoptOwes, Adopts, Plans, SendBusy, Queues,
       SendDiscards, Owes, Accepts, session
  <1>. QED
    BY <1>1, <1>2, <1>3 DEF KeepsTexts, HasRun

LEMMA ObserverKeeps ==
    ASSUME LocalInv, NEW e \in Messages, Observer(e), ~Drains(e)
    PROVE  KeepsTexts /\ runs' = runs
  <1>1. row' = row /\ runs' = runs
    BY DEF Observer, TurnEnds, Suspends, TakesReply, TakesFailure, LosesReply, InlinePosts,
       InlineMarks, inbound, session
  <1>2. ASSUME NEW x \in Messages PROVE (HasRun(x)' <=> HasRun(x)) /\ turn'[x].text = turn[x].text
    <2>1. CASE TurnEnds(e)
      <3>1. PICK s \in {"done", "error", "stuck"} : turn' = [turn EXCEPT ![e].state = s]
        BY <2>1 DEF TurnEnds
      <3>2. turn[e].state = "running" /\ turn[x] \in TurnType /\ e \in DOMAIN turn
        BY <2>1 DEF TurnEnds, LocalInv, TypeOK
      <3>. QED
        BY <3>1, <3>2 DEF HasRun, TurnType, LocalInv, TypeOK
    <2>2. CASE turn' = turn
      BY <2>2 DEF HasRun
    <2>. QED
      BY <2>1, <2>2 DEF Observer, Suspends, TakesReply, TakesFailure, LosesReply, InlinePosts,
         InlineMarks, session
  <1>. QED
    BY <1>1, <1>2 DEF KeepsTexts

LEMMA SweepKeeps ==
    ASSUME NEW e \in Messages, Sweep(e)
    PROVE  KeepsTexts /\ runs' = runs
  BY DEF Sweep, Reconciles, SweepClaims, LooksUp, Stamps, SweepPosts, SweepMarks, inbound, session,
     KeepsTexts, HasRun

LEMMA FaultKeeps ==
    ASSUME LocalInv, NEW e \in Messages, Fault(e)
    PROVE  KeepsTexts /\ runs' = runs
  <1>. USE DEF LocalInv
  <1>0. /\ row \in [Messages -> RowType] /\ turn \in [Messages -> TurnType] /\ Fits(e)
        /\ row[e] \in RowType
    BY DEF TypeOK
  <1>1. ASSUME NEW x \in Messages \ {e}
        PROVE  row'[x] = row[x] /\ turn'[x] = turn[x]
    BY FaultAlone DEF Alone
  <1>2. /\ row'[e].text = row[e].text
        /\ HasRun(e) => HasRun(e)' /\ turn'[e].text = turn[e].text
        /\ row[e].status = "accepted" => row'[e].status = "accepted" /\ (HasRun(e)' => HasRun(e))
        /\ row'[e].status = "accepted" => row[e].status = "accepted" \/ HasRun(e)
    BY <1>0 DEF Fault, Fails, SendFails, OwesNot, InlineFails, SweepFails, HandlerDies,
       ObserverDies, SenderDies, Settle, Retried, Creates, Fits, RowFits, HasRun, RowType,
       inbound, session
  <1>3. runs' = runs
    BY DEF Fault, Fails, SendFails, OwesNot, InlineFails, SweepFails, HandlerDies, ObserverDies,
       SenderDies, session
  <1>. QED
    BY <1>1, <1>2, <1>3 DEF KeepsTexts, HasRun

\* The texts grow, if they change at all.
LEMMA TextsGrow ==
    ASSUME LocalInv, Step, NEW d \in Messages
    PROVE  row[d].text \subseteq row'[d].text
  <1>1. ASSUME DrainQueue PROVE row[d].text \subseteq row'[d].text
    BY <1>1, DrainRows DEF LocalInv, Fits, RowFits
  <1>2. CASE Stop
    BY <1>2 DEF Stop, LocalInv, TypeOK, RowType
  <1>3. CASE Visit \/ Leave \/ EarlierDrains
    BY <1>1, <1>3 DEF Visit, Leave, EarlierDrains, inbound
  <1>4. ASSUME NEW e \in Messages, Handler(e) \/ Observer(e) \/ Sweep(e) \/ Fault(e)
        PROVE  row[d].text \subseteq row'[d].text
    <2>1. CASE Drains(e)
      BY <1>1, <2>1 DEF Drains
    <2>2. CASE ~Drains(e)
      <3>1. KeepsTexts
        BY <1>4, <2>2, HandlerKeeps, ObserverKeeps, SweepKeeps, FaultKeeps
      <3>. QED
        BY <3>1 DEF KeepsTexts
    <2>. QED
      BY <2>1, <2>2
  <1>. QED
    BY <1>2, <1>3, <1>4 DEF Step

LEMMA SeenStep ==
    ASSUME LocalInv, [Next]_vars, NEW d \in Messages
    PROVE  SeenFits(d)'
  <1>1. CASE UNCHANGED vars
    BY <1>1 DEF vars, inbound, LocalInv, SeenFits
  <1>2. CASE Next
    <2>1. row[d].text \subseteq row'[d].text
      BY <1>2, TextsGrow DEF Next
    <2>2. \A r \in seen'[d] : r \in seen[d] \/ r.text = row'[d].text
      BY <1>2 DEF Next, Lists, Reading
    <2>. QED
      BY <2>1, <2>2 DEF LocalInv, SeenFits
  <1>. QED
    BY <1>1, <1>2

LEMMA LocalStep == LocalInv /\ [Next]_vars => LocalInv'
  <1>. SUFFICES ASSUME LocalInv, [Next]_vars, NEW d \in Messages PROVE Fits(d)'
    BY TypeStep, SeenStep DEF LocalInv
  <1>0. TypeOK /\ Fits(d) /\ SeenFits(d)
    BY DEF LocalInv
  <1>1. CASE UNCHANGED vars
    BY <1>0, <1>1, AloneFits DEF vars, inbound, session, observer, outbound, Alone
  <1>2. CASE Stop \/ Visit \/ Leave \/ EarlierDrains
    BY <1>2, OthersFit
  <1>3. ASSUME NEW e \in Messages, Handler(e) \/ Observer(e) \/ Sweep(e) \/ Fault(e)
        PROVE  Fits(d)'
    <2>1. CASE Drains(e)
      BY <2>1, DrainFits
    <2>2. CASE d = e /\ ~Drains(e)
      BY <1>0, <1>3, <2>2, HandlerFits, ObserverFitsStep, SweepFits, FaultFits
    <2>3. CASE d # e /\ ~Drains(e)
      <3>1. Alone(d)
        BY <1>0, <1>3, <2>3, HandlerAlone, ObserverAlone, SweepAlone, FaultAlone
      <3>. QED
        BY <1>0, <3>1, AloneFits
    <2>. QED
      BY <2>1, <2>2, <2>3
  <1>. QED
    BY <1>1, <1>2, <1>3 DEF Next, Step
\* A turn runs messages that have run nowhere: a row that carried one of them as
\* well would have been merged away, or this one would.
LEMMA SendRunsOnce ==
    ASSUME LocalInv, TextsApart, RunsInTurns, NEW e \in Messages, SendRuns(e)
    PROVE  RunsInTurns'
  <1>. USE DEF LocalInv
  <1>0. /\ hand[e].text \subseteq row[e].text /\ ~HasRun(e) /\ row[e].status = "processing"
        /\ runs \in [Messages -> Nat]
    BY DEF SendRuns, TypeOK, Fits, RowFits
  <1>1. turn' = [turn EXCEPT ![e] = [state |-> "running", text |-> hand[e].text]]
    BY DEF SendRuns, Creates
  <1>2. HasRun(e)' /\ turn'[e].text = hand[e].text
    BY <1>1 DEF TypeOK, HasRun
  <1>3. ASSUME NEW d \in hand[e].text, d \in Messages PROVE runs[d] = 0
    <2>1. SUFFICES ASSUME NEW x \in Messages, HasRun(x), d \in turn[x].text PROVE FALSE
      BY <1>3 DEF RunsInTurns
    <2>2. x # e /\ d \in row[x].text /\ d \in row[e].text
      BY <1>0, <1>3, <2>1 DEF Fits, RowFits
    <2>3. Merged(x) \/ Merged(e)
      BY <1>3, <2>2 DEF TextsApart
    <2>. QED
      BY <1>0, <2>1, <2>3 DEF Merged
  <1>4. SUFFICES ASSUME NEW d \in Messages, runs'[d] # 0
                 PROVE  runs'[d] = 1 /\ \E x \in Messages : HasRun(x)' /\ d \in turn'[x].text
    BY DEF RunsInTurns
  <1>5. runs'[d] = IF d \in hand[e].text THEN runs[d] + 1 ELSE runs[d]
    BY DEF SendRuns
  <1>6. CASE d \in hand[e].text
    BY <1>2, <1>3, <1>5, <1>6
  <1>7. CASE d \notin hand[e].text
    <2>1. PICK x \in Messages : HasRun(x) /\ d \in turn[x].text
      BY <1>4, <1>5, <1>7 DEF RunsInTurns
    <2>2. turn'[x] = turn[x]
      BY <1>0, <1>1, <2>1 DEF TypeOK
    <2>. QED
      BY <1>4, <1>5, <1>7, <2>1, <2>2 DEF RunsInTurns, HasRun
  <1>. QED
    BY <1>6, <1>7

-----------------------------------------------------------------------------
(* The merge of the queue, and /stop *)

\* What /stop and a drain do to the rows: those that wait may be closed, or merged
\* into one of them; nothing else changes.
LEMMA StopTexts ==
    ASSUME BridgeInv, Stop
    PROVE  TextsApart' /\ NothingLost' /\ RunsInTurns'
  <1>1. KeepsTexts /\ runs' = runs
    BY DEF Stop, KeepsTexts, Waiting, BridgeInv, LocalInv, TypeOK, RowType, HasRun, session
  <1>. QED
    BY <1>1, TextsKept, LostNothing, RunsKept DEF BridgeInv, LocalInv

\* The merge moves the texts of rows without turns to one that stays queued.
LEMMA MergeTexts ==
    ASSUME BridgeInv, NEW c \in Waiting, Collect({d \in Waiting : d <= c}, c),
           turn' = turn, runs' = runs
    PROVE  TextsApart' /\ NothingLost' /\ RunsInTurns'
  <1>. DEFINE prefix == {d \in Waiting : d <= c}
              merged == UNION {row[d].text : d \in prefix}
  <1>1. c \in prefix /\ prefix \subseteq Waiting /\ Waiting \subseteq Messages
    <2>1. Waiting \subseteq Messages
      BY DEF Waiting
    <2>2. c <= c
      BY <2>1, BridgeAssumption
    <2>. QED
      BY <2>1, <2>2
  <1>. USE DEF BridgeInv, LocalInv
  <1>2. ASSUME NEW x \in Messages
        PROVE  /\ x = c => row'[x].text = merged /\ row'[x].status = "queued"
               /\ x \in prefix \ {c} => row'[x].text = row[x].text /\ row'[x].status = "accepted"
               /\ x \notin prefix => row'[x] = row[x]
    <2>1. row[x] \in RowType
      BY DEF TypeOK
    <2>2. row'[x] = CASE x = c -> [row[x] EXCEPT !.text = merged]
                      [] x \in prefix \ {c} -> [row[x] EXCEPT !.status = "accepted"]
                      [] OTHER -> row[x]
      BY DEF Collect
    <2>. HIDE DEF merged, prefix
    <2>3. x = c => row[x].status = "queued"
      BY <1>1 DEF Waiting
    <2>. QED
      BY <1>1, <2>1, <2>2, <2>3 DEF RowType
  <1>3. \A x \in Messages : HasRun(x)' <=> HasRun(x)
    BY DEF HasRun
  <1>4. ASSUME NEW x \in prefix
        PROVE  x \in Messages /\ row[x].status = "queued" /\ ~HasRun(x)
               /\ row[x].text \subseteq merged
    <2>1. x \in Waiting /\ row[x].text \subseteq merged
      BY <1>1
    <2>. QED
      BY <2>1 DEF Waiting, Fits, RowFits
  <1>5. \A d \in merged : \E z \in prefix : d \in row[z].text
    OBVIOUS
  <1>. HIDE DEF merged, prefix
  <1>6. ASSUME NEW x \in Messages, Merged(x) PROVE Merged(x)' /\ x \notin prefix
    BY <1>2, <1>3, <1>4, <1>6 DEF Merged
  <1>7. TextsApart'
    <2>1. ASSUME NEW y \in Messages \ {c}, NEW d \in merged, d \in Messages, d \in row'[y].text
          PROVE  Merged(y)'
      <3>1. CASE y \in prefix
        BY <1>2, <1>3, <1>4, <3>1 DEF Merged
      <3>2. CASE y \notin prefix
        <4>1. PICK z \in prefix : d \in row[z].text
          BY <1>5
        <4>2. Merged(z) \/ Merged(y)
          BY <1>2, <1>4, <2>1, <3>2, <4>1 DEF TextsApart
        <4>. QED
          BY <1>4, <1>6, <4>1, <4>2
      <3>. QED
        BY <3>1, <3>2
    <2>2. SUFFICES ASSUME NEW x \in Messages, NEW y \in Messages, NEW d \in Messages,
                          x # y, d \in row'[x].text, d \in row'[y].text
                   PROVE  Merged(x)' \/ Merged(y)'
      BY DEF TextsApart
    <2>3. CASE x = c
      BY <1>2, <2>1, <2>2, <2>3
    <2>4. CASE y = c
      BY <1>2, <2>1, <2>2, <2>4
    <2>5. CASE x # c /\ y # c
      <3>1. d \in row[x].text /\ d \in row[y].text
        BY <1>2, <2>2, <2>5
      <3>2. Merged(x) \/ Merged(y)
        BY <2>2, <3>1 DEF TextsApart
      <3>. QED
        BY <1>6, <3>2
    <2>. QED
      BY <2>3, <2>4, <2>5
  <1>8. NothingLost'
    <2>1. SUFFICES ASSUME NEW e \in Messages, row'[e].status = "accepted"
                   PROVE  \E x \in Messages :
                             e \in row'[x].text /\ (HasRun(x)' \/ row'[x].status # "accepted")
      BY DEF NothingLost
    <2>2. PICK x \in Messages : e \in row[x].text /\ (HasRun(x) \/ row[x].status # "accepted")
      <3>1. CASE e \in prefix
        BY <1>4, <3>1 DEF Fits, RowFits
      <3>2. CASE e \notin prefix
        BY <1>2, <2>1, <3>2 DEF NothingLost
      <3>. QED
        BY <3>1, <3>2
    <2>3. CASE x \in prefix
      <3>1. e \in row'[c].text /\ row'[c].status # "accepted" /\ c \in Messages
        BY <1>1, <1>2, <1>4, <2>2, <2>3
      <3>. QED
        BY <3>1
    <2>4. CASE x \notin prefix
      BY <1>2, <1>3, <2>2, <2>4
    <2>. QED
      BY <2>3, <2>4
  <1>9. RunsInTurns'
    BY <1>3 DEF RunsInTurns
  <1>. QED
    BY <1>7, <1>8, <1>9

-----------------------------------------------------------------------------
(* What is owed *)

\* A row that is accepted now was accepted before, or is so with its turn owed.
LEMMA OwedKept ==
    ASSUME ReplyOwed, NEW e \in Messages,
           out[e].status # "none" => out'[e].status # "none",
           e \in unrecorded => e \in unrecorded',
           row'[e].status = "accepted" /\ HasRun(e)' =>
               \/ row[e].status = "accepted" /\ HasRun(e)
               \/ out[e].status # "none" \/ e \in unrecorded
    PROVE  row'[e].status = "accepted" /\ HasRun(e)' => out'[e].status # "none" \/ e \in unrecorded'
  BY DEF ReplyOwed

\* No outbox row is taken back, and none forgotten.
LEMMA OutKept ==
    ASSUME TypeOK, [Next]_vars, NEW e \in Messages
    PROVE  /\ out[e].status # "none" => out'[e].status # "none"
           /\ e \in unrecorded => e \in unrecorded'
  <1>0. out \in [Messages -> OutType]
    BY DEF TypeOK
  <1>1. ASSUME NEW d \in Messages, Handler(d) \/ Observer(d) \/ Sweep(d) \/ Fault(d)
        PROVE  /\ out[e].status # "none" => out'[e].status # "none"
               /\ e \in unrecorded => e \in unrecorded'
    <2>1. Handler(d) => (out[e].status # "none" => out'[e].status # "none")
                        /\ unrecorded' = unrecorded
      BY <1>0 DEF OutType, Handler, Arrive, Claim, Refuses, AdoptOwes, Adopts, Plans, SendRuns,
         SendBusy, Queues, SendDiscards, Owes, Accepts, observer, outbound
    <2>2. Observer(d) => (out[e].status # "none" => out'[e].status # "none")
                         /\ unrecorded' = unrecorded
      <3>1. TakesReply(d) \/ TakesFailure(d) \/ InlineMarks(d) =>
               (out[e].status # "none" => out'[e].status # "none") /\ unrecorded' = unrecorded
        BY <1>0 DEF OutType, TakesReply, TakesFailure, InlineMarks, Sent
      <3>2. TurnEnds(d) \/ Suspends(d) \/ LosesReply(d) \/ InlinePosts(d) \/ Drains(d) =>
               UNCHANGED <<out, unrecorded>>
        BY DEF TurnEnds, Suspends, LosesReply, InlinePosts, Drains, observer, outbound
      <3>. QED
        BY <3>1, <3>2 DEF Observer
    <2>3. Sweep(d) => (out[e].status # "none" => out'[e].status # "none")
                      /\ unrecorded' = unrecorded
      BY <1>0 DEF OutType, Sweep, Reconciles, SweepClaims, LooksUp, Stamps, SweepPosts,
         SweepMarks, Sent, observer, outbound
    <2>4. Fault(d) => (out[e].status # "none" => out'[e].status # "none")
                      /\ unrecorded \subseteq unrecorded'
      BY <1>0 DEF OutType, Fault, Fails, SendFails, OwesNot, InlineFails, SweepFails,
         HandlerDies, ObserverDies, SenderDies, SendThrows, observer, outbound
    <2>. QED
      BY <1>1, <2>1, <2>2, <2>3, <2>4
  <1>2. CASE Stop \/ Visit \/ Leave \/ EarlierDrains \/ UNCHANGED vars
    BY <1>2 DEF Stop, Visit, Leave, EarlierDrains, vars, observer, outbound
  <1>. QED
    BY <1>1, <1>2 DEF Next, Step

\* A row is accepted, or its turn created, by its own handler: one that has adopted
\* the turn or started it, and saw to the reply before.
LEMMA AcceptedOwed ==
    ASSUME LocalInv, NEW d \in Messages, Handler(d) \/ Observer(d) \/ Sweep(d) \/ Fault(d),
           ~Drains(d), NEW e \in Messages, row'[e].status = "accepted", HasRun(e)'
    PROVE  \/ row[e].status = "accepted" /\ HasRun(e)
           \/ out[e].status # "none" \/ e \in unrecorded
  <1>. USE DEF LocalInv
  <1>0. KeepsTexts /\ Fits(e)
    BY HandlerKeeps, ObserverKeeps, SweepKeeps, FaultKeeps
  <1>1. CASE row[e].status = "accepted"
    BY <1>0, <1>1 DEF KeepsTexts
  <1>2. CASE d # e
    BY <1>2, HandlerAlone, ObserverAlone, SweepAlone, FaultAlone DEF Alone, HasRun
  <1>3. CASE d = e /\ row[e].status # "accepted"
    <2>0. row[e] \in RowType /\ e \in DOMAIN row
      BY DEF TypeOK
    <2>1. ~Observer(e) /\ ~Sweep(e)
      BY <1>3 DEF Observer, TurnEnds, Suspends, TakesReply, TakesFailure, LosesReply, InlinePosts,
         InlineMarks, Sweep, Reconciles, SweepClaims, LooksUp, Stamps, SweepPosts, SweepMarks,
         inbound
    <2>2. ~Fault(e)
      BY <1>3, <2>0 DEF Fault, Fails, SendFails, OwesNot, InlineFails, SweepFails, HandlerDies,
         ObserverDies, SenderDies, Settle, Retried, RowType, inbound
    <2>3. Adopts(e) \/ Accepts(e)
      <3>1. row'[e].status = "accepted" /\ row[e].status # "accepted"
        BY <1>3
      <3>2. ~Arrive(e) /\ ~AdoptOwes(e) /\ ~Plans(e) /\ ~SendRuns(e) /\ ~SendBusy(e) /\ ~Owes(e)
        BY <2>0, <3>1 DEF Arrive, AdoptOwes, Plans, SendRuns, SendBusy, Owes, RowType, inbound
      <3>3. ~Claim(e)
        BY <2>0, <3>1 DEF Claim, Claimed, RowType
      <3>4. ~Refuses(e) /\ ~SendDiscards(e)
        BY <2>0, <3>1 DEF Refuses, SendDiscards, Settle, RowType
      <3>5. ~Queues(e)
        BY <2>0, <3>1 DEF Queues, Settle, RowType
      <3>. QED
        BY <1>3, <2>1, <2>2, <3>2, <3>3, <3>4, <3>5 DEF Handler
    <2>. QED
      BY <1>0, <2>3 DEF Adopts, Accepts, Owed, Fits, ObserverFits
  <1>. QED
    BY <1>1, <1>2, <1>3

\* A row gets accepted with a turn by its own handler only, which saw to the reply.
LEMMA OwedStep == BridgeInv /\ [Next]_vars => ReplyOwed'
  <1>. SUFFICES ASSUME BridgeInv, [Next]_vars, NEW e \in Messages,
                       row'[e].status = "accepted", HasRun(e)'
                PROVE  out'[e].status # "none" \/ e \in unrecorded'
    BY DEF ReplyOwed
  <1>. USE DEF BridgeInv, LocalInv
  <1>1. \/ row[e].status = "accepted" /\ HasRun(e)
        \/ out[e].status # "none" \/ e \in unrecorded
    <2>1. CASE \E d \in Messages : Drains(d)
      <3>1. HasRun(e)
        BY <2>1 DEF Drains, session, HasRun
      <3>2. e \notin Waiting
        BY <3>1 DEF Waiting, Fits, RowFits
      <3>. QED
        BY <2>1, <3>1, <3>2, DrainRows DEF Drains, Fits, RowFits
    <2>2. CASE EarlierDrains
      <3>1. HasRun(e)
        BY <2>2 DEF EarlierDrains, session, HasRun
      <3>2. e \notin Waiting
        BY <3>1 DEF Waiting, Fits, RowFits
      <3>. QED
        BY <2>2, <3>1, <3>2, DrainRows DEF EarlierDrains, Fits, RowFits
    <2>3. CASE Stop
      <3>1. row'[e].status # "dropped" /\ row'[e] = row[e]
        BY <2>3 DEF Stop, TypeOK, RowType
      <3>. QED
        BY <2>3, <3>1 DEF Stop, session, HasRun
    <2>4. CASE Visit \/ Leave \/ UNCHANGED vars
      BY <2>4 DEF Visit, Leave, vars, inbound, session, HasRun
    <2>5. ASSUME NEW d \in Messages, Handler(d) \/ Observer(d) \/ Sweep(d) \/ Fault(d), ~Drains(d)
          PROVE  \/ row[e].status = "accepted" /\ HasRun(e)
                 \/ out[e].status # "none" \/ e \in unrecorded
      BY <2>5, AcceptedOwed
    <2>. QED
      BY <2>1, <2>2, <2>3, <2>4, <2>5 DEF Next, Step
  <1>2. out[e].status # "none" \/ e \in unrecorded
    BY <1>1 DEF ReplyOwed
  <1>. QED
    BY <1>2, OutKept
-----------------------------------------------------------------------------
(* The theorems *)

LEMMA BridgeInit == Init => BridgeInv
  <1>. SUFFICES ASSUME Init PROVE BridgeInv
    OBVIOUS
  <1>1. TextsApart /\ RunsInTurns /\ NothingLost /\ ReplyOwed
    BY DEF Init, TextsApart, RunsInTurns, NothingLost, ReplyOwed
  <1>. QED
    BY <1>1, LocalInit DEF BridgeInv

\* Every step keeps the invariant: the merge, the start of a turn, all others.
LEMMA BridgeStep == BridgeInv /\ [Next]_vars => BridgeInv'
  <1>. SUFFICES ASSUME BridgeInv, [Next]_vars
                PROVE  TextsApart' /\ NothingLost' /\ RunsInTurns'
    BY LocalStep, OwedStep DEF BridgeInv
  <1>0. LocalInv /\ TextsApart /\ RunsInTurns /\ NothingLost /\ \A e \in Messages : Fits(e)
    BY DEF BridgeInv, LocalInv
  <1>1. ASSUME KeepsTexts, runs' = runs
        PROVE  TextsApart' /\ NothingLost' /\ RunsInTurns'
    BY <1>0, <1>1, TextsKept, LostNothing, RunsKept
  <1>2. ASSUME DrainQueue, turn' = turn, runs' = runs
        PROVE  TextsApart' /\ NothingLost' /\ RunsInTurns'
    <2>1. CASE UNCHANGED row
      BY <1>1, <1>2, <2>1 DEF KeepsTexts, HasRun
    <2>2. CASE \E c \in Waiting :
                 LET prefix == {d \in Waiting : d <= c}
                 IN prefix # {c} /\ Collect(prefix, c)
      BY <1>2, <2>2, MergeTexts
    <2>. QED
      BY <1>2, <2>1, <2>2 DEF DrainQueue
  <1>3. CASE Stop
    BY <1>3, StopTexts
  <1>4. CASE EarlierDrains
    BY <1>2, <1>4 DEF EarlierDrains, session
  <1>5. CASE Visit \/ Leave \/ UNCHANGED vars
    BY <1>1, <1>5 DEF Visit, Leave, vars, inbound, session, KeepsTexts, HasRun
  <1>6. ASSUME NEW e \in Messages, Handler(e) \/ Observer(e) \/ Sweep(e) \/ Fault(e)
        PROVE  TextsApart' /\ NothingLost' /\ RunsInTurns'
    <2>1. CASE SendRuns(e)
      <3>1. Handler(e)
        BY <2>1 DEF Handler
      <3>. QED
        BY <1>0, <2>1, <3>1, HandlerKeeps, SendRunsOnce, TextsKept, LostNothing
    <2>2. CASE Drains(e)
      BY <1>2, <2>2 DEF Drains, session
    <2>3. CASE ~SendRuns(e) /\ ~Drains(e)
      BY <1>0, <1>1, <1>6, <2>3, HandlerKeeps, ObserverKeeps, SweepKeeps, FaultKeeps
    <2>. QED
      BY <2>1, <2>2, <2>3
  <1>. QED
    BY <1>3, <1>4, <1>5, <1>6 DEF Next, Step

\* The bridge's state keeps its types, whatever the number of messages and faults.
THEOREM TypeCorrect == Spec => []TypeOK
  <1>1. LocalInv => TypeOK
    BY DEF LocalInv
  <1>. QED
    BY <1>1, LocalInit, LocalStep, PTL DEF Spec

\* Whatever is merged, retried, replayed or adopted, no message runs in two turns.
THEOREM OneRunHolds == Spec => []OneRun
  <1>1. BridgeInv => OneRun
    <2>1. ASSUME BridgeInv, NEW e \in Messages PROVE runs[e] < 2
      BY <2>1 DEF BridgeInv, RunsInTurns
    <2>. QED
      BY <2>1 DEF OneRun
  <1>. QED
    BY <1>1, BridgeInit, BridgeStep, PTL DEF Spec

\* An accepted message is in the text of a row with a turn or a fate of its own.
THEOREM NothingLostHolds == Spec => []NothingLost
  <1>1. BridgeInv => NothingLost
    BY DEF BridgeInv
  <1>. QED
    BY <1>1, BridgeInit, BridgeStep, PTL DEF Spec

\* A turn that the conversation's messages started is owed its reply on record,
\* unless the insert of the outbox row failed.
THEOREM ReplyOwedHolds == Spec => []ReplyOwed
  <1>1. BridgeInv => ReplyOwed
    BY DEF BridgeInv
  <1>. QED
    BY <1>1, BridgeInit, BridgeStep, PTL DEF Spec

\* Observer and sweeps post one reply, unless a send of unknown outcome is repeated.
THEOREM ReplyOnceHolds == Spec => []ReplyOnce
  <1>1. LocalInv => ReplyOnce
    BY DEF LocalInv, Fits, PostFits, ReplyOnce
  <1>. QED
    BY <1>1, LocalInit, LocalStep, PTL DEF Spec

=============================================================================
