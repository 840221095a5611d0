--------------------------- MODULE ChannelBridge ---------------------------
(***************************************************************************)
(* One conversation of a messaging channel: its messages become turns of a *)
(* chat session, the turns become replies (channel-bridge.service.ts,      *)
(* channels.repository.ts, inbound-collect.ts).                            *)
(*                                                                         *)
(* Every message has a row in channel_deliveries, claimed by the handler   *)
(* that works on it; every turn has an outbox row that says what the       *)
(* conversation is owed.  The observer that posts a reply lives in the     *)
(* memory of the process that started the turn; three sweeps repair what a *)
(* process leaves behind.                                                  *)
(*                                                                         *)
(* A message is its number, in order of arrival.  A turn, its observer and *)
(* its outbox row bear the number of the message whose row started it.     *)
(***************************************************************************)
EXTENDS Naturals, FiniteSets

CONSTANTS
    Messages,     \* the messages of the conversation, numbered as they arrive
    QueueCap,     \* INFLIGHT_QUEUE_CAP
    MaxAttempts,  \* INBOUND_MAX_ATTEMPTS, OUTBOUND_MAX_ATTEMPTS
    MaxVisits,    \* bound: turns and terminals of others in the session
    MaxFaults     \* bound: errors, and deaths of a process

ASSUME BridgeAssumption ==
    /\ Messages \subseteq Nat
    /\ QueueCap \in Nat /\ MaxVisits \in Nat /\ MaxFaults \in Nat
    /\ MaxAttempts \in Nat \ {0}

VARIABLES
    row,         \* inbound row: status, queue reason, text, planned turn, attempts
    seen,        \* what a listing has read of a row that may still be claimed
    hand,        \* the live handler of a claimed row, and what it was given
    slot,        \* who has the session
    turn,        \* the assistant message of a row's turn: state, messages in it
    watch,       \* the turn's observer
    unrecorded,  \* observers that were given no outbox row
    out,         \* outbox row: status, sendAttemptStartedAt, attempts
    sender,      \* the live outbound sweep that has claimed the outbox row
    posts,       \* how often the platform took the reply
    runs,        \* history: turns a message has run in
    doubtful,    \* history: replies sent again after a send of unknown outcome
    drain,       \* an earlier turn of the conversation has yet to drain the queue
    visits, faults

inbound == <<row, hand>>
session == <<slot, turn, runs>>
observer == <<watch, unrecorded>>
outbound == <<out, sender, posts, doubtful>>
others == <<drain, visits>>
vars == <<inbound, seen, session, observer, outbound, others, faults>>

Settled == {"accepted", "dropped", "dead"}
Resolved == {"sent", "dropped", "dead"}
Guests == {"web", "terminal", "earlier"}   \* others that may have the session

NoHand == [pc |-> "none", text |-> {}, first |-> FALSE]
NoTurn == [state |-> "missing", text |-> {}]

Init ==
    /\ row = [e \in Messages |-> [status |-> "absent", queued |-> FALSE, text |-> {e},
                                  plan |-> FALSE, tries |-> 0]]
    /\ hand = [e \in Messages |-> NoHand] /\ seen = [e \in Messages |-> {}]
    /\ slot = "free" /\ turn = [e \in Messages |-> NoTurn]
    /\ runs = [e \in Messages |-> 0]
    /\ watch = [e \in Messages |-> "none"] /\ unrecorded = {}
    /\ out = [e \in Messages |-> [status |-> "none", stamped |-> FALSE, tries |-> 0]]
    /\ sender = [e \in Messages |-> "none"]
    /\ posts = [e \in Messages |-> 0] /\ doubtful = {}
    /\ drain = FALSE /\ visits = 0 /\ faults = 0
-----------------------------------------------------------------------------
(* The inbound row and its handler *)

\* insertInboundEvent; a repeated delivery of the message finds the row there.
Arrive(e) ==
    /\ row[e].status = "absent"
    /\ \A d \in Messages : d < e => row[d].status # "absent"
    /\ row' = [row EXCEPT ![e].status = "queued"]
    /\ UNCHANGED <<hand, session, observer, outbound, others>>

ClaimUncounted(e) == [row[e] EXCEPT !.status = "processing", !.queued = FALSE]   \* mutant

Claimed(e) == [row[e] EXCEPT !.status = "processing", !.queued = FALSE, !.tries = @ + 1]

\* A live handler is done with its row within INBOUND_PROCESSING_STALE_MS.
Recoverable(e) ==
    \/ row[e].status \in {"queued", "failed"}
    \/ row[e].status = "processing" /\ hand[e].pc = "none"

\* listRecoverableInboundEvents reads event and queue reason of a row; what it
\* has read is used for as long as the row, which may have changed, is claimed.
Reading(e) == [text |-> row[e].text, queued |-> row[e].queued]

Lists ==
    seen' = [e \in Messages |-> CASE Recoverable(e)' -> seen[e] \cup {Reading(e)'}
                                  [] row'[e].status \in Settled -> {}
                                  [] OTHER -> seen[e]]

\* claimInboundEvent: the CAS is on the status.
Claim(e) ==
    /\ Recoverable(e)
    /\ row' = [row EXCEPT ![e] = Claimed(e)]
    /\ \E r \in seen[e] :
          hand' = [hand EXCEPT ![e] = [pc |-> "claimed", text |-> r.text, first |-> ~r.queued]]
    /\ UNCHANGED <<session, observer, outbound, others>>

\* The handler writes its last word on the row.
Settle(e, r) ==
    /\ row' = [row EXCEPT ![e] = r]
    /\ hand' = [hand EXCEPT ![e] = NoHand]

\* Sender policy, mention gate, slash command, nothing left to send.
Refuses(e) ==
    /\ hand[e].pc = "claimed"
    /\ Settle(e, [row[e] EXCEPT !.status = "dropped"])
    /\ UNCHANGED <<session, observer, outbound, others>>

\* mutant: an earlier handler's turn counts as long as it runs
HasRunningTurn(e) == row[e].plan /\ turn[e].state = "running"

\* The turn that an earlier handler of the row planned exists.
HasTurn(e) == row[e].plan /\ turn[e].state # "missing"

\* adoptExistingTurn: such a turn is owed a reply, and the row is settled.
AdoptOwes(e) ==
    /\ hand[e].pc = "claimed" /\ HasTurn(e) /\ out[e].status = "none"
    /\ out' = [out EXCEPT ![e].status = "pending"]
    /\ UNCHANGED <<inbound, session, observer, sender, posts, doubtful, others>>

OwedAlways(e) == TRUE   \* mutant: the row is settled whatever is owed

Owed(e) == out[e].status # "none"

Adopts(e) ==
    /\ hand[e].pc = "claimed" /\ HasTurn(e) /\ Owed(e)
    /\ Settle(e, [row[e] EXCEPT !.status = "accepted"])
    /\ UNCHANGED <<session, observer, outbound, others>>

\* The planned turn id is in the row before sendMessage is called.
Plans(e) ==
    /\ hand[e].pc = "claimed" /\ ~HasTurn(e)
    /\ row' = [row EXCEPT ![e].plan = TRUE]
    /\ hand' = [hand EXCEPT ![e].pc = "planned"]
    /\ UNCHANGED <<session, observer, outbound, others>>

Creates(e, state) == turn' = [turn EXCEPT ![e] = [state |-> state, text |-> hand[e].text]]

\* sendMessage gets the slot: a turn of the text the handler was given.
SendRuns(e) ==
    /\ hand[e].pc = "planned" /\ slot = "free"
    /\ slot' = "turn" /\ Creates(e, "running")
    /\ runs' = [d \in Messages |-> IF d \in hand[e].text THEN runs[d] + 1 ELSE runs[d]]
    /\ watch' = [watch EXCEPT ![e] = "bound"]
    /\ hand' = [hand EXCEPT ![e].pc = "sent"]
    /\ UNCHANGED <<row, unrecorded, outbound, others>>

Waiting == {e \in Messages : row[e].status = "queued" /\ row[e].queued}
Full == Cardinality(Waiting) >= QueueCap

\* sendMessage finds the session taken, and the queue is counted: a message that
\* has waited before is let in whatever the count, and a terminal does not stop it.
SendBusy(e) ==
    /\ hand[e].pc = "planned" /\ slot # "free"
    /\ hand[e].first => slot # "terminal" /\ ~Full
    /\ hand' = [hand EXCEPT ![e].pc = "busy"]
    /\ UNCHANGED <<row, session, observer, outbound, others>>

\* queueBusyInbound requeues it; the turn may have ended and drained meanwhile.
Queues(e) ==
    /\ hand[e].pc = "busy"
    /\ Settle(e, [row[e] EXCEPT !.status = "queued", !.queued = TRUE, !.plan = FALSE,
                                !.tries = @ - 1])
    /\ UNCHANGED <<session, observer, outbound, others>>

\* Dropped with a notice: the queue is full, or a terminal has the session.
SendDiscards(e) ==
    /\ hand[e].pc = "planned" /\ slot # "free" /\ hand[e].first
    /\ slot = "terminal" \/ Full
    /\ Settle(e, [row[e] EXCEPT !.status = "dropped"])
    /\ UNCHANGED <<session, observer, outbound, others>>

\* The reply expectation is recorded.
Owes(e) ==
    /\ hand[e].pc = "sent"
    /\ hand' = [hand EXCEPT ![e].pc = "owed"]
    /\ out' = [out EXCEPT ![e].status = "pending"]
    /\ UNCHANGED <<row, session, observer, sender, posts, doubtful, others>>

\* Accepted; the observer learns which turn and which outbox row are its own.
Accepts(e) ==
    /\ hand[e].pc = "owed"
    /\ Settle(e, [row[e] EXCEPT !.status = "accepted"])
    /\ watch' = [watch EXCEPT ![e] = IF @ = "bound" THEN "waiting" ELSE @]
    /\ UNCHANGED <<session, unrecorded, outbound, others>>

\* /stop drops what waits; the turn it cancels ends by itself.
Stop ==
    /\ Waiting # {}
    /\ row' = [e \in Messages |-> IF e \in Waiting THEN [row[e] EXCEPT !.status = "dropped"]
                                  ELSE row[e]]
    /\ UNCHANGED <<hand, session, observer, outbound, others>>
-----------------------------------------------------------------------------
(* The session and its turns *)

Visit ==
    /\ slot = "free" /\ visits < MaxVisits
    /\ slot' \in Guests /\ visits' = visits + 1
    /\ UNCHANGED <<inbound, turn, runs, observer, outbound, drain>>

Leave ==
    /\ slot \in Guests
    /\ slot' = "free" /\ drain' = (drain \/ slot = "earlier")
    /\ UNCHANGED <<inbound, turn, runs, observer, outbound, visits>>

\* The slot is free and the terminal durable before the observer hears of it; an
\* adapter that rejects frees the slot and leaves no terminal.
TurnEnds(e) ==
    /\ turn[e].state = "running"
    /\ \E s \in {"done", "error", "stuck"} : turn' = [turn EXCEPT ![e].state = s]
    /\ slot' = "free"
    /\ UNCHANGED <<inbound, runs, observer, outbound, others>>

\* The turn goes on in another process, without its observer.
Suspends(e) ==
    /\ turn[e].state = "running" /\ watch[e] # "none"
    /\ watch' = [watch EXCEPT ![e] = "none"]
    /\ UNCHANGED <<inbound, session, unrecorded, outbound, others>>
-----------------------------------------------------------------------------
(* The observer posts the reply *)

MineAlways(e) == TRUE   \* mutant: the row is taken whatever its status

\* resolvePendingDelivery's CAS; without a recorded row a new one is inserted.
Mine(e) == out[e].status = "pending" \/ e \in unrecorded

\* finalizeSuccess takes the reply over, stamped as being sent.
TakesReply(e) ==
    /\ watch[e] = "waiting" /\ turn[e].state = "done" /\ Mine(e)
    /\ out' = [out EXCEPT ![e].status = "queued", ![e].stamped = TRUE]
    /\ watch' = [watch EXCEPT ![e] = "sending"]
    /\ UNCHANGED <<inbound, session, unrecorded, sender, posts, doubtful, others>>

\* finalizeFailure closes the row first: its note is sent once or not at all.
TakesFailure(e) ==
    /\ watch[e] = "waiting" /\ turn[e].state = "error" /\ Mine(e)
    /\ out' = [out EXCEPT ![e].status = "dropped"]
    /\ watch' = [watch EXCEPT ![e] = "noting"]
    /\ UNCHANGED <<inbound, session, unrecorded, sender, posts, doubtful, others>>

\* The reconcile sweep has taken it.
LosesReply(e) ==
    /\ watch[e] = "waiting" /\ turn[e].state \in {"done", "error"} /\ ~Mine(e)
    /\ watch' = [watch EXCEPT ![e] = "draining"]
    /\ UNCHANGED <<inbound, session, unrecorded, outbound, others>>

Post(e) == posts' = [posts EXCEPT ![e] = @ + 1]
Sent(e) == out' = [out EXCEPT ![e].status = "sent", ![e].stamped = FALSE]

InlinePosts(e) ==
    /\ watch[e] \in {"sending", "noting"}
    /\ Post(e)
    /\ watch' = [watch EXCEPT ![e] = IF @ = "sending" THEN "posted" ELSE "draining"]
    /\ UNCHANGED <<inbound, session, unrecorded, out, sender, doubtful, others>>

InlineMarks(e) ==
    /\ watch[e] = "posted"
    /\ Sent(e)
    /\ watch' = [watch EXCEPT ![e] = "draining"]
    /\ UNCHANGED <<inbound, session, unrecorded, sender, posts, doubtful, others>>

CollectLast(prefix, c) ==   \* mutant: the carrier runs its own text only
    row' = [e \in Messages |-> IF e \in prefix \ {c} THEN [row[e] EXCEPT !.status = "accepted"]
                               ELSE row[e]]

\* collectQueuedInboundForScope: the prefix is merged into its last message c.
Collect(prefix, c) ==
    row' = [e \in Messages |->
               CASE e = c -> [row[e] EXCEPT !.text = UNION {row[d].text : d \in prefix}]
                 [] e \in prefix \ {c} -> [row[e] EXCEPT !.status = "accepted"]
                 [] OTHER -> row[e]]

\* drainQueuedInbound.  A message with attachments ends the prefix that is merged;
\* fewer than two are left as they are.  What follows is a Claim.
DrainQueue ==
    \/ UNCHANGED row
    \/ \E c \in Waiting :
          LET prefix == {d \in Waiting : d <= c}
          IN prefix # {c} /\ Collect(prefix, c)

Drains(e) ==
    /\ watch[e] = "draining"
    /\ watch' = [watch EXCEPT ![e] = "none"]
    /\ DrainQueue
    /\ UNCHANGED <<hand, session, unrecorded, outbound, others>>

EarlierDrains ==
    /\ drain /\ drain' = FALSE
    /\ DrainQueue
    /\ UNCHANGED <<hand, session, observer, outbound, visits>>
-----------------------------------------------------------------------------
(* The sweeps *)

\* reconcilePendingReplies: from the turn's durable outcome; a turn that is too
\* old counts as one that did not complete.
Reconciles(e) ==
    /\ out[e].status = "pending" /\ turn[e].state # "missing"
    /\ out' = [out EXCEPT ![e].status = "queued"]
    /\ UNCHANGED <<inbound, session, observer, sender, posts, doubtful, others>>

\* claimOutboundDelivery.  OUTBOUND_ENQUEUE_GRACE_MS outlasts an inline send, the
\* stale limit a live sweep.
SweepClaims(e) ==
    /\ \/ out[e].status = "queued" /\ watch[e] \notin {"sending", "posted"}
       \/ out[e].status = "failed"
       \/ out[e].status = "processing" /\ sender[e] = "none"
    /\ out' = [out EXCEPT ![e].status = "processing"]
    /\ sender' = [sender EXCEPT ![e] = "claimed"]
    /\ UNCHANGED <<inbound, session, observer, posts, doubtful, others>>

\* reconcileUnknownSend: a stamped row is looked up on the platform, where the
\* provider can, and sent again unless it is found there.
LooksUp(e) ==
    /\ sender[e] = "claimed" /\ out[e].stamped
    /\ \/ /\ posts[e] > 0
          /\ Sent(e) /\ sender' = [sender EXCEPT ![e] = "none"]
          /\ UNCHANGED doubtful
       \/ /\ sender' = [sender EXCEPT ![e] = "sending"]
          /\ doubtful' = IF posts[e] > 0 THEN doubtful \cup {e} ELSE doubtful
          /\ UNCHANGED out
    /\ UNCHANGED <<inbound, session, observer, posts, others>>

Stamps(e) ==
    /\ sender[e] = "claimed" /\ ~out[e].stamped
    /\ out' = [out EXCEPT ![e].stamped = TRUE]
    /\ sender' = [sender EXCEPT ![e] = "sending"]
    /\ UNCHANGED <<inbound, session, observer, posts, doubtful, others>>

SweepPosts(e) ==
    /\ sender[e] = "sending"
    /\ Post(e)
    /\ sender' = [sender EXCEPT ![e] = "posted"]
    /\ UNCHANGED <<inbound, session, observer, out, doubtful, others>>

SweepMarks(e) ==
    /\ sender[e] = "posted"
    /\ Sent(e)
    /\ sender' = [sender EXCEPT ![e] = "none"]
    /\ UNCHANGED <<inbound, session, observer, posts, doubtful, others>>
-----------------------------------------------------------------------------
(* Errors and deaths *)

Retried(e) == [row[e] EXCEPT !.status = IF row[e].tries >= MaxAttempts THEN "dead" ELSE "failed"]

\* settleInboundFailure, wherever the handler meets an error; it never tells its
\* observer about the turn then.  An error the request itself causes is final.
Fails(e) ==
    /\ hand[e].pc # "none"
    /\ \/ Settle(e, Retried(e))
       \/ /\ hand[e].pc \in {"claimed", "planned"}
          /\ Settle(e, [row[e] EXCEPT !.status = "dropped"])
    /\ watch' = [watch EXCEPT ![e] = IF @ = "bound" THEN "none" ELSE @]
    /\ UNCHANGED <<session, unrecorded, outbound, others>>

\* sendMessage fails behind the assistant message: a turn nobody carries.
SendFails(e) ==
    /\ hand[e].pc = "planned" /\ slot = "free"
    /\ Creates(e, "stuck") /\ Settle(e, Retried(e))
    /\ UNCHANGED <<slot, runs, observer, outbound, others>>

\* The expectation cannot be recorded: logged, and the handler goes on.
OwesNot(e) ==
    /\ hand[e].pc = "sent"
    /\ hand' = [hand EXCEPT ![e].pc = "owed"]
    /\ unrecorded' = unrecorded \cup {e}
    /\ UNCHANGED <<row, session, watch, outbound, others>>

\* The process of the handler dies, or the one of the observer, or the sweep's.
HandlerDies(e) ==
    /\ hand[e].pc # "none"
    /\ hand' = [hand EXCEPT ![e] = NoHand] /\ watch' = [watch EXCEPT ![e] = "none"]
    /\ UNCHANGED <<row, session, unrecorded, outbound, others>>

ObserverDies(e) ==
    /\ watch[e] \notin {"none", "bound"}
    /\ watch' = [watch EXCEPT ![e] = "none"]
    /\ UNCHANGED <<inbound, session, unrecorded, outbound, others>>

SenderDies(e) ==
    /\ sender[e] # "none"
    /\ sender' = [sender EXCEPT ![e] = "none"]
    /\ UNCHANGED <<inbound, session, observer, out, posts, doubtful, others>>

\* A send throws, the platform having taken the message or not; it is tried
\* again unless the error is permanent or the attempts are used up.
SendThrows(e) ==
    /\ \/ Post(e) /\ doubtful' = doubtful \cup {e}
       \/ UNCHANGED <<posts, doubtful>>
    /\ \E s \in {"failed", "dead"} :
          /\ s = "failed" => out[e].tries + 1 < MaxAttempts
          /\ out' = [out EXCEPT ![e] = [status |-> s, stamped |-> FALSE, tries |-> @.tries + 1]]

InlineFails(e) ==
    /\ watch[e] = "sending"
    /\ SendThrows(e)
    /\ watch' = [watch EXCEPT ![e] = "draining"]
    /\ UNCHANGED <<inbound, session, unrecorded, sender, others>>

SweepFails(e) ==
    /\ sender[e] = "sending"
    /\ SendThrows(e)
    /\ sender' = [sender EXCEPT ![e] = "none"]
    /\ UNCHANGED <<inbound, session, observer, others>>
-----------------------------------------------------------------------------
Handler(e) ==
    \/ Arrive(e) \/ Claim(e) \/ Refuses(e) \/ AdoptOwes(e) \/ Adopts(e) \/ Plans(e)
    \/ SendRuns(e) \/ SendBusy(e) \/ Queues(e) \/ SendDiscards(e) \/ Owes(e) \/ Accepts(e)

Observer(e) ==
    \/ TurnEnds(e) \/ Suspends(e)
    \/ TakesReply(e) \/ TakesFailure(e) \/ LosesReply(e)
    \/ InlinePosts(e) \/ InlineMarks(e) \/ Drains(e)

Sweep(e) ==
    \/ Reconciles(e) \/ SweepClaims(e) \/ LooksUp(e) \/ Stamps(e)
    \/ SweepPosts(e) \/ SweepMarks(e)

Fault(e) ==
    \/ Fails(e) \/ SendFails(e) \/ OwesNot(e) \/ InlineFails(e) \/ SweepFails(e)
    \/ HandlerDies(e) \/ ObserverDies(e) \/ SenderDies(e)

Step ==
    \/ /\ UNCHANGED faults
       /\ \/ Stop \/ Visit \/ Leave \/ EarlierDrains
          \/ \E e \in Messages : Handler(e) \/ Observer(e) \/ Sweep(e)
    \/ /\ faults < MaxFaults /\ faults' = faults + 1
       /\ \E e \in Messages : Fault(e)

Next == Step /\ Lists

Spec == Init /\ [][Next]_vars
-----------------------------------------------------------------------------
(* What the bridge promises *)

RowType == [status : {"absent", "queued", "processing", "failed"} \cup Settled,
            queued : BOOLEAN, text : SUBSET Messages, plan : BOOLEAN, tries : Nat]
ReadingType == [text : SUBSET Messages, queued : BOOLEAN]
HandType == [pc : {"none", "claimed", "planned", "busy", "sent", "owed"},
             text : SUBSET Messages, first : BOOLEAN]
TurnType == [state : {"missing", "running", "done", "error", "stuck"},
             text : SUBSET Messages]
OutType == [status : {"none", "pending", "queued", "processing", "failed"} \cup Resolved,
            stamped : BOOLEAN, tries : Nat]

TypeOK ==
    /\ row \in [Messages -> RowType] /\ hand \in [Messages -> HandType]
    /\ seen \in [Messages -> SUBSET ReadingType]
    /\ slot \in Guests \cup {"free", "turn"} /\ turn \in [Messages -> TurnType]
    /\ runs \in [Messages -> Nat] /\ posts \in [Messages -> Nat]
    /\ watch \in [Messages -> {"none", "bound", "waiting", "sending", "noting",
                               "posted", "draining"}]
    /\ out \in [Messages -> OutType]
    /\ sender \in [Messages -> {"none", "claimed", "sending", "posted"}]
    /\ unrecorded \subseteq Messages /\ doubtful \subseteq Messages
    /\ drain \in BOOLEAN /\ visits \in 0 .. MaxVisits /\ faults \in 0 .. MaxFaults

HasRun(e) == turn[e].state # "missing"

\* Whatever is merged, retried, replayed or adopted, no message runs in two turns.
OneRun == \A e \in Messages : runs[e] < 2

\* An accepted message is in the text of a row that has its turn or another
\* fate of its own: no crash can lose it, not even in the middle of a merge.
NothingLost ==
    \A e \in Messages : row[e].status = "accepted" =>
        \E c \in Messages : e \in row[c].text /\ (HasRun(c) \/ row[c].status # "accepted")

\* The conversation is owed a reply to every turn its messages started: an
\* accepted row whose turn exists has its outbox row, unless the insert failed.
ReplyOwed ==
    \A e \in Messages : row[e].status = "accepted" /\ HasRun(e) =>
        out[e].status # "none" \/ e \in unrecorded

\* Observer and sweeps post one reply, unless a send of unknown outcome is repeated.
ReplyOnce == \A e \in Messages \ doubtful : posts[e] < 2

\* The turn of a row has all the text the row carries.
RunsItsText == \A e \in Messages : HasRun(e) => turn[e].text = row[e].text
=============================================================================
