----------------------------- MODULE StreamPump -----------------------------
(***************************************************************************)
(* Delivery of one session's durable stream log to the event-stream        *)
(* connections of one API instance (sse-broadcaster.ts: subscribe, kick,   *)
(* runPump, safetyTick; chat-stream-bus.ts; chat.controller.ts).           *)
(*                                                                         *)
(* Rows are committed in id order (the session's advisory lock), by this   *)
(* instance or by a peer.  A pump reads the rows behind its slowest        *)
(* subscriber and sends them to all of them.  Between the query and its    *)
(* answer the process runs other callbacks; the loop over the answered     *)
(* rows awaits nothing and is one step.  A client that reconnects names    *)
(* the last row it processed (Last-Event-ID).                              *)
(***************************************************************************)
EXTENDS Naturals, FiniteSets

CONSTANTS
    Client,      \* browser tabs, one connection each at a time
    MaxRow,      \* bound of the model: rows of the session
    BatchLimit   \* PUMP_BATCH_LIMIT

ASSUME BatchAssumption == MaxRow \in Nat /\ BatchLimit \in Nat \ {0}

VARIABLES
    top,        \* rows committed so far, with ids 1 .. top
    link,       \* each client's connection: closed, resolving its first cursor,
                \* or attached to the pump
    cursor,     \* SubscriberEntry.cursor of each connection
    base,       \* row before the first one the client wants
    has,        \* rows the client has processed
    running,    \* pump.running
    dirty,      \* pump.dirty
    from,       \* minCursor of the query in flight
    retry,      \* the PUMP_RETRY_MS timer is armed
    wakeup,     \* a kick is on its way: own write, NOTIFY or LISTEN restart
    hot,        \* lastActivityAt lies within SAFETY_HOT_WINDOW_MS
    overtaken   \* clients attached behind the query then in flight

pump == <<running, dirty, from, retry, hot>>
vars == <<top, link, cursor, base, has, pump, wakeup, overtaken>>

subs == {c \in Client : link[c] = "attached"}

\* Last-Event-ID: the last row the client processed.
LastId(c) == IF has[c] = {} THEN base[c]
             ELSE CHOOSE r \in has[c] : \A q \in has[c] : q <= r

Init ==
    /\ top = 0
    /\ link = [c \in Client |-> "closed"]
    /\ cursor = [c \in Client |-> 0]
    /\ base = [c \in Client |-> 0]
    /\ has = [c \in Client |-> {}]
    /\ running = FALSE /\ dirty = FALSE /\ retry = FALSE /\ hot = FALSE
    /\ from = 0
    /\ wakeup = FALSE
    /\ overtaken = {}
-----------------------------------------------------------------------------
(***************************************************************************)
(* The pump.                                                               *)
(***************************************************************************)
MaxCursor(S, cur) ==   \* mutant: reads behind the fastest subscriber
    CHOOSE n \in {cur[c] : c \in S} : \A c \in S : n >= cur[c]

MinCursor(S, cur) == CHOOSE n \in {cur[c] : c \in S} : \A c \in S : n <= cur[c]

KickForgets(S, cur) ==   \* mutant: a running pump is not marked dirty
    IF S = {} \/ running THEN UNCHANGED <<running, dirty, from>>
    ELSE /\ running' = TRUE /\ dirty' = FALSE
         /\ from' = MinCursor(S, cur)

\* kick, up to the query that runPump starts synchronously; S and cur are
\* the subscribers and cursors it sees.
Kick(S, cur) ==
    CASE S = {} -> UNCHANGED <<running, dirty, from>>
      [] S # {} /\ running -> dirty' = TRUE /\ UNCHANGED <<running, from>>
      [] S # {} /\ ~running -> /\ running' = TRUE /\ dirty' = FALSE
                               /\ from' = MinCursor(S, cur)

\* listSessionStreamEventsSince(minCursor, PUMP_BATCH_LIMIT).
Batch(n) == {r \in (n + 1) .. top : r <= n + BatchLimit}

\* Rows of a batch the connection has not been sent: sub.cursor < row.id.
Fresh(c, rows) == {r \in rows : r > cursor[c]}

LaterByPage(n, rows) == n + BatchLimit   \* mutant: every page is full

Later(n, rows) == IF rows = {} THEN n
                  ELSE CHOOSE r \in rows : \A q \in rows : q <= r

\* The loop goes on while a kick arrived or the batch was full.
Again(S, rows) == S # {} /\ (dirty \/ Cardinality(rows) = BatchLimit)

\* The query answers: every row to every subscriber in one go, a failed send
\* drops its subscriber, then the loop reads again or the pump stops.
ReadAnswers ==
    /\ running
    /\ \E dropped \in SUBSET subs :
          LET rows == Batch(from)
              left == subs \ dropped
              cur == [c \in Client |->
                         IF c \in left THEN Later(cursor[c], Fresh(c, rows))
                         ELSE cursor[c]]
          IN /\ dropped # {} => rows # {}
             /\ cursor' = cur
             /\ has' = [c \in Client |->
                           IF c \in left THEN has[c] \cup Fresh(c, rows)
                           ELSE has[c]]
             /\ link' = [c \in Client |->
                            IF c \in dropped THEN "closed" ELSE link[c]]
             /\ dirty' = FALSE
             /\ hot' = (hot \/ rows # {})
             /\ IF Again(left, rows)
                THEN from' = MinCursor(left, cur) /\ UNCHANGED running
                ELSE running' = FALSE /\ UNCHANGED from
    /\ UNCHANGED <<top, base, retry, wakeup, overtaken>>

\* The query fails: a timer kicks later, at once if a kick arrived meanwhile.
ReadFails ==
    /\ running
    /\ retry' = (subs # {})
    /\ IF subs # {} /\ dirty
       THEN dirty' = FALSE /\ from' = MinCursor(subs, cursor) /\ UNCHANGED running
       ELSE running' = FALSE /\ dirty' = FALSE /\ UNCHANGED from
    /\ UNCHANGED <<top, link, cursor, base, has, hot, wakeup, overtaken>>

RetryFires ==
    /\ retry
    /\ retry' = FALSE
    /\ Kick(subs, cursor)
    /\ UNCHANGED <<top, link, cursor, base, has, hot, wakeup, overtaken>>

SafetyDueHot(tick) == subs # {} /\ hot   \* mutant: cold pumps are never polled

\* Hot pumps are polled on every tick, cold ones on every sixth.
SafetyDue(tick) == subs # {} /\ (hot \/ tick = "sixth")

\* safetyTick re-polls for a lost NOTIFY.
SafetyTick(tick) ==
    /\ SafetyDue(tick)
    /\ Kick(subs, cursor)
    /\ UNCHANGED <<top, link, cursor, base, has, retry, hot, wakeup, overtaken>>

\* SAFETY_HOT_WINDOW_MS passes without a delivery.
Cools ==
    /\ hot
    /\ hot' = FALSE
    /\ UNCHANGED <<top, link, cursor, base, has, running, dirty, from, retry,
                   wakeup, overtaken>>

\* bus.onMessage, bus.onListenEstablished, or the kick behind an own write.
Wake ==
    /\ wakeup
    /\ wakeup' = FALSE
    /\ Kick(subs, cursor)
    /\ UNCHANGED <<top, link, cursor, base, has, retry, hot, overtaken>>
-----------------------------------------------------------------------------
(***************************************************************************)
(* Writers and clients.                                                    *)
(***************************************************************************)
\* A row commits; a peer's NOTIFY may be lost.
Append ==
    /\ top < MaxRow
    /\ top' = top + 1
    /\ wakeup' \in {TRUE, wakeup}
    /\ UNCHANGED <<link, cursor, base, has, pump, overtaken>>

\* A first attach: initialCursor is read from the log (a turn's first row, or
\* the end of the log).
Attach(c) ==
    /\ link[c] = "closed"
    /\ has[c] = {}
    /\ \E n \in 0 .. top :
          /\ base' = [base EXCEPT ![c] = n]
          /\ cursor' = [cursor EXCEPT ![c] = n]
    /\ link' = [link EXCEPT ![c] = "resolving"]
    /\ UNCHANGED <<top, has, pump, wakeup, overtaken>>

\* A reconnect: the browser sends Last-Event-ID.
Reconnect(c) ==
    /\ link[c] = "closed"
    /\ has[c] # {}
    /\ cursor' = [cursor EXCEPT ![c] = LastId(c)]
    /\ link' = [link EXCEPT ![c] = "resolving"]
    /\ UNCHANGED <<top, base, has, pump, wakeup, overtaken>>

\* subscribe, after initialCursor: the first subscriber creates the pump; a
\* running one may have a query in flight that starts ahead of this cursor.
Subscribe(c) ==
    /\ link[c] = "resolving"
    /\ link' = [link EXCEPT ![c] = "attached"]
    /\ overtaken' = IF running /\ cursor[c] < from THEN overtaken \cup {c}
                    ELSE overtaken
    /\ hot' = (hot \/ (subs = {} /\ ~running))
    /\ Kick(subs \cup {c}, cursor)
    /\ UNCHANGED <<top, cursor, base, has, retry, wakeup>>

\* The connection goes away, unflushed rows at its end with it.
Disconnect(c) ==
    /\ link[c] = "attached"
    /\ link' = [link EXCEPT ![c] = "closed"]
    /\ \E n \in base[c] .. LastId(c) :
          has' = [has EXCEPT ![c] = {r \in @ : r <= n}]
    /\ UNCHANGED <<top, cursor, base, pump, wakeup, overtaken>>

ClientStep(c) == Attach(c) \/ Reconnect(c) \/ Subscribe(c) \/ Disconnect(c)

PumpStep ==
    \/ ReadAnswers \/ ReadFails \/ RetryFires \/ Wake \/ Cools
    \/ \E tick \in {"any", "sixth"} : SafetyTick(tick)

Next == Append \/ PumpStep \/ \E c \in Client : ClientStep(c)

Spec == Init /\ [][Next]_vars

\* Queries come back, and the database does not go on failing them for ever.
QueriesAnswer ==
    /\ WF_vars(ReadAnswers \/ ReadFails)
    /\ <>[][~ReadFails]_vars

\* What both liveness properties rest on; each names what else it needs.
LiveSpec == Spec /\ QueriesAnswer

\* A connection that is resolving is attached, and timers fire.
ConnectsAndRetries ==
    /\ WF_vars(RetryFires)
    /\ \A c \in Client : WF_vars(Subscribe(c))
-----------------------------------------------------------------------------
TypeOK ==
    /\ top \in 0 .. MaxRow
    /\ link \in [Client -> {"closed", "resolving", "attached"}]
    /\ cursor \in [Client -> 0 .. MaxRow]
    /\ base \in [Client -> 0 .. MaxRow]
    /\ has \in [Client -> SUBSET (1 .. MaxRow)]
    /\ from \in 0 .. MaxRow
    /\ {running, dirty, retry, hot, wakeup} \subseteq BOOLEAN
    /\ overtaken \subseteq Client

\* What a client processed has no hole: every row between the one it started
\* behind and the last one it holds (chat.controller.ts on reconnects).
Gapless(c) == has[c] = (base[c] + 1) .. LastId(c)

NoRowSkipped == \A c \in Client : Gapless(c)

\* Only a client attached behind a query already in flight can have a hole:
\* batches, slow readers, failed sends and reconnects leave none.
OthersSkipNothing == \A c \in Client \ overtaken : Gapless(c)

\* The rows that were in the log when a client came are sent to it without any
\* safety tick, whatever the pump was doing then (kick, dirty).  A client
\* attached behind a query in flight may lose some (NoRowSkipped): of it only
\* that the pump gets past them.
Served(c, n) ==
    \/ n <= base[c] \/ n \in has[c]
    \/ c \in overtaken /\ cursor[c] >= n

ReplayArrives ==
    ConnectsAndRetries =>
        \A c \in Client, n \in 1 .. MaxRow :
            (link[c] = "resolving" /\ n <= top)
                ~> (link[c] = "closed" \/ Served(c, n))

\* Every reader that stays gets to the end of the log though every NOTIFY and
\* retry may be lost, as long as the cold safety tick goes on.
CatchesUp ==
    WF_vars(SafetyTick("sixth")) =>
        \A c \in Client :
            (link[c] = "attached" /\ cursor[c] < top)
                ~> (link[c] # "attached" \/ cursor[c] = top)
=============================================================================
