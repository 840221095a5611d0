------------------------- MODULE StreamPump_proofs -------------------------
(***************************************************************************)
(* StreamPump for any clients, rows and batch limit: a pump that reads     *)
(* behind its slowest subscriber leaves no hole in what a client holds,    *)
(* unless the client was attached behind a query already in flight.        *)
(***************************************************************************)
EXTENDS StreamPump, WellFoundedInduction, TLAPS

\* What c holds goes from its base to row k, which is its cursor while it is
\* connected.
Holds(c, k) ==
    /\ k \in base[c] .. top
    /\ has[c] = (base[c] + 1) .. k
    /\ link[c] # "closed" => cursor[c] = k

BoundsInv == \A c \in Client : cursor[c] <= top /\ \A r \in has[c] : r <= top

HoldsInv == \A c \in Client \ overtaken : \E k \in Nat : Holds(c, k)

\* A query in flight starts behind no subscriber but those it has overtaken.
FromInv == running => from <= top /\ \A c \in subs \ overtaken : from <= cursor[c]

PumpInv == TypeOK /\ BoundsInv /\ HoldsInv /\ FromInv

-----------------------------------------------------------------------------
(* Least and greatest numbers *)

LEMMA LeastExists ==
    ASSUME NEW S \in SUBSET Nat, S # {}
    PROVE  \E m \in S : \A n \in S : m <= n
  <1>1. IsWellFoundedOn(OpToRel(<, Nat), Nat)
    BY NatLessThanWellFounded
  <1>2. PICK m \in S : \A n \in S : ~ (<<n, m>> \in OpToRel(<, Nat))
    BY <1>1, WFMin
  <1>3. \A n \in S : ~ (n < m)
    BY <1>2 DEF OpToRel
  <1>. QED
    BY <1>3

LEMMA GreatestExists ==
    ASSUME NEW N \in Nat, NEW S \in SUBSET (0 .. N), S # {}
    PROVE  \E m \in S : \A n \in S : n <= m
  <1>. DEFINE T == {N - n : n \in S}
  <1>1. T \in SUBSET Nat /\ T # {}
    <2>1. \A n \in S : N - n \in Nat
      OBVIOUS
    <2>2. PICK s \in S : TRUE
      OBVIOUS
    <2>3. N - s \in T
      BY <2>2
    <2>. QED
      BY <2>1, <2>3
  <1>2. PICK t \in T : \A u \in T : t <= u
    BY <1>1, LeastExists
  <1>3. PICK m \in S : t = N - m
    OBVIOUS
  <1>4. \A n \in S : N - m <= N - n
    BY <1>2, <1>3
  <1>. QED
    BY <1>4

LEMMA MinCursorFacts ==
    ASSUME NEW N \in Nat, NEW cur \in [Client -> 0 .. N], NEW S \in SUBSET Client, S # {}
    PROVE  MinCursor(S, cur) \in 0 .. N /\ \A c \in S : MinCursor(S, cur) <= cur[c]
  <1>. DEFINE T == {cur[c] : c \in S}
  <1>1. T \in SUBSET Nat /\ T # {} /\ T \subseteq 0 .. N
    OBVIOUS
  <1>2. PICK m \in T : \A n \in T : m <= n
    BY <1>1, LeastExists
  <1>3. m \in T /\ \A c \in S : m <= cur[c]
    BY <1>2
  <1>4. /\ MinCursor(S, cur) \in T
        /\ \A c \in S : MinCursor(S, cur) <= cur[c]
    BY <1>3 DEF MinCursor
  <1>. QED
    BY <1>1, <1>4

LEMMA LastIdFacts ==
    ASSUME PumpInv, NEW c \in Client
    PROVE  /\ LastId(c) \in Nat
           /\ has[c] # {} => LastId(c) \in has[c] /\ LastId(c) <= top
           /\ \A k \in Nat : Holds(c, k) => LastId(c) = k
  <1>1. /\ TypeOK /\ BoundsInv /\ MaxRow \in Nat /\ top \in Nat
    BY BatchAssumption DEF PumpInv, TypeOK
  <1>2. base[c] \in Nat /\ has[c] \in SUBSET (0 .. MaxRow) /\ has[c] \in SUBSET Nat
    BY <1>1 DEF TypeOK
  <1>3. CASE has[c] = {}
    <2>1. LastId(c) = base[c]
      BY <1>3 DEF LastId
    <2>2. ASSUME NEW k \in Nat, Holds(c, k) PROVE k = base[c]
      <3>1. k >= base[c]
        BY <1>1, <1>2, <2>2 DEF Holds
      <3>2. base[c] + 1 .. k = {}
        BY <1>3, <2>2 DEF Holds
      <3>3. k > base[c] => k \in base[c] + 1 .. k
        BY <1>2
      <3>. QED
        BY <1>2, <3>1, <3>2, <3>3
    <2>. QED
      BY <1>2, <1>3, <2>1, <2>2
  <1>4. CASE has[c] # {}
    <2>1. \E m \in has[c] : \A n \in has[c] : n <= m
      BY <1>1, <1>2, <1>4, GreatestExists
    <2>2. LastId(c) \in has[c] /\ \A n \in has[c] : n <= LastId(c)
      BY <1>4, <2>1 DEF LastId
    <2>3. LastId(c) \in Nat /\ LastId(c) <= top
      BY <1>1, <1>2, <2>2 DEF BoundsInv
    <2>4. ASSUME NEW k \in Nat, Holds(c, k) PROVE LastId(c) = k
      <3>1. has[c] = base[c] + 1 .. k
        BY <2>4 DEF Holds
      <3>2. LastId(c) \in base[c] + 1 .. k /\ k \in has[c]
        BY <1>2, <2>2, <3>1
      <3>3. k <= LastId(c) /\ LastId(c) <= k
        BY <1>2, <2>2, <3>2
      <3>. QED
        BY <2>3, <3>3
    <2>. QED
      BY <2>2, <2>3, <2>4
  <1>. QED
    BY <1>3, <1>4

\* A batch is an interval; what a reader gets of it leaves no hole behind the
\* reader's cursor, if the batch did not start ahead of it.
LEMMA SentFacts ==
    ASSUME PumpInv, running, NEW c \in Client
    PROVE  /\ Later(cursor[c], Fresh(c, Batch(from))) \in 0 .. top
           /\ Fresh(c, Batch(from)) \subseteq 1 .. top
           /\ from <= cursor[c] =>
                 /\ cursor[c] <= Later(cursor[c], Fresh(c, Batch(from)))
                 /\ Fresh(c, Batch(from))
                       = cursor[c] + 1 .. Later(cursor[c], Fresh(c, Batch(from)))
  <1>1. /\ top \in Nat /\ from \in Nat /\ cursor[c] \in Nat /\ BatchLimit \in Nat \ {0}
        /\ cursor[c] <= top /\ from <= top
    BY BatchAssumption DEF PumpInv, TypeOK, BoundsInv, FromInv
  <1>2. PICK m \in from .. top : \A r \in from + 1 .. top : r <= from + BatchLimit <=> r <= m
    <2>1. CASE from + BatchLimit <= top
      <3>1. from + BatchLimit \in from .. top
        BY <1>1, <2>1
      <3>. QED
        BY <3>1
    <2>2. CASE from + BatchLimit > top
      <3>1. top \in from .. top /\ \A r \in from + 1 .. top : r <= from + BatchLimit /\ r <= top
        BY <1>1, <2>2
      <3>. QED
        BY <3>1
    <2>. QED
      BY <1>1, <2>1, <2>2
  <1>3. Fresh(c, Batch(from)) = {r \in from + 1 .. top : r <= m /\ r > cursor[c]}
    BY <1>1, <1>2 DEF Fresh, Batch
  <1>. DEFINE rows == Fresh(c, Batch(from))
  <1>4. rows \subseteq 1 .. top
    BY <1>1, <1>3
  <1>5. CASE rows = {}
    <2>1. Later(cursor[c], rows) = cursor[c]
      BY <1>5 DEF Later
    <2>2. cursor[c] + 1 .. cursor[c] = {}
      BY <1>1
    <2>. QED
      BY <1>1, <1>4, <1>5, <2>1, <2>2
  <1>6. CASE rows # {}
    <2>1. PICK r \in rows : r \in from + 1 .. top /\ r <= m /\ r > cursor[c]
      BY <1>3, <1>6
    <2>2. m \in rows /\ \A q \in rows : q <= m
      BY <1>1, <1>2, <1>3, <2>1
    <2>. HIDE DEF rows
    <2>3. Later(cursor[c], rows) \in rows /\ \A q \in rows : q <= Later(cursor[c], rows)
      BY <1>6, <2>2 DEF Later
    <2>4. Later(cursor[c], rows) = m
      <3>1. Later(cursor[c], rows) \in 1 .. top
        BY <1>4, <2>3
      <3>2. m \in 1 .. top
        BY <1>4, <2>2
      <3>3. m <= Later(cursor[c], rows) /\ Later(cursor[c], rows) <= m
        BY <2>2, <2>3
      <3>. QED
        BY <1>1, <3>1, <3>2, <3>3
    <2>5. m \in 0 .. top
      BY <1>1, <1>2
    <2>6. ASSUME from <= cursor[c]
          PROVE  cursor[c] <= m /\ rows = cursor[c] + 1 .. m
      <3>1. m \in from + 1 .. top /\ m > cursor[c]
        BY <1>3, <2>2 DEF rows
      <3>. QED
        BY <1>1, <1>2, <1>3, <2>6, <3>1 DEF rows
    <2>. QED
      BY <1>4, <2>4, <2>5, <2>6 DEF rows
  <1>. QED
    BY <1>5, <1>6

LEMMA KickFacts ==
    ASSUME PumpInv, NEW S \in SUBSET Client, NEW cur \in [Client -> 0 .. MaxRow], Kick(S, cur),
           \A c \in Client : cur[c] <= top
    PROVE  /\ running' \in BOOLEAN /\ dirty' \in BOOLEAN /\ from' \in 0 .. MaxRow
           /\ running' => \/ running /\ from' = from
                          \/ ~running /\ from' <= top /\ \A c \in S : from' <= cur[c]
  <1>1. /\ running \in BOOLEAN /\ dirty \in BOOLEAN /\ from \in 0 .. MaxRow
        /\ top \in Nat /\ MaxRow \in Nat
    BY BatchAssumption DEF PumpInv, TypeOK
  <1>2. CASE S = {}
    BY <1>1, <1>2 DEF Kick
  <1>3. CASE S # {} /\ running
    BY <1>1, <1>3 DEF Kick
  <1>4. CASE S # {} /\ ~running
    <2>1. running' = TRUE /\ dirty' = FALSE /\ from' = MinCursor(S, cur)
      BY <1>4 DEF Kick
    <2>2. MinCursor(S, cur) \in 0 .. MaxRow /\ \A c \in S : MinCursor(S, cur) <= cur[c]
      BY <1>1, <1>4, MinCursorFacts
    <2>3. PICK c \in S : TRUE
      BY <1>4
    <2>4. MinCursor(S, cur) <= cur[c] /\ cur[c] <= top /\ cur[c] \in 0 .. MaxRow
      BY <2>2, <2>3
    <2>5. MinCursor(S, cur) <= top
      BY <1>1, <2>2, <2>4
    <2>. QED
      BY <1>4, <2>1, <2>2, <2>5
  <1>. QED
    BY <1>1, <1>2, <1>3, <1>4

-----------------------------------------------------------------------------
(* The steps *)

Flags == {running', dirty', retry', hot', wakeup'} \subseteq BOOLEAN

\* The steps that only start, stop or time a pump.
LEMMA StillStep ==
    ASSUME PumpInv, UNCHANGED <<top, link, cursor, base, has, overtaken>>,
           Flags, from' \in 0 .. MaxRow,
           running' => \/ running /\ from' = from
                       \/ from' <= top /\ \A c \in subs : from' <= cursor[c]
    PROVE  PumpInv'
  <1>1. TypeOK' /\ subs' = subs
    BY DEF PumpInv, TypeOK, Flags, subs
  <1>2. BoundsInv'
    BY DEF PumpInv, BoundsInv
  <1>3. HoldsInv'
    BY DEF PumpInv, HoldsInv, Holds
  <1>4. FromInv'
    BY <1>1 DEF PumpInv, FromInv
  <1>. QED
    BY <1>1, <1>2, <1>3, <1>4 DEF PumpInv

LEMMA KickStep ==
    ASSUME PumpInv, UNCHANGED <<top, link, cursor, base, has, overtaken>>,
           {retry', hot', wakeup'} \subseteq BOOLEAN, Kick(subs, cursor)
    PROVE  PumpInv'
  <1>1. /\ subs \in SUBSET Client /\ cursor \in [Client -> 0 .. MaxRow]
        /\ \A c \in Client : cursor[c] <= top
    BY DEF subs, PumpInv, TypeOK, BoundsInv
  <1>2. /\ running' \in BOOLEAN /\ dirty' \in BOOLEAN /\ from' \in 0 .. MaxRow
        /\ running' => \/ running /\ from' = from
                       \/ ~running /\ from' <= top /\ \A c \in subs : from' <= cursor[c]
    BY <1>1, KickFacts
  <1>. QED
    BY <1>2, StillStep DEF Flags

LEMMA TimerStep ==
    ASSUME PumpInv,
           RetryFires \/ Wake \/ \E tick \in {"any", "sixth"} : SafetyTick(tick)
    PROVE  PumpInv'
  <1>1. {retry, hot, wakeup} \subseteq BOOLEAN
    BY DEF PumpInv, TypeOK
  <1>2. CASE RetryFires
    BY <1>1, <1>2, KickStep DEF RetryFires
  <1>3. CASE Wake
    BY <1>1, <1>3, KickStep DEF Wake
  <1>4. CASE \E tick \in {"any", "sixth"} : SafetyTick(tick)
    BY <1>1, <1>4, KickStep DEF SafetyTick
  <1>. QED
    BY <1>2, <1>3, <1>4

LEMMA CoolsStep ==
    ASSUME PumpInv, Cools
    PROVE  PumpInv'
  <1>1. Flags /\ from' \in 0 .. MaxRow
    BY DEF PumpInv, TypeOK, Flags, Cools
  <1>. QED
    BY <1>1, StillStep DEF Cools

LEMMA ReadFailsStep ==
    ASSUME PumpInv, ReadFails
    PROVE  PumpInv'
  <1>1. /\ subs \in SUBSET Client /\ cursor \in [Client -> 0 .. MaxRow] /\ MaxRow \in Nat
        /\ top \in Nat /\ \A c \in Client : cursor[c] <= top
    BY BatchAssumption DEF subs, PumpInv, TypeOK, BoundsInv
  <1>2. CASE subs # {} /\ dirty
    <2>1. running' = running /\ dirty' = FALSE /\ from' = MinCursor(subs, cursor)
      BY <1>2 DEF ReadFails
    <2>2. from' \in 0 .. MaxRow /\ \A c \in subs : from' <= cursor[c]
      BY <1>1, <1>2, <2>1, MinCursorFacts
    <2>3. PICK c \in subs : TRUE
      BY <1>2
    <2>4. from' <= cursor[c] /\ cursor[c] <= top /\ cursor[c] \in 0 .. MaxRow
      BY <1>1, <2>2, <2>3
    <2>5. from' <= top
      BY <1>1, <2>2, <2>4
    <2>6. Flags
      BY <2>1 DEF Flags, PumpInv, TypeOK, ReadFails
    <2>. QED
      BY <2>2, <2>5, <2>6, StillStep DEF ReadFails
  <1>3. CASE ~(subs # {} /\ dirty)
    <2>1. running' = FALSE /\ dirty' = FALSE /\ from' = from
      BY <1>3 DEF ReadFails
    <2>2. Flags /\ from' \in 0 .. MaxRow
      BY <2>1 DEF Flags, PumpInv, TypeOK, ReadFails
    <2>. QED
      BY <2>1, <2>2, StillStep DEF ReadFails
  <1>. QED
    BY <1>2, <1>3

LEMMA AppendStep ==
    ASSUME PumpInv, Append
    PROVE  PumpInv'
  <1>1. /\ TypeOK /\ MaxRow \in Nat /\ top \in Nat /\ top' = top + 1 /\ top < MaxRow
        /\ UNCHANGED <<link, cursor, base, has, overtaken>>
        /\ UNCHANGED <<running, dirty, from, retry, hot>>
        /\ wakeup' \in BOOLEAN
    <2>1. TypeOK /\ MaxRow \in Nat /\ top \in Nat
      BY BatchAssumption DEF PumpInv, TypeOK
    <2>2. wakeup' \in BOOLEAN
      BY Zenon DEF PumpInv, TypeOK, Append
    <2>3. /\ top' = top + 1 /\ top < MaxRow
          /\ UNCHANGED <<link, cursor, base, has, overtaken>>
          /\ UNCHANGED <<running, dirty, from, retry, hot>>
      BY DEF Append, pump
    <2>. QED
      BY <2>1, <2>2, <2>3
  <1>2. TypeOK' /\ subs' = subs
    BY <1>1 DEF TypeOK, subs
  <1>3. BoundsInv'
    <2>1. ASSUME NEW c \in Client PROVE cursor[c] <= top + 1
      <3>1. cursor[c] \in Nat /\ cursor[c] <= top
        BY <1>1 DEF PumpInv, TypeOK, BoundsInv
      <3>. QED
        BY <1>1, <3>1
    <2>2. ASSUME NEW c \in Client, NEW r \in has[c] PROVE r <= top + 1
      <3>1. r \in Nat /\ r <= top
        BY <1>1 DEF PumpInv, TypeOK, BoundsInv
      <3>. QED
        BY <1>1, <3>1
    <2>. QED
      BY <1>1, <2>1, <2>2 DEF BoundsInv
  <1>4. HoldsInv'
    <2>1. ASSUME NEW c \in Client, NEW k \in Nat, Holds(c, k) PROVE Holds(c, k)'
      <3>1. k \in base[c] .. top + 1
        <4>1. base[c] \in Nat /\ k \in base[c] .. top
          BY <1>1, <2>1 DEF TypeOK, Holds
        <4>. QED
          BY <1>1, <4>1
      <3>. QED
        BY <1>1, <2>1, <3>1 DEF Holds
    <2>. QED
      BY <1>1, <2>1 DEF PumpInv, HoldsInv
  <1>5. FromInv'
    <2>1. from \in Nat /\ (running => from <= top)
      BY <1>1 DEF PumpInv, TypeOK, FromInv
    <2>2. running => from <= top + 1
      BY <1>1, <2>1
    <2>. QED
      BY <1>1, <1>2, <2>2 DEF PumpInv, FromInv
  <1>. QED
    BY <1>2, <1>3, <1>4, <1>5 DEF PumpInv

\* A step of one client's connection alone: the rest of what c holds.
LEMMA ClientAlone ==
    ASSUME PumpInv, NEW c \in Client, UNCHANGED <<top, overtaken>>,
           \A d \in Client \ {c} : /\ link'[d] = link[d] /\ cursor'[d] = cursor[d]
                                   /\ base'[d] = base[d] /\ has'[d] = has[d],
           cursor'[c] <= top, \A r \in has'[c] : r <= top,
           c \notin overtaken => \E k \in Nat : Holds(c, k)'
    PROVE  BoundsInv' /\ HoldsInv'
  <1>1. BoundsInv'
    BY DEF PumpInv, BoundsInv
  <1>2. ASSUME NEW d \in Client \ overtaken PROVE \E k \in Nat : Holds(d, k)'
    <2>1. CASE d = c
      BY <2>1
    <2>2. CASE d # c
      <3>1. PICK k \in Nat : Holds(d, k)
        BY DEF PumpInv, HoldsInv
      <3>. QED
        BY <2>2, <3>1 DEF Holds
    <2>. QED
      BY <2>1, <2>2
  <1>. QED
    BY <1>1, <1>2 DEF HoldsInv

LEMMA AttachStep ==
    ASSUME PumpInv, NEW c \in Client, Attach(c)
    PROVE  PumpInv'
  <1>1. PICK n \in 0 .. top : /\ base' = [base EXCEPT ![c] = n]
                              /\ cursor' = [cursor EXCEPT ![c] = n]
    BY DEF Attach
  <1>2. /\ TypeOK /\ link[c] = "closed" /\ has[c] = {}
        /\ link' = [link EXCEPT ![c] = "resolving"]
        /\ UNCHANGED <<top, has, running, dirty, from, retry, hot, wakeup, overtaken>>
        /\ top \in Nat /\ MaxRow \in Nat /\ top <= MaxRow
    BY BatchAssumption DEF Attach, pump, PumpInv, TypeOK
  <1>3. TypeOK'
    <2>1. n \in 0 .. MaxRow
      BY <1>2
    <2>. QED
      BY <1>1, <1>2, <2>1 DEF TypeOK
  <1>4. /\ link'[c] = "resolving" /\ cursor'[c] = n /\ base'[c] = n
        /\ \A d \in Client \ {c} : /\ link'[d] = link[d] /\ cursor'[d] = cursor[d]
                                   /\ base'[d] = base[d] /\ has'[d] = has[d]
    BY <1>1, <1>2 DEF TypeOK
  <1>5. Holds(c, n)'
    <2>1. n \in n .. top /\ n + 1 .. n = {}
      BY <1>2
    <2>. QED
      BY <1>2, <1>4, <2>1 DEF Holds
  <1>6. BoundsInv' /\ HoldsInv'
    <2>1. n \in Nat /\ n <= top
      BY <1>2
    <2>. QED
      BY <1>2, <1>4, <1>5, <2>1, ClientAlone
  <1>7. FromInv'
    <2>1. subs' = subs /\ \A d \in subs : d # c
      BY <1>2, <1>4 DEF subs
    <2>. QED
      BY <1>2, <1>4, <2>1 DEF PumpInv, FromInv, subs
  <1>. QED
    BY <1>3, <1>6, <1>7 DEF PumpInv

LEMMA ReconnectStep ==
    ASSUME PumpInv, NEW c \in Client, Reconnect(c)
    PROVE  PumpInv'
  <1>n. PICK n \in Nat : n = LastId(c)
    BY LastIdFacts
  <1>1. /\ TypeOK /\ link[c] = "closed" /\ has[c] # {}
        /\ link' = [link EXCEPT ![c] = "resolving"]
        /\ cursor' = [cursor EXCEPT ![c] = n]
        /\ UNCHANGED <<top, base, has, running, dirty, from, retry, hot, wakeup, overtaken>>
        /\ top \in Nat /\ MaxRow \in Nat /\ top <= MaxRow
    BY <1>n, BatchAssumption DEF Reconnect, pump, PumpInv, TypeOK
  <1>2. n \in has[c] /\ n <= top /\ \A k \in Nat : Holds(c, k) => n = k
    BY <1>1, <1>n, LastIdFacts
  <1>3. TypeOK'
    <2>1. n \in 0 .. MaxRow
      BY <1>1, <1>2
    <2>. QED
      BY <1>1, <2>1 DEF TypeOK
  <1>4. /\ link'[c] = "resolving" /\ cursor'[c] = n
        /\ \A d \in Client \ {c} : /\ link'[d] = link[d] /\ cursor'[d] = cursor[d]
                                   /\ base'[d] = base[d] /\ has'[d] = has[d]
    BY <1>1 DEF TypeOK
  <1>5. c \notin overtaken => Holds(c, n)'
    <2>1. SUFFICES ASSUME c \notin overtaken PROVE Holds(c, n)'
      OBVIOUS
    <2>2. PICK k \in Nat : Holds(c, k)
      BY <2>1 DEF PumpInv, HoldsInv
    <2>3. n = k
      BY <1>2, <2>2
    <2>. QED
      BY <1>1, <1>4, <2>2, <2>3 DEF Holds
  <1>6. BoundsInv' /\ HoldsInv'
    <2>1. \A r \in has'[c] : r <= top
      BY <1>1 DEF PumpInv, BoundsInv
    <2>. QED
      BY <1>1, <1>2, <1>4, <1>5, <2>1, ClientAlone
  <1>7. FromInv'
    <2>1. subs' = subs /\ \A d \in subs : d # c
      BY <1>1, <1>4 DEF subs
    <2>. QED
      BY <1>1, <1>4, <2>1 DEF PumpInv, FromInv, subs
  <1>. QED
    BY <1>3, <1>6, <1>7 DEF PumpInv

LEMMA SubscribeStep ==
    ASSUME PumpInv, NEW c \in Client, Subscribe(c)
    PROVE  PumpInv'
  <1>1. /\ TypeOK /\ link[c] = "resolving"
        /\ link' = [link EXCEPT ![c] = "attached"]
        /\ overtaken' = IF running /\ cursor[c] < from THEN overtaken \cup {c} ELSE overtaken
        /\ hot' = (hot \/ (subs = {} /\ ~running))
        /\ Kick(subs \cup {c}, cursor)
        /\ UNCHANGED <<top, cursor, base, has, retry, wakeup>>
    BY DEF Subscribe, PumpInv
  <1>2. /\ subs \cup {c} \in SUBSET Client /\ cursor \in [Client -> 0 .. MaxRow]
        /\ MaxRow \in Nat /\ top \in Nat /\ \A d \in Client : cursor[d] <= top
    BY <1>1, BatchAssumption DEF subs, PumpInv, TypeOK, BoundsInv
  <1>3. /\ running' \in BOOLEAN /\ dirty' \in BOOLEAN /\ from' \in 0 .. MaxRow
        /\ running' => \/ running /\ from' = from
                       \/ ~running /\ from' <= top /\ \A d \in subs \cup {c} : from' <= cursor[d]
    BY <1>1, <1>2, KickFacts
  <1>4. subs' = subs \cup {c}
    BY <1>1 DEF subs, TypeOK
  <1>5. TypeOK'
    <2>1. link' \in [Client -> {"closed", "resolving", "attached"}]
      BY <1>1 DEF TypeOK
    <2>2. overtaken' \subseteq Client /\ {running', dirty', retry', hot', wakeup'} \subseteq BOOLEAN
      BY <1>1, <1>3 DEF TypeOK
    <2>. QED
      BY <1>1, <1>3, <2>1, <2>2 DEF TypeOK
  <1>6. BoundsInv'
    BY <1>1 DEF PumpInv, BoundsInv
  <1>7. HoldsInv'
    <2>1. ASSUME NEW d \in Client \ overtaken' PROVE \E k \in Nat : Holds(d, k)'
      <3>1. d \in Client \ overtaken
        BY <1>1
      <3>2. PICK k \in Nat : Holds(d, k)
        BY <3>1 DEF PumpInv, HoldsInv
      <3>3. link'[d] # "closed" => link[d] # "closed"
        BY <1>1, <3>1 DEF TypeOK
      <3>. QED
        BY <1>1, <3>2, <3>3 DEF Holds
    <2>. QED
      BY <2>1 DEF HoldsInv
  <1>8. FromInv'
    <2>1. SUFFICES ASSUME running'
                   PROVE  from' <= top /\ \A d \in (subs \cup {c}) \ overtaken' : from' <= cursor[d]
      BY <1>1, <1>4 DEF FromInv
    <2>2. CASE ~running
      BY <1>3, <2>1, <2>2
    <2>3. CASE running
      <3>1. from' = from /\ from <= top
        BY <1>3, <2>1, <2>3 DEF PumpInv, FromInv
      <3>2. \A d \in subs \ overtaken : from <= cursor[d]
        BY <2>3 DEF PumpInv, FromInv
      <3>3. c \notin overtaken' => from <= cursor[c]
        <4>1. c \notin overtaken' => ~(cursor[c] < from)
          BY <1>1, <2>3
        <4>2. cursor[c] \in Nat /\ from \in Nat
          BY <1>1, <1>2 DEF TypeOK
        <4>. QED
          BY <4>1, <4>2
      <3>. QED
        BY <1>1, <3>1, <3>2, <3>3
    <2>. QED
      BY <2>2, <2>3
  <1>. QED
    BY <1>5, <1>6, <1>7, <1>8 DEF PumpInv

LEMMA DisconnectStep ==
    ASSUME PumpInv, NEW c \in Client, Disconnect(c)
    PROVE  PumpInv'
  <1>1. PICK n \in base[c] .. LastId(c) : has' = [has EXCEPT ![c] = {r \in @ : r <= n}]
    BY DEF Disconnect
  <1>2. /\ TypeOK /\ link[c] = "attached"
        /\ link' = [link EXCEPT ![c] = "closed"]
        /\ UNCHANGED <<top, cursor, base, running, dirty, from, retry, hot, wakeup, overtaken>>
        /\ top \in Nat /\ base[c] \in Nat /\ MaxRow \in Nat
    BY BatchAssumption DEF Disconnect, pump, PumpInv, TypeOK
  <1>3. TypeOK'
    <2>1. {r \in has[c] : r <= n} \in SUBSET (1 .. MaxRow)
      BY <1>2 DEF TypeOK
    <2>. QED
      BY <1>1, <1>2, <2>1 DEF TypeOK
  <1>4. /\ link'[c] = "closed" /\ has'[c] = {r \in has[c] : r <= n}
        /\ \A d \in Client \ {c} : /\ link'[d] = link[d] /\ cursor'[d] = cursor[d]
                                   /\ base'[d] = base[d] /\ has'[d] = has[d]
    BY <1>1, <1>2 DEF TypeOK
  <1>5. c \notin overtaken => \E k \in Nat : Holds(c, k)'
    <2>1. SUFFICES ASSUME c \notin overtaken PROVE \E k \in Nat : Holds(c, k)'
      OBVIOUS
    <2>2. PICK k \in Nat : Holds(c, k)
      BY <2>1 DEF PumpInv, HoldsInv
    <2>3. LastId(c) = k
      BY <2>2, LastIdFacts
    <2>4. k \in base[c] .. top /\ has[c] = base[c] + 1 .. k
      BY <2>2 DEF Holds
    <2>5. n \in base[c] .. top /\ n \in Nat /\ n <= k
      BY <1>2, <2>3, <2>4
    <2>6. has'[c] = base[c] + 1 .. n
      BY <1>2, <1>4, <2>4, <2>5
    <2>. QED
      BY <1>2, <1>4, <2>5, <2>6 DEF Holds
  <1>6. BoundsInv' /\ HoldsInv'
    <2>1. (\A r \in has'[c] : r <= top) /\ cursor'[c] <= top
      BY <1>2, <1>4 DEF PumpInv, BoundsInv
    <2>. QED
      BY <1>2, <1>4, <1>5, <2>1, ClientAlone
  <1>7. FromInv'
    <2>1. subs' \subseteq subs
      BY <1>2, <1>4 DEF subs
    <2>. QED
      BY <1>2, <2>1 DEF PumpInv, FromInv
  <1>. QED
    BY <1>3, <1>6, <1>7 DEF PumpInv

\* What the answer of a query in flight leaves behind, and what the loop reads
\* next.
LEMMA ReadAnswersStep ==
    ASSUME PumpInv, ReadAnswers
    PROVE  PumpInv'
  <1>1. PICK dropped \in SUBSET subs :
           LET rows == Batch(from)
               left == subs \ dropped
               cur == [c \in Client |->
                          IF c \in left THEN Later(cursor[c], Fresh(c, rows))
                          ELSE cursor[c]]
           IN /\ cursor' = cur
              /\ has' = [c \in Client |->
                            IF c \in left THEN has[c] \cup Fresh(c, rows)
                            ELSE has[c]]
              /\ link' = [c \in Client |->
                             IF c \in dropped THEN "closed" ELSE link[c]]
              /\ dirty' = FALSE
              /\ hot' = (hot \/ rows # {})
              /\ IF Again(left, rows)
                 THEN from' = MinCursor(left, cur) /\ UNCHANGED running
                 ELSE running' = FALSE /\ UNCHANGED from
    BY DEF ReadAnswers
  <1>. DEFINE rows == Batch(from)
              left == subs \ dropped
              next(c) == Later(cursor[c], Fresh(c, rows))
              sent(c) == Fresh(c, rows)
  <1>2. /\ TypeOK /\ BoundsInv /\ running
        /\ MaxRow \in Nat /\ top \in Nat /\ top <= MaxRow
        /\ UNCHANGED <<top, base, retry, wakeup, overtaken>>
    BY BatchAssumption DEF ReadAnswers, PumpInv, TypeOK
  <1>3. subs \in SUBSET Client /\ left \in SUBSET Client /\ left = subs \ dropped
    BY DEF subs
  <1>4. /\ cursor' = [c \in Client |-> IF c \in left THEN next(c) ELSE cursor[c]]
        /\ has' = [c \in Client |-> IF c \in left THEN has[c] \cup sent(c) ELSE has[c]]
        /\ link' = [c \in Client |-> IF c \in dropped THEN "closed" ELSE link[c]]
        /\ dirty' = FALSE
        /\ hot' \in BOOLEAN
        /\ running' \in BOOLEAN
        /\ \/ running' = FALSE /\ from' = from
           \/ left # {} /\ from' = MinCursor(left, cursor')
    <2>1. hot' \in BOOLEAN
      BY <1>1, Zenon
    <2>2. CASE Again(left, rows)
      <3>1. left # {} /\ from' = MinCursor(left, cursor') /\ running' = running
        BY <1>1, <2>2 DEF Again
      <3>. QED
        BY <1>1, <1>2, <2>1, <3>1
    <2>3. CASE ~Again(left, rows)
      <3>1. running' = FALSE /\ from' = from
        BY <1>1, <2>3
      <3>. QED
        BY <1>1, <2>1, <3>1
    <2>. QED
      BY <2>2, <2>3
  <1>5. \A c \in Client : /\ next(c) \in 0 .. top
                          /\ sent(c) \subseteq 1 .. top
                          /\ from <= cursor[c] =>
                                cursor[c] <= next(c) /\ sent(c) = cursor[c] + 1 .. next(c)
    BY <1>2, SentFacts
  <1>. HIDE DEF rows, left, next, sent
  <1>6. TypeOK' /\ cursor' \in [Client -> 0 .. top]
    <2>1. cursor' \in [Client -> 0 .. top] /\ cursor' \in [Client -> 0 .. MaxRow]
      <3>1. \A c \in Client : cursor[c] \in 0 .. top
        BY <1>2 DEF TypeOK, BoundsInv
      <3>2. \A c \in Client : (IF c \in left THEN next(c) ELSE cursor[c]) \in 0 .. top
        BY <1>5, <3>1
      <3>3. 0 .. top \subseteq 0 .. MaxRow
        BY <1>2
      <3>. QED
        BY <1>4, <3>2, <3>3
    <2>2. has' \in [Client -> SUBSET (1 .. MaxRow)]
      <3>1. \A c \in Client : has[c] \in SUBSET (1 .. MaxRow)
        BY <1>2 DEF TypeOK
      <3>2. 1 .. top \subseteq 1 .. MaxRow
        BY <1>2
      <3>3. \A c \in Client : has[c] \cup sent(c) \in SUBSET (1 .. MaxRow)
        BY <1>5, <3>1, <3>2
      <3>. QED
        BY <1>4, <3>1, <3>3
    <2>3. link' \in [Client -> {"closed", "resolving", "attached"}]
      BY <1>2, <1>4 DEF TypeOK
    <2>4. from' \in 0 .. MaxRow
      <3>1. left # {} => MinCursor(left, cursor') \in 0 .. top
        BY <1>2, <1>3, <2>1, MinCursorFacts
      <3>2. from \in 0 .. MaxRow
        BY <1>2 DEF TypeOK
      <3>. QED
        BY <1>2, <1>4, <3>1, <3>2
    <2>5. {running', dirty', retry', hot', wakeup'} \subseteq BOOLEAN /\ top' \in 0 .. MaxRow
          /\ overtaken' \subseteq Client /\ base' \in [Client -> 0 .. MaxRow]
      BY <1>2, <1>4 DEF TypeOK
    <2>. QED
      BY <2>1, <2>2, <2>3, <2>4, <2>5 DEF TypeOK
  <1>7. BoundsInv'
    <2>1. ASSUME NEW c \in Client PROVE cursor'[c] <= top
      BY <1>2, <1>6
    <2>2. ASSUME NEW c \in Client, NEW r \in has'[c] PROVE r <= top
      <3>1. r \in has[c] \/ r \in sent(c)
        BY <1>4, <2>2
      <3>2. r \in sent(c) => r <= top
        BY <1>2, <1>5
      <3>3. r \in has[c] => r <= top
        BY <1>2 DEF BoundsInv
      <3>. QED
        BY <3>1, <3>2, <3>3
    <2>. QED
      BY <1>2, <2>1, <2>2 DEF BoundsInv
  <1>8. HoldsInv'
    <2>1. ASSUME NEW c \in Client \ overtaken PROVE \E k \in Nat : Holds(c, k)'
      <3>1. PICK k \in Nat : Holds(c, k)
        BY DEF PumpInv, HoldsInv
      <3>2. CASE c \in left
        <4>1. link[c] = "attached" /\ c \in subs
          BY <1>3, <3>2 DEF subs
        <4>2. cursor[c] = k /\ k \in base[c] .. top /\ has[c] = base[c] + 1 .. k
          BY <3>1, <4>1 DEF Holds
        <4>3. from <= cursor[c]
          BY <1>2, <4>1 DEF PumpInv, FromInv
        <4>4. /\ next(c) \in 0 .. top /\ k <= next(c)
              /\ sent(c) = k + 1 .. next(c) /\ base[c] \in Nat
          BY <1>2, <1>5, <4>2, <4>3 DEF TypeOK
        <4>5. has[c] \cup sent(c) = base[c] + 1 .. next(c)
          BY <1>2, <4>2, <4>4
        <4>6. next(c) \in base[c] .. top /\ next(c) \in Nat
          BY <1>2, <4>2, <4>4
        <4>7. cursor'[c] = next(c) /\ has'[c] = base[c] + 1 .. next(c)
          BY <1>4, <3>2, <4>5
        <4>8. PICK m \in Nat : m = next(c)
          BY <4>6
        <4>9. Holds(c, m)'
          BY <1>2, <4>6, <4>7, <4>8 DEF Holds
        <4>. QED
          BY <4>9
      <3>3. CASE c \notin left
        <4>1. cursor'[c] = cursor[c] /\ has'[c] = has[c]
          BY <1>4, <3>3
        <4>2. link'[c] # "closed" => link[c] # "closed"
          BY <1>4
        <4>3. Holds(c, k)'
          BY <1>2, <3>1, <4>1, <4>2 DEF Holds
        <4>. QED
          BY <4>3
      <3>. QED
        BY <3>2, <3>3
    <2>. QED
      BY <1>2, <2>1 DEF HoldsInv
  <1>9. FromInv'
    <2>1. subs' = left
      BY <1>3, <1>4 DEF subs
    <2>2. CASE running' = FALSE
      BY <2>2 DEF FromInv
    <2>3. CASE left # {} /\ from' = MinCursor(left, cursor')
      <3>1. from' \in 0 .. top /\ \A c \in left : from' <= cursor'[c]
        BY <1>2, <1>3, <1>6, <2>3, MinCursorFacts
      <3>2. from' <= top'
        BY <1>2, <3>1
      <3>. QED
        BY <2>1, <3>1, <3>2 DEF FromInv
    <2>. QED
      BY <1>4, <2>2, <2>3
  <1>. QED
    BY <1>6, <1>7, <1>8, <1>9 DEF PumpInv

LEMMA Stutter ==
    ASSUME PumpInv, UNCHANGED vars
    PROVE  PumpInv'
  <1>1. UNCHANGED <<top, link, cursor, base, has, running, dirty, from, retry, hot,
                    wakeup, overtaken>>
    BY DEF vars, pump
  <1>2. Flags /\ from' \in 0 .. MaxRow
    BY <1>1 DEF PumpInv, TypeOK, Flags
  <1>. QED
    BY <1>1, <1>2, StillStep

-----------------------------------------------------------------------------
(* The invariant *)

LEMMA InitPump ==
    ASSUME Init
    PROVE  PumpInv
  <1>1. TypeOK
    <2>1. 0 \in 0 .. MaxRow
      BY BatchAssumption
    <2>2. {running, dirty, retry, hot, wakeup} \subseteq BOOLEAN
      BY DEF Init
    <2>. QED
      BY <2>1, <2>2 DEF Init, TypeOK
  <1>2. BoundsInv /\ FromInv
    BY DEF Init, BoundsInv, FromInv
  <1>3. ASSUME NEW c \in Client PROVE Holds(c, 0)
    <2>1. 0 \in 0 .. 0 /\ 0 + 1 .. 0 = {}
      OBVIOUS
    <2>. QED
      BY <2>1 DEF Init, Holds
  <1>4. HoldsInv
    BY <1>3 DEF HoldsInv
  <1>. QED
    BY <1>1, <1>2, <1>4 DEF PumpInv

LEMMA NextPump ==
    ASSUME PumpInv, [Next]_vars
    PROVE  PumpInv'
  <1>1. CASE Append
    BY <1>1, AppendStep
  <1>2. CASE PumpStep
    BY <1>2, ReadAnswersStep, ReadFailsStep, TimerStep, CoolsStep DEF PumpStep
  <1>3. ASSUME NEW c \in Client, ClientStep(c) PROVE PumpInv'
    BY <1>3, AttachStep, ReconnectStep, SubscribeStep, DisconnectStep DEF ClientStep
  <1>4. CASE UNCHANGED vars
    BY <1>4, Stutter
  <1>. QED
    BY <1>1, <1>2, <1>3, <1>4 DEF Next

\* Every reachable state: ids and flags in range, nobody sent a row that is not
\* committed, what a client holds is contiguous up to its cursor, and the query
\* in flight starts ahead of no subscriber but the overtaken ones.
THEOREM PumpInvariant == Spec => []PumpInv
  <1>1. Init => PumpInv
    BY InitPump
  <1>2. PumpInv /\ [Next]_vars => PumpInv'
    BY NextPump
  <1>. QED
    BY <1>1, <1>2, PTL DEF Spec

\* The pump's state and the connections' stay in their types (PumpState and
\* SubscriberEntry).
THEOREM PumpTypeCorrect == Spec => []TypeOK
  <1>1. PumpInv => TypeOK
    BY DEF PumpInv
  <1>. QED
    BY <1>1, PumpInvariant, PTL

\* A client that was never attached behind a query in flight has no hole in what
\* it processed, whatever batches, failed sends and reconnects it went through.
THEOREM OnlyOvertakenSkip == Spec => []OthersSkipNothing
  <1>1. ASSUME PumpInv, NEW c \in Client \ overtaken PROVE Gapless(c)
    <2>1. PICK k \in Nat : Holds(c, k)
      BY <1>1 DEF PumpInv, HoldsInv
    <2>2. LastId(c) = k
      BY <1>1, <2>1, LastIdFacts
    <2>. QED
      BY <2>1, <2>2 DEF Holds, Gapless
  <1>2. PumpInv => OthersSkipNothing
    BY <1>1 DEF OthersSkipNothing
  <1>. QED
    BY <1>2, PumpInvariant, PTL
=============================================================================
