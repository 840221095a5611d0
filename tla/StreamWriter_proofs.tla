------------------------ MODULE StreamWriter_proofs ------------------------
(***************************************************************************)
(* StreamWriter for every bound: a resume skips nothing, a cursor pairs    *)
(* with the content it is stored with, the final content of a turn holds   *)
(* its log, all of it together is a run of MessageLog, and whoever waits   *)
(* in the process waits for something that is due.                         *)
(***************************************************************************)
EXTENDS StreamWriter, SequenceTheorems, TLAPS

EntryType == [kind : Content \cup Terminal \cup {"note", "suspended", "settle"},
              lo : Nat \ {0}, hi : Nat, size : 0 .. 2, more : BOOLEAN]
RowType == [kind : Content \cup Terminal \cup {"note", "suspended"},
            lo : Nat \ {0}, hi : Nat, split : BOOLEAN]
EventType == [kind : Content \cup {"note", "suspended"}, line : Nat \ {0}]
JobType == [n : 0 .. Top, ready : BOOLEAN, cursor : Nat]

\* An entry or a row holds events of its kind; terminals and markers hold none.
Fits(e, evs) ==
    /\ e.hi <= Len(evs)
    /\ IF IsRow(e)
       THEN /\ e.lo <= e.hi
            /\ \A x \in e.lo .. e.hi : evs[x].kind \in Content <=> e.kind \in Content
       ELSE e.lo = e.hi + 1

\* The ranges of q follow each other between a and b,
Ordered(q, a, b) ==
    /\ a <= b
    /\ \A i \in DOMAIN q : a < q[i].lo /\ q[i].hi <= b
    /\ \A i, j \in DOMAIN q : i < j => q[i].hi < q[j].lo

\* and leave no gap.
Joined(q, a, b) ==
    /\ \A i \in DOMAIN q : q[i].lo = (IF i = 1 THEN a ELSE q[i - 1].hi) + 1
    /\ b = IF q = <<>> THEN a ELSE q[Len(q)].hi

\* A buffer's row that goes on is followed by the last row of its task, and a
\* marker is no row.
WholeTasks(q) ==
    \A i \in DOMAIN q :
        /\ q[i].kind = "settle" => q[i].size = 0
        /\ q[i].more => /\ q[i].kind = "token" /\ i < Len(q)
                        /\ ~q[i + 1].more /\ q[i + 1].kind # "settle"

\* n rows are retired when all of q is: f counts from behind.
Counts(q, n) ==
    \E f \in [0 .. Len(q) -> Nat] :
        /\ f[0] = n /\ f[Len(q)] = 0
        /\ \A i \in 1 .. Len(q) : f[i - 1] = f[i] + Retired(q[i])

\* The queue goes on where the log ends and ends where the buffer begins;
\* only a failed stream has lost rows between them.
QueueInv ==
    /\ Ordered(queue, LogTop, from - 1)
    /\ ~stream.failed => Joined(queue, LogTop, from - 1)
    /\ WholeTasks(queue) /\ Counts(queue, stream.queuedRows)
    /\ \A i \in DOMAIN queue : Fits(queue[i], events)

BufferInv == \A x \in from .. Top : events[x].kind = "token"

Rising(evs) == \A x, y \in 1 .. Len(evs) : x <= y => evs[x].line <= evs[y].line

LinesRise == Rising(events)

Covered(x, rows) == \E i \in DOMAIN rows : x \in rows[i].lo .. rows[i].hi

\* A terminal is the last row, and no row stands behind a lost one.
LogInv ==
    /\ \A i \in DOMAIN log : /\ Fits(log[i], events) /\ log[i].hi <= LogTop
                             /\ log[i].kind \in Terminal => i = Len(log)
    /\ ~stream.failed => \A x \in 1 .. LogTop : Covered(x, log)
    /\ \A i \in DOMAIN log : log[i].kind \notin Terminal =>
          \A x \in 1 .. log[i].hi : Covered(x, log)

\* The carrier waits for what it awaits as long as that is in the queue.
AwaitInv ==
    /\ \A i \in DOMAIN queue :
          /\ queue[i].kind = "note" => carrier = "noting" /\ queue[i].hi = Top
          /\ queue[i].kind = "suspended" => carrier = "suspending" /\ queue[i].hi = Top
          /\ queue[i].kind = "done" => /\ carrier = "closing" /\ stream.ended
                                       /\ i = Len(queue) /\ from = Top + 1
    /\ carrier = "waiting" =>
          from = Top + 1 /\ (~stream.ended => \A i \in DOMAIN queue : queue[i].lo <= Top)

Unfolded(x) == x \in 1 .. Top /\ events[x].kind \in Content /\ x > folded

\* What was admitted is folded, but for the event whose row the carrier waits
\* for or lost.  That row is in the log only when somebody else has closed.
FoldInv ==
    \A x \in 1 .. Top : Unfolded(x) =>
        /\ x = Top
        /\ \/ carrier = "waiting"
           \/ carrier \in {"fencing", "closing", "stopped"} /\ stream.failed
        /\ Covered(x, log) => stream.ended /\ carrier # "closing"

\* The first c rows hold just the content of the first n events, unsplit.
Pairs(rows, evs, n, c) ==
    c # 0 => /\ c \in DOMAIN rows
             /\ {x \in 1 .. n : evs[x].kind \in Content}
                  = {x \in UNION {rows[i].lo .. rows[i].hi : i \in 1 .. c} :
                        evs[x].kind \in Content}
             /\ \A i \in 1 .. c : ~rows[i].split

PairInv ==
    /\ stream.last <= Len(log)
    /\ ~stream.failed => \A i \in DOMAIN log : log[i].kind \in Content => i <= stream.last
    /\ ~stream.diverged => \A i \in DOMAIN log : ~log[i].split

JobsInv ==
    /\ inflight.ready => Pairs(log, events, inflight.n, inflight.cursor)
    /\ pending.ready => Pairs(log, events, pending.n, pending.cursor)

WriterInv ==
    /\ TypeOK /\ QueueInv /\ BufferInv /\ LinesRise /\ LogInv /\ AwaitInv
    /\ FoldInv /\ PairInv /\ JobsInv /\ CursorPairsContent /\ FinalContentHoldsLog

-----------------------------------------------------------------------------
(* Sequences of ranges *)

\* What the proofs use of Tail and of \o.
LEMMA TailFacts ==
    ASSUME NEW S, NEW q \in Seq(S), q # <<>>
    PROVE  /\ Tail(q) \in Seq(S) /\ Len(Tail(q)) = Len(q) - 1 /\ Len(q) \in Nat \ {0}
           /\ \A i \in 1 .. Len(Tail(q)) : Tail(q)[i] = q[i + 1]
           /\ Head(q) = q[1] /\ DOMAIN Tail(q) = 1 .. Len(Tail(q)) /\ DOMAIN q = 1 .. Len(q)
           /\ \A i \in 1 .. Len(q) : q[i] \in S
  <1>1. Len(q) \in Nat /\ DOMAIN q = 1 .. Len(q) /\ q \in [1 .. Len(q) -> S]
    BY LenProperties
  <1>2. Len(q) # 0
    BY EmptySeq
  <1>3. Head(q) = q[1] /\ Tail(q) \in Seq(S) /\ Len(Tail(q)) = Len(q) - 1
        /\ \A i \in 1 .. Len(Tail(q)) : Tail(q)[i] = q[i + 1]
    BY HeadTailProperties, <1>1
  <1>4. DOMAIN Tail(q) = 1 .. Len(Tail(q))
    BY <1>3, LenProperties
  <1>. QED
    BY <1>1, <1>2, <1>3, <1>4

LEMMA SeqFacts ==
    ASSUME NEW S, NEW q \in Seq(S)
    PROVE  /\ Len(q) \in Nat /\ DOMAIN q = 1 .. Len(q) /\ \A i \in 1 .. Len(q) : q[i] \in S
           /\ q = <<>> <=> Len(q) = 0
  BY LenProperties, EmptySeq

LEMMA ConcatFacts ==
    ASSUME NEW S, NEW p \in Seq(S), NEW q \in Seq(S)
    PROVE  /\ p \o q \in Seq(S) /\ Len(p \o q) = Len(p) + Len(q)
           /\ \A i \in 1 .. Len(p) + Len(q) :
                 (p \o q)[i] = IF i <= Len(p) THEN p[i] ELSE q[i - Len(p)]
           /\ DOMAIN p = 1 .. Len(p) /\ DOMAIN q = 1 .. Len(q)
           /\ Len(p) \in Nat /\ Len(q) \in Nat
           /\ DOMAIN (p \o q) = 1 .. Len(p) + Len(q)
           /\ p = <<>> <=> Len(p) = 0
           /\ q = <<>> <=> Len(q) = 0
           /\ p \o q = <<>> <=> Len(p \o q) = 0
           /\ \A i \in 1 .. Len(p) : p[i] \in S
           /\ \A i \in 1 .. Len(q) : q[i] \in S
  <1>1. /\ p \o q \in Seq(S) /\ Len(p \o q) = Len(p) + Len(q)
        /\ \A i \in 1 .. Len(p) + Len(q) :
              (p \o q)[i] = IF i <= Len(p) THEN p[i] ELSE q[i - Len(p)]
    BY ConcatProperties
  <1>. QED
    BY <1>1, SeqFacts

\* What is left of a queue behind its head.
LEMMA TailOrdered ==
    ASSUME NEW q \in Seq(EntryType), q # <<>>, NEW a \in Nat, NEW b \in Nat, Ordered(q, a, b)
    PROVE  /\ Ordered(Tail(q), a, b)
           /\ a <= Head(q).hi => Ordered(Tail(q), Head(q).hi, b)
           /\ a < Head(q).lo /\ Head(q).hi <= b
  <1>. DEFINE t == Tail(q)
  <1>1. /\ Len(t) = Len(q) - 1 /\ Len(q) \in Nat \ {0}
        /\ \A i \in 1 .. Len(t) : t[i] = q[i + 1]
        /\ Head(q) = q[1] /\ DOMAIN t = 1 .. Len(t) /\ DOMAIN q = 1 .. Len(q)
        /\ \A i \in 1 .. Len(q) : q[i] \in EntryType
    BY TailFacts
  <1>. HIDE DEF t
  <1>2. \A i \in 1 .. Len(q) : q[i].lo \in Nat /\ q[i].hi \in Nat
    BY <1>1 DEF EntryType
  <1>3. /\ a <= b
        /\ \A i \in 1 .. Len(q) : a < q[i].lo /\ q[i].hi <= b
        /\ \A i, j \in 1 .. Len(q) : i < j => q[i].hi < q[j].lo
    BY <1>1 DEF Ordered
  <1>4. ASSUME NEW i \in 1 .. Len(t)
        PROVE  /\ a < t[i].lo /\ t[i].hi <= b /\ q[1].hi < t[i].lo
               /\ \A j \in 1 .. Len(t) : i < j => t[i].hi < t[j].lo
    <2>1. t[i] = q[i + 1] /\ i + 1 \in 1 .. Len(q) /\ 1 \in 1 .. Len(q) /\ 1 < i + 1
      BY <1>1
    <2>2. \A j \in 1 .. Len(t) : t[j] = q[j + 1] /\ j + 1 \in 1 .. Len(q)
      BY <1>1
    <2>3. q[1].hi < t[i].lo
      BY <1>3, <2>1
    <2>4. ASSUME NEW j \in 1 .. Len(t), i < j PROVE t[i].hi < t[j].lo
      <3>1. i + 1 < j + 1 /\ j + 1 \in 1 .. Len(q)
        BY <2>2, <2>4
      <3>. QED
        BY <1>3, <2>1, <2>2, <3>1
    <2>. QED
      BY <1>3, <2>1, <2>3, <2>4
  <1>5. 1 \in 1 .. Len(q)
    BY <1>1
  <1>6. Ordered(t, a, b)
    BY <1>1, <1>3, <1>4 DEF Ordered
  <1>7. ASSUME a <= Head(q).hi PROVE Ordered(t, Head(q).hi, b)
    BY <1>1, <1>3, <1>4, <1>5, <1>7 DEF Ordered
  <1>. QED
    BY <1>1, <1>3, <1>5, <1>6, <1>7 DEF t

LEMMA TailJoined ==
    ASSUME NEW q \in Seq(EntryType), q # <<>>, NEW a, NEW b, Joined(q, a, b)
    PROVE  /\ Head(q).lo = a + 1 /\ Joined(Tail(q), Head(q).hi, b)
           /\ Len(q) = 1 => b = Head(q).hi
  <1>. DEFINE t == Tail(q)
  <1>1. /\ Len(t) = Len(q) - 1 /\ Len(q) \in Nat \ {0} /\ (t = <<>> <=> Len(t) = 0)
        /\ \A i \in 1 .. Len(t) : t[i] = q[i + 1]
        /\ Head(q) = q[1] /\ DOMAIN t = 1 .. Len(t) /\ DOMAIN q = 1 .. Len(q)
    BY TailFacts, EmptySeq
  <1>. HIDE DEF t
  <1>2. /\ \A i \in 1 .. Len(q) : q[i].lo = (IF i = 1 THEN a ELSE q[i - 1].hi) + 1
        /\ b = q[Len(q)].hi
    BY <1>1 DEF Joined
  <1>3. ASSUME NEW i \in 1 .. Len(t)
        PROVE  t[i].lo = (IF i = 1 THEN q[1].hi ELSE t[i - 1].hi) + 1
    <2>1. t[i] = q[i + 1] /\ i + 1 \in 1 .. Len(q) /\ i + 1 # 1 /\ (i + 1) - 1 = i
      BY <1>1
    <2>2. t[i].lo = q[i].hi + 1
      BY <1>2, <2>1
    <2>3. i # 1 => t[i - 1] = q[i]
      <3>1. i # 1 => i - 1 \in 1 .. Len(t) /\ (i - 1) + 1 = i
        BY <1>1
      <3>. QED
        BY <1>1, <3>1
    <2>. QED
      BY <2>2, <2>3
  <1>4. b = IF t = <<>> THEN q[1].hi ELSE t[Len(t)].hi
    <2>1. Len(t) = 0 => Len(q) = 1
      BY <1>1
    <2>2. Len(t) # 0 => Len(t) \in 1 .. Len(t) /\ Len(t) + 1 = Len(q)
      BY <1>1
    <2>. QED
      BY <1>1, <1>2, <2>1, <2>2
  <1>5. Joined(t, q[1].hi, b)
    BY <1>1, <1>3, <1>4 DEF Joined
  <1>6. q[1].lo = a + 1
    BY <1>1, <1>2
  <1>. QED
    BY <1>1, <1>2, <1>5, <1>6 DEF t

LEMMA TailWhole ==
    ASSUME NEW q \in Seq(EntryType), q # <<>>, WholeTasks(q)
    PROVE  /\ WholeTasks(Tail(q))
           /\ Head(q).kind = "settle" => Head(q).size = 0
           /\ Head(q).more =>
                 /\ Head(q).kind = "token" /\ Tail(q) # <<>> /\ Head(Tail(q)) = q[2]
                 /\ ~q[2].more /\ q[2].kind # "settle" /\ 2 \in DOMAIN q
  <1>. DEFINE t == Tail(q)
  <1>1. /\ t \in Seq(EntryType) /\ Len(t) = Len(q) - 1 /\ Len(q) \in Nat \ {0}
        /\ \A i \in 1 .. Len(t) : t[i] = q[i + 1]
        /\ Head(q) = q[1] /\ DOMAIN t = 1 .. Len(t) /\ DOMAIN q = 1 .. Len(q)
        /\ t # <<>> => Head(t) = t[1]
    BY TailFacts
  <1>2. t = <<>> => Len(t) = 0
    BY EmptySeq, <1>1
  <1>. HIDE DEF t
  <1>3. \A i \in 1 .. Len(q) : q[i].more => /\ q[i].kind = "token" /\ i < Len(q)
                                            /\ ~q[i + 1].more /\ q[i + 1].kind # "settle"
    BY <1>1 DEF WholeTasks
  <1>4. ASSUME NEW i \in 1 .. Len(t), t[i].more
        PROVE  t[i].kind = "token" /\ i < Len(t) /\ ~t[i + 1].more /\ t[i + 1].kind # "settle"
    <2>1. t[i] = q[i + 1] /\ i + 1 \in 1 .. Len(q)
      BY <1>1
    <2>2. /\ q[i + 1].kind = "token" /\ i + 1 < Len(q)
          /\ ~q[(i + 1) + 1].more /\ q[(i + 1) + 1].kind # "settle"
      BY <1>3, <1>4, <2>1
    <2>3. i + 1 \in 1 .. Len(t)
      BY <1>1, <2>2
    <2>4. t[i + 1] = q[(i + 1) + 1]
      BY <1>1, <2>3
    <2>. QED
      BY <1>1, <2>1, <2>2, <2>4
  <1>0. \A i \in 1 .. Len(q) : q[i].kind = "settle" => q[i].size = 0
    BY <1>1 DEF WholeTasks
  <1>5. WholeTasks(t)
    <2>1. \A i \in 1 .. Len(t) : t[i] = q[i + 1] /\ i + 1 \in 1 .. Len(q)
      BY <1>1
    <2>2. \A i \in 1 .. Len(t) : t[i].kind = "settle" => t[i].size = 0
      BY <1>0, <2>1
    <2>. QED
      BY <1>1, <1>4, <2>2 DEF WholeTasks
  <1>7. 1 \in 1 .. Len(q)
    BY <1>1
  <1>6. ASSUME q[1].more
        PROVE  /\ q[1].kind = "token" /\ t # <<>> /\ Head(t) = q[2]
               /\ ~q[2].more /\ q[2].kind # "settle" /\ 2 \in DOMAIN q
    <2>1. 1 \in 1 .. Len(q) /\ 1 + 1 = 2
      BY <1>1
    <2>2. q[1].kind = "token" /\ 1 < Len(q) /\ ~q[2].more /\ q[2].kind # "settle"
      BY <1>3, <1>6, <2>1
    <2>3. t # <<>> /\ 1 \in 1 .. Len(t) /\ 2 \in 1 .. Len(q)
      BY <1>1, <1>2, <2>2
    <2>. QED
      BY <1>1, <2>1, <2>2, <2>3
  <1>. QED
    BY <1>0, <1>1, <1>5, <1>6, <1>7 DEF t

LEMMA RetiredSmall ==
    ASSUME NEW e \in EntryType
    PROVE  Retired(e) \in 0 .. 2 /\ Retired(e) \in Nat
  BY DEF Retired, EntryType

LEMMA TailCounts ==
    ASSUME NEW q \in Seq(EntryType), q # <<>>, NEW n \in Nat, Counts(q, n)
    PROVE  /\ n - Retired(Head(q)) \in Nat /\ Counts(Tail(q), n - Retired(Head(q)))
           /\ Len(q) = 1 => n = Retired(Head(q))
  <1>. DEFINE t == Tail(q)
  <1>1. /\ Len(t) = Len(q) - 1 /\ Len(q) \in Nat \ {0}
        /\ \A i \in 1 .. Len(t) : t[i] = q[i + 1]
        /\ Head(q) = q[1] /\ \A i \in 1 .. Len(q) : q[i] \in EntryType
    BY TailFacts
  <1>. HIDE DEF t
  <1>2. PICK f \in [0 .. Len(q) -> Nat] :
           /\ f[0] = n /\ f[Len(q)] = 0
           /\ \A i \in 1 .. Len(q) : f[i - 1] = f[i] + Retired(q[i])
    BY DEF Counts
  <1>3. \A i \in 1 .. Len(q) : Retired(q[i]) \in Nat
    BY <1>1, RetiredSmall
  <1>4. n = f[1] + Retired(q[1]) /\ f[1] \in Nat
    <2>1. 1 \in 1 .. Len(q) /\ 1 - 1 = 0 /\ 1 \in 0 .. Len(q)
      BY <1>1
    <2>. QED
      BY <1>2, <2>1
  <1>. DEFINE g == [i \in 0 .. Len(t) |-> f[i + 1]]
  <1>5. g \in [0 .. Len(t) -> Nat] /\ g[0] = f[1] /\ g[Len(t)] = 0
    BY <1>1, <1>2
  <1>6. ASSUME NEW i \in 1 .. Len(t)
        PROVE  g[i - 1] = g[i] + Retired(t[i])
    <2>1. i + 1 \in 1 .. Len(q) /\ t[i] = q[i + 1] /\ i - 1 \in 0 .. Len(t) /\ i \in 0 .. Len(t)
          /\ (i + 1) - 1 = i /\ (i - 1) + 1 = i
      BY <1>1
    <2>2. f[i] = f[i + 1] + Retired(q[i + 1])
      BY <1>2, <2>1
    <2>. QED
      BY <2>1, <2>2
  <1>. HIDE DEF g
  <1>7. Counts(t, f[1])
    BY <1>5, <1>6 DEF Counts
  <1>8. n - Retired(q[1]) = f[1] /\ Retired(q[1]) \in Nat
    BY <1>1, <1>3, <1>4
  <1>9. Len(q) = 1 => f[1] = 0
    BY <1>2
  <1>. QED
    BY <1>1, <1>4, <1>7, <1>8, <1>9 DEF t

\* A batch of tasks that holds the ranges from a to b and counts n rows.
Batch(es, a, b, n) ==
    /\ es \in Seq(EntryType)
    /\ Ordered(es, a, b) /\ Joined(es, a, b)
    /\ WholeTasks(es) /\ Counts(es, n)

LEMMA ConcatOrdered ==
    ASSUME NEW p \in Seq(EntryType), NEW q \in Seq(EntryType),
           NEW a \in Nat, NEW b \in Nat, NEW c \in Nat, Ordered(p, a, b), Ordered(q, b, c)
    PROVE  Ordered(p \o q, a, c)
  <1>. DEFINE r == p \o q
  <1>1. /\ Len(r) = Len(p) + Len(q)
        /\ \A i \in 1 .. Len(p) + Len(q) : r[i] = IF i <= Len(p) THEN p[i] ELSE q[i - Len(p)]
        /\ DOMAIN p = 1 .. Len(p) /\ DOMAIN q = 1 .. Len(q) /\ Len(p) \in Nat /\ Len(q) \in Nat
        /\ DOMAIN r = 1 .. Len(p) + Len(q)
        /\ \A i \in 1 .. Len(p) : p[i] \in EntryType
        /\ \A i \in 1 .. Len(q) : q[i] \in EntryType
    BY ConcatFacts
  <1>. HIDE DEF r
  <1>2. /\ \A i \in 1 .. Len(p) : p[i].lo \in Nat /\ p[i].hi \in Nat
        /\ \A i \in 1 .. Len(q) : q[i].lo \in Nat /\ q[i].hi \in Nat
    BY <1>1 DEF EntryType
  <1>3. /\ a <= b /\ b <= c /\ a <= c
        /\ \A i \in 1 .. Len(p) : a < p[i].lo /\ p[i].hi <= b
        /\ \A i, j \in 1 .. Len(p) : i < j => p[i].hi < p[j].lo
        /\ \A i \in 1 .. Len(q) : b < q[i].lo /\ q[i].hi <= c
        /\ \A i, j \in 1 .. Len(q) : i < j => q[i].hi < q[j].lo
    <2>1. a <= b /\ b <= c
      BY DEF Ordered
    <2>2. a <= c
      BY <2>1
    <2>. QED
      BY <1>1, <2>1, <2>2 DEF Ordered
  <1>4. ASSUME NEW i \in 1 .. Len(p) + Len(q)
        PROVE  /\ i <= Len(p) => /\ i \in 1 .. Len(p) /\ r[i] = p[i]
                                 /\ a < r[i].lo /\ r[i].hi <= b
               /\ i > Len(p) => /\ i - Len(p) \in 1 .. Len(q) /\ r[i] = q[i - Len(p)]
                                /\ b < r[i].lo /\ r[i].hi <= c
               /\ r[i].lo \in Nat /\ r[i].hi \in Nat
    <2>1. CASE i <= Len(p)
      <3>1. i \in 1 .. Len(p) /\ r[i] = p[i]
        BY <1>1, <2>1
      <3>. QED
        BY <1>1, <1>2, <1>3, <2>1, <3>1
    <2>2. CASE i > Len(p)
      <3>1. i - Len(p) \in 1 .. Len(q) /\ r[i] = q[i - Len(p)]
        BY <1>1, <2>2
      <3>. QED
        BY <1>1, <1>2, <1>3, <2>2, <3>1
    <2>. QED
      BY <1>1, <2>1, <2>2
  <1>5. ASSUME NEW i \in 1 .. Len(p) + Len(q), NEW j \in 1 .. Len(p) + Len(q), i < j
        PROVE  r[i].hi < r[j].lo
    <2>1. CASE j <= Len(p)
      BY <1>1, <1>3, <1>4, <1>5, <2>1
    <2>2. CASE i <= Len(p) /\ j > Len(p)
      BY <1>4, <2>2
    <2>3. CASE i > Len(p)
      <3>1. j > Len(p) /\ i - Len(p) < j - Len(p)
        BY <1>1, <1>5, <2>3
      <3>2. /\ i - Len(p) \in 1 .. Len(q) /\ r[i] = q[i - Len(p)]
            /\ j - Len(p) \in 1 .. Len(q) /\ r[j] = q[j - Len(p)]
        BY <1>4, <2>3, <3>1
      <3>. QED
        BY <1>3, <3>1, <3>2
    <2>. QED
      BY <1>1, <1>5, <2>1, <2>2, <2>3
  <1>6. ASSUME NEW i \in 1 .. Len(p) + Len(q) PROVE a < r[i].lo /\ r[i].hi <= c
    <2>1. CASE i <= Len(p)
      BY <1>3, <1>4, <2>1
    <2>2. CASE i > Len(p)
      BY <1>3, <1>4, <2>2
    <2>. QED
      BY <1>1, <2>1, <2>2
  <1>7. Ordered(r, a, c)
    BY <1>1, <1>3, <1>5, <1>6 DEF Ordered
  <1>. QED
    BY <1>7 DEF r

LEMMA ConcatJoined ==
    ASSUME NEW p \in Seq(EntryType), NEW q \in Seq(EntryType),
           NEW a, NEW b, NEW c, Joined(p, a, b), Joined(q, b, c)
    PROVE  Joined(p \o q, a, c)
  <1>1. /\ p \o q \in Seq(EntryType) /\ Len(p \o q) = Len(p) + Len(q)
        /\ \A i \in 1 .. Len(p) + Len(q) :
              (p \o q)[i] = IF i <= Len(p) THEN p[i] ELSE q[i - Len(p)]
        /\ DOMAIN p = 1 .. Len(p) /\ DOMAIN q = 1 .. Len(q) /\ Len(p) \in Nat /\ Len(q) \in Nat
        /\ DOMAIN (p \o q) = 1 .. Len(p) + Len(q)
        /\ p = <<>> <=> Len(p) = 0
        /\ q = <<>> <=> Len(q) = 0
        /\ p \o q = <<>> <=> Len(p \o q) = 0
        /\ \A i \in 1 .. Len(p) : p[i] \in EntryType
        /\ \A i \in 1 .. Len(q) : q[i] \in EntryType
    BY ConcatFacts
  <1>2. ASSUME NEW i \in 1 .. Len(p) + Len(q)
        PROVE  (p \o q)[i].lo = (IF i = 1 THEN a ELSE (p \o q)[i - 1].hi) + 1
    <2>1. CASE i <= Len(p)
      BY <1>1, <2>1 DEF Joined
    <2>2. CASE i > Len(p) + 1
      <3>1. i - 1 \in 1 .. Len(p) + Len(q) /\ i - Len(p) \in 1 .. Len(q) /\ i - Len(p) # 1
            /\ i - 1 > Len(p) /\ (i - 1) - Len(p) = (i - Len(p)) - 1
        BY <1>1, <2>2
      <3>2. q[i - Len(p)].lo = q[(i - Len(p)) - 1].hi + 1
        BY <1>1, <3>1 DEF Joined
      <3>. QED
        BY <1>1, <3>1, <3>2
    <2>3. CASE i = Len(p) + 1
      <3>1. q[1].lo = b + 1 /\ (p \o q)[i] = q[1]
        BY <1>1, <2>3 DEF Joined
      <3>2. b = IF i = 1 THEN a ELSE (p \o q)[i - 1].hi
        BY <1>1, <2>3 DEF Joined
      <3>. QED
        BY <3>1, <3>2
    <2>. QED
      BY <1>1, <2>1, <2>2, <2>3
  <1>3. c = IF p \o q = <<>> THEN a ELSE (p \o q)[Len(p \o q)].hi
    <2>1. CASE Len(q) = 0
      BY <1>1, <2>1 DEF Joined
    <2>2. CASE Len(q) # 0
      BY <1>1, <2>2 DEF Joined
    <2>. QED
      BY <2>1, <2>2
  <1>. QED
    BY <1>1, <1>2, <1>3 DEF Joined

LEMMA ConcatWhole ==
    ASSUME NEW p \in Seq(EntryType), NEW q \in Seq(EntryType), WholeTasks(p), WholeTasks(q)
    PROVE  WholeTasks(p \o q)
  <1>1. /\ p \o q \in Seq(EntryType) /\ Len(p \o q) = Len(p) + Len(q)
        /\ \A i \in 1 .. Len(p) + Len(q) :
              (p \o q)[i] = IF i <= Len(p) THEN p[i] ELSE q[i - Len(p)]
        /\ DOMAIN p = 1 .. Len(p) /\ DOMAIN q = 1 .. Len(q) /\ Len(p) \in Nat /\ Len(q) \in Nat
        /\ DOMAIN (p \o q) = 1 .. Len(p) + Len(q)
        /\ p = <<>> <=> Len(p) = 0
        /\ q = <<>> <=> Len(q) = 0
        /\ p \o q = <<>> <=> Len(p \o q) = 0
        /\ \A i \in 1 .. Len(p) : p[i] \in EntryType
        /\ \A i \in 1 .. Len(q) : q[i] \in EntryType
    BY ConcatFacts
  <1>0. ASSUME NEW i \in 1 .. Len(p) + Len(q), (p \o q)[i].kind = "settle"
        PROVE  (p \o q)[i].size = 0
    <2>1. CASE i <= Len(p)
      BY <1>0, <1>1, <2>1 DEF WholeTasks
    <2>2. CASE i > Len(p)
      <3>1. i - Len(p) \in 1 .. Len(q) /\ (p \o q)[i] = q[i - Len(p)]
        BY <1>1, <2>2
      <3>. QED
        BY <1>0, <1>1, <3>1 DEF WholeTasks
    <2>. QED
      BY <1>1, <2>1, <2>2
  <1>2. SUFFICES ASSUME NEW i \in 1 .. Len(p) + Len(q), (p \o q)[i].more
                 PROVE  /\ (p \o q)[i].kind = "token" /\ i < Len(p) + Len(q)
                        /\ ~(p \o q)[i + 1].more /\ (p \o q)[i + 1].kind # "settle"
    BY <1>0, <1>1 DEF WholeTasks
  <1>3. CASE i <= Len(p)
    <2>1. p[i].more /\ i \in 1 .. Len(p)
      BY <1>1, <1>2, <1>3
    <2>2. i < Len(p) /\ i + 1 \in 1 .. Len(p)
      BY <1>1, <2>1 DEF WholeTasks
    <2>. QED
      BY <1>1, <1>3, <2>1, <2>2 DEF WholeTasks
  <1>4. CASE i > Len(p)
    <2>1. q[i - Len(p)].more /\ i - Len(p) \in 1 .. Len(q)
      BY <1>1, <1>2, <1>4
    <2>2. /\ q[i - Len(p)].kind = "token" /\ i - Len(p) < Len(q)
          /\ ~q[(i - Len(p)) + 1].more /\ q[(i - Len(p)) + 1].kind # "settle"
      BY <1>1, <2>1 DEF WholeTasks
    <2>3. (i - Len(p)) + 1 = (i + 1) - Len(p) /\ i + 1 \in 1 .. Len(p) + Len(q) /\ i + 1 > Len(p)
      BY <1>1, <1>4, <2>2
    <2>. QED
      BY <1>1, <1>4, <2>2, <2>3
  <1>. QED
    BY <1>1, <1>3, <1>4

LEMMA ConcatCounts ==
    ASSUME NEW p \in Seq(EntryType), NEW q \in Seq(EntryType), NEW n \in Nat, NEW m \in Nat,
           Counts(p, n), Counts(q, m)
    PROVE  Counts(p \o q, n + m)
  <1>1. /\ p \o q \in Seq(EntryType) /\ Len(p \o q) = Len(p) + Len(q)
        /\ \A i \in 1 .. Len(p) + Len(q) :
              (p \o q)[i] = IF i <= Len(p) THEN p[i] ELSE q[i - Len(p)]
        /\ DOMAIN p = 1 .. Len(p) /\ DOMAIN q = 1 .. Len(q) /\ Len(p) \in Nat /\ Len(q) \in Nat
        /\ DOMAIN (p \o q) = 1 .. Len(p) + Len(q)
        /\ p = <<>> <=> Len(p) = 0
        /\ q = <<>> <=> Len(q) = 0
        /\ p \o q = <<>> <=> Len(p \o q) = 0
        /\ \A i \in 1 .. Len(p) : p[i] \in EntryType
        /\ \A i \in 1 .. Len(q) : q[i] \in EntryType
    BY ConcatFacts
  <1>2. PICK f \in [0 .. Len(p) -> Nat] :
           /\ f[0] = n /\ f[Len(p)] = 0
           /\ \A i \in 1 .. Len(p) : f[i - 1] = f[i] + Retired(p[i])
    BY DEF Counts
  <1>3. PICK g \in [0 .. Len(q) -> Nat] :
           /\ g[0] = m /\ g[Len(q)] = 0
           /\ \A i \in 1 .. Len(q) : g[i - 1] = g[i] + Retired(q[i])
    BY DEF Counts
  <1>. DEFINE h == [i \in 0 .. Len(p) + Len(q) |-> IF i <= Len(p) THEN f[i] + m
                                                   ELSE g[i - Len(p)]]
  <1>4. h \in [0 .. Len(p) + Len(q) -> Nat] /\ h[0] = n + m /\ h[Len(p) + Len(q)] = 0
    <2>1. ASSUME NEW i \in 0 .. Len(p) + Len(q)
          PROVE  (IF i <= Len(p) THEN f[i] + m ELSE g[i - Len(p)]) \in Nat
      <3>1. CASE i <= Len(p)
        <4>1. i \in 0 .. Len(p)
          BY <1>1, <3>1
        <4>2. f[i] \in Nat
          BY <4>1
        <4>. QED
          BY <3>1, <4>2
      <3>2. CASE i > Len(p)
        <4>1. i - Len(p) \in 0 .. Len(q) /\ ~(i <= Len(p))
          BY <1>1, <3>2
        <4>2. g[i - Len(p)] \in Nat
          BY <4>1
        <4>. QED
          BY <4>1, <4>2
      <3>. QED
        BY <1>1, <3>1, <3>2
    <2>2. h[0] = n + m
      BY <1>1, <1>2
    <2>3. h[Len(p) + Len(q)] = 0
      BY <1>1, <1>2, <1>3
    <2>. QED
      BY <2>1, <2>2, <2>3
  <1>5. \A i \in 1 .. Len(p) : Retired(p[i]) \in Nat
    BY <1>1, RetiredSmall
  <1>6. ASSUME NEW i \in 1 .. Len(p) + Len(q)
        PROVE  h[i - 1] = h[i] + Retired((p \o q)[i])
    <2>1. CASE i <= Len(p)
      <3>1. h[i - 1] = f[i - 1] + m /\ h[i] = f[i] + m /\ (p \o q)[i] = p[i] /\ i \in 1 .. Len(p)
        BY <1>1, <2>1
      <3>. QED
        BY <1>2, <1>5, <3>1
    <2>2. CASE i > Len(p)
      <3>1. i - Len(p) \in 1 .. Len(q) /\ (p \o q)[i] = q[i - Len(p)] /\ h[i] = g[i - Len(p)]
        BY <1>1, <2>2
      <3>2. h[i - 1] = g[(i - Len(p)) - 1]
        <4>1. CASE i - 1 = Len(p)
          BY <1>1, <1>2, <1>3, <4>1
        <4>2. CASE i - 1 > Len(p)
          BY <1>1, <4>2
        <4>. QED
          BY <1>1, <2>2, <4>1, <4>2
      <3>. QED
        BY <1>3, <3>1, <3>2
    <2>. QED
      BY <1>1, <2>1, <2>2
  <1>. HIDE DEF h
  <1>7. /\ Len(p \o q) = Len(p) + Len(q)
        /\ \A i \in 1 .. Len(p \o q) : h[i - 1] = h[i] + Retired((p \o q)[i])
        /\ h \in [0 .. Len(p \o q) -> Nat] /\ h[0] = n + m /\ h[Len(p \o q)] = 0
    BY <1>1, <1>4, <1>6
  <1>. QED
    BY <1>7 DEF Counts

LEMMA ConcatBatch ==
    ASSUME NEW a \in Nat, NEW b \in Nat, NEW c \in Nat, NEW n \in Nat, NEW m \in Nat,
           NEW p, NEW q, Batch(p, a, b, n), Batch(q, b, c, m)
    PROVE  Batch(p \o q, a, c, n + m)
  BY ConcatProperties, ConcatOrdered, ConcatJoined, ConcatWhole, ConcatCounts DEF Batch

LEMMA EmptyBatch ==
    ASSUME NEW a \in Nat
    PROVE  Batch(<<>>, a, a, 0)
  <1>. DEFINE q == <<>>
  <1>1. q \in Seq(EntryType) /\ Len(q) = 0 /\ DOMAIN q = {} /\ q = <<>>
    OBVIOUS
  <1>. HIDE DEF q
  <1>2. Ordered(q, a, a) /\ Joined(q, a, a) /\ WholeTasks(q)
    BY <1>1 DEF Ordered, Joined, WholeTasks
  <1>3. Counts(q, 0)
    <2>1. [i \in 0 .. Len(q) |-> 0] \in [0 .. Len(q) -> Nat] /\ 0 \in 0 .. Len(q)
          /\ 1 .. Len(q) = {}
      BY <1>1
    <2>. QED
      BY <1>1, <2>1 DEF Counts
  <1>. QED
    BY <1>1, <1>2, <1>3 DEF Batch

LEMMA OneBatch ==
    ASSUME NEW e \in EntryType, ~e.more, e.lo <= e.hi + 1, e.kind = "settle" => e.size = 0
    PROVE  Batch(<<e>>, e.lo - 1, e.hi, e.size) /\ e.lo - 1 \in Nat /\ e.size \in Nat
  <1>. DEFINE q == <<e>>
  <1>1. q \in Seq(EntryType) /\ Len(q) = 1 /\ DOMAIN q = {1} /\ q # <<>> /\ q[1] = e
    OBVIOUS
  <1>. HIDE DEF q
  <1>2. e.lo \in Nat /\ e.hi \in Nat /\ e.lo > 0 /\ e.size \in Nat /\ e.lo - 1 \in Nat
    BY DEF EntryType
  <1>3. Ordered(q, e.lo - 1, e.hi)
    BY <1>1, <1>2 DEF Ordered
  <1>4. Joined(q, e.lo - 1, e.hi) /\ WholeTasks(q)
    BY <1>1, <1>2 DEF Joined, WholeTasks
  <1>5. Counts(q, e.size)
    <2>. DEFINE f == [i \in 0 .. 1 |-> IF i = 0 THEN e.size ELSE 0]
    <2>1. f \in [0 .. 1 -> Nat] /\ f[0] = e.size /\ f[1] = 0
      BY <1>2
    <2>. HIDE DEF f
    <2>2. \A i \in 1 .. 1 : i = 1 /\ i - 1 = 0
      OBVIOUS
    <2>. QED
      BY <1>1, <1>2, <2>1, <2>2 DEF Counts, Retired
  <1>. QED
    BY <1>1, <1>2, <1>3, <1>4, <1>5 DEF Batch, q

LEMMA TwoBatch ==
    ASSUME NEW e \in EntryType, NEW d \in EntryType, e.more, e.kind = "token", e.lo <= e.hi + 1,
           ~d.more, d.kind # "settle", d.lo = e.hi + 1, e.hi <= d.hi
    PROVE  Batch(<<e, d>>, e.lo - 1, d.hi, d.size) /\ e.lo - 1 \in Nat /\ d.size \in Nat
  <1>. DEFINE q == <<e, d>>
  <1>1. /\ q \in Seq(EntryType) /\ Len(q) = 2 /\ DOMAIN q = {1, 2} /\ q # <<>>
        /\ q[1] = e /\ q[2] = d
    OBVIOUS
  <1>. HIDE DEF q
  <1>2. /\ e.lo \in Nat /\ e.hi \in Nat /\ e.lo > 0 /\ e.lo - 1 \in Nat
        /\ d.lo \in Nat /\ d.hi \in Nat /\ d.size \in Nat
    BY DEF EntryType
  <1>3. Ordered(q, e.lo - 1, d.hi)
    BY <1>1, <1>2 DEF Ordered
  <1>4. Joined(q, e.lo - 1, d.hi)
    BY <1>1, <1>2 DEF Joined
  <1>5. WholeTasks(q)
    BY <1>1, <1>2 DEF WholeTasks
  <1>6. Counts(q, d.size)
    <2>. DEFINE f == [i \in 0 .. 2 |-> IF i = 2 THEN 0 ELSE d.size]
    <2>1. f \in [0 .. 2 -> Nat] /\ f[0] = d.size /\ f[1] = d.size /\ f[2] = 0
      BY <1>2
    <2>. HIDE DEF f
    <2>2. Retired(q[1]) = 0 /\ Retired(q[2]) = d.size
      BY <1>1 DEF Retired
    <2>3. (\A i \in 1 .. 2 : i = 1 \/ i = 2) /\ 1 - 1 = 0 /\ 2 - 1 = 1
      OBVIOUS
    <2>4. f[0] = f[1] + Retired(q[1]) /\ f[1] = f[2] + Retired(q[2])
      BY <1>2, <2>1, <2>2
    <2>5. \A i \in 1 .. Len(q) : f[i - 1] = f[i] + Retired(q[i])
      BY <1>1, <2>3, <2>4
    <2>. QED
      BY <1>1, <2>1, <2>5 DEF Counts
  <1>. QED
    BY <1>1, <1>2, <1>3, <1>4, <1>5, <1>6 DEF Batch, q

-----------------------------------------------------------------------------
(* States and steps *)

LEMMA TypeFacts ==
    ASSUME TypeOK
    PROVE  /\ events \in Seq(EventType) /\ Top \in Nat
           /\ folded \in 0 .. Top /\ from \in 1 .. Top + 1 /\ from - 1 \in Nat
           /\ queue \in Seq(EntryType) /\ log \in Seq(RowType)
           /\ stream \in [live : BOOLEAN, ended : BOOLEAN, failed : BOOLEAN, lost : BOOLEAN,
                          diverged : BOOLEAN, last : Nat, queuedRows : Nat]
           /\ stream.queuedRows \in Nat
           /\ content \in [n : 0 .. Top, cursor : Nat]
           /\ inflight \in JobType /\ pending \in JobType
           /\ LogTop \in Nat
  <1>1. /\ events \in Seq(EventType) /\ queue \in Seq(EntryType) /\ log \in Seq(RowType)
        /\ inflight \in JobType /\ pending \in JobType
    BY DEF TypeOK, EventType, EntryType, RowType, JobType
  <1>2. Top \in Nat
    BY <1>1, SeqFacts DEF Top
  <1>3. LogTop \in Nat
    <2>1. CASE log = <<>>
      BY <2>1 DEF LogTop
    <2>2. CASE log # <<>>
      <3>1. Len(log) \in 1 .. Len(log) /\ log[Len(log)] \in RowType
        BY <1>1, <2>2, SeqFacts
      <3>. QED
        BY <2>2, <3>1 DEF LogTop, RowType
    <2>. QED
      BY <2>1, <2>2
  <1>4. from - 1 \in Nat
    BY <1>2 DEF TypeOK
  <1>. QED
    BY <1>1, <1>2, <1>3, <1>4 DEF TypeOK

\* What may happen to the events: more of them come.
Grows ==
    /\ events' \in Seq(EventType) /\ Len(events') \in Nat /\ Top <= Len(events')
    /\ \A x \in 1 .. Top : events'[x] = events[x]
    /\ Rising(events')

LEMMA SameEvents ==
    ASSUME TypeOK, LinesRise, UNCHANGED events
    PROVE  Grows /\ Top' = Top
  BY TypeFacts, SeqFacts DEF Grows, LinesRise, Top

LEMMA ReadsGrow ==
    ASSUME TypeOK, LinesRise, NEW kind \in Content \cup {"note", "suspended"},
           NEW fresh \in BOOLEAN, Reads(kind, fresh)
    PROVE  /\ Grows /\ Top' = Top + 1 /\ Top' \in Nat
           /\ events'[Top + 1].kind = kind /\ carrier = "reading"
  <1>1. events \in Seq(EventType) /\ Top \in Nat /\ Len(events) = Top
    BY TypeFacts DEF Top
  <1>. DEFINE ev == [kind |-> kind,
                     line |-> CASE Top = 0 -> 1
                                [] Top > 0 /\ fresh -> Line(Top) + 1
                                [] Top > 0 /\ ~fresh -> Line(Top)]
  <1>2. \A x \in 1 .. Top : events[x] \in EventType /\ events[x].line \in Nat \ {0}
    <2>1. \A x \in 1 .. Top : events[x] \in EventType
      BY <1>1, SeqFacts
    <2>. QED
      BY <2>1 DEF EventType
  <1>3. /\ ev \in EventType /\ ev.kind = kind
        /\ \A x \in 1 .. Top : events[x].line <= ev.line
    <2>1. CASE Top = 0
      <3>1. ev = [kind |-> kind, line |-> 1] /\ 1 .. Top = {}
        BY <2>1
      <3>2. [kind |-> kind, line |-> 1] \in EventType
        BY DEF EventType
      <3>. QED
        BY <3>1, <3>2
    <2>2. CASE Top > 0
      <3>1. Top \in 1 .. Top /\ Line(Top) \in Nat \ {0}
        BY <1>1, <1>2, <2>2 DEF Line
      <3>2. \A x \in 1 .. Top : events[x].line <= Line(Top)
        BY <1>1, <3>1 DEF LinesRise, Rising, Line, Top
      <3>3. PICK l \in Nat \ {0} : ev = [kind |-> kind, line |-> l] /\ l >= Line(Top)
        BY <2>2, <3>1
      <3>. QED
        BY <1>2, <3>1, <3>2, <3>3 DEF EventType
    <2>. QED
      BY <1>1, <2>1, <2>2
  <1>4. events' = Append(events, ev) /\ carrier = "reading"
    BY DEF Reads
  <1>. HIDE DEF ev
  <1>5. /\ events' \in Seq(EventType) /\ Len(events') = Top + 1
        /\ \A x \in 1 .. Top : events'[x] = events[x]
        /\ events'[Top + 1] = ev
    BY <1>1, <1>3, <1>4, AppendProperties
  <1>6. Rising(events')
    <2>1. SUFFICES ASSUME NEW x \in 1 .. Top + 1, NEW y \in 1 .. Top + 1, x <= y
                   PROVE  events'[x].line <= events'[y].line
      BY <1>5 DEF Rising
    <2>2. CASE y <= Top
      BY <1>1, <1>5, <2>1, <2>2 DEF LinesRise, Rising, Top
    <2>3. CASE x <= Top /\ y = Top + 1
      BY <1>1, <1>3, <1>5, <2>3
    <2>4. CASE x = Top + 1 /\ y = Top + 1
      BY <1>3, <1>5, <2>4 DEF EventType
    <2>. QED
      BY <1>1, <2>1, <2>2, <2>3, <2>4
  <1>. QED
    BY <1>1, <1>3, <1>4, <1>5, <1>6 DEF Grows, Top

LEMMA FitsStays ==
    ASSUME TypeOK, Grows, NEW e, e \in EntryType \cup RowType, Fits(e, events)
    PROVE  Fits(e, events')
  <1>1. Top \in Nat /\ Len(events') \in Nat /\ Top <= Len(events') /\ e.hi <= Top
        /\ \A x \in 1 .. Top : events'[x] = events[x]
    BY TypeFacts DEF Grows, Fits, Top
  <1>2. e.lo \in Nat \ {0} /\ e.hi \in Nat
    BY DEF EntryType, RowType
  <1>3. \A x \in e.lo .. e.hi : x \in 1 .. Top
    BY <1>1, <1>2
  <1>. QED
    BY <1>1, <1>2, <1>3 DEF Fits

\* Nothing that is said of the log alone is touched by an event.
LEMMA GrowKeeps ==
    ASSUME WriterInv, Grows, UNCHANGED <<log, content>>,
           stream'.failed = stream.failed, stream'.last = stream.last,
           stream'.diverged = stream.diverged
    PROVE  /\ LogInv' /\ LinesRise' /\ PairInv' /\ CursorPairsContent'
           /\ FinalContentHoldsLog'
           /\ \A n \in 0 .. Top, c \in Nat :
                 Pairs(log, events, n, c) => Pairs(log', events', n, c)
  <1>1. TypeOK /\ LogInv /\ PairInv
    BY DEF WriterInv
  <1>2. /\ Top \in Nat /\ LogTop \in Nat /\ log \in Seq(RowType)
        /\ Len(events') \in Nat /\ Top <= Len(events')
        /\ \A x \in 1 .. Top : events'[x] = events[x]
        /\ content.n \in 0 .. Top /\ content.cursor \in Nat
    BY <1>1, TypeFacts DEF Grows
  <1>3. \A i \in DOMAIN log : /\ log[i] \in RowType /\ Fits(log[i], events) /\ log[i].hi <= LogTop
                              /\ log[i].kind \in Terminal => i = Len(log)
    BY <1>1, <1>2, SeqFacts DEF LogInv
  <1>4. \A i \in DOMAIN log : /\ Fits(log[i], events') /\ log[i].hi <= Top
                              /\ log[i].lo \in Nat \ {0} /\ log[i].hi \in Nat
    BY <1>1, <1>3, FitsStays DEF Fits, RowType, Top
  <1>5. LogTop' = LogTop
    BY DEF LogTop
  <1>6. LogInv'
    BY <1>1, <1>3, <1>4, <1>5 DEF LogInv
  <1>7. LinesRise' /\ PairInv'
    BY <1>1 DEF Grows, LinesRise, PairInv
  <1>8. \A x \in 1 .. Len(events') : Covered(x, log) => x \in 1 .. Top
    BY <1>2, <1>4 DEF Covered
  <1>9. FinalContentHoldsLog'
    <2>1. Closed => \A x \in 1 .. Top :
                       events[x].kind \in Content /\ Covered(x, log) => x <= content.n
      BY DEF WriterInv, FinalContentHoldsLog, Contents, Logged, Covered
    <2>2. Closed' = Closed
      BY DEF Closed
    <2>3. Closed => \A x \in 1 .. Len(events') :
                       events'[x].kind \in Content /\ Covered(x, log) => x <= content.n
      BY <1>2, <1>8, <2>1
    <2>. QED
      BY <2>2, <2>3 DEF FinalContentHoldsLog, Contents, Logged, Covered, Top
  <1>10. ASSUME NEW n \in 0 .. Top, NEW c \in Nat, Pairs(log, events, n, c)
         PROVE  Pairs(log, events', n, c)
    <2>1. SUFFICES ASSUME c # 0 PROVE Pairs(log, events', n, c)
      BY DEF Pairs
    <2>2. /\ c \in DOMAIN log
          /\ {x \in 1 .. n : events[x].kind \in Content}
                = {x \in UNION {log[i].lo .. log[i].hi : i \in 1 .. c} :
                      events[x].kind \in Content}
          /\ \A i \in 1 .. c : ~log[i].split
      BY <1>10, <2>1 DEF Pairs
    <2>3. \A i \in 1 .. c : i \in DOMAIN log
      BY <1>2, <2>2, SeqFacts
    <2>4. \A x \in UNION {log[i].lo .. log[i].hi : i \in 1 .. c} : x \in 1 .. Top
      BY <1>2, <1>4, <2>3
    <2>5. \A x \in 1 .. n : x \in 1 .. Top
      BY <1>2
    <2>6. {x \in 1 .. n : events'[x].kind \in Content}
             = {x \in 1 .. n : events[x].kind \in Content}
      BY <1>2, <2>5
    <2>7. {x \in UNION {log[i].lo .. log[i].hi : i \in 1 .. c} : events'[x].kind \in Content}
             = {x \in UNION {log[i].lo .. log[i].hi : i \in 1 .. c} : events[x].kind \in Content}
      BY <1>2, <2>4
    <2>. QED
      BY <2>2, <2>6, <2>7 DEF Pairs
  <1>11. CursorPairsContent'
    <2>1. Pairs(log, events, content.n, content.cursor)
      BY DEF WriterInv, CursorPairsContent, Contents, Pairs
    <2>2. Pairs(log, events', content.n, content.cursor)
      BY <1>2, <1>10, <2>1
    <2>. QED
      BY <2>2 DEF CursorPairsContent, Contents, Pairs
  <1>. QED
    BY <1>6, <1>7, <1>9, <1>10, <1>11

\* A batch behind the queue that takes the buffer, or a part of it, along.
LEMMA EnqueueKeeps ==
    ASSUME WriterInv, Grows, UNCHANGED log, stream'.failed = stream.failed,
           NEW es, NEW n \in Nat, NEW b \in Nat, from' = b + 1, Batch(es, from - 1, b, n),
           \A i \in DOMAIN es : Fits(es[i], events'),
           \A x \in b + 1 .. Len(events') : events'[x].kind = "token",
           queue' = queue \o es, stream'.queuedRows = stream.queuedRows + n
    PROVE  QueueInv' /\ BufferInv' /\ queue' \in Seq(EntryType) /\ stream'.queuedRows \in Nat
  <1>1. TypeOK /\ QueueInv
    BY DEF WriterInv
  <1>2. /\ queue \in Seq(EntryType) /\ es \in Seq(EntryType) /\ LogTop \in Nat /\ from - 1 \in Nat
        /\ stream.queuedRows \in Nat
    BY <1>1, TypeFacts DEF Batch
  <1>3. LogTop' = LogTop
    BY DEF LogTop
  <1>0. from' - 1 = b
    OBVIOUS
  <1>4. Ordered(queue', LogTop', b)
    BY <1>1, <1>2, <1>3, ConcatOrdered DEF QueueInv, Batch
  <1>5. ~stream'.failed => Joined(queue', LogTop', b)
    BY <1>1, <1>2, <1>3, ConcatJoined DEF QueueInv, Batch
  <1>6. WholeTasks(queue')
    BY <1>1, <1>2, ConcatWhole DEF QueueInv, Batch
  <1>7. Counts(queue', stream'.queuedRows)
    BY <1>1, <1>2, ConcatCounts DEF QueueInv, Batch
  <1>8. \A i \in DOMAIN queue' : Fits(queue'[i], events')
    <2>1. \A i \in DOMAIN queue : Fits(queue[i], events')
      BY <1>1, <1>2, FitsStays, SeqFacts DEF QueueInv
    <2>2. SUFFICES ASSUME NEW i \in 1 .. Len(queue) + Len(es)
                   PROVE  Fits((queue \o es)[i], events')
      BY <1>2, ConcatFacts
    <2>3. CASE i <= Len(queue)
      <3>1. i \in DOMAIN queue /\ (queue \o es)[i] = queue[i]
        BY <1>2, <2>3, ConcatFacts
      <3>. QED
        BY <2>1, <3>1
    <2>4. CASE i > Len(queue)
      <3>1. i - Len(queue) \in DOMAIN es /\ (queue \o es)[i] = es[i - Len(queue)]
        BY <1>2, <2>4, ConcatFacts
      <3>. QED
        BY <3>1
    <2>. QED
      BY <1>2, <2>3, <2>4, SeqFacts
  <1>9. BufferInv'
    BY DEF BufferInv, Top
  <1>. QED
    BY <1>0, <1>2, <1>4, <1>5, <1>6, <1>7, <1>8, <1>9, ConcatFacts DEF QueueInv

LEMMA ConcatMembers ==
    ASSUME NEW p \in Seq(EntryType), NEW q \in Seq(EntryType)
    PROVE  \A i \in DOMAIN (p \o q) : \/ /\ i \in DOMAIN p /\ i <= Len(p)
                                         /\ (p \o q)[i] = p[i]
                                      \/ /\ i - Len(p) \in DOMAIN q
                                         /\ (p \o q)[i] = q[i - Len(p)]
                                         /\ i - Len(p) = Len(q) <=> i = Len(p \o q)
  <1>1. SUFFICES ASSUME NEW i \in 1 .. Len(p) + Len(q)
                 PROVE  \/ /\ i \in 1 .. Len(p) /\ i <= Len(p)
                           /\ (p \o q)[i] = p[i]
                        \/ /\ i - Len(p) \in 1 .. Len(q)
                           /\ (p \o q)[i] = q[i - Len(p)]
                           /\ i - Len(p) = Len(q) <=> i = Len(p) + Len(q)
    BY ConcatFacts
  <1>2. Len(p) \in Nat /\ Len(q) \in Nat
    BY SeqFacts
  <1>3. CASE i <= Len(p)
    BY <1>2, <1>3, ConcatFacts
  <1>4. CASE i > Len(p)
    BY <1>2, <1>4, ConcatFacts
  <1>. QED
    BY <1>2, <1>3, <1>4

\* The entries of a batch hold events that were read, and are of these kinds.
Made(es, evs, kinds) ==
    \A i \in DOMAIN es : Fits(es[i], evs) /\ es[i].kind \in kinds

LEMMA ConcatMade ==
    ASSUME NEW p \in Seq(EntryType), NEW q \in Seq(EntryType), NEW evs, NEW K, NEW L,
           Made(p, evs, K), Made(q, evs, L)
    PROVE  Made(p \o q, evs, K \cup L)
  BY ConcatMembers DEF Made

LEMMA BufferRowBatch ==
    ASSUME NEW lo \in Nat \ {0}, NEW hi \in Nat, lo <= hi + 1,
           NEW evs, Len(evs) \in Nat, hi <= Len(evs),
           \A x \in lo .. hi : evs[x].kind = "token"
    PROVE  /\ Batch(BufferRow(lo, hi, 1, FALSE), lo - 1, hi, Len(BufferRow(lo, hi, 1, FALSE)))
           /\ Made(BufferRow(lo, hi, 1, FALSE), evs, {"token"})
           /\ BufferRow(lo, hi, 1, FALSE) \in Seq(EntryType)
           /\ Len(BufferRow(lo, hi, 1, FALSE)) = IF lo > hi THEN 0 ELSE 1
  <1>. DEFINE es == BufferRow(lo, hi, 1, FALSE)
              e == Entry("token", lo, hi, 1, FALSE)
  <1>1. CASE lo > hi
    <2>1. es = <<>> /\ lo - 1 = hi
      BY <1>1 DEF BufferRow
    <2>2. Len(<<>>) = 0 /\ <<>> \in Seq(EntryType) /\ DOMAIN <<>> = {}
      OBVIOUS
    <2>3. Batch(<<>>, hi, hi, 0)
      BY EmptyBatch
    <2>. HIDE DEF es
    <2>4. Batch(es, lo - 1, hi, Len(es)) /\ Made(es, evs, {"token"})
          /\ es \in Seq(EntryType) /\ Len(es) = IF lo > hi THEN 0 ELSE 1
      BY <1>1, <2>1, <2>2, <2>3 DEF Made
    <2>. QED
      BY <2>4 DEF es
  <1>2. CASE ~(lo > hi)
    <2>1. es = <<e>>
      BY <1>2 DEF BufferRow
    <2>2. /\ e \in EntryType /\ e.kind = "token" /\ e.lo = lo /\ e.hi = hi /\ e.size = 1
          /\ ~e.more
      BY DEF Entry, EntryType, Content
    <2>. HIDE DEF e
    <2>3. Fits(e, evs)
      <3>1. lo <= hi /\ IsRow(e) /\ e.kind \in Content /\ "token" \in Content
        BY <1>2, <2>2 DEF IsRow, Terminal, Content
      <3>. QED
        BY <2>2, <3>1 DEF Fits
    <2>4. Batch(<<e>>, lo - 1, hi, 1)
      BY <1>2, <2>2, OneBatch
    <2>5. Len(<<e>>) = 1 /\ <<e>> \in Seq(EntryType) /\ DOMAIN <<e>> = {1} /\ <<e>>[1] = e
      BY <2>2
    <2>. HIDE DEF es
    <2>6. Batch(es, lo - 1, hi, Len(es)) /\ Made(es, evs, {"token"})
          /\ es \in Seq(EntryType) /\ Len(es) = IF lo > hi THEN 0 ELSE 1
      BY <1>2, <2>1, <2>2, <2>3, <2>4, <2>5 DEF Made
    <2>. QED
      BY <2>6 DEF es
  <1>. QED
    BY <1>1, <1>2

LEMMA MarkerBatch ==
    ASSUME NEW sample \in BOOLEAN, NEW n \in Nat, NEW evs, Len(evs) \in Nat, n <= Len(evs)
    PROVE  /\ Batch(Marker(sample, n), n, n, 0)
           /\ Made(Marker(sample, n), evs, {"settle"})
           /\ Marker(sample, n) \in Seq(EntryType)
           /\ ~sample => Marker(sample, n) = <<>>
  <1>1. CASE ~(sample /\ stream.live)
    <2>1. Marker(sample, n) = <<>>
      BY <1>1 DEF Marker
    <2>2. Len(<<>>) = 0 /\ <<>> \in Seq(EntryType) /\ DOMAIN <<>> = {}
      OBVIOUS
    <2>. QED
      BY <1>1, <2>1, <2>2, EmptyBatch DEF Made
  <1>2. CASE sample /\ stream.live
    <2>. DEFINE e == Entry("settle", n + 1, n, 0, FALSE)
    <2>1. Marker(sample, n) = <<e>>
      BY <1>2 DEF Marker, Entry
    <2>2. /\ e \in EntryType /\ e.kind = "settle" /\ e.lo = n + 1 /\ e.hi = n /\ e.size = 0
          /\ ~e.more
      BY DEF Entry, EntryType
    <2>3. Fits(e, evs)
      BY <1>2, <2>2 DEF Fits, IsRow, Terminal, Content
    <2>. HIDE DEF e
    <2>4. Batch(<<e>>, n, n, 0)
      <3>1. (n + 1) - 1 = n
        OBVIOUS
      <3>. QED
        BY <2>2, <3>1, OneBatch
    <2>5. Len(<<e>>) = 1 /\ <<e>> \in Seq(EntryType) /\ DOMAIN <<e>> = {1} /\ <<e>>[1] = e
      BY <2>2
    <2>. QED
      BY <1>2, <2>1, <2>2, <2>3, <2>4, <2>5 DEF Made
  <1>. QED
    BY <1>1, <1>2

\* A row that is admitted takes the buffer along.
LEMMA WithBufferBatch ==
    ASSUME TypeOK, BufferInv, NEW kind \in {"tool", "note", "suspended", "done", "close"},
           NEW hi \in {Top, Top + 1}, NEW evs, Len(evs) \in Nat, hi <= Len(evs),
           \A x \in 1 .. Top : evs[x] = events[x],
           hi = Top <=> kind \in Terminal,
           hi = Top + 1 => (evs[Top + 1].kind \in Content <=> kind \in Content)
    PROVE  /\ WithBuffer(kind, Top + 1, hi) \in Seq(EntryType)
           /\ Batch(WithBuffer(kind, Top + 1, hi), from - 1, hi,
                    Len(WithBuffer(kind, Top + 1, hi)))
           /\ Made(WithBuffer(kind, Top + 1, hi), evs, {"token", kind})
           /\ \A i \in DOMAIN WithBuffer(kind, Top + 1, hi) :
                 /\ WithBuffer(kind, Top + 1, hi)[i].lo <= Top + 1
                 /\ WithBuffer(kind, Top + 1, hi)[i].kind = kind =>
                       /\ WithBuffer(kind, Top + 1, hi)[i].hi = hi
                       /\ i = Len(WithBuffer(kind, Top + 1, hi))
  <1>1. Top \in Nat /\ from \in 1 .. Top + 1 /\ hi \in Nat /\ Top <= hi
    BY TypeFacts
  <1>. DEFINE es == WithBuffer(kind, Top + 1, hi)
  <1>2. kind \in Content \cup Terminal \cup {"note", "suspended", "settle"} /\ kind # "token"
        /\ kind # "settle"
    BY DEF Content, Terminal
  <1>3. CASE from > Top
    <2>. DEFINE e == Entry(kind, Top + 1, hi, 1, FALSE)
    <2>1. es = <<e>>
      BY <1>3 DEF WithBuffer
    <2>0. from = Top + 1 /\ (Top + 1) - 1 = Top
      BY <1>1, <1>3
    <2>2. /\ e \in EntryType /\ e.kind = kind /\ e.lo = Top + 1 /\ e.hi = hi /\ e.size = 1
          /\ ~e.more
      BY <1>1, <1>2 DEF Entry, EntryType
    <2>. HIDE DEF e
    <2>3. Fits(e, evs)
      <3>1. CASE kind \in Terminal
        BY <1>1, <2>2, <3>1 DEF Fits, IsRow
      <3>2. CASE kind \notin Terminal
        <4>1. hi = Top + 1 /\ IsRow(e)
          BY <1>2, <2>2, <3>2 DEF IsRow
        <4>2. \A x \in Top + 1 .. hi : x = Top + 1
          BY <1>1, <4>1
        <4>. QED
          BY <1>1, <2>2, <4>1, <4>2 DEF Fits
      <3>. QED
        BY <3>1, <3>2
    <2>4. Batch(<<e>>, Top, hi, 1)
      BY <1>1, <2>0, <2>2, OneBatch
    <2>5. /\ Len(<<e>>) = 1 /\ <<e>> \in Seq(EntryType) /\ DOMAIN <<e>> = {1}
          /\ <<e>>[1] = e
      BY <2>2
    <2>6. Made(<<e>>, evs, {"token", kind})
      BY <2>2, <2>3, <2>5 DEF Made
    <2>. HIDE DEF es
    <2>7. \A i \in DOMAIN es : es[i].lo <= Top + 1 /\ es[i].hi = hi /\ i = Len(es)
      BY <1>1, <2>1, <2>2, <2>5
    <2>8. es \in Seq(EntryType) /\ Batch(es, from - 1, hi, Len(es))
          /\ Made(es, evs, {"token", kind})
      BY <2>0, <2>1, <2>4, <2>5, <2>6
    <2>. QED
      BY <2>7, <2>8 DEF es
  <1>4. CASE from <= Top
    <2>. DEFINE e == Entry("token", from, Top, 2, TRUE)
                d == Entry(kind, Top + 1, hi, 2, FALSE)
    <2>1. es = <<e>> \o <<d>>
      <3>1. ~(from > Top)
        BY <1>1, <1>4
      <3>. QED
        BY <3>1 DEF WithBuffer, BufferRow
    <2>2. /\ e \in EntryType /\ e.kind = "token" /\ e.lo = from /\ e.hi = Top /\ e.more
          /\ d \in EntryType /\ d.kind = kind /\ d.lo = Top + 1 /\ d.hi = hi /\ d.size = 2
          /\ ~d.more
      BY <1>1, <1>2 DEF Entry, EntryType, Content
    <2>. HIDE DEF e, d
    <2>3. Fits(e, evs)
      <3>1. \A x \in from .. Top : evs[x].kind = "token"
        BY <1>1 DEF BufferInv
      <3>2. \A x \in from .. Top : x \in 1 .. Top
        BY <1>1
      <3>3. e.hi <= Len(evs) /\ IsRow(e) /\ e.kind \in Content
        BY <1>1, <2>2 DEF IsRow, Terminal, Content
      <3>4. \A x \in from .. Top : evs[x].kind \in Content
        BY <3>1, <3>2 DEF Content
      <3>. QED
        BY <1>4, <2>2, <3>3, <3>4 DEF Fits
    <2>4. Fits(d, evs)
      <3>1. CASE kind \in Terminal
        BY <1>1, <2>2, <3>1 DEF Fits, IsRow
      <3>2. CASE kind \notin Terminal
        <4>1. hi = Top + 1 /\ IsRow(d)
          BY <1>2, <2>2, <3>2 DEF IsRow
        <4>2. \A x \in Top + 1 .. hi : x = Top + 1
          BY <1>1, <4>1
        <4>. QED
          BY <1>1, <2>2, <4>1, <4>2 DEF Fits
      <3>. QED
        BY <3>1, <3>2
    <2>5. Batch(<<e, d>>, from - 1, hi, 2)
      BY <1>1, <1>2, <2>2, TwoBatch
    <2>6. Len(<<e, d>>) = 2 /\ <<e, d>> \in Seq(EntryType)
          /\ DOMAIN <<e, d>> = {1, 2} /\ <<e, d>>[1] = e /\ <<e, d>>[2] = d
      BY <2>2
    <2>10. <<e>> \o <<d>> = <<e, d>>
      <3>1. <<e>> \in Seq(EntryType) /\ Len(<<e>>) = 1 /\ <<e>>[1] = e
            /\ <<d>> \in Seq(EntryType) /\ Len(<<d>>) = 1 /\ <<d>>[1] = d
        BY <2>2
      <3>2. /\ <<e>> \o <<d>> \in Seq(EntryType) /\ Len(<<e>> \o <<d>>) = 2
            /\ \A i \in 1 .. 2 : (<<e>> \o <<d>>)[i] = IF i <= 1 THEN <<e>>[i] ELSE <<d>>[i - 1]
        BY <3>1, ConcatFacts
      <3>3. \A i \in 1 .. 2 : (<<e>> \o <<d>>)[i] = <<e, d>>[i]
        BY <2>6, <3>1, <3>2
      <3>. QED
        BY <2>6, <3>2, <3>3, SeqEqual
    <2>7. Made(<<e, d>>, evs, {"token", kind})
      BY <2>2, <2>3, <2>4, <2>6 DEF Made
    <2>. HIDE DEF es
    <2>8. \A i \in DOMAIN es : /\ es[i].lo <= Top + 1
                               /\ es[i].kind = kind => es[i].hi = hi /\ i = Len(es)
      <3>1. es = <<e, d>>
        BY <2>1, <2>10
      <3>2. from <= Top + 1 /\ Top + 1 <= Top + 1
        BY <1>1, <1>4
      <3>. QED
        BY <1>2, <2>2, <2>6, <3>1, <3>2
    <2>9. es \in Seq(EntryType) /\ Batch(es, from - 1, hi, Len(es))
          /\ Made(es, evs, {"token", kind})
      BY <2>1, <2>5, <2>6, <2>7, <2>10
    <2>. QED
      BY <2>8, <2>9 DEF es
  <1>. QED
    BY <1>1, <1>3, <1>4

-----------------------------------------------------------------------------
(* The steps that only add to the queue *)

Quiet == {"token", "tool", "settle", "close"}   \* what no carrier awaits

LEMMA QuietQueue ==
    ASSUME WriterInv, carrier \notin {"noting", "suspending", "closing"}
    PROVE  \A i \in DOMAIN queue : queue[i].kind \in Quiet
  <1>1. TypeOK /\ AwaitInv
    BY DEF WriterInv
  <1>2. \A i \in DOMAIN queue : queue[i] \in EntryType
    BY <1>1, TypeFacts, SeqFacts
  <1>3. \A i \in DOMAIN queue : queue[i].kind \notin {"note", "suspended", "done"}
    BY <1>1 DEF AwaitInv
  <1>. QED
    BY <1>2, <1>3 DEF EntryType, Quiet, Content, Terminal

LEMMA EntriesBegin ==
    ASSUME WriterInv
    PROVE  \A i \in DOMAIN queue : queue[i].lo <= Top + 1
  <1>1. TypeOK /\ QueueInv
    BY DEF WriterInv
  <1>2. Top \in Nat /\ \A i \in DOMAIN queue : queue[i] \in EntryType
    BY <1>1, TypeFacts, SeqFacts
  <1>3. \A i \in DOMAIN queue : queue[i].lo \in Nat /\ queue[i].hi \in Nat
    BY <1>2 DEF EntryType
  <1>4. \A i \in DOMAIN queue : Fits(queue[i], events)
    BY <1>1 DEF QueueInv
  <1>. QED
    BY <1>2, <1>3, <1>4 DEF Fits, Top

LEMMA QuietEnqueue ==
    ASSUME WriterInv, \A i \in DOMAIN queue : queue[i].kind \in Quiet,
           NEW es \in Seq(EntryType), NEW evs, NEW K \in SUBSET Quiet, Made(es, evs, K),
           queue' = queue \o es
    PROVE  \A i \in DOMAIN queue' : queue'[i].kind \in Quiet
  <1>1. queue \in Seq(EntryType)
    BY TypeFacts DEF WriterInv
  <1>2. \A i \in DOMAIN es : es[i].kind \in Quiet
    BY DEF Made
  <1>. QED
    BY <1>1, <1>2, ConcatMembers

LEMMA AllFolded ==
    ASSUME WriterInv, carrier \in {"reading", "noting", "suspending", "draining"}
    PROVE  \A x \in 1 .. Top : events[x].kind \in Content => x <= folded
  <1>1. TypeOK /\ FoldInv
    BY DEF WriterInv
  <1>2. Top \in Nat /\ folded \in Nat
    BY <1>1, TypeFacts
  <1>3. \A x \in 1 .. Top : ~Unfolded(x)
    BY <1>1 DEF FoldInv
  <1>. QED
    BY <1>2, <1>3 DEF Unfolded

LEMMA TypeNext ==
    ASSUME events' \in Seq(EventType), folded' \in 0 .. Top', from' \in 1 .. Top' + 1,
           queue' \in Seq(EntryType), log' \in Seq(RowType),
           stream' \in [live : BOOLEAN, ended : BOOLEAN, failed : BOOLEAN, lost : BOOLEAN,
                        diverged : BOOLEAN, last : Nat, queuedRows : Nat],
           content' \in [n : 0 .. Top', cursor : Nat],
           inflight' \in [n : 0 .. Top', ready : BOOLEAN, cursor : Nat],
           pending' \in [n : 0 .. Top', ready : BOOLEAN, cursor : Nat],
           fenced' \in BOOLEAN, sampled' \in 0 .. MaxCheckpoints,
           carrier' \in Phases, owned' \in BOOLEAN
    PROVE  TypeOK'
  BY DEF TypeOK, EventType, EntryType, RowType

LEMMA JobsStay ==
    ASSUME WriterInv, UNCHANGED jobs, Top' \in Nat, Top <= Top',
           \A n \in 0 .. Top, c \in Nat :
              Pairs(log, events, n, c) => Pairs(log', events', n, c)
    PROVE  /\ JobsInv' /\ fenced' \in BOOLEAN /\ sampled' \in 0 .. MaxCheckpoints
           /\ inflight' \in [n : 0 .. Top', ready : BOOLEAN, cursor : Nat]
           /\ pending' \in [n : 0 .. Top', ready : BOOLEAN, cursor : Nat]
  <1>1. TypeOK /\ JobsInv
    BY DEF WriterInv
  <1>2. inflight \in JobType /\ pending \in JobType /\ Top \in Nat
    BY <1>1, TypeFacts
  <1>3. /\ inflight.n \in 0 .. Top /\ inflight.cursor \in Nat
        /\ pending.n \in 0 .. Top /\ pending.cursor \in Nat
    BY <1>2 DEF JobType
  <1>4. JobsInv'
    BY <1>1, <1>3 DEF JobsInv, jobs
  <1>5. /\ inflight \in [n : 0 .. Top', ready : BOOLEAN, cursor : Nat]
        /\ pending \in [n : 0 .. Top', ready : BOOLEAN, cursor : Nat]
    BY <1>2 DEF JobType
  <1>. QED
    BY <1>1, <1>4, <1>5 DEF jobs, TypeOK

LEMMA SampleKeeps ==
    ASSUME WriterInv, NEW sample \in BOOLEAN, NEW m \in Nat, m <= Top', Sample(sample, m),
           Top' \in Nat, Top <= Top',
           \A n \in 0 .. Top, c \in Nat :
              Pairs(log, events, n, c) => Pairs(log', events', n, c)
    PROVE  /\ JobsInv' /\ fenced' \in BOOLEAN /\ sampled' \in 0 .. MaxCheckpoints
           /\ inflight' \in [n : 0 .. Top', ready : BOOLEAN, cursor : Nat]
           /\ pending' \in [n : 0 .. Top', ready : BOOLEAN, cursor : Nat]
  <1>1. CASE ~sample
    BY <1>1, JobsStay DEF Sample
  <1>2. CASE sample
    <2>. DEFINE job == [n |-> m, ready |-> ~stream.live, cursor |-> 0]
                J == [n : 0 .. Top', ready : BOOLEAN, cursor : Nat]
    <2>1. TypeOK /\ JobsInv
      BY DEF WriterInv
    <2>2. inflight \in JobType /\ Top \in Nat /\ stream.live \in BOOLEAN
      BY <2>1, TypeFacts
    <2>3. inflight.n \in 0 .. Top /\ inflight.cursor \in Nat /\ inflight \in J
      BY <2>2 DEF JobType
    <2>4. job \in J /\ job.cursor = 0
      BY <2>2
    <2>5. NoJob \in J /\ NoJob.ready = FALSE
      BY DEF NoJob
    <2>6. /\ sampled < MaxCheckpoints /\ sampled' = sampled + 1 /\ fenced' = fenced
          /\ \/ inflight = NoJob /\ inflight' = job /\ pending' = NoJob
             \/ inflight' = inflight /\ pending' = job
      BY <1>2 DEF Sample, Pump
    <2>. HIDE DEF job, J
    <2>7. sampled' \in 0 .. MaxCheckpoints /\ fenced' \in BOOLEAN
      BY <2>1, <2>6, WriterAssumption DEF TypeOK
    <2>8. inflight' \in J /\ pending' \in J
      BY <2>3, <2>4, <2>5, <2>6
    <2>9. \A n : Pairs(log', events', n, job.cursor)
      BY <2>4 DEF Pairs
    <2>10. inflight.ready => Pairs(log', events', inflight.n, inflight.cursor)
      BY <2>1, <2>3 DEF JobsInv
    <2>11. JobsInv'
      BY <2>5, <2>6, <2>9, <2>10 DEF JobsInv
    <2>. QED
      BY <2>7, <2>8, <2>11 DEF J
  <1>. QED
    BY <1>1, <1>2

StreamType == [live : BOOLEAN, ended : BOOLEAN, failed : BOOLEAN, lost : BOOLEAN,
               diverged : BOOLEAN, last : Nat, queuedRows : Nat]

LEMMA EnqueueFacts ==
    ASSUME NEW s \in StreamType, NEW es, NEW n \in Nat, Enqueue(s, es, n)
    PROVE  /\ queue' = queue \o es /\ stream' \in StreamType
           /\ stream'.queuedRows = s.queuedRows + n
           /\ stream'.live = s.live /\ stream'.ended = s.ended /\ stream'.failed = s.failed
           /\ stream'.lost = s.lost /\ stream'.diverged = s.diverged /\ stream'.last = s.last
  BY DEF Enqueue, StreamType

\* The common part of these steps: what is left are carrier, fold and jobs.
LEMMA EnqueueStep ==
    ASSUME WriterInv, Grows, UNCHANGED <<log, content, owned>>,
           NEW s \in StreamType, s.failed = stream.failed, s.last = stream.last,
           s.diverged = stream.diverged, s.queuedRows = stream.queuedRows,
           NEW es, NEW n \in Nat, Enqueue(s, es, n),
           NEW b \in Nat, b <= Len(events'), from' = b + 1, Batch(es, from - 1, b, n),
           NEW K, Made(es, events', K), \A x \in b + 1 .. Len(events') : events'[x].kind = "token",
           folded' \in 0 .. Len(events'), carrier' \in Phases, AwaitInv', FoldInv',
           \/ UNCHANGED jobs
           \/ \E sample \in BOOLEAN, m \in 0 .. Len(events') : Sample(sample, m)
    PROVE  WriterInv'
  <1>1. TypeOK
    BY DEF WriterInv
  <1>2. /\ Top \in Nat /\ log \in Seq(RowType) /\ content \in [n : 0 .. Top, cursor : Nat]
        /\ stream.queuedRows \in Nat
    BY <1>1, TypeFacts
  <1>3. Top' = Len(events') /\ Top' \in Nat /\ Top <= Top' /\ events' \in Seq(EventType)
    BY DEF Grows, Top
  <1>4. /\ queue' = queue \o es /\ stream' \in StreamType
        /\ stream'.queuedRows = stream.queuedRows + n
        /\ stream'.failed = stream.failed /\ stream'.last = stream.last
        /\ stream'.diverged = stream.diverged
    BY EnqueueFacts
  <1>5. QueueInv' /\ BufferInv' /\ queue' \in Seq(EntryType) /\ stream'.queuedRows \in Nat
    BY <1>4, EnqueueKeeps DEF Made
  <1>6. /\ LogInv' /\ LinesRise' /\ PairInv' /\ CursorPairsContent'
        /\ FinalContentHoldsLog'
        /\ \A k \in 0 .. Top, c \in Nat :
              Pairs(log, events, k, c) => Pairs(log', events', k, c)
    BY <1>4, GrowKeeps
  <1>7. /\ JobsInv' /\ fenced' \in BOOLEAN /\ sampled' \in 0 .. MaxCheckpoints
        /\ inflight' \in [n : 0 .. Top', ready : BOOLEAN, cursor : Nat]
        /\ pending' \in [n : 0 .. Top', ready : BOOLEAN, cursor : Nat]
    <2>1. CASE UNCHANGED jobs
      BY <1>3, <1>6, <2>1, JobsStay
    <2>2. ASSUME NEW sample \in BOOLEAN, NEW m \in 0 .. Len(events'), Sample(sample, m)
          PROVE  /\ JobsInv' /\ fenced' \in BOOLEAN /\ sampled' \in 0 .. MaxCheckpoints
                 /\ inflight' \in [n : 0 .. Top', ready : BOOLEAN, cursor : Nat]
                 /\ pending' \in [n : 0 .. Top', ready : BOOLEAN, cursor : Nat]
      <3>1. m \in Nat /\ m <= Top'
        BY <1>3
      <3>. QED
        BY <1>3, <1>6, <2>2, <3>1, SampleKeeps
    <2>. QED
      BY <2>1, <2>2
  <1>8. TypeOK'
    <2>1. content' \in [n : 0 .. Top', cursor : Nat]
      BY <1>2, <1>3
    <2>2. owned' \in BOOLEAN /\ from' \in 1 .. Top' + 1
      BY <1>1, <1>3 DEF TypeOK
    <2>. QED
      BY <1>2, <1>3, <1>4, <1>5, <1>7, <2>1, <2>2, TypeNext DEF StreamType
  <1>. QED
    BY <1>5, <1>6, <1>7, <1>8 DEF WriterInv

\* The rows a token writes: what it does not merge with, and itself if sampled.
Rest(lo, hi) == BufferRow(lo, hi, 1, FALSE)

LEMMA TokenRows ==
    ASSUME NEW f \in Nat \ {0}, NEW lo \in Nat, NEW next \in Nat, f <= lo, lo <= next,
           NEW evs, Len(evs) \in Nat, next - 1 <= Len(evs),
           \A x \in f .. next - 1 : evs[x].kind = "token"
    PROVE  /\ Rest(f, lo - 1) \o Rest(lo, next - 1) \in Seq(EntryType)
           /\ Len(Rest(f, lo - 1) \o Rest(lo, next - 1)) \in Nat
           /\ Batch(Rest(f, lo - 1) \o Rest(lo, next - 1), f - 1, next - 1,
                    Len(Rest(f, lo - 1) \o Rest(lo, next - 1)))
           /\ Made(Rest(f, lo - 1) \o Rest(lo, next - 1), evs, {"token"})
  <1>1. /\ f - 1 \in Nat /\ lo - 1 \in Nat /\ next - 1 \in Nat /\ lo \in Nat \ {0}
        /\ f <= (lo - 1) + 1 /\ lo <= (next - 1) + 1 /\ lo - 1 <= Len(evs)
        /\ \A x \in f .. lo - 1 : x \in f .. next - 1
        /\ \A x \in lo .. next - 1 : x \in f .. next - 1
    OBVIOUS
  <1>2. /\ Batch(Rest(f, lo - 1), f - 1, lo - 1, Len(Rest(f, lo - 1)))
        /\ Made(Rest(f, lo - 1), evs, {"token"}) /\ Rest(f, lo - 1) \in Seq(EntryType)
    BY <1>1, BufferRowBatch DEF Rest
  <1>3. /\ Batch(Rest(lo, next - 1), lo - 1, next - 1, Len(Rest(lo, next - 1)))
        /\ Made(Rest(lo, next - 1), evs, {"token"}) /\ Rest(lo, next - 1) \in Seq(EntryType)
    BY <1>1, BufferRowBatch DEF Rest
  <1>4. Len(Rest(f, lo - 1)) \in Nat /\ Len(Rest(lo, next - 1)) \in Nat
    BY <1>2, <1>3, SeqFacts
  <1>5. /\ Rest(f, lo - 1) \o Rest(lo, next - 1) \in Seq(EntryType)
        /\ Len(Rest(f, lo - 1) \o Rest(lo, next - 1))
              = Len(Rest(f, lo - 1)) + Len(Rest(lo, next - 1))
    BY <1>2, <1>3, ConcatProperties
  <1>6. Made(Rest(f, lo - 1) \o Rest(lo, next - 1), evs, {"token"})
    <2>1. {"token"} \cup {"token"} = {"token"}
      OBVIOUS
    <2>2. Made(Rest(f, lo - 1) \o Rest(lo, next - 1), evs, {"token"} \cup {"token"})
      BY <1>2, <1>3, ConcatMade
    <2>. QED
      BY <2>1, <2>2
  <1>7. Batch(Rest(f, lo - 1) \o Rest(lo, next - 1), f - 1, next - 1,
              Len(Rest(f, lo - 1)) + Len(Rest(lo, next - 1)))
    BY <1>1, <1>2, <1>3, <1>4, ConcatBatch
  <1>. QED
    BY <1>4, <1>5, <1>6, <1>7

\* A batch with a settle marker behind it.
LEMMA MarkedBatch ==
    ASSUME NEW rows \in Seq(EntryType), NEW a \in Nat, NEW b \in Nat, NEW n \in Nat, NEW K,
           NEW evs, Len(evs) \in Nat, b <= Len(evs), NEW sample \in BOOLEAN,
           NEW m \in Nat, sample => m = b,
           Batch(rows, a, b, n), Made(rows, evs, K)
    PROVE  /\ rows \o Marker(sample, m) \in Seq(EntryType)
           /\ Batch(rows \o Marker(sample, m), a, b, n)
           /\ Made(rows \o Marker(sample, m), evs, K \cup {"settle"})
           /\ ~sample => rows \o Marker(sample, m) = rows
  <1>1. CASE sample
    <2>1. m = b
      BY <1>1
    <2>2. /\ Batch(Marker(sample, m), b, b, 0) /\ Made(Marker(sample, m), evs, {"settle"})
          /\ Marker(sample, m) \in Seq(EntryType)
      BY <2>1, MarkerBatch
    <2>3. Batch(rows \o Marker(sample, m), a, b, n + 0) /\ n + 0 = n
      BY <2>2, ConcatBatch
    <2>4. /\ rows \o Marker(sample, m) \in Seq(EntryType)
          /\ Made(rows \o Marker(sample, m), evs, K \cup {"settle"})
      BY <2>2, ConcatFacts, ConcatMade
    <2>. QED
      BY <1>1, <2>3, <2>4
  <1>2. CASE ~sample
    <2>1. rows \o Marker(sample, m) = rows
      BY <1>2 DEF Marker
    <2>2. Made(rows, evs, K \cup {"settle"})
      BY DEF Made
    <2>. QED
      BY <2>1, <2>2
  <1>. QED
    BY <1>1, <1>2

LEMMA EmitTokenStep ==
    ASSUME WriterInv, NEW fresh \in BOOLEAN, NEW sample \in BOOLEAN, EmitToken(fresh, sample)
    PROVE  WriterInv'
  <1>. DEFINE merges == from <= Top /\ ~fresh
              lo == IF merges THEN from ELSE Top + 1
              rows == (IF merges THEN <<>> ELSE BufferRow(from, Top, 1, FALSE))
                      \o (IF sample THEN BufferRow(lo, Top + 1, 1, FALSE) ELSE <<>>)
  <1>1. TypeOK /\ LinesRise /\ BufferInv /\ AwaitInv
    BY DEF WriterInv
  <1>2. /\ Top \in Nat /\ from \in 1 .. Top + 1 /\ from - 1 \in Nat /\ folded \in 0 .. Top
        /\ queue \in Seq(EntryType) /\ log \in Seq(RowType)
        /\ stream \in StreamType /\ content \in [n : 0 .. Top, cursor : Nat]
    BY <1>1, TypeFacts DEF StreamType
  <1>3. /\ Reads("token", fresh) /\ folded' = Top + 1
        /\ Enqueue(stream, rows \o Marker(sample, Top + 1), Len(rows))
        /\ from' = (IF sample THEN Top + 2 ELSE lo) /\ Sample(sample, Top + 1)
        /\ UNCHANGED <<log, content, carrier, owned>>
    BY DEF EmitToken
  <1>4. /\ Grows /\ Top' = Top + 1 /\ events'[Top + 1].kind = "token" /\ carrier = "reading"
    BY <1>1, <1>3, ReadsGrow DEF Content
  <1>5. /\ \A x \in 1 .. Top : events'[x] = events[x]
        /\ Len(events') = Top + 1 /\ events' \in Seq(EventType)
    BY <1>4 DEF Grows, Top
  <1>6. \A x \in from .. Top + 1 : events'[x].kind = "token"
    <2>1. \A x \in from .. Top : events'[x].kind = "token"
      BY <1>1, <1>2, <1>5 DEF BufferInv
    <2>2. \A x \in from .. Top + 1 : x \in from .. Top \/ x = Top + 1
      BY <1>2
    <2>. QED
      BY <1>4, <2>1, <2>2
  <1>a. Top \in Nat /\ from \in 1 .. Top + 1 /\ Len(events') = Top + 1 /\ Top' = Top + 1
    BY <1>2, <1>4, <1>5
  <1>7. lo \in 1 .. Top + 1 /\ from <= lo
    BY <1>2
  <1>b. PICK b \in Nat : /\ from' = b + 1 /\ b + 1 = (IF sample THEN Top + 2 ELSE lo)
                         /\ lo <= b + 1 /\ b <= Top + 1
    <2>1. CASE sample
      <3>1. from' = (Top + 1) + 1 /\ Top + 1 \in Nat /\ lo <= (Top + 1) + 1
        BY <1>2, <1>3, <1>7, <2>1
      <3>. QED
        BY <1>a, <2>1, <3>1
    <2>2. CASE ~sample
      <3>1. from' = (lo - 1) + 1 /\ lo - 1 \in Nat
        BY <1>2, <1>3, <1>7, <2>2
      <3>2. lo = (lo - 1) + 1 /\ lo - 1 <= Top + 1
        BY <1>a, <1>7
      <3>. HIDE DEF lo
      <3>. QED
        BY <1>a, <1>7, <2>2, <3>1, <3>2
    <2>. QED
      BY <2>1, <2>2
  <1>11. sample => Top + 1 = b
    BY <1>a, <1>b
  <1>8. rows = Rest(from, lo - 1) \o Rest(lo, b)
    <2>1. Rest(from, lo - 1) = IF merges THEN <<>> ELSE BufferRow(from, Top, 1, FALSE)
      <3>1. CASE merges
        <4>1. lo = from /\ from > lo - 1
          BY <1>2, <3>1
        <4>. HIDE DEF lo
        <4>. QED
          BY <3>1, <4>1 DEF Rest, BufferRow
      <3>2. CASE ~merges
        <4>1. lo - 1 = Top
          BY <1>2, <3>2
        <4>. HIDE DEF lo
        <4>. QED
          BY <3>2, <4>1 DEF Rest
      <3>. QED
        BY <3>1, <3>2
    <2>2. Rest(lo, b) = IF sample THEN BufferRow(lo, Top + 1, 1, FALSE) ELSE <<>>
      <3>. HIDE DEF lo, merges
      <3>1. CASE sample
        <4>1. b = Top + 1
          BY <1>11, <3>1
        <4>. QED
          BY <3>1, <4>1 DEF Rest
      <3>2. CASE ~sample
        <4>1. lo > b
          BY <1>7, <1>b, <3>2
        <4>. QED
          BY <3>2, <4>1 DEF Rest, BufferRow
      <3>. QED
        BY <3>1, <3>2
    <2>. QED
      BY <2>1, <2>2
  <1>. HIDE DEF merges, lo, rows
  <1>9. /\ rows \in Seq(EntryType) /\ Len(rows) \in Nat
        /\ Batch(rows, from - 1, b, Len(rows)) /\ Made(rows, events', {"token"})
    <2>1. \A x \in from .. b : events'[x].kind = "token"
      BY <1>a, <1>b, <1>6
    <2>2. /\ Len(events') \in Nat /\ b <= Len(events') /\ from \in Nat \ {0}
          /\ lo \in Nat
      BY <1>a, <1>b, <1>7
    <2>3. b + 1 \in Nat /\ (b + 1) - 1 = b
      OBVIOUS
    <2>. QED
      BY <1>7, <1>8, <1>b, <2>1, <2>2, <2>3, TokenRows
  <1>10. from' \in 1 .. Top' + 1
    BY <1>a, <1>b
  <1>. DEFINE es == rows \o Marker(sample, Top + 1)
  <1>12. /\ Batch(es, from - 1, b, Len(rows)) /\ es \in Seq(EntryType)
         /\ Made(es, events', {"token", "settle"})
    <2>1. {"token"} \cup {"settle"} = {"token", "settle"} /\ Top + 1 \in Nat
      BY <1>2
    <2>2. Len(events') \in Nat /\ b <= Len(events')
      BY <1>a, <1>b
    <2>4. from - 1 \in Nat
      BY <1>a
    <2>3. /\ rows \o Marker(sample, Top + 1) \in Seq(EntryType)
          /\ Batch(rows \o Marker(sample, Top + 1), from - 1, b, Len(rows))
          /\ Made(rows \o Marker(sample, Top + 1), events', {"token"} \cup {"settle"})
      BY <1>9, <1>11, <2>1, <2>2, <2>4, MarkedBatch
    <2>. QED
      BY <2>1, <2>3
  <1>. HIDE DEF es
  <1>13. Enqueue(stream, es, Len(rows))
    BY <1>3 DEF es, rows
  <1>14. \A x \in b + 1 .. Len(events') : events'[x].kind = "token"
    BY <1>a, <1>b, <1>6, <1>7
  <1>15. AwaitInv'
    <2>1. \A i \in DOMAIN queue : queue[i].kind \in Quiet
      BY <1>4, QuietQueue
    <2>2. queue' = queue \o es
      BY <1>13 DEF Enqueue
    <2>3. \A i \in DOMAIN queue' : queue'[i].kind \in Quiet
      BY <1>12, <2>1, <2>2, QuietEnqueue DEF Quiet
    <2>4. carrier' = "reading"
      BY <1>3, <1>4
    <2>. QED
      BY <2>3, <2>4 DEF AwaitInv, Quiet
  <1>16. FoldInv'
    BY <1>a, <1>3 DEF FoldInv, Unfolded
  <1>17. folded' \in 0 .. Len(events') /\ b <= Len(events') /\ Top + 1 \in 0 .. Len(events')
    BY <1>a, <1>b, <1>3
  <1>18. carrier' \in Phases
    BY <1>1, <1>3 DEF TypeOK
  <1>19. UNCHANGED <<log, content, owned>> /\ Sample(sample, Top + 1)
    BY <1>3
  <1>20. stream \in StreamType /\ Len(rows) \in Nat
    BY <1>2, <1>9
  <1>. QED
    BY <1>4, <1>b, <1>12, <1>13, <1>14, <1>15, <1>16, <1>17, <1>18, <1>19, <1>20, EnqueueStep

\* What the events in front of the buffer are for the enlarged sequence.
LEMMA ReadFacts ==
    ASSUME WriterInv, NEW kind \in {"tool", "note", "suspended"}, NEW fresh \in BOOLEAN,
           Reads(kind, fresh)
    PROVE  /\ Grows /\ Top \in Nat /\ Len(events') = Top + 1 /\ carrier = "reading"
           /\ from - 1 \in Nat /\ folded \in 0 .. Top /\ stream \in StreamType
           /\ Len(WithBuffer(kind, Top + 1, Top + 1)) \in Nat
           /\ WithBuffer(kind, Top + 1, Top + 1) \in Seq(EntryType)
           /\ Batch(WithBuffer(kind, Top + 1, Top + 1), from - 1, Top + 1,
                    Len(WithBuffer(kind, Top + 1, Top + 1)))
           /\ Made(WithBuffer(kind, Top + 1, Top + 1), events', {"token", kind})
           /\ \A i \in DOMAIN WithBuffer(kind, Top + 1, Top + 1) :
                 /\ WithBuffer(kind, Top + 1, Top + 1)[i].lo <= Top + 1
                 /\ WithBuffer(kind, Top + 1, Top + 1)[i].kind = kind =>
                       WithBuffer(kind, Top + 1, Top + 1)[i].hi = Top + 1
           /\ events'[Top + 1].kind = kind
           /\ \A x \in (Top + 1) + 1 .. Len(events') : events'[x].kind = "token"
           /\ \A i \in DOMAIN queue : queue[i].kind \in Quiet
           /\ queue \in Seq(EntryType) /\ owned \in BOOLEAN
  <1>1. TypeOK /\ LinesRise /\ BufferInv
    BY DEF WriterInv
  <1>2. /\ Top \in Nat /\ from - 1 \in Nat /\ folded \in 0 .. Top /\ stream \in StreamType
        /\ queue \in Seq(EntryType)
    BY <1>1, TypeFacts DEF StreamType
  <1>3. /\ Grows /\ Top' = Top + 1 /\ events'[Top + 1].kind = kind /\ carrier = "reading"
    BY <1>1, ReadsGrow DEF Content
  <1>4. /\ \A x \in 1 .. Top : events'[x] = events[x]
        /\ Len(events') = Top + 1 /\ Top + 1 \in {Top, Top + 1} /\ Top + 1 <= Len(events')
        /\ Len(events') \in Nat /\ Top + 1 # Top /\ kind \notin Terminal
    BY <1>2, <1>3 DEF Grows, Top, Terminal
  <1>5. /\ WithBuffer(kind, Top + 1, Top + 1) \in Seq(EntryType)
        /\ Batch(WithBuffer(kind, Top + 1, Top + 1), from - 1, Top + 1,
                 Len(WithBuffer(kind, Top + 1, Top + 1)))
        /\ Made(WithBuffer(kind, Top + 1, Top + 1), events', {"token", kind})
        /\ \A i \in DOMAIN WithBuffer(kind, Top + 1, Top + 1) :
              /\ WithBuffer(kind, Top + 1, Top + 1)[i].lo <= Top + 1
              /\ WithBuffer(kind, Top + 1, Top + 1)[i].kind = kind =>
                    WithBuffer(kind, Top + 1, Top + 1)[i].hi = Top + 1
    <2>1. /\ kind \in {"tool", "note", "suspended", "done", "close"}
          /\ (Top + 1 = Top <=> kind \in Terminal)
          /\ (Top + 1 = Top + 1 => (events'[Top + 1].kind \in Content <=> kind \in Content))
      BY <1>3, <1>4
    <2>. QED
      BY <1>1, <1>4, <2>1, WithBufferBatch
  <1>6. \A i \in DOMAIN queue : queue[i].kind \in Quiet
    BY <1>3, QuietQueue
  <1>7. \A x \in (Top + 1) + 1 .. Len(events') : FALSE
    BY <1>2, <1>4
  <1>8. Len(WithBuffer(kind, Top + 1, Top + 1)) \in Nat
    BY <1>5, SeqFacts
  <1>. QED
    BY <1>1, <1>2, <1>3, <1>4, <1>5, <1>6, <1>7, <1>8 DEF TypeOK

LEMMA EmitToolStep ==
    ASSUME WriterInv, NEW fresh \in BOOLEAN, NEW sample \in BOOLEAN, EmitTool(fresh, sample)
    PROVE  WriterInv'
  <1>. DEFINE rows == WithBuffer("tool", Top + 1, Top + 1)
              over == stream.queuedRows + Len(rows) > MaxPendingRows
              es == rows \o Marker(sample, Top + 1)
  <1>1. /\ Reads("tool", fresh) /\ Enqueue(stream, es, Len(rows)) /\ (over => ~sample)
        /\ carrier' = (IF over THEN "waiting" ELSE "reading")
        /\ folded' = (IF over THEN folded ELSE Top + 1)
        /\ from' = Top + 2 /\ Sample(sample, Top + 1)
        /\ UNCHANGED <<log, content, owned>>
    BY DEF EmitTool
  <1>2. /\ Grows /\ Top \in Nat /\ Len(events') = Top + 1 /\ carrier = "reading"
        /\ from - 1 \in Nat /\ folded \in 0 .. Top /\ stream \in StreamType
        /\ Len(rows) \in Nat /\ rows \in Seq(EntryType)
        /\ Batch(rows, from - 1, Top + 1, Len(rows)) /\ Made(rows, events', {"token", "tool"})
        /\ \A i \in DOMAIN rows : rows[i].lo <= Top + 1
        /\ events'[Top + 1].kind = "tool"
        /\ \A x \in (Top + 1) + 1 .. Len(events') : events'[x].kind = "token"
        /\ \A i \in DOMAIN queue : queue[i].kind \in Quiet
        /\ queue \in Seq(EntryType)
    BY <1>1, ReadFacts
  <1>. HIDE DEF rows, over
  <1>3. /\ es \in Seq(EntryType) /\ Batch(es, from - 1, Top + 1, Len(rows))
        /\ Made(es, events', {"token", "tool"} \cup {"settle"})
        /\ ~sample => es = rows
    <2>1. /\ Top + 1 \in Nat /\ Top + 1 <= Len(events') /\ Len(events') \in Nat
          /\ rows \in Seq(EntryType) /\ Len(rows) \in Nat /\ from - 1 \in Nat
          /\ Batch(rows, from - 1, Top + 1, Len(rows)) /\ Made(rows, events', {"token", "tool"})
          /\ (sample => Top + 1 = Top + 1)
      BY <1>2
    <2>2. PICK b \in Nat : b = Top + 1
      BY <2>1
    <2>3. /\ rows \o Marker(sample, b) \in Seq(EntryType)
          /\ Batch(rows \o Marker(sample, b), from - 1, b, Len(rows))
          /\ Made(rows \o Marker(sample, b), events', {"token", "tool"} \cup {"settle"})
      BY <2>1, <2>2, MarkedBatch
    <2>4. ~sample => rows \o Marker(sample, b) = rows
      BY <2>1 DEF Marker
    <2>. QED
      BY <2>2, <2>3, <2>4
  <1>. HIDE DEF es
  <1>4. queue' = queue \o es /\ Top' = Top + 1
    BY <1>1, <1>2 DEF Enqueue, Top
  <1>5. AwaitInv'
    <2>1. \A i \in DOMAIN queue' : queue'[i].kind \in Quiet
      <3>1. {"token", "tool"} \cup {"settle"} \in SUBSET Quiet
        BY DEF Quiet
      <3>. QED
        BY <1>2, <1>3, <1>4, <3>1, QuietEnqueue
    <2>2. ASSUME carrier' = "waiting"
          PROVE  from' = Top' + 1 /\ \A i \in DOMAIN queue' : queue'[i].lo <= Top'
      <3>1. es = rows
        BY <1>1, <1>3, <2>2
      <3>2. \A i \in DOMAIN queue : queue[i].lo <= Top + 1
        BY EntriesBegin
      <3>3. \A i \in DOMAIN queue' : queue'[i].lo <= Top + 1
        BY <1>2, <1>3, <1>4, <3>1, <3>2, ConcatMembers
      <3>4. from' = Top' + 1
        BY <1>1, <1>2, <1>4
      <3>. QED
        BY <1>4, <3>3, <3>4
    <2>. QED
      BY <2>1, <2>2 DEF AwaitInv, Quiet
  <1>6. FoldInv'
    <2>1. \A x \in 1 .. Top : events[x].kind \in Content => x <= folded
      BY <1>2, AllFolded
    <2>2. \A x \in 1 .. Top : events'[x] = events[x]
      BY <1>2 DEF Grows
    <2>3. SUFFICES ASSUME NEW x \in 1 .. Top + 1, events'[x].kind \in Content, x > folded'
                   PROVE  x = Top + 1 /\ carrier' = "waiting" /\ ~Covered(x, log')
      BY <1>4 DEF FoldInv, Unfolded
    <2>4. over /\ folded' = folded
      BY <1>1, <1>2, <2>3
    <2>5. x = Top + 1
      BY <1>2, <2>1, <2>2, <2>3, <2>4
    <2>6. \A i \in DOMAIN log : log[i].hi <= Top /\ log[i].hi \in Nat
      <3>1. LogInv /\ log \in Seq(RowType)
        BY TypeFacts DEF WriterInv
      <3>2. \A i \in DOMAIN log : log[i] \in RowType /\ Fits(log[i], events)
        BY <3>1, SeqFacts DEF LogInv
      <3>. QED
        BY <3>2 DEF Fits, RowType, Top
    <2>7. ~Covered(x, log)
      BY <1>2, <2>5, <2>6 DEF Covered
    <2>. QED
      BY <1>1, <2>4, <2>5, <2>7
  <1>7. /\ folded' \in 0 .. Len(events') /\ Top + 1 <= Len(events') /\ Top + 1 \in 0 .. Len(events')
        /\ carrier' \in Phases /\ Top + 1 \in Nat /\ from' = (Top + 1) + 1
    BY <1>1, <1>2 DEF Phases
  <1>8. /\ UNCHANGED <<log, content, owned>> /\ Sample(sample, Top + 1)
        /\ Enqueue(stream, es, Len(rows))
    BY <1>1 DEF es
  <1>. QED
    BY <1>2, <1>3, <1>5, <1>6, <1>7, <1>8, EnqueueStep

LEMMA EmitNoteStep ==
    ASSUME WriterInv, NEW fresh \in BOOLEAN, NEW kind \in {"note", "suspended"},
           EmitNote(fresh, kind)
    PROVE  WriterInv'
  <1>. DEFINE rows == WithBuffer(kind, Top + 1, Top + 1)
  <1>1. /\ Reads(kind, fresh) /\ Enqueue(stream, rows, Len(rows)) /\ from' = Top + 2
        /\ carrier' = (IF kind = "note" THEN "noting" ELSE "suspending")
        /\ UNCHANGED <<folded, log, content, jobs, owned>>
    BY DEF EmitNote
  <1>2. /\ Grows /\ Top \in Nat /\ Len(events') = Top + 1 /\ carrier = "reading"
        /\ from - 1 \in Nat /\ folded \in 0 .. Top /\ stream \in StreamType
        /\ Len(rows) \in Nat /\ rows \in Seq(EntryType)
        /\ Batch(rows, from - 1, Top + 1, Len(rows)) /\ Made(rows, events', {"token", kind})
        /\ \A i \in DOMAIN rows : rows[i].kind = kind => rows[i].hi = Top + 1
        /\ events'[Top + 1].kind = kind
        /\ \A x \in (Top + 1) + 1 .. Len(events') : events'[x].kind = "token"
        /\ \A i \in DOMAIN queue : queue[i].kind \in Quiet
        /\ queue \in Seq(EntryType)
    BY <1>1, ReadFacts
  <1>. HIDE DEF rows
  <1>4. queue' = queue \o rows /\ Top' = Top + 1
    BY <1>1, <1>2 DEF Enqueue, Top
  <1>5. AwaitInv'
    <2>1. \A i \in DOMAIN queue' : \/ queue'[i].kind \in Quiet
                                   \/ queue'[i].kind = kind /\ queue'[i].hi = Top'
      <3>1. \A i \in DOMAIN rows : \/ rows[i].kind \in Quiet
                                   \/ rows[i].kind = kind /\ rows[i].hi = Top'
        BY <1>2, <1>4 DEF Made, Quiet
      <3>. QED
        BY <1>2, <1>4, <3>1, ConcatMembers
    <2>. QED
      BY <1>1, <2>1 DEF AwaitInv, Quiet
  <1>6. FoldInv'
    <2>1. \A x \in 1 .. Top : events[x].kind \in Content => x <= folded
      BY <1>2, AllFolded
    <2>2. \A x \in 1 .. Top : events'[x] = events[x]
      BY <1>2 DEF Grows
    <2>3. ASSUME NEW x \in 1 .. Top + 1, events'[x].kind \in Content, x > folded'
          PROVE  FALSE
      <3>1. CASE x = Top + 1
        BY <1>2, <2>3, <3>1 DEF Content
      <3>2. CASE x \in 1 .. Top
        BY <1>1, <1>2, <2>1, <2>2, <2>3, <3>2
      <3>. QED
        BY <1>2, <3>1, <3>2
    <2>. QED
      BY <1>4, <2>3 DEF FoldInv, Unfolded
  <1>7. /\ folded' \in 0 .. Len(events') /\ Top + 1 <= Len(events')
        /\ carrier' \in Phases /\ Top + 1 \in Nat /\ from' = (Top + 1) + 1
    BY <1>1, <1>2 DEF Phases, Awaiting
  <1>8. UNCHANGED <<log, content, owned>> /\ UNCHANGED jobs /\ Enqueue(stream, rows, Len(rows))
    BY <1>1 DEF jobs
  <1>. QED
    BY <1>2, <1>5, <1>6, <1>7, <1>8, EnqueueStep

\* The common facts of the steps that read no event.
LEMMA StillFacts ==
    ASSUME WriterInv, UNCHANGED events
    PROVE  /\ Grows /\ Top \in Nat /\ Len(events') = Top /\ Top' = Top
           /\ from - 1 \in Nat /\ from \in 1 .. Top + 1 /\ folded \in 0 .. Top
           /\ stream \in StreamType
           /\ queue \in Seq(EntryType) /\ owned \in BOOLEAN /\ carrier \in Phases
           /\ \A x \in Top + 1 .. Len(events') : events'[x].kind = "token"
           /\ \A x \in from .. Top : events'[x].kind = "token"
           /\ \A i \in DOMAIN queue : queue[i].lo <= Top + 1
  <1>1. TypeOK /\ LinesRise /\ BufferInv
    BY DEF WriterInv
  <1>2. Grows /\ Top' = Top
    BY <1>1, SameEvents
  <1>3. /\ Top \in Nat /\ from - 1 \in Nat /\ from \in 1 .. Top + 1 /\ folded \in 0 .. Top
        /\ stream \in StreamType /\ queue \in Seq(EntryType)
    BY <1>1, TypeFacts DEF StreamType
  <1>4. Len(events') = Top
    BY <1>2 DEF Top
  <1>5. \A x \in from .. Top : events'[x].kind = "token"
    BY <1>1 DEF BufferInv
  <1>. QED
    BY <1>1, <1>2, <1>3, <1>4, <1>5, EntriesBegin DEF TypeOK

LEMMA BufferRowStill ==
    ASSUME WriterInv, UNCHANGED events
    PROVE  /\ Rest(from, Top) \in Seq(EntryType)
           /\ Batch(Rest(from, Top), from - 1, Top, Len(Rest(from, Top)))
           /\ Made(Rest(from, Top), events', {"token"})
           /\ Len(Rest(from, Top)) = IF from > Top THEN 0 ELSE 1
  <1>1. /\ Top \in Nat /\ Len(events') = Top /\ from \in Nat \ {0} /\ from <= Top + 1
        /\ \A x \in from .. Top : events'[x].kind = "token"
    BY StillFacts
  <1>2. Len(events') \in Nat /\ Top <= Len(events')
    BY <1>1
  <1>. QED
    BY <1>1, <1>2, BufferRowBatch DEF Rest

LEMMA FlushTimerStep ==
    ASSUME WriterInv, FlushTimer
    PROVE  WriterInv'
  <1>1. /\ from <= Top /\ from' = Top + 1 /\ UNCHANGED <<events, log, content, owned>>
        /\ UNCHANGED jobs /\ folded' = folded /\ carrier' = carrier
        /\ Enqueue(stream, Rest(from, Top), IF from > Top THEN 0 ELSE 1)
    BY DEF FlushTimer, ScheduleBufferWrite, Rest
  <1>2. /\ Grows /\ Top \in Nat /\ Len(events') = Top /\ Top' = Top
        /\ from \in 1 .. Top + 1 /\ folded \in 0 .. Top
        /\ stream \in StreamType /\ queue \in Seq(EntryType) /\ carrier \in Phases
        /\ \A x \in Top + 1 .. Len(events') : events'[x].kind = "token"
    BY <1>1, StillFacts
  <1>3. /\ Rest(from, Top) \in Seq(EntryType) /\ Len(Rest(from, Top)) = 1
        /\ Batch(Rest(from, Top), from - 1, Top, Len(Rest(from, Top)))
        /\ Made(Rest(from, Top), events', {"token"})
    BY <1>1, <1>2, BufferRowStill
  <1>4. Enqueue(stream, Rest(from, Top), 1)
    BY <1>1, <1>2
  <1>5. queue' = queue \o Rest(from, Top) /\ stream'.ended = stream.ended
        /\ stream'.failed = stream.failed
    BY <1>2, <1>4, EnqueueFacts
  <1>6. AwaitInv'
    <2>1. AwaitInv /\ from # Top + 1
      BY <1>1, <1>2 DEF WriterInv
    <2>2. carrier # "waiting" /\ \A i \in DOMAIN queue : queue[i].kind # "done"
      BY <2>1 DEF AwaitInv
    <2>3. \A i \in DOMAIN Rest(from, Top) : Rest(from, Top)[i].kind = "token"
      BY <1>3 DEF Made
    <2>4. \A i \in DOMAIN queue' :
             \/ queue'[i].kind = "token"
             \/ i \in DOMAIN queue /\ queue'[i] = queue[i] /\ queue[i].kind # "done"
      BY <1>2, <1>3, <1>5, <2>2, <2>3, ConcatMembers
    <2>. QED
      BY <1>1, <1>2, <2>1, <2>2, <2>4 DEF AwaitInv
  <1>7. FoldInv'
    <2>1. FoldInv
      BY DEF WriterInv
    <2>. QED
      BY <1>1, <1>2, <1>5, <2>1 DEF FoldInv, Unfolded
  <1>8. UNCHANGED <<log, content, owned>> /\ folded' \in 0 .. Len(events') /\ Top <= Len(events')
        /\ carrier' \in Phases /\ 1 \in Nat
    BY <1>1, <1>2
  <1>. QED
    BY <1>1, <1>2, <1>3, <1>4, <1>6, <1>7, <1>8, EnqueueStep

LEMMA CapacityBackStep ==
    ASSUME WriterInv, NEW sample \in BOOLEAN, CapacityBack(sample)
    PROVE  WriterInv'
  <1>1. /\ carrier = "waiting" /\ carrier' = "reading" /\ folded' = Top
        /\ Enqueue(stream, Marker(sample, Top), 0) /\ Sample(sample, Top)
        /\ UNCHANGED <<events, from, log, content, owned>>
    BY DEF CapacityBack
  <1>2. /\ Grows /\ Top \in Nat /\ Len(events') = Top /\ Top' = Top
        /\ stream \in StreamType /\ queue \in Seq(EntryType)
        /\ \A x \in Top + 1 .. Len(events') : events'[x].kind = "token"
    BY <1>1, StillFacts
  <1>3. AwaitInv
    BY DEF WriterInv
  <1>4. from = Top + 1 /\ from' = Top + 1 /\ from - 1 = Top
    BY <1>1, <1>2, <1>3 DEF AwaitInv
  <1>5. /\ Batch(Marker(sample, Top), from - 1, Top, 0)
        /\ Made(Marker(sample, Top), events', {"settle"})
        /\ Marker(sample, Top) \in Seq(EntryType)
    <2>1. Len(events') \in Nat /\ Top <= Len(events')
      BY <1>2
    <2>. QED
      BY <1>2, <1>4, <2>1, MarkerBatch
  <1>6. AwaitInv'
    <2>1. queue' = queue \o Marker(sample, Top)
      BY <1>1 DEF Enqueue
    <2>2. \A i \in DOMAIN queue : queue[i].kind \in Quiet
      BY <1>1, QuietQueue
    <2>3. \A i \in DOMAIN queue' : queue'[i].kind \in Quiet
      BY <1>5, <2>1, <2>2, QuietEnqueue DEF Quiet
    <2>. QED
      BY <1>1, <2>3 DEF AwaitInv, Quiet
  <1>7. FoldInv'
    BY <1>1, <1>2 DEF FoldInv, Unfolded
  <1>8. UNCHANGED <<log, content, owned>> /\ folded' \in 0 .. Len(events') /\ Top <= Len(events')
        /\ carrier' \in Phases /\ 0 \in Nat /\ Top \in 0 .. Len(events')
    BY <1>1, <1>2 DEF Phases
  <1>. QED
    BY <1>1, <1>2, <1>4, <1>5, <1>6, <1>7, <1>8, EnqueueStep

LEMMA EndStreamStep ==
    ASSUME WriterInv, EndStream, stream.live
    PROVE  WriterInv'
  <1>. DEFINE s == [stream EXCEPT !.live = FALSE]
              n == IF from > Top THEN 0 ELSE 1
  <1>1. /\ carrier = "draining" /\ carrier' = "stopped" /\ folded' = folded
        /\ Enqueue(s, Rest(from, Top), n)
        /\ from' = Top + 1 /\ UNCHANGED jobs
        /\ UNCHANGED <<events, log, content, owned>>
    BY DEF EndStream, ScheduleBufferWrite, Rest
  <1>2. /\ Grows /\ Top \in Nat /\ Len(events') = Top /\ Top' = Top
        /\ from \in 1 .. Top + 1 /\ folded \in 0 .. Top
        /\ stream \in StreamType /\ queue \in Seq(EntryType)
        /\ \A x \in Top + 1 .. Len(events') : events'[x].kind = "token"
    BY <1>1, StillFacts
  <1>3. /\ Rest(from, Top) \in Seq(EntryType) /\ Len(Rest(from, Top)) = n
        /\ Batch(Rest(from, Top), from - 1, Top, Len(Rest(from, Top)))
        /\ Made(Rest(from, Top), events', {"token"})
    BY <1>1, BufferRowStill
  <1>4. /\ s \in StreamType /\ s.failed = stream.failed /\ s.last = stream.last
        /\ s.diverged = stream.diverged /\ s.queuedRows = stream.queuedRows
    BY <1>2 DEF StreamType
  <1>. HIDE DEF s
  <1>5. AwaitInv'
    <2>1. queue' = queue \o Rest(from, Top)
      BY <1>1 DEF Enqueue
    <2>2. \A i \in DOMAIN queue : queue[i].kind \in Quiet
      BY <1>1, QuietQueue
    <2>3. \A i \in DOMAIN queue' : queue'[i].kind \in Quiet
      BY <1>3, <2>1, <2>2, QuietEnqueue DEF Quiet
    <2>. QED
      BY <1>1, <2>3 DEF AwaitInv, Quiet
  <1>6. FoldInv'
    <2>1. \A x \in 1 .. Top : events[x].kind \in Content => x <= folded
      BY <1>1, AllFolded
    <2>. QED
      BY <1>1, <1>2, <2>1 DEF FoldInv, Unfolded
  <1>7. n \in Nat
    OBVIOUS
  <1>. HIDE DEF n
  <1>8. UNCHANGED <<log, content, owned>> /\ folded' \in 0 .. Len(events') /\ Top <= Len(events')
        /\ carrier' \in Phases
    BY <1>1, <1>2 DEF Phases
  <1>. QED
    BY <1>1, <1>2, <1>3, <1>4, <1>5, <1>6, <1>7, <1>8, EnqueueStep

LEMMA CloseAdmissionFacts ==
    ASSUME WriterInv, NEW kind \in Terminal, UNCHANGED events, CloseAdmission(kind)
    PROVE  \E es \in Seq(EntryType), s \in StreamType, n \in Nat :
              /\ Enqueue(s, es, n) /\ from' = Top + 1
              /\ s.ended /\ s.live = stream.live /\ s.failed = stream.failed
              /\ s.last = stream.last /\ s.diverged = stream.diverged
              /\ s.queuedRows = stream.queuedRows
              /\ Batch(es, from - 1, Top, n) /\ Made(es, events', {"token", kind})
              /\ \A i \in DOMAIN es : es[i].kind = kind => i = Len(es)
  <1>. DEFINE es == WithBuffer(kind, Top + 1, Top)
              s == [stream EXCEPT !.ended = TRUE]
  <1>1. TypeOK /\ BufferInv
    BY DEF WriterInv
  <1>2. Top \in Nat /\ Len(events') = Top /\ stream \in StreamType /\ Top # Top + 1
    BY StillFacts
  <1>3. /\ kind \in {"tool", "note", "suspended", "done", "close"} /\ Top \in {Top, Top + 1}
        /\ Len(events') \in Nat /\ Top <= Len(events')
        /\ \A x \in 1 .. Top : events'[x] = events[x]
        /\ (Top = Top <=> kind \in Terminal)
        /\ (Top = Top + 1 => (events'[Top + 1].kind \in Content <=> kind \in Content))
    BY <1>2 DEF Terminal
  <1>4. /\ es \in Seq(EntryType) /\ Batch(es, from - 1, Top, Len(es))
        /\ Made(es, events', {"token", kind})
        /\ \A i \in DOMAIN es : es[i].kind = kind => i = Len(es)
    BY <1>1, <1>3, WithBufferBatch
  <1>5. /\ s \in StreamType /\ s.ended /\ s.live = stream.live /\ s.failed = stream.failed
        /\ s.last = stream.last /\ s.diverged = stream.diverged
        /\ s.queuedRows = stream.queuedRows
    BY <1>2 DEF StreamType
  <1>6. Enqueue(s, es, Len(es)) /\ from' = Top + 1
    BY DEF CloseAdmission
  <1>7. Len(es) \in Nat
    BY <1>4, SeqFacts
  <1>. HIDE DEF es, s
  <1>. QED
    BY <1>4, <1>5, <1>6, <1>7

LEMMA EmitTerminalStep ==
    ASSUME WriterInv, EmitTerminal, Admits
    PROVE  WriterInv'
  <1>1. /\ carrier = "fencing" /\ CloseAdmission("done") /\ carrier' = "closing"
        /\ UNCHANGED jobs /\ UNCHANGED <<events, folded, log, content, owned>>
        /\ ~stream.ended
    BY DEF EmitTerminal, Admits
  <1>2. PICK es \in Seq(EntryType), s \in StreamType, n \in Nat :
              /\ Enqueue(s, es, n) /\ from' = Top + 1
              /\ s.ended /\ s.live = stream.live /\ s.failed = stream.failed
              /\ s.last = stream.last /\ s.diverged = stream.diverged
              /\ s.queuedRows = stream.queuedRows
              /\ Batch(es, from - 1, Top, n) /\ Made(es, events', {"token", "done"})
              /\ \A i \in DOMAIN es : es[i].kind = "done" => i = Len(es)
    BY <1>1, CloseAdmissionFacts DEF Terminal
  <1>3. /\ Grows /\ Top \in Nat /\ Len(events') = Top /\ Top' = Top
        /\ folded \in 0 .. Top /\ queue \in Seq(EntryType)
        /\ \A x \in Top + 1 .. Len(events') : events'[x].kind = "token"
    BY <1>1, StillFacts
  <1>4. queue' = queue \o es /\ stream'.ended /\ stream'.failed = stream.failed
    BY <1>2, EnqueueFacts
  <1>5. AwaitInv'
    <2>1. \A i \in DOMAIN queue : queue[i].kind \in Quiet
      BY <1>1, QuietQueue
    <2>2. \A i \in DOMAIN es : es[i].kind \in Quiet \/ (es[i].kind = "done" /\ i = Len(es))
      BY <1>2 DEF Made, Quiet
    <2>3. \A i \in DOMAIN queue' : \/ queue'[i].kind \in Quiet
                                   \/ queue'[i].kind = "done" /\ i = Len(queue')
      BY <1>3, <1>4, <2>1, <2>2, ConcatMembers
    <2>. QED
      BY <1>1, <1>2, <1>3, <1>4, <2>3 DEF AwaitInv, Quiet
  <1>6. FoldInv'
    <2>1. FoldInv
      BY DEF WriterInv
    <2>. QED
      BY <1>1, <1>3, <1>4, <2>1 DEF FoldInv, Unfolded
  <1>7. folded' \in 0 .. Len(events') /\ Top <= Len(events') /\ carrier' \in Phases
    BY <1>1, <1>3 DEF Phases, Awaiting
  <1>. QED
    BY <1>1, <1>2, <1>3, <1>5, <1>6, <1>7, EnqueueStep

LEMMA OtherClosesStep ==
    ASSUME WriterInv, OtherCloses
    PROVE  WriterInv'
  <1>1. /\ ~stream.ended /\ CloseAdmission("close") /\ carrier' = carrier /\ folded' = folded
        /\ UNCHANGED jobs /\ UNCHANGED <<events, log, content, owned>>
    BY DEF OtherCloses, Admits
  <1>2. PICK es \in Seq(EntryType), s \in StreamType, n \in Nat :
              /\ Enqueue(s, es, n) /\ from' = Top + 1
              /\ s.ended /\ s.live = stream.live /\ s.failed = stream.failed
              /\ s.last = stream.last /\ s.diverged = stream.diverged
              /\ s.queuedRows = stream.queuedRows
              /\ Batch(es, from - 1, Top, n) /\ Made(es, events', {"token", "close"})
    BY <1>1, CloseAdmissionFacts DEF Terminal
  <1>3. /\ Grows /\ Top \in Nat /\ Len(events') = Top /\ Top' = Top
        /\ folded \in 0 .. Top /\ queue \in Seq(EntryType) /\ carrier \in Phases
        /\ \A x \in Top + 1 .. Len(events') : events'[x].kind = "token"
    BY <1>1, StillFacts
  <1>4. queue' = queue \o es /\ stream'.ended /\ stream'.failed = stream.failed
    BY <1>2, EnqueueFacts
  <1>5. AwaitInv'
    <2>1. AwaitInv
      BY DEF WriterInv
    <2>2. \A i \in DOMAIN es : es[i].kind \in Quiet
      BY <1>2 DEF Made, Quiet
    <2>3. \A i \in DOMAIN queue' :
             \/ queue'[i].kind \in Quiet
             \/ i \in DOMAIN queue /\ queue'[i] = queue[i] /\ queue[i].kind # "done"
      BY <1>1, <1>3, <1>4, <2>1, <2>2, ConcatMembers DEF AwaitInv
    <2>4. \A i \in DOMAIN queue' :
             /\ queue'[i].kind = "note" => carrier' = "noting" /\ queue'[i].hi = Top'
             /\ queue'[i].kind = "suspended" => carrier' = "suspending" /\ queue'[i].hi = Top'
             /\ queue'[i].kind # "done"
      <3>1. \A i \in DOMAIN queue :
               /\ queue[i].kind = "note" => carrier = "noting" /\ queue[i].hi = Top
               /\ queue[i].kind = "suspended" => carrier = "suspending" /\ queue[i].hi = Top
        BY <2>1 DEF AwaitInv
      <3>2. \A k \in Quiet : k # "note" /\ k # "suspended" /\ k # "done"
        BY DEF Quiet
      <3>. QED
        BY <1>1, <1>3, <2>3, <3>1, <3>2
    <2>5. carrier' = "waiting" => from' = Top' + 1
      BY <1>2, <1>3
    <2>. QED
      BY <1>4, <2>4, <2>5 DEF AwaitInv
  <1>6. FoldInv'
    <2>1. FoldInv
      BY DEF WriterInv
    <2>. QED
      BY <1>1, <1>3, <1>4, <2>1 DEF FoldInv, Unfolded
  <1>7. folded' \in 0 .. Len(events') /\ Top <= Len(events') /\ carrier' \in Phases
    BY <1>1, <1>3
  <1>. QED
    BY <1>1, <1>2, <1>3, <1>5, <1>6, <1>7, EnqueueStep

-----------------------------------------------------------------------------
(* The steps that answer the head of the queue *)

LEMMA HeadFacts ==
    ASSUME WriterInv, queue # <<>>
    PROVE  /\ Head(queue) \in EntryType /\ Fits(Head(queue), events)
           /\ Head(queue) = queue[1] /\ 1 \in DOMAIN queue
           /\ LogTop \in Nat /\ LogTop < Head(queue).lo /\ LogTop <= Head(queue).hi
           /\ Head(queue).hi <= Top /\ Head(queue).lo \in Nat /\ Head(queue).hi \in Nat
           /\ ~stream.failed => /\ Head(queue).lo = LogTop + 1
                                /\ ~IsRow(Head(queue)) => Head(queue).hi = LogTop
  <1>1. TypeOK /\ QueueInv
    BY DEF WriterInv
  <1>2. queue \in Seq(EntryType) /\ LogTop \in Nat /\ from - 1 \in Nat
    BY <1>1, TypeFacts
  <1>3. Head(queue) = queue[1] /\ 1 \in DOMAIN queue /\ queue[1] \in EntryType
    <2>1. Len(queue) \in Nat \ {0} /\ DOMAIN queue = 1 .. Len(queue) /\ Head(queue) = queue[1]
          /\ \A i \in 1 .. Len(queue) : queue[i] \in EntryType
      BY <1>2, TailFacts
    <2>. QED
      BY <2>1
  <1>4. Fits(queue[1], events)
    BY <1>1, <1>3 DEF QueueInv
  <1>5. queue[1].lo \in Nat /\ queue[1].hi \in Nat
    BY <1>3 DEF EntryType
  <1>6. LogTop < queue[1].lo
    BY <1>1, <1>2, <1>3, TailOrdered DEF QueueInv
  <1>7. IF IsRow(queue[1]) THEN queue[1].lo <= queue[1].hi ELSE queue[1].lo = queue[1].hi + 1
    BY <1>4 DEF Fits
  <1>8. LogTop <= queue[1].hi
    BY <1>2, <1>5, <1>6, <1>7
  <1>9. ASSUME ~stream.failed
        PROVE  queue[1].lo = LogTop + 1 /\ (~IsRow(queue[1]) => queue[1].hi = LogTop)
    <2>1. queue[1].lo = LogTop + 1
      BY <1>1, <1>2, <1>3, <1>9, TailJoined DEF QueueInv
    <2>. QED
      BY <1>2, <1>5, <1>7, <2>1
  <1>10. queue[1].hi <= Top
    BY <1>4 DEF Fits, Top
  <1>. QED
    BY <1>2, <1>3, <1>4, <1>5, <1>6, <1>8, <1>9, <1>10

\* One entry leaves the queue; its events are in the log or are lost.
LEMMA DropOne ==
    ASSUME WriterInv, queue # <<>>, queue' = Tail(queue), UNCHANGED <<events, from>>,
           stream'.queuedRows = stream.queuedRows - Retired(Head(queue)),
           LogTop' = LogTop \/ LogTop' = Head(queue).hi,
           ~stream'.failed => ~stream.failed /\ LogTop' = Head(queue).hi
    PROVE  /\ QueueInv' /\ BufferInv' /\ LinesRise'
           /\ queue' \in Seq(EntryType) /\ stream'.queuedRows \in Nat
           /\ Len(queue') = Len(queue) - 1 /\ Len(queue) \in Nat \ {0}
           /\ \A i \in 1 .. Len(queue') : queue'[i] = queue[i + 1]
  <1>1. TypeOK /\ QueueInv
    BY DEF WriterInv
  <1>2. /\ queue \in Seq(EntryType) /\ LogTop \in Nat /\ from - 1 \in Nat
        /\ stream.queuedRows \in Nat
    BY <1>1, TypeFacts
  <1>3. /\ Tail(queue) \in Seq(EntryType) /\ Len(Tail(queue)) = Len(queue) - 1
        /\ Len(queue) \in Nat \ {0} /\ DOMAIN queue = 1 .. Len(queue)
        /\ \A i \in 1 .. Len(Tail(queue)) : Tail(queue)[i] = queue[i + 1]
        /\ DOMAIN Tail(queue) = 1 .. Len(Tail(queue))
    BY <1>2, TailFacts
  <1>4. LogTop <= Head(queue).hi
    BY HeadFacts
  <1>5. /\ Ordered(Tail(queue), LogTop, from - 1)
        /\ Ordered(Tail(queue), Head(queue).hi, from - 1)
    BY <1>1, <1>2, <1>4, TailOrdered DEF QueueInv
  <1>6. ~stream.failed => Joined(Tail(queue), Head(queue).hi, from - 1)
    BY <1>1, <1>2, TailJoined DEF QueueInv
  <1>7. WholeTasks(Tail(queue))
    BY <1>1, <1>2, TailWhole DEF QueueInv
  <1>8. /\ stream.queuedRows - Retired(Head(queue)) \in Nat
        /\ Counts(Tail(queue), stream.queuedRows - Retired(Head(queue)))
    BY <1>1, <1>2, TailCounts DEF QueueInv
  <1>9. \A i \in DOMAIN Tail(queue) : Fits(Tail(queue)[i], events)
    <2>1. \A i \in 1 .. Len(Tail(queue)) : i + 1 \in DOMAIN queue
      BY <1>3
    <2>. QED
      BY <1>1, <1>3, <2>1 DEF QueueInv
  <1>10. /\ Ordered(queue', LogTop', from' - 1)
         /\ (~stream'.failed => Joined(queue', LogTop', from' - 1))
    BY <1>5, <1>6
  <1>11. QueueInv'
    BY <1>7, <1>8, <1>9, <1>10 DEF QueueInv
  <1>12. BufferInv' /\ LinesRise'
    BY DEF WriterInv, BufferInv, LinesRise, Top
  <1>. QED
    BY <1>3, <1>8, <1>11, <1>12

\* The rest of a task is skipped with its first row.
LEMMA DropTwo ==
    ASSUME WriterInv, queue # <<>>, Head(queue).more, queue' = Tail(Tail(queue)),
           UNCHANGED <<events, from>>, stream'.failed,
           stream'.queuedRows = stream.queuedRows - queue[2].size,
           LogTop' = LogTop \/ LogTop' = Head(queue).hi
    PROVE  /\ QueueInv' /\ BufferInv' /\ LinesRise'
           /\ queue' \in Seq(EntryType) /\ stream'.queuedRows \in Nat
           /\ Len(queue') = Len(queue) - 2 /\ Len(queue) \in Nat /\ Len(queue) >= 2
           /\ \A i \in 1 .. Len(queue') : queue'[i] = queue[i + 2]
  <1>. DEFINE t == Tail(queue)
  <1>1. TypeOK /\ QueueInv
    BY DEF WriterInv
  <1>2. /\ queue \in Seq(EntryType) /\ LogTop \in Nat /\ from - 1 \in Nat
        /\ stream.queuedRows \in Nat
    BY <1>1, TypeFacts
  <1>3. /\ t \in Seq(EntryType) /\ Len(t) = Len(queue) - 1 /\ Len(queue) \in Nat \ {0}
        /\ DOMAIN queue = 1 .. Len(queue)
        /\ \A i \in 1 .. Len(t) : t[i] = queue[i + 1]
        /\ DOMAIN t = 1 .. Len(t)
    BY <1>2, TailFacts
  <1>4. t # <<>> /\ Head(t) = queue[2] /\ ~queue[2].more /\ WholeTasks(t)
    BY <1>1, <1>2, TailWhole DEF QueueInv
  <1>5. LogTop <= Head(queue).hi /\ Head(queue).hi \in Nat /\ Retired(Head(queue)) = 0
    BY HeadFacts DEF Retired
  <1>6. Ordered(t, LogTop, from - 1) /\ Ordered(t, Head(queue).hi, from - 1)
    BY <1>1, <1>2, <1>5, TailOrdered DEF QueueInv
  <1>7. Counts(t, stream.queuedRows)
    <2>1. /\ stream.queuedRows - Retired(Head(queue)) \in Nat
          /\ Counts(t, stream.queuedRows - Retired(Head(queue)))
      BY <1>1, <1>2, TailCounts DEF QueueInv
    <2>2. stream.queuedRows - 0 = stream.queuedRows
      BY <1>2
    <2>. QED
      BY <1>5, <2>1, <2>2
  <1>. HIDE DEF t
  <1>8. /\ Tail(t) \in Seq(EntryType) /\ Len(Tail(t)) = Len(t) - 1 /\ Len(t) \in Nat \ {0}
        /\ \A i \in 1 .. Len(Tail(t)) : Tail(t)[i] = t[i + 1]
        /\ DOMAIN Tail(t) = 1 .. Len(Tail(t))
    BY <1>3, <1>4, TailFacts
  <1>9. Ordered(Tail(t), LogTop, from - 1) /\ Ordered(Tail(t), Head(queue).hi, from - 1)
    BY <1>2, <1>3, <1>4, <1>5, <1>6, TailOrdered
  <1>10. WholeTasks(Tail(t))
    BY <1>3, <1>4, TailWhole
  <1>11. /\ stream.queuedRows - queue[2].size \in Nat
         /\ Counts(Tail(t), stream.queuedRows - queue[2].size)
    <2>1. Retired(queue[2]) = queue[2].size
      BY <1>4 DEF Retired
    <2>. QED
      BY <1>2, <1>3, <1>4, <1>7, <2>1, TailCounts
  <1>12. /\ Len(Tail(t)) = Len(queue) - 2 /\ Len(queue) >= 2
         /\ \A i \in 1 .. Len(Tail(t)) : Tail(t)[i] = queue[i + 2] /\ i + 2 \in DOMAIN queue
    <2>1. Len(Tail(t)) = Len(queue) - 2 /\ Len(queue) >= 2
      BY <1>3, <1>8
    <2>2. ASSUME NEW i \in 1 .. Len(Tail(t))
          PROVE  Tail(t)[i] = queue[i + 2] /\ i + 2 \in DOMAIN queue
      <3>1. i + 1 \in 1 .. Len(t) /\ (i + 1) + 1 = i + 2 /\ i + 2 \in 1 .. Len(queue)
        BY <1>3, <1>8
      <3>. QED
        BY <1>3, <1>8, <3>1
    <2>. QED
      BY <2>1, <2>2
  <1>13. \A i \in DOMAIN Tail(t) : Fits(Tail(t)[i], events)
    BY <1>1, <1>8, <1>12 DEF QueueInv
  <1>14. queue' = Tail(t)
    BY DEF t
  <1>15. Ordered(queue', LogTop', from' - 1)
    BY <1>9, <1>14
  <1>16. QueueInv'
    BY <1>10, <1>11, <1>13, <1>14, <1>15 DEF QueueInv
  <1>17. BufferInv' /\ LinesRise'
    BY DEF WriterInv, BufferInv, LinesRise, Top
  <1>. QED
    BY <1>3, <1>8, <1>11, <1>12, <1>14, <1>16, <1>17

LEMMA QuietBehind ==
    ASSUME WriterInv, NEW i \in DOMAIN queue, queue[i].kind \notin Quiet
    PROVE  \A j \in DOMAIN queue : j > i => queue[j].kind \in Quiet
  <1>1. TypeOK /\ QueueInv /\ AwaitInv
    BY DEF WriterInv
  <1>2. /\ Top \in Nat /\ queue \in Seq(EntryType) /\ DOMAIN queue = 1 .. Len(queue)
        /\ Len(queue) \in Nat /\ \A j \in DOMAIN queue : queue[j] \in EntryType
    BY <1>1, TypeFacts, SeqFacts
  <1>3. \A j \in DOMAIN queue : /\ queue[j].lo \in Nat /\ queue[j].hi \in Nat
                                /\ queue[j].kind \in Quiet \cup {"note", "suspended", "done"}
    BY <1>2 DEF EntryType, Quiet, Content, Terminal
  <1>4. SUFFICES ASSUME NEW j \in DOMAIN queue, j > i, queue[j].kind \notin Quiet
                 PROVE  FALSE
    OBVIOUS
  <1>5. CASE queue[i].kind = "done"
    BY <1>1, <1>2, <1>4, <1>5 DEF AwaitInv
  <1>6. CASE queue[i].kind \in {"note", "suspended"} /\ queue[j].kind \in {"note", "suspended"}
    <2>1. queue[i].hi = Top /\ queue[i].hi < queue[j].lo
      BY <1>1, <1>2, <1>4, <1>6 DEF AwaitInv, QueueInv, Ordered
    <2>2. Fits(queue[j], events) /\ IsRow(queue[j])
      BY <1>1, <1>6 DEF QueueInv, IsRow, Terminal
    <2>3. queue[j].lo <= queue[j].hi /\ queue[j].hi <= Top
      BY <2>2 DEF Fits, Top
    <2>. QED
      BY <1>2, <1>3, <2>1, <2>3
  <1>7. CASE queue[i].kind \in {"note", "suspended"} /\ queue[j].kind = "done"
    BY <1>1, <1>7 DEF AwaitInv
  <1>. QED
    BY <1>3, <1>4, <1>5, <1>6, <1>7

\* The carrier goes on only when what it awaits leaves the queue.
LEMMA AwaitDequeue ==
    ASSUME WriterInv, NEW k \in {1, 2}, k <= Len(queue), queue' \in Seq(EntryType),
           Len(queue) \in Nat, Len(queue') = Len(queue) - k,
           \A i \in 1 .. Len(queue') : queue'[i] = queue[i + k],
           UNCHANGED <<events, from>>, stream.ended => stream'.ended,
           \/ carrier' = carrier
           \/ carrier' # "waiting" /\ \E i \in 1 .. k : queue[i].kind \notin Quiet
    PROVE  AwaitInv'
  <1>1. AwaitInv /\ TypeOK
    BY DEF WriterInv
  <1>2. /\ queue \in Seq(EntryType) /\ DOMAIN queue = 1 .. Len(queue) /\ k \in Nat
        /\ DOMAIN queue' = 1 .. Len(queue') /\ Top' = Top /\ Len(queue') \in Nat
    BY <1>1, TypeFacts, SeqFacts DEF Top
  <1>3. \A i \in DOMAIN queue' : /\ i + k \in DOMAIN queue /\ queue'[i] = queue[i + k]
                                 /\ i + k = Len(queue) <=> i = Len(queue')
    BY <1>2
  <1>4. CASE carrier' = carrier
    <2>1. \A i \in DOMAIN queue' :
             /\ queue'[i].kind = "note" => carrier' = "noting" /\ queue'[i].hi = Top'
             /\ queue'[i].kind = "suspended" => carrier' = "suspending" /\ queue'[i].hi = Top'
             /\ queue'[i].kind = "done" => /\ carrier' = "closing" /\ stream'.ended
                                           /\ i = Len(queue') /\ from' = Top' + 1
      BY <1>1, <1>2, <1>3, <1>4 DEF AwaitInv
    <2>2. carrier' = "waiting" =>
             /\ from' = Top' + 1
             /\ ~stream'.ended => \A i \in DOMAIN queue' : queue'[i].lo <= Top'
      BY <1>1, <1>2, <1>3, <1>4 DEF AwaitInv
    <2>. QED
      BY <2>1, <2>2 DEF AwaitInv
  <1>5. CASE carrier' # "waiting" /\ \E i \in 1 .. k : queue[i].kind \notin Quiet
    <2>1. PICK i \in 1 .. k : queue[i].kind \notin Quiet
      BY <1>5
    <2>2. i \in DOMAIN queue /\ \A j \in DOMAIN queue' : j + k > i
      BY <1>2
    <2>3. \A j \in DOMAIN queue : j > i => queue[j].kind \in Quiet
      BY <2>1, <2>2, QuietBehind
    <2>4. \A j \in DOMAIN queue' : queue'[j].kind \in Quiet
      BY <1>3, <2>2, <2>3
    <2>. QED
      BY <1>5, <2>4 DEF AwaitInv, Quiet
  <1>. QED
    BY <1>4, <1>5

\* What the steps leave of the invariant that is about the log and the content.
LogStep ==
    /\ LogInv' /\ PairInv' /\ CursorPairsContent' /\ FinalContentHoldsLog'
    /\ log' \in Seq(RowType) /\ content' \in [n : 0 .. Top, cursor : Nat]
    /\ \A n \in 0 .. Top, c \in Nat :
          Pairs(log, events, n, c) => Pairs(log', events', n, c)
    /\ \A x \in 1 .. Top : Covered(x, log') =>
          \/ Covered(x, log)
          \/ ~stream.failed /\ (carrier = "waiting" /\ x = Top => stream.ended)

LEMMA StillLog ==
    ASSUME WriterInv, UNCHANGED <<events, log, content>>, stream.failed => stream'.failed,
           stream'.last = stream.last, stream'.diverged = stream.diverged
    PROVE  LogStep
  <1>1. /\ TypeOK /\ LogInv /\ PairInv /\ CursorPairsContent /\ FinalContentHoldsLog
    BY DEF WriterInv
  <1>2. /\ log \in Seq(RowType) /\ content \in [n : 0 .. Top, cursor : Nat]
    BY <1>1, TypeFacts
  <1>3. LogTop' = LogTop
    BY DEF LogTop
  <1>4. LogInv'
    BY <1>1, <1>3 DEF LogInv
  <1>5. PairInv'
    BY <1>1 DEF PairInv
  <1>6. CursorPairsContent'
    BY <1>1 DEF CursorPairsContent, Contents
  <1>7. FinalContentHoldsLog'
    BY <1>1 DEF FinalContentHoldsLog, Contents, Logged, Closed, Top
  <1>. QED
    BY <1>2, <1>4, <1>5, <1>6, <1>7 DEF LogStep

\* A row that goes on where the log ends.
Follows(row) ==
    /\ row \in RowType /\ Fits(row, events)
    /\ LogTop < row.lo /\ LogTop <= row.hi
    /\ ~stream.failed => row.lo = LogTop + 1 /\ (~IsRow(row) => row.hi = LogTop)
    /\ IsRow(row) => ~stream.failed

LEMMA LandKeeps ==
    ASSUME WriterInv, ~Closed, UNCHANGED events, NEW row, Follows(row),
           log' = Append(log, row), stream.failed => stream'.failed
    PROVE  /\ LogInv' /\ LogTop' = row.hi /\ log' \in Seq(RowType)
           /\ Len(log) \in Nat /\ Len(log') = Len(log) + 1
           /\ DOMAIN log = 1 .. Len(log) /\ DOMAIN log' = 1 .. Len(log) + 1
           /\ \A i \in 1 .. Len(log) : log'[i] = log[i]
           /\ log'[Len(log) + 1] = row
           /\ \A x \in 1 .. Top :
                 Covered(x, log') <=> Covered(x, log) \/ x \in row.lo .. row.hi
           /\ \A n \in 0 .. Top, c \in Nat :
                 Pairs(log, events, n, c) => Pairs(log', events', n, c)
           /\ Closed' <=> row.kind \in Terminal
  <1>1. TypeOK /\ LogInv
    BY DEF WriterInv
  <1>2. /\ log \in Seq(RowType) /\ LogTop \in Nat /\ Top \in Nat
        /\ row \in RowType /\ Fits(row, events)
        /\ LogTop < row.lo /\ LogTop <= row.hi
        /\ ~stream.failed => row.lo = LogTop + 1
        /\ IsRow(row) => ~stream.failed
    BY <1>1, TypeFacts DEF Follows
  <1>3. /\ log' \in Seq(RowType) /\ Len(log') = Len(log) + 1 /\ Len(log) \in Nat
        /\ \A i \in 1 .. Len(log) : log'[i] = log[i]
        /\ log'[Len(log) + 1] = row
        /\ DOMAIN log = 1 .. Len(log)
        /\ \A i \in 1 .. Len(log) : log[i] \in RowType
    BY <1>2, AppendProperties, SeqFacts
  <1>4. DOMAIN log' = 1 .. Len(log) + 1
    BY <1>3, SeqFacts
  <1>5. LogTop' = row.hi
    <2>1. Len(log') # 0 /\ Len(log') \in Nat
      BY <1>3
    <2>2. log' # <<>>
      BY <1>3, <2>1, SeqFacts
    <2>. QED
      BY <1>3, <2>2 DEF LogTop
  <1>6. /\ row.lo \in Nat /\ row.hi \in Nat
        /\ \A i \in 1 .. Len(log) : log[i].lo \in Nat /\ log[i].hi \in Nat
    BY <1>2, <1>3 DEF RowType
  <1>7. \A i \in 1 .. Len(log) + 1 : i \in 1 .. Len(log) \/ i = Len(log) + 1
    BY <1>3
  <1>8. \A i \in 1 .. Len(log) : i \in 1 .. Len(log) + 1
    BY <1>3
  <1>9. Len(log) + 1 \in 1 .. Len(log) + 1
    BY <1>3
  <1>10. \A x : Covered(x, log') <=> Covered(x, log) \/ x \in row.lo .. row.hi
    BY <1>3, <1>4, <1>7, <1>8, <1>9 DEF Covered
  <1>11. Closed' <=> row.kind \in Terminal
    BY <1>3, <1>4, <1>7, <1>9 DEF Closed
  <1>12. \A i \in 1 .. Len(log) : /\ Fits(log[i], events) /\ log[i].hi <= LogTop
                                  /\ log[i].kind \notin Terminal
                                  /\ \A x \in 1 .. log[i].hi : Covered(x, log)
    BY <1>1, <1>3 DEF LogInv, Closed
  <1>13. ~stream.failed => \A x \in 1 .. row.hi : Covered(x, log')
    <2>1. SUFFICES ASSUME ~stream.failed, NEW x \in 1 .. row.hi PROVE Covered(x, log')
      OBVIOUS
    <2>2. CASE x <= LogTop
      BY <1>1, <1>2, <1>6, <1>10, <2>1, <2>2 DEF LogInv
    <2>3. CASE x > LogTop
      BY <1>2, <1>6, <1>10, <2>1, <2>3
    <2>. QED
      BY <1>2, <1>6, <2>2, <2>3
  <1>14. LogInv'
    <2>1. \A i \in 1 .. Len(log) : log[i].hi <= row.hi
      BY <1>2, <1>6, <1>12
    <2>2. row.hi <= row.hi
      BY <1>6
    <2>3. \A i \in DOMAIN log' : /\ Fits(log'[i], events') /\ log'[i].hi <= LogTop'
                                 /\ log'[i].kind \in Terminal => i = Len(log')
      BY <1>2, <1>3, <1>4, <1>5, <1>7, <1>12, <2>1, <2>2
    <2>4. row.kind \notin Terminal => IsRow(row)
      BY <1>2 DEF RowType, IsRow, Content
    <2>5. \A i \in DOMAIN log' : log'[i].kind \notin Terminal =>
             \A x \in 1 .. log'[i].hi : Covered(x, log')
      BY <1>2, <1>3, <1>4, <1>7, <1>10, <1>12, <1>13, <2>4
    <2>6. ~stream'.failed => \A x \in 1 .. LogTop' : Covered(x, log')
      BY <1>5, <1>13
    <2>. QED
      BY <2>3, <2>5, <2>6 DEF LogInv
  <1>15. ASSUME NEW n \in 0 .. Top, NEW c \in Nat, Pairs(log, events, n, c)
         PROVE  Pairs(log', events', n, c)
    <2>1. SUFFICES ASSUME c # 0 PROVE Pairs(log', events', n, c)
      BY DEF Pairs
    <2>2. /\ c \in 1 .. Len(log)
          /\ {x \in 1 .. n : events[x].kind \in Content}
                = {x \in UNION {log[i].lo .. log[i].hi : i \in 1 .. c} :
                      events[x].kind \in Content}
          /\ \A i \in 1 .. c : ~log[i].split
      BY <1>3, <1>15, <2>1 DEF Pairs
    <2>3. \A i \in 1 .. c : i \in 1 .. Len(log)
      BY <1>3, <2>2
    <2>4. \A i \in 1 .. c : log'[i] = log[i]
      BY <1>3, <2>3
    <2>5. {log'[i].lo .. log'[i].hi : i \in 1 .. c} = {log[i].lo .. log[i].hi : i \in 1 .. c}
      BY <2>4
    <2>6. c \in DOMAIN log'
      BY <1>4, <1>8, <2>2
    <2>7. \A i \in 1 .. c : ~log'[i].split
      BY <2>2, <2>4
    <2>. QED
      BY <2>2, <2>5, <2>6, <2>7 DEF Pairs
  <1>. QED
    BY <1>3, <1>4, <1>5, <1>10, <1>11, <1>14, <1>15

\* A producer waits for less than its own row only when somebody has closed.
LEMMA TopRowWaits ==
    ASSUME WriterInv, Answers, carrier = "waiting", Head(queue).hi = Top
    PROVE  stream.ended
  <1>1. TypeOK /\ QueueInv /\ AwaitInv
    BY DEF WriterInv
  <1>2. queue \in Seq(EntryType) /\ Top \in Nat /\ stream.queuedRows \in Nat /\ from - 1 \in Nat
        /\ LogTop \in Nat
    BY <1>1, TypeFacts
  <1>3. /\ Len(queue) \in Nat \ {0} /\ Head(queue) = queue[1] /\ DOMAIN queue = 1 .. Len(queue)
        /\ \A i \in 1 .. Len(queue) : queue[i] \in EntryType
    BY <1>2, TailFacts DEF Answers
  <1>4. SUFFICES ASSUME ~stream.ended PROVE FALSE
    OBVIOUS
  <1>5. \A i \in DOMAIN queue : queue[i].lo <= Top
    BY <1>1, <1>4 DEF AwaitInv
  <1>6. Len(queue) = 1
    <2>1. SUFFICES ASSUME Len(queue) > 1 PROVE FALSE
      BY <1>3
    <2>2. 1 \in DOMAIN queue /\ 2 \in DOMAIN queue /\ 1 < 2
      BY <1>3, <2>1
    <2>3. queue[1].hi < queue[2].lo /\ queue[2].lo <= Top /\ queue[1].hi = Top
      BY <1>1, <1>3, <1>5, <2>2 DEF QueueInv, Ordered
    <2>4. queue[2].lo \in Nat
      BY <1>3, <2>2 DEF EntryType
    <2>. QED
      BY <1>2, <2>3, <2>4
  <1>7. stream.queuedRows = Retired(queue[1])
    BY <1>1, <1>2, <1>3, <1>6, TailCounts DEF QueueInv, Answers
  <1>8. Retired(queue[1]) \in 0 .. 2
    BY <1>3, RetiredSmall
  <1>. QED
    BY <1>7, <1>8, WriterAssumption DEF Answers

LEMMA HeadRow ==
    ASSUME WriterInv, queue # <<>>, Head(queue).kind # "settle", ~Abandons(Head(queue)),
           NEW split \in BOOLEAN
    PROVE  /\ Follows([kind |-> Head(queue).kind, lo |-> Head(queue).lo, hi |-> Head(queue).hi,
                       split |-> split])
           /\ LogTop <= Head(queue).hi
  <1>. DEFINE e == Head(queue)
              row == [kind |-> e.kind, lo |-> e.lo, hi |-> e.hi, split |-> split]
  <1>1. /\ e \in EntryType /\ Fits(e, events) /\ LogTop < e.lo /\ LogTop <= e.hi
        /\ ~stream.failed => e.lo = LogTop + 1 /\ (~IsRow(e) => e.hi = LogTop)
    BY HeadFacts
  <1>. HIDE DEF e
  <1>2. row.kind = e.kind /\ row.lo = e.lo /\ row.hi = e.hi /\ (IsRow(row) <=> IsRow(e))
    BY DEF IsRow
  <1>3. row \in RowType
    BY <1>1 DEF e, EntryType, RowType
  <1>4. IsRow(e) => ~stream.failed
    BY DEF Abandons, e
  <1>. HIDE DEF row
  <1>5. Fits(row, events)
    BY <1>1, <1>2 DEF Fits
  <1>6. Follows(row)
    BY <1>1, <1>2, <1>3, <1>4, <1>5 DEF Follows
  <1>. QED
    BY <1>1, <1>6 DEF row, e

LEMMA RowLog ==
    ASSUME WriterInv, Answers, IsRow(Head(queue)), ~Closed, UNCHANGED <<events, content>>,
           NEW row, Follows(row), row.kind = Head(queue).kind, row.hi = Head(queue).hi,
           log' = Append(log, row), stream.failed => stream'.failed,
           ~stream'.diverged => ~stream.diverged /\ ~row.split,
           \/ /\ stream'.failed
              /\ stream'.last = stream.last
           \/ /\ stream'.failed = stream.failed
              /\ stream'.last = IF row.kind \in Content THEN Len(log) + 1 ELSE stream.last
    PROVE  LogStep
  <1>1. /\ TypeOK /\ PairInv /\ FinalContentHoldsLog
    BY DEF WriterInv
  <1>2. /\ Top \in Nat /\ content \in [n : 0 .. Top, cursor : Nat]
        /\ stream.last \in Nat /\ content.n \in 0 .. Top /\ content.cursor \in Nat
    BY <1>1, TypeFacts
  <1>3. /\ LogInv' /\ LogTop' = row.hi /\ log' \in Seq(RowType)
        /\ Len(log) \in Nat /\ Len(log') = Len(log) + 1
        /\ DOMAIN log = 1 .. Len(log) /\ DOMAIN log' = 1 .. Len(log) + 1
        /\ \A i \in 1 .. Len(log) : log'[i] = log[i]
        /\ log'[Len(log) + 1] = row
        /\ \A x \in 1 .. Top : Covered(x, log') <=> Covered(x, log) \/ x \in row.lo .. row.hi
        /\ \A n \in 0 .. Top, c \in Nat :
              Pairs(log, events, n, c) => Pairs(log', events', n, c)
        /\ Closed' <=> row.kind \in Terminal
    BY LandKeeps
  <1>4. row.kind \notin Terminal /\ row.lo \in Nat /\ row.hi \in Nat /\ ~stream.failed
        /\ row.hi <= Top /\ IsRow(row)
    BY DEF Follows, IsRow, RowType, Fits, Top
  <1>5. FinalContentHoldsLog'
    BY <1>3, <1>4 DEF FinalContentHoldsLog
  <1>6. CursorPairsContent'
    <2>1. Pairs(log, events, content.n, content.cursor)
      BY DEF WriterInv, CursorPairsContent, Contents, Pairs
    <2>2. Pairs(log', events', content.n, content.cursor)
      BY <1>2, <1>3, <2>1
    <2>. QED
      BY <2>2 DEF CursorPairsContent, Contents, Pairs
  <1>7. PairInv'
    <2>1. \A i \in 1 .. Len(log) + 1 : i \in 1 .. Len(log) \/ i = Len(log) + 1
      BY <1>3
    <2>2. stream'.last <= Len(log')
      BY <1>1, <1>2, <1>3 DEF PairInv
    <2>3. \A i \in DOMAIN log : log[i].kind \in Content => i <= stream.last
      BY <1>1, <1>4 DEF PairInv
    <2>4. ~stream'.failed => \A i \in DOMAIN log' : log'[i].kind \in Content => i <= stream'.last
      <3>1. stream.last <= Len(log) + 1 /\ Len(log) + 1 <= Len(log) + 1
        BY <1>1, <1>2, <1>3 DEF PairInv
      <3>2. \A i \in 1 .. Len(log) : i <= Len(log) + 1
        BY <1>3
      <3>. QED
        BY <1>3, <2>1, <2>3, <3>1, <3>2
    <2>5. ~stream'.diverged => \A i \in DOMAIN log' : ~log'[i].split
      BY <1>1, <1>3, <2>1 DEF PairInv
    <2>. QED
      BY <2>2, <2>4, <2>5 DEF PairInv
  <1>8. ASSUME NEW x \in 1 .. Top, Covered(x, log'), ~Covered(x, log),
               carrier = "waiting", x = Top
        PROVE  stream.ended
    <2>1. x \in row.lo .. row.hi
      BY <1>3, <1>8
    <2>2. Head(queue).hi = Top
      BY <1>2, <1>4, <1>8, <2>1
    <2>. QED
      BY <1>8, <2>2, TopRowWaits
  <1>. QED
    BY <1>2, <1>3, <1>4, <1>5, <1>6, <1>7, <1>8 DEF LogStep

LEMMA TerminalLog ==
    ASSUME WriterInv, ~Closed, UNCHANGED events,
           NEW row, Follows(row), row.kind \in Terminal, ~row.split,
           log' = Append(log, row), FinalContent(row.kind), stream.failed => stream'.failed,
           row.kind = "done" => carrier = "closing",
           stream'.diverged = stream.diverged, stream'.last = stream.last
    PROVE  LogStep
  <1>1. /\ TypeOK /\ PairInv /\ LogInv /\ FoldInv
    BY DEF WriterInv
  <1>2. /\ Top \in Nat /\ folded \in 0 .. Top /\ stream.last \in Nat /\ LogTop \in Nat
        /\ \A i \in DOMAIN log : log[i] \in RowType
    BY <1>1, TypeFacts, SeqFacts
  <1>3. /\ LogInv' /\ LogTop' = row.hi /\ log' \in Seq(RowType)
        /\ Len(log) \in Nat /\ Len(log') = Len(log) + 1
        /\ DOMAIN log = 1 .. Len(log) /\ DOMAIN log' = 1 .. Len(log) + 1
        /\ \A i \in 1 .. Len(log) : log'[i] = log[i]
        /\ log'[Len(log) + 1] = row
        /\ \A x \in 1 .. Top : Covered(x, log') <=> Covered(x, log) \/ x \in row.lo .. row.hi
        /\ \A n \in 0 .. Top, c \in Nat :
              Pairs(log, events, n, c) => Pairs(log', events', n, c)
    BY LandKeeps
  <1>4. /\ row.kind \in {"done", "close"} /\ row.kind \notin Content /\ ~IsRow(row)
        /\ row.lo \in Nat /\ row.hi \in Nat /\ LogTop <= row.hi /\ LogTop < row.lo
        /\ row.lo = row.hi + 1 /\ row.hi <= Top
    BY DEF Follows, IsRow, RowType, Fits, Top, Terminal, Content
  <1>5. \A x \in 1 .. Top : Covered(x, log') => Covered(x, log)
    BY <1>3, <1>4
  <1>6. content' = [n |-> IF row.kind = "done" THEN folded ELSE LogTop, cursor |-> 0]
    BY DEF FinalContent
  <1>7. content' \in [n : 0 .. Top, cursor : Nat] /\ content'.cursor = 0
    <2>1. LogTop \in 0 .. Top
      BY <1>2, <1>4
    <2>. QED
      BY <1>2, <1>6, <2>1
  <1>8. CursorPairsContent'
    BY <1>7 DEF CursorPairsContent
  <1>9. FinalContentHoldsLog'
    <2>1. SUFFICES ASSUME NEW x \in 1 .. Top, events[x].kind \in Content, Covered(x, log)
                   PROVE  x <= content'.n
      BY <1>5 DEF FinalContentHoldsLog, Contents, Logged, Covered, Top
    <2>2. CASE row.kind = "done"
      <3>1. ~Unfolded(x)
        BY <1>1, <2>1, <2>2 DEF FoldInv
      <3>2. x <= folded
        BY <1>2, <2>1, <3>1 DEF Unfolded
      <3>. QED
        BY <1>6, <2>2, <3>2
    <2>3. CASE row.kind = "close"
      <3>1. PICK i \in DOMAIN log : x \in log[i].lo .. log[i].hi
        BY <2>1 DEF Covered
      <3>2. log[i].hi <= LogTop /\ log[i].hi \in Nat /\ log[i].lo \in Nat
        BY <1>1, <1>2, <3>1 DEF LogInv, RowType
      <3>3. x <= LogTop
        BY <1>2, <3>1, <3>2
      <3>. QED
        BY <1>6, <2>3, <3>3
    <2>. QED
      BY <1>4, <2>2, <2>3
  <1>10. PairInv'
    <2>1. \A i \in 1 .. Len(log) + 1 : i \in 1 .. Len(log) \/ i = Len(log) + 1
      BY <1>3
    <2>2. stream'.last <= Len(log')
      BY <1>1, <1>2, <1>3 DEF PairInv
    <2>3. ~stream'.failed => \A i \in DOMAIN log' : log'[i].kind \in Content => i <= stream'.last
      BY <1>1, <1>3, <1>4, <2>1 DEF PairInv
    <2>4. ~stream'.diverged => \A i \in DOMAIN log' : ~log'[i].split
      BY <1>1, <1>3, <2>1 DEF PairInv
    <2>. QED
      BY <2>2, <2>3, <2>4 DEF PairInv
  <1>. QED
    BY <1>3, <1>5, <1>7, <1>8, <1>9, <1>10 DEF LogStep

\* How the carrier takes the answer to an entry.
GoesOn(e) ==
    \/ carrier' = carrier /\ folded' = folded
    \/ /\ e.kind \in {"note", "suspended"} /\ carrier \in {"noting", "suspending"}
       /\ carrier' \in {"reading", "stopped", "fencing", "draining"}
       /\ folded' \in {folded, e.hi}
    \/ /\ e.kind = "done" /\ carrier = "closing"
       /\ carrier' = "stopped" /\ folded' = folded

LEMMA FoldKeeps ==
    ASSUME WriterInv, UNCHANGED events, LogStep, stream.failed => stream'.failed,
           stream.ended => stream'.ended,
           NEW e, e.kind \in {"note", "suspended"} => e.hi = Top, GoesOn(e)
    PROVE  FoldInv' /\ folded' \in 0 .. Top /\ carrier' \in Phases
  <1>1. TypeOK /\ FoldInv
    BY DEF WriterInv
  <1>2. Top \in Nat /\ folded \in 0 .. Top /\ Top' = Top /\ carrier \in Phases
    BY <1>1, TypeFacts DEF TypeOK, Top
  <1>4. folded' = Top \/ folded' = folded
    BY DEF GoesOn
  <1>5. /\ folded' \in 0 .. Top
        /\ carrier' \in Phases
    <2>1. folded' \in 0 .. Top
      BY <1>2, <1>4
    <2>. QED
      BY <1>2, <2>1 DEF GoesOn, Phases, Awaiting
  <1>6. CASE folded' = Top
    <2>1. \A x \in 1 .. Top : ~(x > Top)
      BY <1>2
    <2>2. \A x \in 1 .. Top : ~(x > folded')
      BY <1>6, <2>1
    <2>3. \A x : ~Unfolded(x)'
      BY <1>2, <2>2 DEF Unfolded
    <2>. QED
      BY <1>5, <2>3 DEF FoldInv
  <1>7. CASE folded' = folded
    <2>1. SUFFICES ASSUME NEW x \in 1 .. Top, Unfolded(x)
                   PROVE  /\ x = Top
                          /\ \/ carrier' = "waiting"
                             \/ carrier' \in {"fencing", "closing", "stopped"} /\ stream'.failed
                          /\ Covered(x, log') => stream'.ended /\ carrier' # "closing"
      <3>1. \A x : Unfolded(x)' <=> Unfolded(x)
        BY <1>2, <1>7 DEF Unfolded
      <3>. QED
        BY <1>2, <1>5, <3>1 DEF FoldInv
    <2>2. /\ x = Top
          /\ \/ carrier = "waiting"
             \/ carrier \in {"fencing", "closing", "stopped"} /\ stream.failed
          /\ Covered(x, log) => stream.ended /\ carrier # "closing"
      BY <1>1, <2>1 DEF FoldInv
    <2>3. Covered(x, log') => \/ Covered(x, log)
                              \/ ~stream.failed /\ (carrier = "waiting" => stream.ended)
      BY <2>1, <2>2 DEF LogStep
    <2>4. \/ carrier' = carrier
          \/ carrier = "closing" /\ carrier' = "stopped"
      BY <2>2 DEF GoesOn
    <2>. QED
      BY <2>2, <2>3, <2>4
  <1>. QED
    BY <1>4, <1>5, <1>6, <1>7

\* The common part of the steps that answer the head of the queue.
LEMMA AnswerStep ==
    ASSUME WriterInv, UNCHANGED <<events, from, owned>>, UNCHANGED jobs, LogStep,
           stream' \in StreamType,
           stream.failed => stream'.failed, stream.ended => stream'.ended,
           NEW k \in {1, 2}, NEW i \in 1 .. k, k <= Len(queue), GoesOn(queue[i]),
           QueueInv', BufferInv', LinesRise', queue' \in Seq(EntryType),
           Len(queue) \in Nat, Len(queue') = Len(queue) - k,
           \A j \in 1 .. Len(queue') : queue'[j] = queue[j + k]
    PROVE  WriterInv'
  <1>1. TypeOK
    BY DEF WriterInv
  <1>2. /\ Top \in Nat /\ events \in Seq(EventType) /\ queue \in Seq(EntryType)
        /\ DOMAIN queue = 1 .. Len(queue) /\ from \in 1 .. Top + 1 /\ owned \in BOOLEAN
    BY <1>1, TypeFacts, SeqFacts DEF TypeOK
  <1>3. Top' = Top
    BY DEF Top
  <1>4. i \in DOMAIN queue /\ Top <= Top' /\ Top' \in Nat
    BY <1>2, <1>3
  <1>5. FoldInv' /\ folded' \in 0 .. Top /\ carrier' \in Phases
    <2>1. queue[i].kind \in {"note", "suspended"} => queue[i].hi = Top
      BY <1>4 DEF WriterInv, AwaitInv
    <2>. QED
      BY <2>1, FoldKeeps
  <1>6. AwaitInv'
    <2>1. \/ carrier' = carrier
          \/ carrier' # "waiting" /\ \E j \in 1 .. k : queue[j].kind \notin Quiet
      BY DEF GoesOn, Quiet
    <2>. QED
      BY <2>1, AwaitDequeue
  <1>7. /\ LogInv' /\ PairInv' /\ CursorPairsContent' /\ FinalContentHoldsLog'
        /\ log' \in Seq(RowType) /\ content' \in [n : 0 .. Top, cursor : Nat]
        /\ \A n \in 0 .. Top, c \in Nat :
              Pairs(log, events, n, c) => Pairs(log', events', n, c)
    BY DEF LogStep
  <1>8. /\ JobsInv' /\ fenced' \in BOOLEAN /\ sampled' \in 0 .. MaxCheckpoints
        /\ inflight' \in [n : 0 .. Top', ready : BOOLEAN, cursor : Nat]
        /\ pending' \in [n : 0 .. Top', ready : BOOLEAN, cursor : Nat]
    BY <1>4, <1>7, JobsStay
  <1>9. TypeOK'
    BY <1>2, <1>3, <1>5, <1>7, <1>8, TypeNext DEF StreamType
  <1>. QED
    BY <1>5, <1>6, <1>7, <1>8, <1>9 DEF WriterInv

\* One entry is answered.
LEMMA AnswerOne ==
    ASSUME WriterInv, queue # <<>>, queue' = Tail(queue),
           UNCHANGED <<events, from, owned>>, UNCHANGED jobs, LogStep,
           stream' \in [live : BOOLEAN, ended : BOOLEAN, failed : BOOLEAN, lost : BOOLEAN,
                        diverged : BOOLEAN, last : Nat, queuedRows : Int],
           stream'.queuedRows = stream.queuedRows - Retired(Head(queue)),
           stream.failed => stream'.failed, stream.ended => stream'.ended,
           LogTop' = LogTop \/ LogTop' = Head(queue).hi,
           ~stream'.failed => LogTop' = Head(queue).hi,
           GoesOn(Head(queue))
    PROVE  WriterInv'
  <1>1. /\ QueueInv' /\ BufferInv' /\ LinesRise'
        /\ queue' \in Seq(EntryType) /\ stream'.queuedRows \in Nat
        /\ Len(queue') = Len(queue) - 1 /\ Len(queue) \in Nat \ {0}
        /\ \A i \in 1 .. Len(queue') : queue'[i] = queue[i + 1]
    BY DropOne
  <1>2. stream' \in StreamType
    BY <1>1 DEF StreamType
  <1>3. GoesOn(queue[1])
    BY HeadFacts
  <1>4. 1 \in {1, 2} /\ 1 \in 1 .. 1 /\ 1 <= Len(queue) /\ Len(queue) \in Nat
    BY <1>1
  <1>. QED
    BY <1>1, <1>2, <1>3, <1>4, AnswerStep

LEMMA RowLandsStep ==
    ASSUME WriterInv, NEW split \in BOOLEAN, RowLands(split)
    PROVE  WriterInv'
  <1>. DEFINE e == Head(queue)
              row == [kind |-> e.kind, lo |-> e.lo, hi |-> e.hi, split |-> split]
  <1>1. /\ Answers /\ IsRow(e) /\ ~Abandons(e) /\ ~Closed /\ queue # <<>>
        /\ log' = Append(log, row) /\ queue' = Tail(queue)
        /\ stream' = [stream EXCEPT
              !.diverged = @ \/ split,
              !.last = IF e.kind \in Content THEN Len(log) + 1 ELSE @,
              !.queuedRows = @ - Retired(e)]
        /\ UNCHANGED <<events, from, content, owned>> /\ UNCHANGED jobs
    BY DEF RowLands, Takes, Answers, Added
  <1>2. /\ stream \in StreamType /\ Len(log) \in Nat
    <2>1. TypeOK
      BY DEF WriterInv
    <2>. QED
      BY <2>1, StillFacts, TypeFacts, SeqFacts, <1>1
  <1>3. Retired(e) \in Nat
    BY <1>1, HeadFacts, RetiredSmall
  <1>4. /\ stream' \in [live : BOOLEAN, ended : BOOLEAN, failed : BOOLEAN, lost : BOOLEAN,
                        diverged : BOOLEAN, last : Nat, queuedRows : Int]
        /\ stream'.queuedRows = stream.queuedRows - Retired(e)
        /\ stream'.failed = stream.failed /\ stream'.ended = stream.ended
        /\ stream'.last = IF e.kind \in Content THEN Len(log) + 1 ELSE stream.last
        /\ stream'.diverged = (stream.diverged \/ split)
    <2>1. PICK d \in BOOLEAN : d = (stream.diverged \/ split)
      OBVIOUS
    <2>2. PICK m \in Nat : m = IF e.kind \in Content THEN Len(log) + 1 ELSE stream.last
      BY <1>2 DEF StreamType
    <2>3. PICK r \in Int : r = stream.queuedRows - Retired(e)
      BY <1>2, <1>3 DEF StreamType
    <2>4. stream' = [stream EXCEPT !.diverged = d, !.last = m, !.queuedRows = r]
      BY <1>1, <1>2, <2>1, <2>2, <2>3 DEF StreamType
    <2>5. /\ stream' \in [live : BOOLEAN, ended : BOOLEAN, failed : BOOLEAN, lost : BOOLEAN,
                           diverged : BOOLEAN, last : Nat, queuedRows : Int]
          /\ stream'.queuedRows = r /\ stream'.last = m /\ stream'.diverged = d
          /\ stream'.failed = stream.failed /\ stream'.ended = stream.ended
      BY <1>2, <2>4 DEF StreamType
    <2>. QED
      BY <2>1, <2>2, <2>3, <2>5
  <1>5. e.kind # "settle"
    BY <1>1 DEF IsRow
  <1>6. Follows(row)
    BY <1>1, <1>5, HeadRow
  <1>7. row.kind = e.kind /\ row.hi = e.hi /\ row.split = split
    OBVIOUS
  <1>8. GoesOn(e)
    BY <1>1 DEF RowLands, Answer, GoesOn
  <1>. HIDE DEF e, row
  <1>9. LogTop' = e.hi
    <2>1. stream.failed => stream'.failed
      BY <1>4
    <2>2. LogTop' = row.hi
      BY <1>1, <1>6, <2>1, LandKeeps
    <2>. QED
      BY <1>7, <2>2
  <1>10. LogStep
    <2>1. UNCHANGED <<events, content>> /\ (stream.failed => stream'.failed)
          /\ (~stream'.diverged => ~stream.diverged /\ ~row.split)
          /\ IsRow(Head(queue)) /\ row.kind = Head(queue).kind /\ row.hi = Head(queue).hi
          /\ stream'.last = IF row.kind \in Content THEN Len(log) + 1 ELSE stream.last
      BY <1>1, <1>4, <1>7 DEF e
    <2>. QED
      BY <1>1, <1>4, <1>6, <2>1, RowLog
  <1>. QED
    BY <1>1, <1>4, <1>8, <1>9, <1>10, AnswerOne DEF e

LEMMA RowRefusedStep ==
    ASSUME WriterInv, RowRefused
    PROVE  WriterInv'
  <1>. DEFINE e == Head(queue)
  <1>1. /\ queue # <<>> /\ queue' = Tail(queue)
        /\ stream' = [stream EXCEPT !.live = FALSE, !.ended = TRUE, !.failed = TRUE,
              !.lost = @ \/ ~owned, !.queuedRows = @ - Retired(e)]
        /\ UNCHANGED <<events, from, log, content, owned>> /\ UNCHANGED jobs
    BY DEF RowRefused, Answers
  <1>2. stream \in StreamType /\ owned \in BOOLEAN
    BY <1>1, StillFacts
  <1>3. Retired(e) \in Nat
    BY <1>1, HeadFacts, RetiredSmall
  <1>4. /\ stream' \in [live : BOOLEAN, ended : BOOLEAN, failed : BOOLEAN, lost : BOOLEAN,
                        diverged : BOOLEAN, last : Nat, queuedRows : Int]
        /\ stream'.queuedRows = stream.queuedRows - Retired(e)
        /\ stream'.failed /\ stream'.ended
        /\ stream'.last = stream.last /\ stream'.diverged = stream.diverged
    <2>1. PICK d \in BOOLEAN : d = (stream.lost \/ ~owned)
      OBVIOUS
    <2>2. PICK r \in Int : r = stream.queuedRows - Retired(e)
      BY <1>2, <1>3 DEF StreamType
    <2>3. stream' = [stream EXCEPT !.live = FALSE, !.ended = TRUE, !.failed = TRUE,
             !.lost = d, !.queuedRows = r]
      BY <1>1, <1>2, <2>1, <2>2 DEF StreamType
    <2>4. /\ stream' \in [live : BOOLEAN, ended : BOOLEAN, failed : BOOLEAN, lost : BOOLEAN,
                           diverged : BOOLEAN, last : Nat, queuedRows : Int]
          /\ stream'.queuedRows = r /\ stream'.failed /\ stream'.ended
          /\ stream'.last = stream.last /\ stream'.diverged = stream.diverged
      BY <1>2, <2>3 DEF StreamType
    <2>. QED
      BY <2>2, <2>4
  <1>5. GoesOn(e)
    BY <1>1 DEF RowRefused, Answer, GoesOn
  <1>6. LogStep
    BY <1>1, <1>4, StillLog
  <1>7. LogTop' = LogTop
    BY <1>1 DEF LogTop
  <1>. QED
    BY <1>1, <1>4, <1>5, <1>6, <1>7, AnswerOne

LEMMA RowAbandonedStep ==
    ASSUME WriterInv, RowAbandoned
    PROVE  WriterInv'
  <1>. DEFINE e == Head(queue)
  <1>1. /\ queue # <<>> /\ queue' = Tail(queue) /\ stream.failed
        /\ stream' = [stream EXCEPT !.queuedRows = @ - Retired(e)]
        /\ UNCHANGED <<events, from, log, content, owned>> /\ UNCHANGED jobs
    BY DEF RowAbandoned, Answers, Abandons
  <1>2. stream \in StreamType
    BY <1>1, StillFacts
  <1>3. Retired(e) \in Nat
    BY <1>1, HeadFacts, RetiredSmall
  <1>4. /\ stream' \in [live : BOOLEAN, ended : BOOLEAN, failed : BOOLEAN, lost : BOOLEAN,
                        diverged : BOOLEAN, last : Nat, queuedRows : Int]
        /\ stream'.queuedRows = stream.queuedRows - Retired(e)
        /\ stream'.failed /\ stream'.ended = stream.ended
        /\ stream'.last = stream.last /\ stream'.diverged = stream.diverged
    BY <1>1, <1>2, <1>3 DEF StreamType
  <1>5. GoesOn(e)
    BY <1>1 DEF RowAbandoned, Answer, GoesOn
  <1>6. LogStep
    BY <1>1, <1>4, StillLog
  <1>7. LogTop' = LogTop
    BY <1>1 DEF LogTop
  <1>. QED
    BY <1>1, <1>4, <1>5, <1>6, <1>7, AnswerOne

LEMMA SettleStep ==
    ASSUME WriterInv, Settle
    PROVE  WriterInv'
  <1>. DEFINE e == Head(queue)
              J == [n : 0 .. Top, ready : BOOLEAN, cursor : Nat]
  <1>1. /\ queue # <<>> /\ e.kind = "settle" /\ queue' = Tail(queue)
        /\ inflight' = Resolved(inflight, e.hi, SettledAt)
        /\ pending' = Resolved(pending, e.hi, SettledAt)
        /\ UNCHANGED <<events, folded, from, stream, log, content, fenced, sampled,
                       carrier, owned>>
    BY DEF Settle
  <1>2. /\ TypeOK /\ QueueInv /\ LogInv /\ PairInv /\ JobsInv
    BY DEF WriterInv
  <1>3. /\ Top \in Nat /\ events \in Seq(EventType) /\ queue \in Seq(EntryType)
        /\ log \in Seq(RowType) /\ LogTop \in Nat /\ stream \in StreamType
        /\ inflight \in J /\ pending \in J /\ stream.queuedRows \in Nat
    BY <1>2, TypeFacts DEF StreamType, JobType
  <1>4. /\ e \in EntryType /\ LogTop <= e.hi /\ e.hi <= Top /\ e = queue[1]
        /\ ~stream.failed => e.hi = LogTop
    BY <1>1, HeadFacts DEF IsRow
  <1>5. Retired(e) = 0
    BY <1>1, <1>2, <1>3, TailWhole DEF Retired, QueueInv
  <1>6. LogTop' = LogTop /\ Top' = Top
    BY <1>1 DEF LogTop, Top
  <1>7. stream'.queuedRows = stream.queuedRows - Retired(e)
    BY <1>1, <1>3, <1>5
  <1>. HIDE DEF e
  <1>8. /\ QueueInv' /\ BufferInv' /\ LinesRise'
        /\ queue' \in Seq(EntryType) /\ stream'.queuedRows \in Nat
        /\ Len(queue') = Len(queue) - 1 /\ Len(queue) \in Nat \ {0}
        /\ \A i \in 1 .. Len(queue') : queue'[i] = queue[i + 1]
    BY <1>1, <1>4, <1>6, <1>7, DropOne DEF e
  <1>9. AwaitInv'
    <2>1. 1 \in {1, 2} /\ 1 <= Len(queue) /\ Len(queue) \in Nat
      BY <1>8
    <2>. QED
      BY <1>1, <1>8, <2>1, AwaitDequeue
  <1>10. LogStep
    BY <1>1, StillLog
  <1>11. FoldInv'
    BY <1>1 DEF WriterInv, FoldInv, Unfolded, Covered, Top
  <1>12. SettledAt \in Nat
    BY <1>3 DEF SettledAt, StreamType
  <1>13. Pairs(log, events, e.hi, SettledAt)
    <2>1. SUFFICES ASSUME SettledAt # 0 PROVE Pairs(log, events, e.hi, SettledAt)
      BY DEF Pairs
    <2>2. ~stream.failed /\ ~stream.diverged /\ SettledAt = stream.last
      BY <2>1 DEF SettledAt
    <2>3. /\ DOMAIN log = 1 .. Len(log) /\ Len(log) \in Nat
          /\ \A i \in 1 .. Len(log) : log[i] \in RowType
      BY <1>3, SeqFacts
    <2>4. stream.last \in 1 .. Len(log)
      BY <1>2, <1>12, <2>1, <2>2, <2>3 DEF PairInv
    <2>5. \A i \in 1 .. stream.last : i \in 1 .. Len(log)
      BY <2>3, <2>4
    <2>6. \A i \in 1 .. Len(log) : /\ Fits(log[i], events) /\ log[i].hi <= LogTop /\ ~log[i].split
                                   /\ log[i].kind \in Content => i <= stream.last
                                   /\ log[i].lo \in Nat \ {0} /\ log[i].hi \in Nat
      BY <1>2, <2>2, <2>3 DEF LogInv, PairInv, RowType
    <2>7. ASSUME NEW x \in 1 .. LogTop, events[x].kind \in Content
          PROVE  \E i \in 1 .. stream.last : x \in log[i].lo .. log[i].hi
      <3>1. PICK i \in 1 .. Len(log) : x \in log[i].lo .. log[i].hi
        BY <1>2, <2>2, <2>3, <2>7 DEF LogInv, Covered
      <3>2. IsRow(log[i])
        BY <2>6, <3>1 DEF Fits
      <3>3. log[i].kind \in Content
        BY <2>6, <2>7, <3>1, <3>2 DEF Fits
      <3>. QED
        BY <2>4, <2>6, <3>1, <3>3
    <2>8. ASSUME NEW i \in 1 .. stream.last, NEW x \in log[i].lo .. log[i].hi
          PROVE  x \in 1 .. LogTop
      <3>1. log[i].hi <= LogTop /\ log[i].lo \in Nat \ {0} /\ log[i].hi \in Nat
        BY <2>5, <2>6
      <3>2. PICK a \in Nat \ {0}, b \in Nat : a = log[i].lo /\ b = log[i].hi
        BY <3>1
      <3>3. x \in a .. b /\ b <= LogTop
        BY <2>8, <3>1, <3>2
      <3>. QED
        BY <1>3, <3>3
    <2>9. {x \in 1 .. LogTop : events[x].kind \in Content}
             = {x \in UNION {log[i].lo .. log[i].hi : i \in 1 .. stream.last} :
                   events[x].kind \in Content}
      BY <2>7, <2>8
    <2>10. \A i \in 1 .. stream.last : ~log[i].split
      BY <2>5, <2>6
    <2>. QED
      BY <1>4, <2>2, <2>3, <2>4, <2>9, <2>10 DEF Pairs
  <1>14. ASSUME NEW job \in J, job.ready => Pairs(log, events, job.n, job.cursor)
         PROVE  /\ Resolved(job, e.hi, SettledAt) \in J
                /\ Resolved(job, e.hi, SettledAt).ready =>
                      Pairs(log, events, Resolved(job, e.hi, SettledAt).n,
                            Resolved(job, e.hi, SettledAt).cursor)
    <2>1. CASE job.n = e.hi /\ ~job.ready
      <3>. DEFINE r == [job EXCEPT !.ready = TRUE, !.cursor = SettledAt]
      <3>1. r \in J /\ r.n = job.n /\ r.cursor = SettledAt
        BY <1>12, <1>14
      <3>2. Resolved(job, e.hi, SettledAt) = r
        BY <2>1 DEF Resolved
      <3>. HIDE DEF r
      <3>. QED
        BY <1>13, <2>1, <3>1, <3>2
    <2>2. CASE ~(job.n = e.hi /\ ~job.ready)
      <3>1. Resolved(job, e.hi, SettledAt) = job
        BY <2>2 DEF Resolved
      <3>. QED
        BY <1>14, <3>1
    <2>. QED
      BY <2>1, <2>2
  <1>15. inflight' \in J /\ pending' \in J /\ JobsInv'
    BY <1>1, <1>2, <1>3, <1>14 DEF JobsInv
  <1>16. TypeOK'
    BY <1>1, <1>2, <1>6, <1>8, <1>15, TypeNext DEF TypeOK, EventType, RowType
  <1>. QED
    BY <1>8, <1>9, <1>10, <1>11, <1>15, <1>16 DEF WriterInv, LogStep

LEMMA TerminalAnswersStep ==
    ASSUME WriterInv, TerminalAnswers
    PROVE  WriterInv'
  <1>. DEFINE e == Head(queue)
              row == [kind |-> e.kind, lo |-> e.lo, hi |-> e.hi, split |-> FALSE]
  <1>1. /\ queue # <<>> /\ e.kind \in Terminal /\ queue' = Tail(queue)
        /\ stream' = [stream EXCEPT !.live = FALSE, !.failed = @ \/ ~owned,
              !.lost = @ \/ ~owned, !.queuedRows = @ - Retired(e)]
        /\ UNCHANGED <<events, from, owned>> /\ UNCHANGED jobs
    BY DEF TerminalAnswers, Answers
  <1>2. stream \in StreamType /\ owned \in BOOLEAN
    BY <1>1, StillFacts
  <1>3. Retired(e) \in Nat
    BY <1>1, HeadFacts, RetiredSmall
  <1>4. /\ stream' \in [live : BOOLEAN, ended : BOOLEAN, failed : BOOLEAN, lost : BOOLEAN,
                        diverged : BOOLEAN, last : Nat, queuedRows : Int]
        /\ stream'.queuedRows = stream.queuedRows - Retired(e)
        /\ stream'.failed = (stream.failed \/ ~owned) /\ stream'.ended = stream.ended
        /\ stream'.last = stream.last /\ stream'.diverged = stream.diverged
    <2>1. PICK f \in BOOLEAN : f = (stream.failed \/ ~owned)
      OBVIOUS
    <2>2. PICK l \in BOOLEAN : l = (stream.lost \/ ~owned)
      OBVIOUS
    <2>3. PICK r \in Int : r = stream.queuedRows - Retired(e)
      BY <1>2, <1>3 DEF StreamType
    <2>4. stream' = [stream EXCEPT !.live = FALSE, !.failed = f, !.lost = l, !.queuedRows = r]
      BY <1>1, <1>2, <2>1, <2>2, <2>3 DEF StreamType
    <2>5. /\ stream' \in [live : BOOLEAN, ended : BOOLEAN, failed : BOOLEAN, lost : BOOLEAN,
                          diverged : BOOLEAN, last : Nat, queuedRows : Int]
          /\ stream'.queuedRows = r /\ stream'.failed = f /\ stream'.ended = stream.ended
          /\ stream'.last = stream.last /\ stream'.diverged = stream.diverged
      BY <1>2, <2>4 DEF StreamType
    <2>. QED
      BY <2>1, <2>3, <2>5
  <1>5. GoesOn(e)
    BY <1>1 DEF TerminalAnswers, Answer, GoesOn, Terminal
  <1>6. ~stream'.failed => ~stream.failed
    BY <1>4
  <1>7. ~stream'.failed => LogTop = e.hi
    BY <1>1, <1>6, HeadFacts DEF IsRow
  <1>8. /\ LogStep
        /\ LogTop' = LogTop \/ LogTop' = e.hi
        /\ ~stream'.failed => LogTop' = e.hi
    <2>1. CASE ~Takes
      <3>1. UNCHANGED <<log, content>>
        BY <2>1 DEF TerminalAnswers
      <3>2. LogTop' = LogTop
        BY <3>1 DEF LogTop
      <3>3. LogStep
        BY <1>1, <1>4, <3>1, StillLog
      <3>. QED
        BY <1>7, <3>2, <3>3
    <2>2. CASE Takes
      <3>1. log' = Append(log, row) /\ FinalContent(e.kind) /\ ~Closed
        BY <2>2 DEF TerminalAnswers, Added, Takes
      <3>2. Follows(row)
        BY <1>1, HeadRow DEF Abandons, IsRow, Terminal
      <3>3. row.kind = e.kind /\ row.hi = e.hi /\ ~row.split
        OBVIOUS
      <3>4. e.kind = "done" => carrier = "closing"
        BY <1>1, HeadFacts DEF WriterInv, AwaitInv
      <3>. HIDE DEF e, row
      <3>5. stream.failed => stream'.failed
        BY <1>6
      <3>6. LogTop' = row.hi
        BY <1>1, <3>1, <3>2, <3>5, LandKeeps
      <3>7. LogStep
        BY <1>1, <1>4, <3>1, <3>2, <3>3, <3>4, <3>5, TerminalLog
      <3>. QED
        BY <3>3, <3>6, <3>7
    <2>. QED
      BY <2>1, <2>2
  <1>. QED
    BY <1>1, <1>4, <1>5, <1>6, <1>8, AnswerOne

LEMMA WriteThrowsStep ==
    ASSUME WriterInv, NEW landed \in BOOLEAN, WriteThrows(landed)
    PROVE  WriterInv'
  <1>. DEFINE e == Head(queue)
              own == IF e.more THEN queue[2] ELSE e
              row == [kind |-> e.kind, lo |-> e.lo, hi |-> e.hi, split |-> FALSE]
  <1>1. /\ Answers /\ queue # <<>> /\ e.kind # "settle" /\ ~Abandons(e)
        /\ landed => ~Closed /\ log' = Append(log, row)
        /\ ~landed => UNCHANGED log
        /\ IF landed /\ e.kind \in Terminal THEN FinalContent(e.kind) ELSE UNCHANGED content
        /\ queue' = IF e.more THEN Tail(Tail(queue)) ELSE Tail(queue)
        /\ stream' = [stream EXCEPT !.failed = TRUE,
              !.live = @ /\ own.kind \notin Terminal,
              !.queuedRows = @ - own.size]
        /\ UNCHANGED <<events, from, owned>> /\ UNCHANGED jobs
    BY DEF WriteThrows, Answers, Added, Takes
  <1>2. stream \in StreamType /\ queue \in Seq(EntryType)
    BY <1>1, StillFacts
  <1>3. e \in EntryType /\ e = queue[1] /\ LogTop <= e.hi
    BY <1>1, HeadFacts
  <1>4. e.more => queue[2] \in EntryType
    <2>1. e.more => 2 \in DOMAIN queue
      BY <1>1, <1>2, TailWhole DEF WriterInv, QueueInv
    <2>. QED
      BY <1>2, <2>1, SeqFacts
  <1>5. own \in EntryType /\ own.size \in Nat
    BY <1>3, <1>4 DEF EntryType
  <1>6. /\ carrier' = CASE own.kind \in {"note", "suspended"}
                              /\ carrier \in {"noting", "suspending"} -> "fencing"
                        [] own.kind = "done" /\ carrier = "closing" -> "stopped"
                        [] OTHER -> carrier
        /\ folded' = folded
    BY DEF WriteThrows
  <1>. HIDE DEF own
  <1>7. GoesOn(own)
    BY <1>6 DEF GoesOn
  <1>8. /\ stream' \in [live : BOOLEAN, ended : BOOLEAN, failed : BOOLEAN, lost : BOOLEAN,
                        diverged : BOOLEAN, last : Nat, queuedRows : Int]
        /\ stream'.queuedRows = stream.queuedRows - own.size
        /\ stream'.failed /\ stream'.ended = stream.ended
        /\ stream'.last = stream.last /\ stream'.diverged = stream.diverged
    <2>1. PICK l \in BOOLEAN : l = (stream.live /\ own.kind \notin Terminal)
      OBVIOUS
    <2>2. PICK r \in Int : r = stream.queuedRows - own.size
      BY <1>2, <1>5 DEF StreamType
    <2>3. stream' = [stream EXCEPT !.failed = TRUE, !.live = l, !.queuedRows = r]
      BY <1>1, <1>2, <2>1, <2>2 DEF StreamType
    <2>4. /\ stream' \in [live : BOOLEAN, ended : BOOLEAN, failed : BOOLEAN, lost : BOOLEAN,
                          diverged : BOOLEAN, last : Nat, queuedRows : Int]
          /\ stream'.queuedRows = r /\ stream'.failed /\ stream'.ended = stream.ended
          /\ stream'.last = stream.last /\ stream'.diverged = stream.diverged
      BY <1>2, <2>3 DEF StreamType
    <2>. QED
      BY <2>2, <2>4
  <1>9. Follows(row)
    BY <1>1, HeadRow
  <1>10. row.kind = e.kind /\ row.hi = e.hi /\ ~row.split
    OBVIOUS
  <1>. HIDE DEF row
  <1>11. landed => LogTop' = e.hi
    BY <1>1, <1>8, <1>9, <1>10, LandKeeps
  <1>12. ~landed => LogTop' = LogTop
    BY <1>1 DEF LogTop
  <1>13. LogTop' = LogTop \/ LogTop' = e.hi
    BY <1>11, <1>12
  <1>14. LogStep
    <2>1. CASE ~landed
      BY <1>1, <1>8, <2>1, StillLog
    <2>2. CASE landed /\ e.kind \in Terminal
      <3>1. e.kind = "done" => carrier = "closing"
        BY <1>1, HeadFacts DEF WriterInv, AwaitInv
      <3>2. ~Closed /\ log' = Append(log, row) /\ FinalContent(row.kind) /\ row.kind \in Terminal
        BY <1>1, <1>10, <2>2
      <3>. QED
        BY <1>1, <1>8, <1>9, <1>10, <3>1, <3>2, TerminalLog
    <2>3. CASE landed /\ e.kind \notin Terminal
      <3>1. ~Closed /\ log' = Append(log, row) /\ UNCHANGED content /\ IsRow(e)
        BY <1>1, <1>10, <2>3 DEF IsRow
      <3>. QED
        BY <1>1, <1>8, <1>9, <1>10, <3>1, RowLog
    <2>. QED
      BY <2>1, <2>2, <2>3
  <1>15. CASE ~e.more
    <2>1. own = e /\ Retired(e) = own.size /\ queue' = Tail(queue)
      BY <1>1, <1>15 DEF own, Retired
    <2>. QED
      BY <1>1, <1>7, <1>8, <1>13, <1>14, <2>1, AnswerOne
  <1>16. CASE e.more
    <2>1. own = queue[2] /\ queue' = Tail(Tail(queue)) /\ e.more
      BY <1>1, <1>16 DEF own
    <2>2. /\ QueueInv' /\ BufferInv' /\ LinesRise'
          /\ queue' \in Seq(EntryType) /\ stream'.queuedRows \in Nat
          /\ Len(queue') = Len(queue) - 2 /\ Len(queue) \in Nat /\ Len(queue) >= 2
          /\ \A i \in 1 .. Len(queue') : queue'[i] = queue[i + 2]
      BY <1>1, <1>8, <1>13, <2>1, DropTwo
    <2>3. stream' \in StreamType
      BY <1>8, <2>2 DEF StreamType
    <2>4. 2 \in {1, 2} /\ 2 \in 1 .. 2 /\ 2 <= Len(queue) /\ GoesOn(queue[2])
      BY <1>7, <2>1, <2>2
    <2>. QED
      BY <1>1, <1>8, <1>14, <2>2, <2>3, <2>4, AnswerStep
  <1>. QED
    BY <1>15, <1>16

LEMMA PeerClosesStep ==
    ASSUME WriterInv, PeerCloses
    PROVE  WriterInv'
  <1>. DEFINE row == [kind |-> "close", lo |-> LogTop + 1, hi |-> LogTop, split |-> FALSE]
  <1>1. /\ ~Closed /\ log' = Append(log, row) /\ FinalContent("close")
        /\ UNCHANGED <<events, folded, from, queue, stream, carrier, owned>> /\ UNCHANGED jobs
    BY DEF PeerCloses, Added, Entry, Takes, chain
  <1>2. TypeOK /\ QueueInv /\ AwaitInv
    BY DEF WriterInv
  <1>3. /\ Top \in Nat /\ LogTop \in Nat /\ from \in 1 .. Top + 1 /\ from - 1 \in Nat
    BY <1>2, TypeFacts
  <1>4. LogTop <= Top
    <2>1. LogTop <= from - 1
      BY <1>2 DEF QueueInv, Ordered
    <2>. QED
      BY <1>3, <2>1
  <1>5. /\ row.kind = "close" /\ row.lo = LogTop + 1 /\ row.hi = LogTop /\ ~row.split
        /\ row \in RowType
    BY <1>3 DEF RowType, Terminal
  <1>. HIDE DEF row
  <1>6. ~IsRow(row) /\ row.kind \in Terminal
    BY <1>5 DEF IsRow, Terminal
  <1>7. Follows(row)
    BY <1>3, <1>4, <1>5, <1>6 DEF Follows, Fits, Top
  <1>8. LogTop' = LogTop
    BY <1>1, <1>5, <1>7, LandKeeps
  <1>9. LogStep
    <2>1. FinalContent(row.kind) /\ row.kind # "done"
      BY <1>1, <1>5
    <2>. QED
      BY <1>1, <1>5, <1>6, <1>7, <2>1, TerminalLog
  <1>10. Top' = Top
    BY <1>1 DEF Top
  <1>11. QueueInv' /\ BufferInv' /\ LinesRise' /\ AwaitInv'
    BY <1>1, <1>8, <1>10 DEF WriterInv, QueueInv, BufferInv, LinesRise, AwaitInv
  <1>12. FoldInv' /\ folded' \in 0 .. Top /\ carrier' \in Phases
    <2>1. GoesOn(row) /\ row.kind \notin {"note", "suspended"}
      BY <1>1, <1>5 DEF GoesOn
    <2>. QED
      BY <1>1, <1>9, <2>1, FoldKeeps
  <1>13. /\ LogInv' /\ PairInv' /\ CursorPairsContent' /\ FinalContentHoldsLog'
         /\ log' \in Seq(RowType) /\ content' \in [n : 0 .. Top, cursor : Nat]
         /\ \A n \in 0 .. Top, c \in Nat :
               Pairs(log, events, n, c) => Pairs(log', events', n, c)
    BY <1>9 DEF LogStep
  <1>14. /\ JobsInv' /\ fenced' \in BOOLEAN /\ sampled' \in 0 .. MaxCheckpoints
         /\ inflight' \in [n : 0 .. Top', ready : BOOLEAN, cursor : Nat]
         /\ pending' \in [n : 0 .. Top', ready : BOOLEAN, cursor : Nat]
    <2>1. Top' \in Nat /\ Top <= Top'
      BY <1>3, <1>10
    <2>. QED
      BY <1>1, <1>13, <2>1, JobsStay
  <1>15. TypeOK'
    BY <1>1, <1>2, <1>10, <1>12, <1>13, <1>14, TypeNext DEF TypeOK, EventType, EntryType
  <1>. QED
    BY <1>11, <1>12, <1>13, <1>14, <1>15 DEF WriterInv

-----------------------------------------------------------------------------
(* The steps that leave events, queue and log alone *)

\* The checkpointer's jobs go on, and a lost slot changes nothing by itself.
LEMMA JobsMove ==
    ASSUME WriterInv, UNCHANGED <<events, folded, from, queue, stream, log, carrier, sampled>>,
           owned' \in BOOLEAN, fenced' \in BOOLEAN,
           inflight' \in {inflight, pending, NoJob}, pending' \in {pending, NoJob},
           \/ content' = content
           \/ /\ inflight.ready /\ ~Closed
              /\ content' = [n |-> inflight.n, cursor |-> inflight.cursor]
    PROVE  WriterInv'
  <1>. DEFINE J == [n : 0 .. Top, ready : BOOLEAN, cursor : Nat]
  <1>1. TypeOK /\ JobsInv /\ CursorPairsContent /\ FinalContentHoldsLog
    BY DEF WriterInv
  <1>2. /\ Top \in Nat /\ inflight \in J /\ pending \in J
        /\ content \in [n : 0 .. Top, cursor : Nat]
    BY <1>1, TypeFacts DEF JobType
  <1>3. NoJob \in J /\ ~NoJob.ready
    BY <1>2 DEF NoJob
  <1>4. Top' = Top /\ LogTop' = LogTop /\ (Closed' <=> Closed)
    BY DEF Top, LogTop, Closed
  <1>5. /\ QueueInv' /\ BufferInv' /\ LinesRise' /\ LogInv' /\ AwaitInv' /\ PairInv'
    BY <1>4 DEF WriterInv, QueueInv, BufferInv, LinesRise, LogInv, AwaitInv, PairInv
  <1>6. FoldInv'
    BY <1>4 DEF WriterInv, FoldInv, Unfolded
  <1>7. JobsInv'
    BY <1>1, <1>3 DEF JobsInv
  <1>8. content' \in [n : 0 .. Top, cursor : Nat]
    BY <1>2
  <1>9. CursorPairsContent'
    <2>1. CASE content' = content
      BY <1>1, <2>1 DEF CursorPairsContent, Contents
    <2>2. CASE /\ inflight.ready
               /\ content' = [n |-> inflight.n, cursor |-> inflight.cursor]
      <3>1. Pairs(log, events, inflight.n, inflight.cursor)
        BY <1>1, <2>2 DEF JobsInv
      <3>2. content'.n = inflight.n /\ content'.cursor = inflight.cursor
        BY <2>2
      <3>. QED
        BY <3>1, <3>2 DEF CursorPairsContent, Contents, Pairs
    <2>. QED
      BY <2>1, <2>2
  <1>10. FinalContentHoldsLog'
    BY <1>1, <1>4 DEF FinalContentHoldsLog, Contents, Logged
  <1>11. TypeOK'
    BY <1>1, <1>2, <1>3, <1>4, <1>8, TypeNext DEF TypeOK, EventType, EntryType, RowType
  <1>. QED
    BY <1>5, <1>6, <1>7, <1>9, <1>10, <1>11 DEF WriterInv

\* The carrier goes on with nothing awaited in the queue.
LEMMA CarrierMoves ==
    ASSUME WriterInv, UNCHANGED <<events, folded, from, queue, stream, log, content, owned>>,
           UNCHANGED jobs,
           \/ carrier \in {"reading", "draining"}
           \/ carrier = "waiting" /\ carrier' = "fencing" /\ stream.failed
           \/ carrier = "fencing",
           carrier' \in {"fencing", "draining", "stopped"},
           carrier = "fencing" => carrier' = "stopped"
    PROVE  WriterInv'
  <1>1. TypeOK /\ FoldInv
    BY DEF WriterInv
  <1>2. Top' = Top /\ LogTop' = LogTop
    BY DEF Top, LogTop
  <1>3. \A i \in DOMAIN queue : queue[i].kind \in Quiet
    BY QuietQueue
  <1>4. AwaitInv'
    BY <1>3 DEF AwaitInv, Quiet
  <1>5. FoldInv'
    <2>1. CASE carrier \in {"reading", "draining"}
      <3>1. \A x \in 1 .. Top : events[x].kind \in Content => x <= folded
        BY <2>1, AllFolded
      <3>2. folded \in 0 .. Top /\ Top \in Nat
        BY <1>1, TypeFacts
      <3>3. \A x : ~Unfolded(x)
        BY <3>1, <3>2 DEF Unfolded
      <3>4. \A x : Unfolded(x)' <=> Unfolded(x)
        BY <1>2 DEF Unfolded
      <3>. QED
        BY <3>3, <3>4 DEF FoldInv
    <2>2. CASE carrier \in {"waiting", "fencing"}
      BY <1>1, <1>2, <2>2 DEF FoldInv, Unfolded, Covered
    <2>. QED
      BY <2>1, <2>2
  <1>6. /\ QueueInv' /\ BufferInv' /\ LinesRise' /\ LogInv' /\ PairInv' /\ JobsInv'
        /\ CursorPairsContent' /\ FinalContentHoldsLog'
    <2>1. /\ QueueInv' /\ BufferInv' /\ LinesRise' /\ LogInv' /\ PairInv'
      BY <1>2 DEF WriterInv, QueueInv, BufferInv, LinesRise, LogInv, PairInv
    <2>2. JobsInv' /\ CursorPairsContent' /\ FinalContentHoldsLog'
      BY <1>2 DEF WriterInv, JobsInv, jobs, CursorPairsContent, FinalContentHoldsLog, Contents,
                  Logged, Closed
    <2>. QED
      BY <2>1, <2>2
  <1>7. carrier' \in Phases
    BY DEF Phases
  <1>8. TypeOK'
    BY <1>1, <1>2, <1>7, TypeNext DEF TypeOK, EventType, EntryType, RowType, jobs
  <1>. QED
    BY <1>4, <1>5, <1>6, <1>8 DEF WriterInv

LEMMA StutterStep ==
    ASSUME WriterInv, UNCHANGED vars
    PROVE  WriterInv'
  <1>1. TypeOK
    BY DEF WriterInv
  <1>2. owned' \in BOOLEAN /\ fenced' \in BOOLEAN
    BY <1>1 DEF vars, jobs, TypeOK
  <1>. QED
    BY <1>2, JobsMove DEF vars, jobs, chain

LEMMA CheckpointerStep ==
    ASSUME WriterInv, CheckpointWritten \/ CheckpointFails
    PROVE  WriterInv'
  <1>1. TypeOK
    BY DEF WriterInv
  <1>2. /\ UNCHANGED <<events, folded, from, queue, stream, log, carrier, sampled>>
        /\ UNCHANGED <<owned, fenced>>
    BY DEF CheckpointWritten, CheckpointFails, chain
  <1>3. owned' \in BOOLEAN /\ fenced' \in BOOLEAN
    BY <1>1, <1>2 DEF TypeOK
  <1>4. inflight' \in {inflight, pending, NoJob} /\ pending' \in {pending, NoJob}
    BY DEF CheckpointWritten, CheckpointFails, Pump
  <1>5. \/ content' = content
        \/ /\ inflight.ready /\ ~Closed
           /\ content' = [n |-> inflight.n, cursor |-> inflight.cursor]
    BY DEF CheckpointWritten, CheckpointFails, Store
  <1>. QED
    BY <1>2, <1>3, <1>4, <1>5, JobsMove

LEMMA FenceStep ==
    ASSUME WriterInv, Fence \/ TakenOver
    PROVE  WriterInv'
  <1>1. TypeOK
    BY DEF WriterInv
  <1>2. /\ UNCHANGED <<events, folded, from, queue, stream, log, content, carrier, sampled>>
        /\ inflight' = inflight /\ pending' \in {pending, NoJob}
    BY DEF Fence, TakenOver, chain, jobs
  <1>3. owned' \in BOOLEAN /\ fenced' \in BOOLEAN
    BY <1>1 DEF TypeOK, Fence, TakenOver, jobs
  <1>. QED
    BY <1>2, <1>3, JobsMove

LEMMA LoopEndsStep ==
    ASSUME WriterInv,
           EmitThrows \/ WaitThrows \/ EmitRefused \/ AdapterEnds
           \/ (EmitTerminal /\ ~Admits) \/ (EndStream /\ ~stream.live)
    PROVE  WriterInv'
  <1>1. /\ UNCHANGED <<events, folded, from, queue, stream, log, content, owned>>
        /\ UNCHANGED jobs
    BY DEF EmitThrows, WaitThrows, EmitRefused, AdapterEnds, EmitTerminal, EndStream, chain
  <1>2. /\ \/ carrier \in {"reading", "draining"}
           \/ carrier = "waiting" /\ carrier' = "fencing" /\ stream.failed
           \/ carrier = "fencing"
        /\ carrier' \in {"fencing", "draining", "stopped"}
        /\ carrier = "fencing" => carrier' = "stopped"
    BY DEF EmitThrows, WaitThrows, EmitRefused, AdapterEnds, EmitTerminal, EndStream
  <1>. QED
    BY <1>1, <1>2, CarrierMoves

-----------------------------------------------------------------------------
(* The invariant and what it gives *)

LEMMA InitWriter == Init => WriterInv
  <1>. SUFFICES ASSUME Init PROVE WriterInv
    OBVIOUS
  <1>1. /\ Top = 0 /\ LogTop = 0 /\ DOMAIN log = {} /\ DOMAIN queue = {} /\ from - 1 = 0
        /\ Len(log) = 0 /\ Len(queue) = 0 /\ events = <<>> /\ from = 1
        /\ log = <<>> /\ queue = <<>>
    BY DEF Init, Top, LogTop
  <1>2. TypeOK
    <2>1. NoJob \in [n : 0 .. 0, ready : BOOLEAN, cursor : Nat]
      BY DEF NoJob
    <2>2. /\ events \in Seq(EventType) /\ queue \in Seq(EntryType) /\ log \in Seq(RowType)
      BY <1>1
    <2>3. /\ folded \in 0 .. 0 /\ from \in 1 .. 1 /\ sampled \in 0 .. MaxCheckpoints
      BY WriterAssumption DEF Init
    <2>4. stream \in StreamType /\ content \in [n : 0 .. 0, cursor : Nat]
      BY DEF Init, StreamType
    <2>5. /\ {inflight, pending} \subseteq [n : 0 .. 0, ready : BOOLEAN, cursor : Nat]
          /\ fenced \in BOOLEAN /\ carrier \in Phases /\ owned \in BOOLEAN
      BY <2>1 DEF Init, Phases
    <2>6. from \in 1 .. Top + 1
      BY <1>1
    <2>. QED
      BY <1>1, <2>2, <2>3, <2>4, <2>5, <2>6
      DEF TypeOK, EventType, EntryType, RowType, StreamType
  <1>3. QueueInv
    <2>1. Ordered(queue, 0, 0) /\ Joined(queue, 0, 0) /\ WholeTasks(queue) /\ Counts(queue, 0)
      BY <1>1, EmptyBatch DEF Batch
    <2>2. stream.queuedRows = 0
      BY DEF Init
    <2>. QED
      BY <1>1, <2>1, <2>2 DEF QueueInv
  <1>4. /\ BufferInv /\ LinesRise
    BY <1>1 DEF BufferInv, LinesRise, Rising, Top
  <1>5. LogInv /\ AwaitInv /\ FoldInv /\ PairInv
    <2>1. LogInv
      BY <1>1 DEF LogInv
    <2>2. AwaitInv
      BY <1>1 DEF Init, AwaitInv
    <2>3. FoldInv
      BY <1>1 DEF FoldInv
    <2>4. PairInv
      BY <1>1 DEF Init, PairInv
    <2>. QED
      BY <2>1, <2>2, <2>3, <2>4
  <1>6. JobsInv /\ CursorPairsContent /\ FinalContentHoldsLog
    BY <1>1 DEF Init, NoJob, JobsInv, CursorPairsContent, FinalContentHoldsLog, Closed
  <1>. QED
    BY <1>2, <1>3, <1>4, <1>5, <1>6 DEF WriterInv

LEMMA NextWriter == WriterInv /\ [Next]_vars => WriterInv'
  <1>. SUFFICES ASSUME WriterInv, [Next]_vars PROVE WriterInv'
    OBVIOUS
  <1>1. CASE Chain
    BY <1>1, RowLandsStep, RowRefusedStep, RowAbandonedStep, TerminalAnswersStep, SettleStep,
       WriteThrowsStep DEF Chain
  <1>2. CASE Carrier
    <2>1. ASSUME EmitTerminal PROVE WriterInv'
      BY <2>1, EmitTerminalStep, LoopEndsStep
    <2>2. ASSUME EndStream PROVE WriterInv'
      BY <2>2, EndStreamStep, LoopEndsStep
    <2>. QED
      BY <1>2, <2>1, <2>2, CapacityBackStep, LoopEndsStep, FenceStep DEF Carrier
  <1>3. CASE Checkpointer
    BY <1>3, CheckpointerStep DEF Checkpointer
  <1>4. CASE Environment
    BY <1>4, EmitTokenStep, EmitToolStep, EmitNoteStep, LoopEndsStep, FlushTimerStep,
       OtherClosesStep, FenceStep, PeerClosesStep DEF Environment
  <1>5. CASE UNCHANGED vars
    BY <1>5, StutterStep
  <1>. QED
    BY <1>1, <1>2, <1>3, <1>4, <1>5 DEF Next

\* WriterInv holds in every state: queue, log, buffer and fold are the
\* prefixes of the events that the code's comments take them for.
THEOREM WriterInvariant == Spec => []WriterInv
  BY InitWriter, NextWriter, PTL DEF Spec

\* The variables of the write side keep their types.
THEOREM WriterTypeCorrect == Spec => []TypeOK
  BY WriterInvariant, PTL DEF WriterInv

LEMMA SkipsNothing == WriterInv => ResumeSkipsNothing
  <1>. SUFFICES ASSUME WriterInv, NEW i \in DOMAIN log, log[i].kind \notin Terminal,
                       NEW e \in 1 .. Top, Line(e) <= Claim(log[i])
                PROVE  Logged(e)
    BY DEF ResumeSkipsNothing
  <1>1. TypeOK /\ LinesRise /\ LogInv
    BY DEF WriterInv
  <1>2. /\ Top \in Nat /\ log[i] \in RowType /\ \A x \in 1 .. Top : events[x] \in EventType
    BY <1>1, TypeFacts, SeqFacts DEF Top
  <1>3. /\ log[i].hi \in Nat /\ log[i].lo \in Nat \ {0} /\ log[i].lo <= log[i].hi
        /\ log[i].hi <= Top
    BY <1>1, <1>2 DEF RowType, LogInv, Fits, IsRow, Content, Top
  <1>4. log[i].hi \in 1 .. Top
    BY <1>2, <1>3
  <1>5. Line(log[i].hi) \in Nat /\ Line(e) \in Nat
    BY <1>2, <1>4 DEF Line, EventType
  <1>6. e <= log[i].hi
    <2>1. SUFFICES ASSUME log[i].hi <= e PROVE FALSE
      BY <1>2, <1>3
    <2>2. Line(log[i].hi) <= Line(e)
      BY <1>1, <1>4, <2>1 DEF LinesRise, Rising, Line, Top
    <2>. QED
      BY <1>5, <2>2 DEF Claim
  <1>7. e \in 1 .. log[i].hi
    BY <1>2, <1>3, <1>6
  <1>. QED
    BY <1>1, <1>7 DEF LogInv, Covered, Logged

\* A runner that resumes behind the highest runner_seq in the table leaves no
\* event out, however rows were batched, refused, abandoned or lost.
THEOREM ResumesSkipNothing == Spec => []ResumeSkipsNothing
  BY WriterInvariant, SkipsNothing, PTL

\* The cursor stored with a checkpoint covers just the rows of the events the
\* checkpoint holds.
THEOREM CursorsPair == Spec => []CursorPairsContent
  BY WriterInvariant, PTL DEF WriterInv

\* The content that comes with a terminal holds every content row of the turn,
\* whoever wrote it and whatever of the carrier's rows was lost.
THEOREM FinalContentHolds == Spec => []FinalContentHoldsLog
  BY WriterInvariant, PTL DEF WriterInv

LEMMA ContentStays == [Next]_vars => [Closed => content' = content]_vars
  <1>. SUFFICES ASSUME Next, Closed PROVE content' = content
    BY DEF vars
  <1>1. CASE Chain
    BY <1>1 DEF Chain, RowLands, RowRefused, RowAbandoned, TerminalAnswers, Settle, WriteThrows,
                Takes
  <1>2. CASE Carrier
    BY <1>2 DEF Carrier, CapacityBack, WaitThrows, Fence, EmitTerminal, EndStream
  <1>3. CASE Checkpointer
    BY <1>3 DEF Checkpointer, CheckpointWritten, CheckpointFails, Store
  <1>4. CASE Environment
    BY <1>4 DEF Environment, EmitToken, EmitTool, EmitNote, EmitThrows, EmitRefused, AdapterEnds,
                FlushTimer, OtherCloses, TakenOver, PeerCloses, Takes
  <1>. QED
    BY <1>1, <1>2, <1>3, <1>4 DEF Next

\* No checkpoint that was under way lands on the content of an ended turn.
THEOREM FinalContentIsFinal == Spec => FinalContentStays
  BY ContentStays, PTL DEF Spec, FinalContentStays

-----------------------------------------------------------------------------
(* The message as its readers see it *)

\* What a step may do to events, log and content.
MessageStep ==
    \/ UNCHANGED <<events, log, content>>
    \/ Grows /\ Top' = Top + 1 /\ Top < MaxEvents /\ UNCHANGED <<log, content>>
    \/ UNCHANGED <<events, log>> /\ ~Closed
    \/ \E row \in RowType :
          /\ UNCHANGED events /\ ~Closed /\ Follows(row) /\ log' = Append(log, row)
          /\ stream.failed => stream'.failed
          /\ \/ IsRow(row) /\ UNCHANGED content
             \/ row.kind \in Terminal /\ content'.cursor = 0

LEMMA HeadLands ==
    ASSUME WriterInv, queue # <<>>, Head(queue).kind # "settle", ~Abandons(Head(queue)),
           NEW split \in BOOLEAN, Added(Head(queue), split), Takes,
           UNCHANGED events, stream.failed => stream'.failed,
           IF Head(queue).kind \in Terminal THEN FinalContent(Head(queue).kind)
                                            ELSE UNCHANGED content
    PROVE  MessageStep
  <1>. DEFINE row == [kind |-> Head(queue).kind, lo |-> Head(queue).lo, hi |-> Head(queue).hi,
                      split |-> split]
  <1>1. Follows(row) /\ row \in RowType
    BY HeadRow DEF Follows
  <1>2. row.kind = Head(queue).kind /\ log' = Append(log, row) /\ ~Closed
    BY DEF Added, Takes
  <1>. HIDE DEF row
  <1>3. \/ IsRow(row) /\ UNCHANGED content
        \/ row.kind \in Terminal /\ content'.cursor = 0
    BY <1>2 DEF IsRow, FinalContent
  <1>. QED
    BY <1>1, <1>2, <1>3 DEF MessageStep

LEMMA ChainMessage ==
    ASSUME WriterInv, Chain
    PROVE  MessageStep
  <1>1. stream \in StreamType
    BY TypeFacts DEF WriterInv, StreamType
  <1>2. ASSUME NEW split \in BOOLEAN, RowLands(split) PROVE MessageStep
    <2>1. /\ queue # <<>> /\ IsRow(Head(queue)) /\ ~Abandons(Head(queue)) /\ Takes
          /\ Added(Head(queue), split) /\ UNCHANGED <<events, content>>
          /\ stream'.failed = stream.failed
      BY <1>1, <1>2 DEF RowLands, Answers, StreamType
    <2>2. Head(queue).kind \notin Terminal \cup {"settle"}
      BY <2>1 DEF IsRow
    <2>. QED
      BY <2>1, <2>2, HeadLands
  <1>3. ASSUME NEW landed \in BOOLEAN, WriteThrows(landed) PROVE MessageStep
    <2>1. CASE landed
      <3>1. /\ queue # <<>> /\ Head(queue).kind # "settle" /\ ~Abandons(Head(queue)) /\ Takes
            /\ Added(Head(queue), FALSE) /\ UNCHANGED events
            /\ IF Head(queue).kind \in Terminal THEN FinalContent(Head(queue).kind)
                                                ELSE UNCHANGED content
        BY <1>3, <2>1 DEF WriteThrows, Answers
      <3>2. stream'.failed
        BY <1>1, <1>3 DEF WriteThrows, StreamType
      <3>. QED
        BY <3>1, <3>2, HeadLands
    <2>2. CASE ~landed
      BY <1>3, <2>2 DEF WriteThrows, MessageStep
    <2>. QED
      BY <2>1, <2>2
  <1>4. ASSUME TerminalAnswers PROVE MessageStep
    <2>1. CASE Takes
      <3>1. /\ queue # <<>> /\ Head(queue).kind \in Terminal
            /\ Added(Head(queue), FALSE) /\ UNCHANGED events /\ FinalContent(Head(queue).kind)
        BY <1>4, <2>1 DEF TerminalAnswers, Answers
      <3>2. stream'.failed = (stream.failed \/ ~owned)
        BY <1>1, <1>4 DEF TerminalAnswers, StreamType
      <3>3. Head(queue).kind # "settle" /\ ~Abandons(Head(queue))
        BY <3>1 DEF Terminal, Abandons, IsRow
      <3>. QED
        BY <2>1, <3>1, <3>2, <3>3, HeadLands
    <2>2. CASE ~Takes
      BY <1>4, <2>2 DEF TerminalAnswers, MessageStep
    <2>. QED
      BY <2>1, <2>2
  <1>5. ASSUME RowRefused \/ RowAbandoned \/ Settle PROVE MessageStep
    BY <1>5 DEF RowRefused, RowAbandoned, Settle, MessageStep
  <1>. QED
    BY <1>2, <1>3, <1>4, <1>5 DEF Chain

LEMMA ReadMessage ==
    ASSUME WriterInv, NEW kind \in Content \cup {"note", "suspended"}, NEW fresh \in BOOLEAN,
           Reads(kind, fresh), UNCHANGED <<log, content>>
    PROVE  MessageStep
  <1>1. TypeOK /\ LinesRise
    BY DEF WriterInv
  <1>2. Grows /\ Top' = Top + 1
    BY <1>1, ReadsGrow
  <1>. QED
    BY <1>2 DEF Reads, MessageStep

LEMMA PeerMessage ==
    ASSUME WriterInv, PeerCloses
    PROVE  MessageStep
  <1>. DEFINE row == [kind |-> "close", lo |-> LogTop + 1, hi |-> LogTop, split |-> FALSE]
  <1>1. /\ ~Closed /\ log' = Append(log, row) /\ content'.cursor = 0
        /\ UNCHANGED <<events, stream>>
    BY DEF PeerCloses, Added, Entry, Takes, chain, FinalContent
  <1>2. TypeOK /\ QueueInv
    BY DEF WriterInv
  <1>3. Top \in Nat /\ LogTop \in Nat /\ from \in 1 .. Top + 1 /\ from - 1 \in Nat
    BY <1>2, TypeFacts
  <1>4. LogTop <= Top
    <2>1. LogTop <= from - 1
      BY <1>2 DEF QueueInv, Ordered
    <2>. QED
      BY <1>3, <2>1
  <1>5. row.kind = "close" /\ row.lo = LogTop + 1 /\ row.hi = LogTop /\ row \in RowType
    BY <1>3 DEF RowType, Terminal
  <1>. HIDE DEF row
  <1>6. ~IsRow(row) /\ row.kind \in Terminal
    BY <1>5 DEF IsRow, Terminal
  <1>7. Follows(row)
    BY <1>3, <1>4, <1>5, <1>6 DEF Follows, Fits, Top
  <1>. QED
    BY <1>1, <1>5, <1>6, <1>7 DEF MessageStep

LEMMA NextMessage ==
    ASSUME WriterInv, [Next]_vars
    PROVE  MessageStep
  <1>1. CASE Chain
    BY <1>1, ChainMessage
  <1>2. CASE Carrier
    BY <1>2 DEF Carrier, CapacityBack, WaitThrows, Fence, EmitTerminal, EndStream, MessageStep
  <1>3. CASE Checkpointer
    BY <1>3 DEF Checkpointer, CheckpointWritten, CheckpointFails, Store, MessageStep
  <1>4. CASE Environment
    <2>1. ASSUME NEW fresh \in BOOLEAN, NEW sample \in BOOLEAN,
                 EmitToken(fresh, sample) \/ EmitTool(fresh, sample)
          PROVE  MessageStep
      BY <2>1, ReadMessage DEF EmitToken, EmitTool, Content
    <2>2. ASSUME NEW fresh \in BOOLEAN, NEW kind \in {"note", "suspended"}, EmitNote(fresh, kind)
          PROVE  MessageStep
      BY <2>2, ReadMessage DEF EmitNote
    <2>3. ASSUME EmitThrows \/ EmitRefused \/ AdapterEnds \/ FlushTimer \/ OtherCloses \/ TakenOver
          PROVE  MessageStep
      BY <2>3 DEF EmitThrows, EmitRefused, AdapterEnds, FlushTimer, OtherCloses, TakenOver,
                  MessageStep
    <2>. QED
      BY <1>4, <2>1, <2>2, <2>3, PeerMessage DEF Environment
  <1>5. CASE UNCHANGED vars
    BY <1>5 DEF vars, MessageStep
  <1>. QED
    BY <1>1, <1>2, <1>3, <1>4, <1>5 DEF Next

\* The pieces of the log's first n rows, and of what was admitted up to n.
LEMMA PieceFacts ==
    ASSUME WriterInv
    PROVE  /\ Top \in Nat /\ log \in Seq(RowType) /\ Len(log) \in Nat
           /\ DOMAIN log = 1 .. Len(log) /\ Len(LogPieces) = Len(log)
           /\ \A x : x \in Message!Logged <=> x \in Contents(1 .. Top) /\ Covered(x, log)
           /\ \A n \in 0 .. Len(log) :
                 Message!Held(n) = Contents(UNION {log[i].lo .. log[i].hi : i \in 1 .. n})
           /\ \A n \in 0 .. Top : Message!Upto(n) = Contents(1 .. n)
           /\ LogTop \in Nat /\ \A x : x \in Message!Logged => x <= LogTop
  <1>1. TypeOK /\ LogInv
    BY DEF WriterInv
  <1>2. /\ Top \in Nat /\ log \in Seq(RowType) /\ Len(log) \in Nat /\ DOMAIN log = 1 .. Len(log)
        /\ \A i \in 1 .. Len(log) : log[i] \in RowType
        /\ LogTop \in Nat
    BY <1>1, TypeFacts, SeqFacts
  <1>3. LogPieces = [i \in 1 .. Len(log) |-> Contents(log[i].lo .. log[i].hi)]
    BY <1>2 DEF LogPieces
  <1>4. Len(LogPieces) = Len(log)
    BY <1>2, <1>3
  <1>5. ASSUME NEW n \in 0 .. Len(log)
        PROVE  Message!Held(n) = Contents(UNION {log[i].lo .. log[i].hi : i \in 1 .. n})
    <2>1. \A i \in 1 .. n : i \in 1 .. Len(log)
      BY <1>2
    <2>2. \A i \in 1 .. n : LogPieces[i] = Contents(log[i].lo .. log[i].hi)
      BY <1>3, <2>1
    <2>3. Message!Held(n) = UNION {Contents(log[i].lo .. log[i].hi) : i \in 1 .. n}
      BY <2>2 DEF Message!Held
    <2>4. \A x : x \in Message!Held(n) <=> \E i \in 1 .. n : x \in Contents(log[i].lo .. log[i].hi)
      BY <2>3
    <2>. QED
      BY <2>4 DEF Contents
  <1>6. \A i \in 1 .. Len(log) : /\ log[i].lo \in Nat \ {0} /\ log[i].hi \in Nat
                                 /\ log[i].hi <= Top /\ log[i].hi <= LogTop
    BY <1>1, <1>2 DEF LogInv, Fits, RowType, Top
  <1>7. \A x : x \in Message!Logged <=> x \in Contents(1 .. Top) /\ Covered(x, log)
    <2>1. Message!Logged = Contents(UNION {log[i].lo .. log[i].hi : i \in 1 .. Len(log)})
      BY <1>2, <1>4, <1>5 DEF Message!Logged
    <2>2. \A x : x \in UNION {log[i].lo .. log[i].hi : i \in 1 .. Len(log)} <=> Covered(x, log)
      BY <1>2 DEF Covered
    <2>3. \A x : Covered(x, log) => x \in 1 .. Top
      BY <1>2, <1>6 DEF Covered
    <2>. QED
      BY <2>1, <2>2, <2>3 DEF Contents
  <1>8. \A x : x \in Message!Logged => x <= LogTop
    BY <1>2, <1>6, <1>7 DEF Covered
  <1>9. ASSUME NEW n \in 0 .. Top PROVE Message!Upto(n) = Contents(1 .. n)
    <2>1. \A x \in 1 .. Top : x <= n <=> x \in 1 .. n
      BY <1>2
    <2>2. \A x : x \in 1 .. n => x \in 1 .. Top
      BY <1>2
    <2>. QED
      BY <2>1, <2>2 DEF Message!Upto, Contents
  <1>. QED
    BY <1>2, <1>4, <1>5, <1>7, <1>8, <1>9

LEMMA MessageAdds ==
    ASSUME WriterInv, WriterInv', Top <= MaxEvents, UNCHANGED events, ~Closed,
           NEW row \in RowType, Follows(row), log' = Append(log, row),
           stream.failed => stream'.failed,
           \/ IsRow(row) /\ UNCHANGED content
           \/ row.kind \in Terminal /\ content'.cursor = 0
    PROVE  Message!Next
  <1>1. TypeOK /\ LogInv /\ LogInv' /\ TypeOK' /\ FinalContentHoldsLog'
    BY DEF WriterInv
  <1>2. /\ DOMAIN log = 1 .. Len(log) /\ DOMAIN log' = 1 .. Len(log) + 1
        /\ Len(log') = Len(log) + 1
        /\ \A i \in 1 .. Len(log) : log'[i] = log[i]
        /\ log'[Len(log) + 1] = row
        /\ \A x \in 1 .. Top : Covered(x, log') <=> Covered(x, log) \/ x \in row.lo .. row.hi
        /\ Closed' <=> row.kind \in Terminal
    BY LandKeeps
  <1>3. /\ Top \in Nat /\ Len(log) \in Nat /\ Len(LogPieces) = Len(log) /\ LogTop \in Nat
        /\ \A x : x \in Message!Logged <=> x \in Contents(1 .. Top) /\ Covered(x, log)
        /\ \A n \in 0 .. Top : Message!Upto(n) = Contents(1 .. n)
        /\ \A x : x \in Message!Logged => x <= LogTop
    BY PieceFacts
  <1>4. /\ row.lo \in Nat \ {0} /\ row.hi \in Nat /\ row.hi <= Top /\ LogTop < row.lo
        /\ LogTop <= row.hi
        /\ IsRow(row) => row.lo <= row.hi
        /\ ~IsRow(row) => row.lo = row.hi + 1
    BY DEF RowType, Follows, Fits, Top
  <1>5. Top' = Top /\ \A S : Contents(S)' = Contents(S)
    BY DEF Top, Contents
  <1>6. MaxEvents \in Nat /\ \A n \in 0 .. Top : n \in 0 .. MaxEvents
    BY <1>3, WriterAssumption
  <1>7. LogPieces' = Append(LogPieces, Contents(row.lo .. row.hi))
    <2>1. LogPieces' = [i \in 1 .. Len(log) + 1 |-> Contents(log'[i].lo .. log'[i].hi)]
      BY <1>2, <1>5 DEF LogPieces
    <2>2. LogPieces = [i \in 1 .. Len(log) |-> Contents(log[i].lo .. log[i].hi)]
      BY <1>2 DEF LogPieces
    <2>3. Append(LogPieces, Contents(row.lo .. row.hi)) =
             [i \in 1 .. Len(log) + 1 |->
                 IF i <= Len(log) THEN LogPieces[i] ELSE Contents(row.lo .. row.hi)]
      BY <1>3, <2>2
    <2>4. \A i \in 1 .. Len(log) + 1 :
             Contents(log'[i].lo .. log'[i].hi) =
                IF i <= Len(log) THEN LogPieces[i] ELSE Contents(row.lo .. row.hi)
      BY <1>2, <1>3, <2>2
    <2>. QED
      BY <2>1, <2>3, <2>4
  <1>8. Len(LogPieces') # Len(LogPieces)
    <2>1. Len(LogPieces') = Len(log) + 1
      <3>1. LogPieces' = [i \in 1 .. Len(log) + 1 |-> Contents(log'[i].lo .. log'[i].hi)]
        BY <1>2, <1>5 DEF LogPieces
      <3>. QED
        BY <1>3, <3>1
    <2>. QED
      BY <1>3, <2>1
  <1>9. CASE IsRow(row)
    <2>1. row.kind \notin Terminal
      BY <1>9 DEF IsRow
    <2>2. ~Closed' /\ UNCHANGED content
      BY <1>2, <1>9, <2>1 DEF IsRow
    <2>3. \A x \in 1 .. row.hi : Covered(x, log')
      <3>1. Len(log) + 1 \in DOMAIN log'
        BY <1>2, <1>3
      <3>. QED
        BY <1>1, <1>2, <2>1, <3>1 DEF LogInv
    <2>4. Contents(row.lo .. row.hi) = Contents(1 .. row.hi) \ Message!Logged
      <3>1. ASSUME NEW x \in row.lo .. row.hi PROVE x \in 1 .. row.hi /\ x \notin Message!Logged
        BY <1>3, <1>4
      <3>2. ASSUME NEW x \in 1 .. row.hi, x \in Contents(1 .. row.hi), x \notin Message!Logged
            PROVE  x \in row.lo .. row.hi
        <4>1. x \in 1 .. Top /\ x \in Contents(1 .. Top)
          BY <1>3, <1>4, <3>2 DEF Contents
        <4>. QED
          BY <1>2, <1>3, <2>3, <3>2, <4>1
      <3>. QED
        BY <3>1, <3>2 DEF Contents
    <2>5. row.hi \in 0 .. Top
      BY <1>3, <1>4
    <2>6. Message!Upto(row.hi) = Contents(1 .. row.hi)
      BY <1>3, <2>5
    <2>7. Message!Logged \subseteq Message!Upto(row.hi)
      <3>. SUFFICES ASSUME NEW x \in Message!Logged PROVE x \in Contents(1 .. row.hi)
        BY <2>6
      <3>1. x \in Contents(1 .. Top)
        BY <1>3
      <3>2. x \in 1 .. Top /\ events[x].kind \in Content
        BY <3>1 DEF Contents
      <3>3. x <= LogTop
        BY <1>3
      <3>4. LogTop \in Nat
        BY <1>1, TypeFacts
      <3>5. x \in 1 .. row.hi
        BY <1>3, <1>4, <3>2, <3>3, <3>4
      <3>. QED
        BY <3>2, <3>5 DEF Contents
    <2>8. Message!Add(row.hi)
      <3>1. Contents(1 .. Top)' = Contents(1 .. Top)
        BY <1>5
      <3>2. UNCHANGED <<Contents(1 .. content.n), content.cursor>>
        BY <1>5, <2>2
      <3>3. UNCHANGED Closed
        BY <2>2, Zenon DEF Closed
      <3>4. LogPieces' = Append(LogPieces, Message!Upto(row.hi) \ Message!Logged)
        BY <1>7, <2>4, <2>6
      <3>. QED
        BY <2>7, <3>1, <3>2, <3>3, <3>4 DEF Message!Add
    <2>. QED
      BY <1>6, <1>8, <2>5, <2>8 DEF Message!Next
  <1>10. CASE row.kind \in Terminal /\ content'.cursor = 0
    <2>1. Closed' /\ ~IsRow(row)
      BY <1>2, <1>10 DEF IsRow
    <2>2. Contents(row.lo .. row.hi) = {}
      <3>1. row.lo .. row.hi = {}
        BY <1>4, <2>1
      <3>. QED
        BY <3>1 DEF Contents
    <2>3. content'.n \in 0 .. Top
      BY <1>1, <1>5, TypeFacts DEF TypeOK
    <2>4. Message!Upto(content'.n) = Contents(1 .. content'.n)
      BY <1>3, <2>3
    <2>5. ASSUME NEW x \in Message!Logged PROVE x \in Contents(1 .. content'.n)
      <3>1. x \in 1 .. Top /\ x \in Contents(1 .. Top) /\ Covered(x, log)
        BY <1>3 DEF Contents
      <3>2. x <= content'.n
        BY <1>1, <1>2, <1>5, <2>1, <3>1 DEF FinalContentHoldsLog, Covered, Logged
      <3>. QED
        BY <1>3, <2>3, <3>1, <3>2 DEF Contents
    <2>6. Contents(1 .. content.n)' = Message!Upto(content'.n)
      BY <1>5, <2>4 DEF Contents
    <2>7. Message!End(content'.n)
      BY <1>5, <1>7, <1>10, <2>1, <2>2, <2>4, <2>5, <2>6 DEF Message!End
    <2>. QED
      BY <1>6, <1>8, <2>3, <2>7 DEF Message!Next
  <1>. QED
    BY <1>9, <1>10

LEMMA MessageSays ==
    ASSUME WriterInv, Grows, Top' = Top + 1, Top < MaxEvents, UNCHANGED <<log, content>>
    PROVE  [Message!Next]_(Message!message)
  <1>1. TypeOK /\ LogInv
    BY DEF WriterInv
  <1>2. /\ Top \in Nat /\ log \in Seq(RowType) /\ DOMAIN log = 1 .. Len(log)
        /\ \A i \in 1 .. Len(log) : log[i] \in RowType
        /\ content.n \in 0 .. Top /\ MaxEvents \in Nat
    BY <1>1, TypeFacts, SeqFacts, WriterAssumption
  <1>3. \A x \in 1 .. Top : events'[x] = events[x]
    BY DEF Grows
  <1>4. \A S \in SUBSET (1 .. Top) : Contents(S)' = Contents(S)
    BY <1>3 DEF Contents
  <1>5. Contents(1 .. content.n)' = Contents(1 .. content.n)
    <2>1. 1 .. content.n \in SUBSET (1 .. Top)
      BY <1>2
    <2>. QED
      BY <1>4, <2>1 DEF Contents
  <1>6. LogPieces' = LogPieces
    <2>1. \A i \in DOMAIN log : log[i].lo .. log[i].hi \in SUBSET (1 .. Top)
      BY <1>1, <1>2 DEF LogInv, Fits, RowType, Top
    <2>2. \A i \in DOMAIN log :
             {x \in log[i].lo .. log[i].hi : events'[x].kind \in Content}
                = {x \in log[i].lo .. log[i].hi : events[x].kind \in Content}
      BY <1>3, <2>1
    <2>. QED
      BY <2>2 DEF LogPieces, Contents
  <1>7. Closed' = Closed
    BY DEF Closed
  <1>8. \A x : x \in Contents(1 .. Top)' <=>
                  \/ x \in Contents(1 .. Top)
                  \/ x = Top + 1 /\ events'[Top + 1].kind \in Content
    <2>1. \A x : x \in 1 .. Top + 1 <=> x \in 1 .. Top \/ x = Top + 1
      BY <1>2
    <2>. QED
      BY <1>3, <2>1 DEF Contents
  <1>9. CASE events'[Top + 1].kind \in Content
    <2>1. Contents(1 .. Top)' = Contents(1 .. Top) \cup {Top + 1}
      BY <1>8, <1>9
    <2>2. \A x \in Contents(1 .. Top) : x < Top + 1
      BY <1>2 DEF Contents
    <2>3. Message!Say(Top + 1)
      BY <1>5, <1>6, <1>7, <2>1, <2>2 DEF Message!Say
    <2>4. Top + 1 \in 1 .. MaxEvents
      BY <1>2
    <2>5. Contents(1 .. Top)' # Contents(1 .. Top)
      BY <1>2, <2>1, <2>2
    <2>. QED
      BY <2>3, <2>4, <2>5 DEF Message!Next
  <1>10. CASE events'[Top + 1].kind \notin Content
    <2>1. Contents(1 .. Top)' = Contents(1 .. Top)
      BY <1>8, <1>10
    <2>. QED
      BY <1>5, <1>6, <1>7, <2>1 DEF Message!message
  <1>. QED
    BY <1>9, <1>10

LEMMA MessageSaves ==
    ASSUME WriterInv, WriterInv', Top <= MaxEvents, UNCHANGED <<events, log>>, ~Closed
    PROVE  [Message!Next]_(Message!message)
  <1>1. TypeOK' /\ CursorPairsContent'
    BY DEF WriterInv
  <1>2. /\ Top \in Nat /\ Len(log) \in Nat /\ DOMAIN log = 1 .. Len(log)
        /\ Len(LogPieces) = Len(log)
        /\ \A n \in 0 .. Len(log) :
              Message!Held(n) = Contents(UNION {log[i].lo .. log[i].hi : i \in 1 .. n})
        /\ \A n \in 0 .. Top : Message!Upto(n) = Contents(1 .. n)
    BY PieceFacts
  <1>3. /\ Top' = Top /\ LogPieces' = LogPieces /\ Closed' = Closed
        /\ Contents(1 .. Top)' = Contents(1 .. Top)
        /\ Contents(1 .. content.n)' = Contents(1 .. content'.n)
    BY DEF Top, LogPieces, Closed, Contents
  <1>4. content'.n \in 0 .. Top /\ content'.cursor \in Nat
    BY <1>1, <1>3 DEF TypeOK
  <1>5. content'.n \in 0 .. MaxEvents
    BY <1>2, <1>4, WriterAssumption
  <1>6. Contents(1 .. content.n)' = Message!Upto(content'.n)
    BY <1>2, <1>3, <1>4
  <1>7. content'.cursor # 0 =>
           /\ content'.cursor \in 1 .. Len(log)
           /\ Contents(1 .. content'.n) = Message!Held(content'.cursor)
    <2>1. SUFFICES ASSUME content'.cursor # 0
                   PROVE  /\ content'.cursor \in 1 .. Len(log)
                          /\ Contents(1 .. content'.n) = Message!Held(content'.cursor)
      OBVIOUS
    <2>2. /\ content'.cursor \in 1 .. Len(log)
          /\ Contents(1 .. content'.n)
                = Contents(UNION {log[i].lo .. log[i].hi : i \in 1 .. content'.cursor})
      BY <1>1, <1>2, <2>1 DEF CursorPairsContent, Contents
    <2>3. content'.cursor \in 0 .. Len(log)
      BY <1>2, <2>2
    <2>. QED
      BY <1>2, <2>2, <2>3
  <1>8. content'.cursor \in 0 .. Len(LogPieces)
    BY <1>2, <1>4, <1>7
  <1>9. Message!Save(content'.n, content'.cursor)
    BY <1>3, <1>6, <1>7 DEF Message!Save
  <1>10. CASE UNCHANGED <<Contents(1 .. content.n), content.cursor>>
    BY <1>3, <1>10 DEF Message!message
  <1>11. CASE Contents(1 .. content.n)' # Contents(1 .. content.n) \/ content'.cursor # content.cursor
    BY <1>5, <1>8, <1>9, <1>11 DEF Message!Next
  <1>. QED
    BY <1>10, <1>11

LEMMA MessageRefines ==
    ASSUME WriterInv, WriterInv', Top <= MaxEvents, [Next]_vars
    PROVE  [Message!Next]_(Message!message)
  <1>1. MessageStep
    BY NextMessage
  <1>2. CASE UNCHANGED <<events, log, content>>
    BY <1>2 DEF Message!message, LogPieces, Contents, Closed, Top
  <1>. QED
    BY <1>1, <1>2, MessageSays, MessageSaves, MessageAdds DEF MessageStep

LEMMA MessageBegins == Init => Message!Init
  <1>. SUFFICES ASSUME Init PROVE Message!Init
    OBVIOUS
  <1>1. Top = 0 /\ content.n = 0 /\ content.cursor = 0 /\ log = <<>> /\ DOMAIN log = {}
    BY DEF Init, Top
  <1>2. LogPieces = <<>> /\ ~Closed /\ Contents(1 .. Top) = {} /\ Contents(1 .. content.n) = {}
    BY <1>1 DEF LogPieces, Closed, Contents
  <1>. QED
    BY <1>1, <1>2 DEF Message!Init

\* The runtime's events stay within the bound of the model.
LEMMA EventsBounded == Spec => [](Top <= MaxEvents)
  <1>1. Init => Top <= MaxEvents
    BY WriterAssumption DEF Init, Top
  <1>2. WriterInv /\ Top <= MaxEvents /\ [Next]_vars => (Top <= MaxEvents)'
    <2>. SUFFICES ASSUME WriterInv, Top <= MaxEvents, MessageStep PROVE (Top <= MaxEvents)'
      BY NextMessage
    <2>1. Top \in Nat /\ MaxEvents \in Nat
      BY PieceFacts, WriterAssumption
    <2>. QED
      BY <2>1 DEF MessageStep, Top
  <1>. QED
    BY <1>1, <1>2, WriterInvariant, PTL DEF Spec

\* Whatever is buffered, queued, retried, checkpointed or closed by others, the
\* readers of the message see a run of MessageLog.
THEOREM ImplementsMessageLog == Spec => KeepsMessageLog
  <1>1. WriterInv /\ WriterInv' /\ Top <= MaxEvents /\ [Next]_vars
          => [Message!Next]_(Message!message)
    BY MessageRefines
  <1>. QED
    BY <1>1, MessageBegins, WriterInvariant, EventsBounded, PTL
    DEF Spec, KeepsMessageLog, Message!Spec

-----------------------------------------------------------------------------
(* Nobody waits for nothing *)

Queued(kind) == \E i \in DOMAIN queue : queue[i].kind = kind

Marked(n) == \E i \in DOMAIN queue : queue[i].kind = "settle" /\ queue[i].hi = n

\* What the carrier awaits is in the queue,
CarrierWaits ==
    /\ carrier = "noting" => Queued("note")
    /\ carrier = "suspending" => Queued("suspended")
    /\ carrier = "closing" => Queued("done")

\* and so is the marker of a job without an answer; a job waits behind another.
JobsWait ==
    /\ \A job \in {inflight, pending} : job # NoJob /\ ~job.ready => Marked(job.n)
    /\ pending # NoJob => inflight # NoJob

WaitInv == CarrierWaits /\ JobsWait

\* Nothing leaves the queue.
EntriesStay == \A i \in DOMAIN queue : \E j \in DOMAIN queue' : queue'[j] = queue[i]

LEMMA MembersConcat ==
    ASSUME NEW p \in Seq(EntryType), NEW q \in Seq(EntryType)
    PROVE  /\ \A i \in DOMAIN p : \E j \in DOMAIN (p \o q) : (p \o q)[j] = p[i]
           /\ \A i \in DOMAIN q : \E j \in DOMAIN (p \o q) : (p \o q)[j] = q[i]
  <1>1. /\ DOMAIN (p \o q) = 1 .. Len(p) + Len(q) /\ Len(p) \in Nat /\ Len(q) \in Nat
        /\ DOMAIN p = 1 .. Len(p) /\ DOMAIN q = 1 .. Len(q)
        /\ \A i \in 1 .. Len(p) + Len(q) :
              (p \o q)[i] = IF i <= Len(p) THEN p[i] ELSE q[i - Len(p)]
    BY ConcatFacts
  <1>2. ASSUME NEW i \in 1 .. Len(p)
        PROVE  i \in 1 .. Len(p) + Len(q) /\ (p \o q)[i] = p[i]
    BY <1>1
  <1>3. ASSUME NEW i \in 1 .. Len(q)
        PROVE  Len(p) + i \in 1 .. Len(p) + Len(q) /\ (p \o q)[Len(p) + i] = q[i]
    BY <1>1
  <1>. QED
    BY <1>1, <1>2, <1>3

LEMMA EnqueueStays ==
    ASSUME WriterInv, NEW es \in Seq(EntryType), queue' = queue \o es
    PROVE  /\ EntriesStay
           /\ \A i \in DOMAIN es : \E j \in DOMAIN queue' : queue'[j] = es[i]
  <1>1. queue \in Seq(EntryType)
    BY TypeFacts DEF WriterInv
  <1>. QED
    BY <1>1, MembersConcat DEF EntriesStay

\* Entries to add, an entry of this kind among them.
Adds(es, kind) == es \in Seq(EntryType) /\ \E i \in DOMAIN es : es[i].kind = kind

LEMMA BufferRowSeq ==
    ASSUME NEW lo \in Nat \ {0}, NEW hi \in Nat
    PROVE  /\ BufferRow(lo, hi, 1, FALSE) \in Seq(EntryType)
           /\ BufferRow(lo, hi, 2, TRUE) \in Seq(EntryType)
  <1>0. /\ Entry("token", lo, hi, 1, FALSE) \in EntryType
        /\ Entry("token", lo, hi, 2, TRUE) \in EntryType
    BY DEF Entry, EntryType, Content
  <1>1. PICK one \in EntryType : one = Entry("token", lo, hi, 1, FALSE)
    BY <1>0
  <1>2. PICK two \in EntryType : two = Entry("token", lo, hi, 2, TRUE)
    BY <1>0
  <1>3. /\ BufferRow(lo, hi, 1, FALSE) = IF lo > hi THEN <<>> ELSE <<one>>
        /\ BufferRow(lo, hi, 2, TRUE) = IF lo > hi THEN <<>> ELSE <<two>>
    BY <1>1, <1>2 DEF BufferRow
  <1>4. <<>> \in Seq(EntryType) /\ <<one>> \in Seq(EntryType) /\ <<two>> \in Seq(EntryType)
    OBVIOUS
  <1>. QED
    BY <1>3, <1>4

LEMMA MarkerSeq ==
    ASSUME NEW sample \in BOOLEAN, NEW n \in Nat
    PROVE  /\ Marker(sample, n) \in Seq(EntryType)
           /\ sample /\ stream.live =>
                 \E i \in DOMAIN Marker(sample, n) :
                    Marker(sample, n)[i].kind = "settle" /\ Marker(sample, n)[i].hi = n
  <1>. DEFINE e == Entry("settle", n + 1, n, 0, FALSE)
  <1>1. e \in EntryType /\ e.kind = "settle" /\ e.hi = n
    BY DEF Entry, EntryType
  <1>2. Marker(sample, n) = IF sample /\ stream.live THEN <<e>> ELSE <<>>
    BY DEF Marker
  <1>. HIDE DEF e
  <1>3. <<e>> \in Seq(EntryType) /\ 1 \in DOMAIN <<e>> /\ <<e>>[1] = e
    BY <1>1
  <1>. QED
    BY <1>1, <1>2, <1>3

LEMMA WithBufferSeq ==
    ASSUME TypeOK, NEW kind \in {"tool", "note", "suspended", "done", "close"}, NEW hi \in Nat
    PROVE  Adds(WithBuffer(kind, Top + 1, hi), kind)
  <1>1. Top \in Nat /\ from \in Nat \ {0}
    BY TypeFacts
  <1>. DEFINE one == Entry(kind, Top + 1, hi, 1, FALSE)
              two == Entry(kind, Top + 1, hi, 2, FALSE)
              row == BufferRow(from, Top, 2, TRUE)
  <1>2. /\ one \in EntryType /\ one.kind = kind
        /\ two \in EntryType /\ two.kind = kind
    BY <1>1 DEF Entry, EntryType, Content, Terminal
  <1>3. row \in Seq(EntryType)
    BY <1>1, BufferRowSeq
  <1>4. WithBuffer(kind, Top + 1, hi) = IF from > Top THEN <<one>> ELSE row \o <<two>>
    BY DEF WithBuffer
  <1>. HIDE DEF one, two, row
  <1>5. \A e \in EntryType : <<e>> \in Seq(EntryType) /\ 1 \in DOMAIN <<e>> /\ <<e>>[1] = e
    OBVIOUS
  <1>6. ASSUME NEW q \in Seq(EntryType), NEW e \in EntryType
        PROVE  q \o <<e>> \in Seq(EntryType) /\ \E j \in DOMAIN (q \o <<e>>) : (q \o <<e>>)[j] = e
    <2>1. PICK t \in Seq(EntryType) : t = <<e>> /\ 1 \in DOMAIN t /\ t[1] = e
      BY <1>5
    <2>2. q \o t \in Seq(EntryType) /\ \E j \in DOMAIN (q \o t) : (q \o t)[j] = t[1]
      BY <2>1, ConcatFacts, MembersConcat
    <2>. QED
      BY <2>1, <2>2
  <1>7. SUFFICES /\ WithBuffer(kind, Top + 1, hi) \in Seq(EntryType)
                 /\ \E i \in DOMAIN WithBuffer(kind, Top + 1, hi) :
                       WithBuffer(kind, Top + 1, hi)[i].kind = kind
    BY DEF Adds
  <1>8. CASE from > Top
    <2>1. WithBuffer(kind, Top + 1, hi) = <<one>>
      BY <1>4, <1>8
    <2>2. <<one>> \in Seq(EntryType) /\ \E i \in DOMAIN <<one>> : <<one>>[i].kind = kind
      BY <1>2, <1>5
    <2>. QED
      BY <2>1, <2>2
  <1>9. CASE ~(from > Top)
    <2>1. WithBuffer(kind, Top + 1, hi) = row \o <<two>>
      BY <1>4, <1>9
    <2>2. row \o <<two>> \in Seq(EntryType)
          /\ \E j \in DOMAIN (row \o <<two>>) : (row \o <<two>>)[j] = two
      BY <1>2, <1>3, <1>6
    <2>. QED
      BY <1>2, <2>1, <2>2
  <1>. QED
    BY <1>8, <1>9

LEMMA CarrierWaitsOn ==
    ASSUME WaitInv, EntriesStay, carrier' = carrier \/ carrier' \notin Awaiting
    PROVE  CarrierWaits'
  <1>1. CASE carrier' = carrier
    BY <1>1 DEF WaitInv, EntriesStay, CarrierWaits, Queued
  <1>2. CASE carrier' \notin Awaiting
    BY <1>2 DEF CarrierWaits, Awaiting
  <1>. QED
    BY <1>1, <1>2

LEMMA JobsWaitOn ==
    ASSUME WaitInv, EntriesStay, UNCHANGED <<inflight, pending>>
    PROVE  JobsWait'
  BY DEF WaitInv, EntriesStay, JobsWait, Marked

LEMMA SampleWaits ==
    ASSUME WriterInv, WaitInv, EntriesStay, NEW sample \in BOOLEAN, NEW n \in Nat,
           Sample(sample, n), sample /\ stream.live => Marked(n)'
    PROVE  JobsWait'
  <1>1. CASE ~sample
    BY <1>1, JobsWaitOn DEF Sample, jobs
  <1>2. CASE sample
    <2>1. PICK job : /\ job = [n |-> n, ready |-> ~stream.live, cursor |-> 0]
                     /\ \/ inflight = NoJob /\ inflight' = job /\ pending' = NoJob
                        \/ inflight # NoJob /\ inflight' = inflight /\ pending' = job
      BY <1>2 DEF Sample, Pump
    <2>2. stream.live \in BOOLEAN
      BY TypeFacts DEF WriterInv
    <2>3. job.n = n /\ (job.ready <=> ~stream.live)
      BY <2>1, <2>2
    <2>4. ~job.ready => \E j \in DOMAIN queue' : queue'[j].kind = "settle" /\ queue'[j].hi = job.n
      BY <1>2, <2>3 DEF Marked
    <2>5. inflight # NoJob /\ ~inflight.ready =>
             \E j \in DOMAIN queue' : queue'[j].kind = "settle" /\ queue'[j].hi = inflight.n
      BY DEF WaitInv, JobsWait, Marked, EntriesStay
    <2>6. NoJob' = NoJob
      BY DEF NoJob
    <2>7. \A j \in {inflight', pending'} : j # NoJob /\ ~j.ready =>
             \E i \in DOMAIN queue' : queue'[i].kind = "settle" /\ queue'[i].hi = j.n
      BY <2>1, <2>4, <2>5
    <2>8. pending' # NoJob => inflight' # NoJob
      BY <2>1
    <2>. QED
      BY <2>6, <2>7, <2>8 DEF JobsWait, Marked
  <1>. QED
    BY <1>1, <1>2

\* Rows and, behind them, the marker of a checkpoint.
LEMMA MarkedWaits ==
    ASSUME WriterInv, WaitInv, NEW rows \in Seq(EntryType), NEW sample \in BOOLEAN, NEW n \in Nat,
           queue' = queue \o (rows \o Marker(sample, n)), Sample(sample, n),
           carrier' = carrier \/ carrier' \notin Awaiting
    PROVE  WaitInv'
  <1>1. Marker(sample, n) \in Seq(EntryType)
    BY MarkerSeq
  <1>2. PICK es \in Seq(EntryType) :
           /\ es = rows \o Marker(sample, n)
           /\ sample /\ stream.live => \E i \in DOMAIN es : es[i].kind = "settle" /\ es[i].hi = n
    <2>1. rows \o Marker(sample, n) \in Seq(EntryType)
      BY <1>1, ConcatFacts
    <2>2. \A i \in DOMAIN Marker(sample, n) : \E j \in DOMAIN (rows \o Marker(sample, n)) :
             (rows \o Marker(sample, n))[j] = Marker(sample, n)[i]
      BY <1>1, MembersConcat
    <2>3. sample /\ stream.live => \E j \in DOMAIN (rows \o Marker(sample, n)) :
             /\ (rows \o Marker(sample, n))[j].kind = "settle"
             /\ (rows \o Marker(sample, n))[j].hi = n
      <3>1. SUFFICES ASSUME sample, stream.live
                     PROVE  \E j \in DOMAIN (rows \o Marker(sample, n)) :
                               /\ (rows \o Marker(sample, n))[j].kind = "settle"
                               /\ (rows \o Marker(sample, n))[j].hi = n
        OBVIOUS
      <3>2. PICK i \in DOMAIN Marker(sample, n) :
               Marker(sample, n)[i].kind = "settle" /\ Marker(sample, n)[i].hi = n
        BY <3>1, MarkerSeq
      <3>. QED
        BY <2>2, <3>2
    <2>. QED
      BY <2>1, <2>3
  <1>3. EntriesStay /\ \A i \in DOMAIN es : \E j \in DOMAIN queue' : queue'[j] = es[i]
    BY <1>2, EnqueueStays
  <1>4. sample /\ stream.live => Marked(n)'
    <2>1. SUFFICES ASSUME sample, stream.live
                   PROVE  \E j \in DOMAIN queue' : queue'[j].kind = "settle" /\ queue'[j].hi = n
      BY DEF Marked
    <2>2. PICK i \in DOMAIN es : es[i].kind = "settle" /\ es[i].hi = n
      BY <1>2, <2>1
    <2>. QED
      BY <1>3, <2>2
  <1>5. JobsWait'
    BY <1>3, <1>4, SampleWaits
  <1>6. CarrierWaits'
    BY <1>3, CarrierWaitsOn
  <1>. QED
    BY <1>5, <1>6 DEF WaitInv

LEMMA AnswerFrees ==
    ASSUME WriterInv, queue # <<>>, NEW p \in BOOLEAN, NEW l \in BOOLEAN,
           Answer(Head(queue), p, l)
    PROVE  \/ carrier' \notin Awaiting
           \/ carrier' = carrier /\ Head(queue).kind \in Quiet
  <1>. DEFINE e == Head(queue)
  <1>1. e \in EntryType /\ e = queue[1] /\ 1 \in DOMAIN queue
    BY HeadFacts
  <1>2. /\ e.kind = "note" => carrier = "noting"
        /\ e.kind = "suspended" => carrier = "suspending"
        /\ e.kind = "done" => carrier = "closing"
    BY <1>1 DEF WriterInv, AwaitInv
  <1>3. e.kind \in Quiet \cup {"note", "suspended", "done"}
    BY <1>1 DEF EntryType, Quiet, Content, Terminal
  <1>4. Answer(e, p, l)
    OBVIOUS
  <1>. HIDE DEF e
  <1>5. CASE e.kind \in Quiet
    <2>1. carrier' = carrier
      BY <1>4, <1>5 DEF Answer, Quiet
    <2>. QED
      BY <1>5, <2>1 DEF e
  <1>6. CASE e.kind \notin Quiet
    BY <1>2, <1>3, <1>4, <1>6 DEF Answer, Awaiting
  <1>. QED
    BY <1>5, <1>6

LEMMA DequeueWaits ==
    ASSUME WriterInv, WaitInv, NEW k \in {1, 2}, k <= Len(queue),
           Len(queue') = Len(queue) - k, queue' \in Seq(EntryType),
           \A i \in 1 .. Len(queue') : queue'[i] = queue[i + k],
           \A i \in 1 .. k : queue[i].kind # "settle", UNCHANGED jobs,
           \/ carrier' \notin Awaiting
           \/ carrier' = carrier /\ \A i \in 1 .. k : queue[i].kind \in Quiet
    PROVE  WaitInv'
  <1>1. queue \in Seq(EntryType)
    BY TypeFacts DEF WriterInv
  <1>2. /\ Len(queue) \in Nat /\ DOMAIN queue = 1 .. Len(queue)
        /\ Len(queue') \in Nat /\ DOMAIN queue' = 1 .. Len(queue')
    BY <1>1, SeqFacts
  <1>3. ASSUME NEW i \in DOMAIN queue, i \notin 1 .. k
        PROVE  \E j \in DOMAIN queue' : queue'[j] = queue[i]
    <2>1. i - k \in 1 .. Len(queue') /\ (i - k) + k = i
      BY <1>2, <1>3
    <2>. QED
      BY <1>2, <2>1
  <1>4. ASSUME NEW n, Marked(n)
        PROVE  \E j \in DOMAIN queue' : queue'[j].kind = "settle" /\ queue'[j].hi = n
    BY <1>3, <1>4 DEF Marked
  <1>5. JobsWait'
    BY <1>4 DEF WaitInv, JobsWait, Marked, jobs, NoJob
  <1>6. ASSUME NEW kind \in {"note", "suspended", "done"}, Queued(kind),
               \A i \in 1 .. k : queue[i].kind \in Quiet
        PROVE  \E j \in DOMAIN queue' : queue'[j].kind = kind
    BY <1>3, <1>6 DEF Queued, Quiet
  <1>7. CarrierWaits'
    <2>1. CASE carrier' \notin Awaiting
      BY <2>1 DEF CarrierWaits, Awaiting
    <2>2. CASE carrier' = carrier /\ \A i \in 1 .. k : queue[i].kind \in Quiet
      BY <1>6, <2>2 DEF WaitInv, CarrierWaits, Queued
    <2>. QED
      BY <2>1, <2>2
  <1>. QED
    BY <1>5, <1>7 DEF WaitInv

LEMMA HeadWaits ==
    ASSUME WriterInv, WaitInv, queue # <<>>, Head(queue).kind # "settle", queue' = Tail(queue),
           UNCHANGED jobs,
           \/ carrier' \notin Awaiting
           \/ carrier' = carrier /\ Head(queue).kind \in Quiet
    PROVE  WaitInv'
  <1>1. queue \in Seq(EntryType)
    BY TypeFacts DEF WriterInv
  <1>2. /\ Tail(queue) \in Seq(EntryType) /\ Len(Tail(queue)) = Len(queue) - 1
        /\ Len(queue) \in Nat \ {0} /\ Head(queue) = queue[1]
        /\ \A i \in 1 .. Len(Tail(queue)) : Tail(queue)[i] = queue[i + 1]
    BY <1>1, TailFacts
  <1>3. 1 \in {1, 2} /\ 1 <= Len(queue) /\ \A i \in 1 .. 1 : i = 1
    BY <1>2
  <1>4. /\ \A i \in 1 .. 1 : queue[i].kind # "settle"
        /\ \/ carrier' \notin Awaiting
           \/ carrier' = carrier /\ \A i \in 1 .. 1 : queue[i].kind \in Quiet
    BY <1>2, <1>3
  <1>. QED
    BY <1>2, <1>3, <1>4, DequeueWaits

LEMMA RowWaits ==
    ASSUME WriterInv, WaitInv, \/ \E split \in BOOLEAN : RowLands(split)
                              \/ RowRefused \/ RowAbandoned
    PROVE  WaitInv'
  <1>. DEFINE Answered == /\ queue # <<>> /\ IsRow(Head(queue)) /\ queue' = Tail(queue)
                          /\ UNCHANGED jobs
                          /\ \E p, l \in BOOLEAN : Answer(Head(queue), p, l)
  <1>1. Answered
    <2>1. owned \in BOOLEAN /\ stream.lost \in BOOLEAN
      BY TypeFacts DEF WriterInv, TypeOK
    <2>2. ASSUME NEW split \in BOOLEAN, RowLands(split) PROVE Answered
      BY <2>2 DEF RowLands, Answers
    <2>3. CASE RowRefused
      BY <2>1, <2>3 DEF RowRefused, Answers
    <2>4. CASE RowAbandoned
      BY <2>1, <2>4 DEF RowAbandoned, Answers, Abandons
    <2>. QED
      BY <2>2, <2>3, <2>4
  <1>2. Head(queue).kind # "settle"
    BY <1>1 DEF IsRow
  <1>. QED
    BY <1>1, <1>2, AnswerFrees, HeadWaits

LEMMA TerminalWaits ==
    ASSUME WriterInv, WaitInv, TerminalAnswers
    PROVE  WaitInv'
  <1>1. /\ queue # <<>> /\ Head(queue).kind \in Terminal /\ queue' = Tail(queue) /\ UNCHANGED jobs
        /\ Answer(Head(queue), Takes, ~owned)
    BY DEF TerminalAnswers, Answers
  <1>2. Head(queue).kind # "settle"
    BY <1>1 DEF Terminal
  <1>3. Head(queue) = queue[1] /\ 1 \in DOMAIN queue
    BY <1>1, HeadFacts
  <1>4. \/ carrier' \notin Awaiting
        \/ carrier' = carrier /\ Head(queue).kind \in Quiet
    <2>1. CASE Head(queue).kind = "close"
      BY <1>1, <2>1 DEF Answer, Quiet
    <2>2. CASE Head(queue).kind = "done"
      <3>1. carrier = "closing"
        BY <1>3, <2>2 DEF WriterInv, AwaitInv
      <3>. QED
        BY <1>1, <2>2, <3>1 DEF Answer, Awaiting
    <2>. QED
      BY <1>1, <2>1, <2>2 DEF Terminal
  <1>. QED
    BY <1>1, <1>2, <1>4, HeadWaits

LEMMA ThrowWaits ==
    ASSUME WriterInv, WaitInv, NEW landed \in BOOLEAN, WriteThrows(landed)
    PROVE  WaitInv'
  <1>. DEFINE e == Head(queue)
              own == IF e.more THEN queue[2] ELSE e
  <1>1. /\ queue # <<>> /\ e.kind # "settle" /\ UNCHANGED jobs
        /\ queue' = IF e.more THEN Tail(Tail(queue)) ELSE Tail(queue)
        /\ carrier' = CASE own.kind \in {"note", "suspended"}
                              /\ carrier \in {"noting", "suspending"} -> "fencing"
                        [] own.kind = "done" /\ carrier = "closing" -> "stopped"
                        [] OTHER -> carrier
    BY DEF WriteThrows, Answers
  <1>2. TypeOK /\ QueueInv /\ AwaitInv
    BY DEF WriterInv
  <1>3. queue \in Seq(EntryType) /\ e = queue[1] /\ 1 \in DOMAIN queue
    BY <1>1, <1>2, HeadFacts, TypeFacts
  <1>4. /\ Tail(queue) \in Seq(EntryType) /\ Len(Tail(queue)) = Len(queue) - 1
        /\ Len(queue) \in Nat \ {0} /\ DOMAIN queue = 1 .. Len(queue)
        /\ \A i \in 1 .. Len(Tail(queue)) : Tail(queue)[i] = queue[i + 1]
        /\ \A i \in 1 .. Len(queue) : queue[i] \in EntryType
    BY <1>1, <1>3, TailFacts
  <1>5. e.more => /\ e.kind = "token" /\ 2 \in DOMAIN queue /\ queue[2].kind # "settle"
    BY <1>2, <1>3, <1>4 DEF QueueInv, WholeTasks
  <1>6. /\ own.kind = "note" => carrier = "noting"
        /\ own.kind = "suspended" => carrier = "suspending"
        /\ own.kind = "done" => carrier = "closing"
        /\ own.kind \in Quiet \cup {"note", "suspended", "done", "settle"}
    BY <1>2, <1>3, <1>4, <1>5 DEF AwaitInv, EntryType, Quiet, Content, Terminal
  <1>. HIDE DEF own
  <1>7. \/ carrier' \notin Awaiting
        \/ carrier' = carrier /\ own.kind \in Quiet
    <2>1. CASE own.kind \in Quiet
      BY <1>1, <2>1 DEF Quiet
    <2>2. CASE own.kind \notin Quiet
      BY <1>1, <1>6, <2>2 DEF Quiet, Awaiting
    <2>. QED
      BY <2>1, <2>2
  <1>8. CASE ~e.more
    <2>1. own = e
      BY <1>8 DEF own
    <2>. QED
      BY <1>1, <1>7, <1>8, <2>1, HeadWaits
  <1>9. CASE e.more
    <2>. DEFINE t == Tail(queue)
    <2>1. own = queue[2] /\ queue' = Tail(t) /\ e.kind \in Quiet
      BY <1>1, <1>5, <1>9 DEF own, Quiet
    <2>2. t \in Seq(EntryType) /\ Len(t) = Len(queue) - 1 /\ Len(queue) >= 2
          /\ \A i \in 1 .. Len(t) : t[i] = queue[i + 1]
      BY <1>4, <1>5, <1>9
    <2>. HIDE DEF t
    <2>3. t # <<>>
      BY <1>4, <2>2, SeqFacts
    <2>4. /\ Tail(t) \in Seq(EntryType) /\ Len(Tail(t)) = Len(t) - 1
          /\ \A i \in 1 .. Len(Tail(t)) : Tail(t)[i] = t[i + 1]
      BY <2>2, <2>3, TailFacts
    <2>5. /\ queue' \in Seq(EntryType) /\ Len(queue') = Len(queue) - 2
          /\ \A i \in 1 .. Len(queue') : queue'[i] = queue[i + 2]
      <3>1. Len(Tail(t)) = Len(queue) - 2
        <4>1. Len(t) = Len(queue) - 1 /\ Len(Tail(t)) = Len(t) - 1 /\ Len(queue) \in Nat
          BY <1>4, <2>2, <2>4
        <4>2. PICK n \in Nat : n = Len(queue)
          BY <4>1
        <4>3. Len(Tail(t)) = (n - 1) - 1
          BY <4>1, <4>2
        <4>. QED
          BY <4>2, <4>3
      <3>2. ASSUME NEW i \in 1 .. Len(Tail(t)) PROVE Tail(t)[i] = queue[i + 2]
        <4>1. i + 1 \in 1 .. Len(t) /\ (i + 1) + 1 = i + 2
          BY <1>4, <2>2, <2>4
        <4>. QED
          BY <2>2, <2>4, <4>1
      <3>. QED
        BY <2>1, <2>4, <3>1, <3>2
    <2>6. \A i \in 1 .. 2 : queue[i].kind # "settle"
      BY <1>1, <1>3, <1>5, <1>9
    <2>7. \/ carrier' \notin Awaiting
          \/ carrier' = carrier /\ \A i \in 1 .. 2 : queue[i].kind \in Quiet
      BY <1>3, <1>7, <2>1
    <2>8. 2 \in {1, 2} /\ 2 <= Len(queue)
      BY <1>4, <2>2
    <2>. QED
      BY <1>1, <2>5, <2>6, <2>7, <2>8, DequeueWaits
  <1>. QED
    BY <1>8, <1>9

LEMMA SettleWaits ==
    ASSUME WriterInv, WaitInv, Settle
    PROVE  WaitInv'
  <1>. DEFINE e == Head(queue)
  <1>1. /\ queue # <<>> /\ e.kind = "settle" /\ queue' = Tail(queue) /\ carrier' = carrier
        /\ inflight' = Resolved(inflight, e.hi, SettledAt)
        /\ pending' = Resolved(pending, e.hi, SettledAt)
    BY DEF Settle
  <1>2. queue \in Seq(EntryType) /\ inflight \in JobType /\ pending \in JobType
    BY TypeFacts DEF WriterInv
  <1>3. /\ Tail(queue) \in Seq(EntryType) /\ Len(Tail(queue)) = Len(queue) - 1
        /\ Len(queue) \in Nat \ {0} /\ DOMAIN queue = 1 .. Len(queue) /\ e = queue[1]
        /\ \A i \in 1 .. Len(Tail(queue)) : Tail(queue)[i] = queue[i + 1]
        /\ DOMAIN Tail(queue) = 1 .. Len(Tail(queue))
    BY <1>1, <1>2, TailFacts
  <1>. HIDE DEF e
  <1>4. ASSUME NEW i \in DOMAIN queue, queue[i] # e
        PROVE  \E j \in DOMAIN queue' : queue'[j] = queue[i]
    <2>1. i - 1 \in 1 .. Len(Tail(queue)) /\ (i - 1) + 1 = i
      BY <1>3, <1>4
    <2>. QED
      BY <1>1, <1>3, <2>1
  <1>5. ASSUME NEW job \in JobType, NEW c, Resolved(job, e.hi, c) # NoJob,
               ~Resolved(job, e.hi, c).ready, job # NoJob /\ ~job.ready => Marked(job.n)
        PROVE  \E j \in DOMAIN queue' :
                  queue'[j].kind = "settle" /\ queue'[j].hi = Resolved(job, e.hi, c).n
    <2>1. Resolved(job, e.hi, c) = job /\ job.n # e.hi
      BY <1>5 DEF Resolved, JobType
    <2>2. PICK i \in DOMAIN queue : queue[i].kind = "settle" /\ queue[i].hi = job.n
      BY <1>5, <2>1 DEF Marked
    <2>. QED
      BY <1>4, <2>1, <2>2
  <1>6. ASSUME NEW job \in JobType, NEW c, job # NoJob
        PROVE  Resolved(job, e.hi, c) # NoJob
    BY <1>6 DEF Resolved, JobType, NoJob
  <1>7. JobsWait'
    <2>1. \A j \in {inflight', pending'} : j # NoJob /\ ~j.ready =>
             \E i \in DOMAIN queue' : queue'[i].kind = "settle" /\ queue'[i].hi = j.n
      BY <1>1, <1>2, <1>5 DEF WaitInv, JobsWait
    <2>2. pending' # NoJob => inflight' # NoJob
      <3>1. CASE pending # NoJob
        BY <1>1, <1>2, <1>6, <3>1 DEF WaitInv, JobsWait
      <3>2. CASE pending = NoJob /\ inflight # NoJob
        BY <1>1, <1>2, <1>6, <3>2
      <3>3. CASE pending = NoJob /\ inflight = NoJob
        BY <1>1, <3>3
      <3>. QED
        BY <3>1, <3>2, <3>3
    <2>3. NoJob' = NoJob
      BY DEF NoJob
    <2>. QED
      BY <2>1, <2>2, <2>3 DEF JobsWait, Marked
  <1>8. CarrierWaits'
    <2>1. ASSUME NEW kind \in {"note", "suspended", "done"}, Queued(kind)
          PROVE  \E j \in DOMAIN queue' : queue'[j].kind = kind
      BY <1>1, <1>4, <2>1 DEF Queued
    <2>. QED
      BY <1>1, <2>1 DEF WaitInv, CarrierWaits, Queued
  <1>. QED
    BY <1>7, <1>8 DEF WaitInv

LEMMA ChainWaits ==
    ASSUME WriterInv, WaitInv, Chain
    PROVE  WaitInv'
  BY RowWaits, TerminalWaits, ThrowWaits, SettleWaits DEF Chain

\* Steps that leave what the carrier awaits, and jobs with their markers.
LEMMA OtherWaits ==
    ASSUME WaitInv, EntriesStay, UNCHANGED <<inflight, pending>>,
           carrier' = carrier \/ carrier' \notin Awaiting
    PROVE  WaitInv'
  BY CarrierWaitsOn, JobsWaitOn DEF WaitInv

LEMMA SameQueue == UNCHANGED queue => EntriesStay
  BY DEF EntriesStay

LEMMA CheckpointWaits ==
    ASSUME WaitInv, Checkpointer \/ Fence
    PROVE  WaitInv'
  <1>1. UNCHANGED <<queue, carrier>>
    BY DEF Checkpointer, CheckpointWritten, CheckpointFails, Fence, chain
  <1>2. CarrierWaits'
    BY <1>1, SameQueue, CarrierWaitsOn
  <1>3. \/ inflight' = pending /\ pending' = NoJob
        \/ inflight' = NoJob /\ pending' = NoJob
        \/ inflight' = inflight /\ pending' = NoJob
    BY DEF Checkpointer, CheckpointWritten, CheckpointFails, Fence, Pump
  <1>4. NoJob' = NoJob /\ \A n : Marked(n) => Marked(n)'
    BY <1>1 DEF NoJob, Marked
  <1>5. JobsWait'
    BY <1>1, <1>3, <1>4 DEF WaitInv, JobsWait, Marked
  <1>. QED
    BY <1>2, <1>5 DEF WaitInv

LEMMA TokenWaits ==
    ASSUME WriterInv, WaitInv, NEW fresh \in BOOLEAN, NEW sample \in BOOLEAN,
           EmitToken(fresh, sample)
    PROVE  WaitInv'
  <1>. DEFINE merges == from <= Top /\ ~fresh
              lo == IF merges THEN from ELSE Top + 1
              rows == (IF merges THEN <<>> ELSE BufferRow(from, Top, 1, FALSE))
                      \o (IF sample THEN BufferRow(lo, Top + 1, 1, FALSE) ELSE <<>>)
  <1>1. /\ queue' = queue \o (rows \o Marker(sample, Top + 1))
        /\ Sample(sample, Top + 1) /\ carrier' = carrier
    BY DEF EmitToken, Enqueue
  <1>2. Top \in Nat /\ Top + 1 \in Nat /\ from \in Nat \ {0} /\ lo \in Nat \ {0}
    BY TypeFacts DEF WriterInv
  <1>. HIDE DEF merges, lo
  <1>3. /\ (IF merges THEN <<>> ELSE BufferRow(from, Top, 1, FALSE)) \in Seq(EntryType)
        /\ (IF sample THEN BufferRow(lo, Top + 1, 1, FALSE) ELSE <<>>) \in Seq(EntryType)
    <2>1. BufferRow(from, Top, 1, FALSE) \in Seq(EntryType)
      BY <1>2, BufferRowSeq
    <2>2. BufferRow(lo, Top + 1, 1, FALSE) \in Seq(EntryType)
      <3>1. PICK n \in Nat : n = Top + 1
        BY <1>2
      <3>2. BufferRow(lo, n, 1, FALSE) \in Seq(EntryType)
        BY <1>2, BufferRowSeq
      <3>. QED
        BY <3>1, <3>2
    <2>3. <<>> \in Seq(EntryType)
      OBVIOUS
    <2>. QED
      BY <2>1, <2>2, <2>3
  <1>4. rows \in Seq(EntryType)
    BY <1>3, ConcatFacts
  <1>. HIDE DEF rows
  <1>. QED
    BY <1>1, <1>2, <1>4, MarkedWaits

LEMMA ToolWaits ==
    ASSUME WriterInv, WaitInv, NEW fresh \in BOOLEAN, NEW sample \in BOOLEAN,
           EmitTool(fresh, sample)
    PROVE  WaitInv'
  <1>1. /\ queue' = queue \o (WithBuffer("tool", Top + 1, Top + 1) \o Marker(sample, Top + 1))
        /\ Sample(sample, Top + 1) /\ carrier' \notin Awaiting
    BY DEF EmitTool, Enqueue, Awaiting
  <1>2. Top \in Nat /\ Top + 1 \in Nat /\ TypeOK
    BY TypeFacts DEF WriterInv
  <1>3. WithBuffer("tool", Top + 1, Top + 1) \in Seq(EntryType)
    BY <1>2, WithBufferSeq DEF Adds
  <1>. QED
    BY <1>1, <1>2, <1>3, MarkedWaits

LEMMA CapacityWaits ==
    ASSUME WriterInv, WaitInv, NEW sample \in BOOLEAN, CapacityBack(sample)
    PROVE  WaitInv'
  <1>1. /\ queue' = queue \o Marker(sample, Top)
        /\ Sample(sample, Top) /\ carrier' \notin Awaiting
    BY DEF CapacityBack, Enqueue, Awaiting
  <1>2. Top \in Nat
    BY TypeFacts DEF WriterInv
  <1>3. <<>> \o Marker(sample, Top) = Marker(sample, Top) /\ <<>> \in Seq(EntryType)
    BY <1>2, MarkerSeq, ConcatEmptySeq
  <1>. QED
    BY <1>1, <1>2, <1>3, MarkedWaits

\* The carrier turns to wait for an entry of its own.
LEMMA AwaitsOwn ==
    ASSUME WriterInv, WaitInv, UNCHANGED <<inflight, pending>>,
           NEW kind \in {"note", "suspended", "done"}, NEW es, Adds(es, kind), queue' = queue \o es,
           carrier' = CASE kind = "note" -> "noting" [] kind = "suspended" -> "suspending"
                        [] kind = "done" -> "closing"
    PROVE  WaitInv'
  <1>1. EntriesStay /\ \E j \in DOMAIN queue' : queue'[j].kind = kind
    BY EnqueueStays DEF Adds
  <1>2. CarrierWaits'
    BY <1>1 DEF CarrierWaits, Queued
  <1>3. JobsWait'
    BY <1>1, JobsWaitOn
  <1>. QED
    BY <1>2, <1>3 DEF WaitInv

LEMMA NoteWaits ==
    ASSUME WriterInv, WaitInv, NEW fresh \in BOOLEAN, NEW kind \in {"note", "suspended"},
           EmitNote(fresh, kind)
    PROVE  WaitInv'
  <1>1. /\ queue' = queue \o WithBuffer(kind, Top + 1, Top + 1)
        /\ carrier' = (IF kind = "note" THEN "noting" ELSE "suspending")
        /\ UNCHANGED <<inflight, pending>>
    BY DEF EmitNote, Enqueue, jobs
  <1>2. Top + 1 \in Nat /\ TypeOK
    BY TypeFacts DEF WriterInv
  <1>3. Adds(WithBuffer(kind, Top + 1, Top + 1), kind)
    BY <1>2, WithBufferSeq
  <1>. QED
    BY <1>1, <1>3, AwaitsOwn

LEMMA TerminalCallWaits ==
    ASSUME WriterInv, WaitInv, EmitTerminal \/ OtherCloses
    PROVE  WaitInv'
  <1>1. Top \in Nat /\ TypeOK
    BY TypeFacts DEF WriterInv
  <1>2. ASSUME NEW kind \in Terminal
        PROVE  Adds(WithBuffer(kind, Top + 1, Top), kind)
    BY <1>1, WithBufferSeq DEF Terminal
  <1>3. CASE EmitTerminal /\ Admits
    <2>1. /\ queue' = queue \o WithBuffer("done", Top + 1, Top) /\ carrier' = "closing"
          /\ UNCHANGED <<inflight, pending>>
      BY <1>3 DEF EmitTerminal, CloseAdmission, Enqueue, jobs
    <2>2. "done" \in Terminal
      BY DEF Terminal
    <2>. QED
      BY <1>2, <2>1, <2>2, AwaitsOwn
  <1>4. CASE EmitTerminal /\ ~Admits
    <2>1. UNCHANGED <<queue, inflight, pending>> /\ carrier' \notin Awaiting
      BY <1>4 DEF EmitTerminal, chain, jobs, Awaiting
    <2>. QED
      BY <2>1, SameQueue, OtherWaits
  <1>5. CASE OtherCloses
    <2>1. /\ queue' = queue \o WithBuffer("close", Top + 1, Top) /\ carrier' = carrier
          /\ UNCHANGED <<inflight, pending>> /\ "close" \in Terminal
      BY <1>5 DEF OtherCloses, CloseAdmission, Enqueue, jobs, Terminal
    <2>2. EntriesStay
      BY <1>2, <2>1, EnqueueStays DEF Adds
    <2>. QED
      BY <2>1, <2>2, OtherWaits
  <1>. QED
    BY <1>3, <1>4, <1>5

LEMMA FlushWaits ==
    ASSUME WriterInv, WaitInv, FlushTimer \/ EndStream
    PROVE  WaitInv'
  <1>1. BufferRow(from, Top, 1, FALSE) \in Seq(EntryType)
    <2>1. Top \in Nat /\ from \in Nat \ {0}
      BY TypeFacts DEF WriterInv
    <2>. QED
      BY <2>1, BufferRowSeq
  <1>2. /\ UNCHANGED <<inflight, pending>>
        /\ carrier' = carrier \/ carrier' \notin Awaiting
        /\ queue' = queue \o BufferRow(from, Top, 1, FALSE) \/ queue' = queue
    BY DEF FlushTimer, EndStream, ScheduleBufferWrite, Enqueue, jobs, chain, Awaiting
  <1>3. EntriesStay
    BY <1>1, <1>2, EnqueueStays, SameQueue
  <1>. QED
    BY <1>2, <1>3, OtherWaits

LEMMA NextWaits == WriterInv /\ WaitInv /\ [Next]_vars => WaitInv'
  <1>. SUFFICES ASSUME WriterInv, WaitInv, [Next]_vars PROVE WaitInv'
    OBVIOUS
  <1>1. CASE Chain
    BY <1>1, ChainWaits
  <1>2. CASE Carrier
    <2>1. CASE WaitThrows
      <3>1. UNCHANGED <<queue, inflight, pending>> /\ carrier' \notin Awaiting
        BY <2>1 DEF WaitThrows, chain, jobs, Awaiting
      <3>. QED
        BY <3>1, SameQueue, OtherWaits
    <2>. QED
      BY <1>2, <2>1, CapacityWaits, CheckpointWaits, TerminalCallWaits, FlushWaits DEF Carrier
  <1>3. CASE Checkpointer
    BY <1>3, CheckpointWaits
  <1>4. CASE Environment
    <2>1. CASE EmitThrows \/ EmitRefused \/ AdapterEnds \/ TakenOver \/ PeerCloses
      <3>1. /\ UNCHANGED <<queue, inflight, pending>>
            /\ carrier' = carrier \/ carrier' \notin Awaiting
        BY <2>1 DEF EmitThrows, EmitRefused, AdapterEnds, TakenOver, PeerCloses, chain, jobs, Awaiting
      <3>. QED
        BY <3>1, SameQueue, OtherWaits
    <2>. QED
      BY <1>4, <2>1, TokenWaits, ToolWaits, NoteWaits, FlushWaits, TerminalCallWaits
      DEF Environment
  <1>5. CASE UNCHANGED vars
    BY <1>5, SameQueue, OtherWaits DEF vars, chain, jobs
  <1>. QED
    BY <1>1, <1>2, <1>3, <1>4, <1>5 DEF Next

\* What somebody waits for is there.
LEMMA WaitInvariant == Spec => [](WriterInv /\ WaitInv)
  <1>1. Init => WaitInv
    BY DEF Init, WaitInv, CarrierWaits, JobsWait, NoJob
  <1>. QED
    BY <1>1, NextWaits, WriterInvariant, PTL DEF Spec

LEMMA WaitsDue == WriterInv /\ WaitInv => NobodyStuck
  <1>. SUFFICES ASSUME WriterInv, WaitInv, carrier \notin {"reading", "stopped"}
                PROVE  SomethingIsDue
    BY DEF NobodyStuck
  <1>1. /\ TypeOK /\ carrier \in Phases /\ QueueInv
        /\ queue \in Seq(EntryType) /\ stream.queuedRows \in Nat
    BY TypeFacts DEF WriterInv, TypeOK
  <1>2. queue = <<>> <=> DOMAIN queue = {}
    BY <1>1, SeqFacts
  <1>3. CASE carrier \in Awaiting
    <2>1. queue # <<>>
      BY <1>2, <1>3 DEF Awaiting, WaitInv, CarrierWaits, Queued
    <2>. QED
      BY <1>3, <2>1 DEF SomethingIsDue, ChainDue, Answers, Awaiting
  <1>4. CASE carrier = "waiting"
    <2>1. CASE stream.queuedRows <= MaxPendingRows
      BY <1>4, <2>1 DEF SomethingIsDue, CarrierDue
    <2>2. CASE ~(stream.queuedRows <= MaxPendingRows)
      <3>1. queue # <<>>
        <4>1. SUFFICES ASSUME queue = <<>> PROVE stream.queuedRows = 0
          BY <2>2, WriterAssumption
        <4>2. Len(queue) = 0
          BY <4>1
        <4>. QED
          BY <1>1, <4>2 DEF QueueInv, Counts
      <3>. QED
        BY <1>1, <2>2, <3>1, WriterAssumption DEF SomethingIsDue, ChainDue, Answers
    <2>. QED
      BY <2>1, <2>2
  <1>5. CASE carrier \in {"fencing", "draining"}
    <2>1. CASE inflight = NoJob
      BY <1>5, <2>1 DEF SomethingIsDue, CarrierDue, WaitInv, JobsWait
    <2>2. CASE inflight # NoJob /\ ~inflight.ready
      <3>1. queue # <<>>
        BY <1>2, <2>2 DEF WaitInv, JobsWait, Marked
      <3>. QED
        BY <1>5, <3>1 DEF SomethingIsDue, ChainDue, Answers
    <2>3. CASE inflight.ready
      BY <2>3 DEF SomethingIsDue
    <2>. QED
      BY <2>1, <2>2, <2>3
  <1>. QED
    BY <1>1, <1>3, <1>4, <1>5 DEF Phases

\* Producer, chain, checkpointer, fence and terminal never wait for each other.
THEOREM WaitsEnd == Spec => []NobodyStuck
  BY WaitInvariant, WaitsDue, PTL
=============================================================================
