------------------------- MODULE ExecBuffer_proofs -------------------------
(***************************************************************************)
(* ExecBuffer for any length of output and any number of crashes, for runs *)
(* whose start waits for no setup: the event log tiles the output, and a   *)
(* run reported as finished or cancelled is whole.                         *)
(***************************************************************************)
EXTENDS ExecBuffer, SequenceTheorems, TLAPS

\* Where the last event ends.
End(es) == IF es = <<>> THEN 0 ELSE es[Len(es)].to

\* The ends of the events rise, so the last one is the furthest,
EndsRise == \A i \in DOMAIN events : events[i].to <= End(events)

\* and a run that is watched is read from there.
TailAtEnd == phase \in {"watch", "drain"} => tail = End(events)

\* A start that is being set up finds nothing of an earlier run.
StartsClean ==
    /\ \A g, h \in starters : g = h
    /\ starters # {} => /\ up /\ phase = "none" /\ ~logs
                        /\ events = <<>> /\ final = "none"

\* A run that is under way has no final yet, a stream, and a daemon that is up.
PhaseFits ==
    /\ phase # "none" => up
    /\ phase \notin {"none", "meta"} => final = "none" /\ stream = "running"
    /\ phase = "spawn" => ~logs
    /\ phase \in {"spawn", "own"} => events = <<>>
    /\ phase = "drain" => agent # "runs"

\* A run about to be reported as finished or cancelled is whole.
VerdictIsWhole ==
    phase \in {"release", "final"} /\ verdict \in {"ok", "cancelled"} =>
        agent # "runs" /\ raw \in Ends(events)

BufferInv ==
    /\ SetupWaits = FALSE
    /\ BufferTypeOK /\ EventsTile /\ EndsRise /\ TailAtEnd
    /\ StartsClean /\ PhaseFits /\ VerdictIsWhole /\ FinalIsWhole

-----------------------------------------------------------------------------
(* What an action that leaves the logs alone has to keep. *)

\* The parts that speak of the event log and of the tail on it.
LogInv == EventsTile /\ EndsRise /\ TailAtEnd

LEMMA EntryTypes ==
    ASSUME BufferTypeOK
    PROVE  /\ Len(events) \in Nat /\ DOMAIN events = 1..Len(events)
           /\ \A i \in DOMAIN events : events[i].off \in Nat /\ events[i].to \in 0..MaxOutput
  <1>1. events \in Seq(Entry)
    BY DEF BufferTypeOK
  <1>2. Len(events) \in Nat /\ DOMAIN events = 1..Len(events)
    BY <1>1, LenProperties
  <1>3. \A i \in DOMAIN events : events[i] \in Entry
    BY <1>1, <1>2, ElementOfSeq
  <1>. QED
    BY <1>2, <1>3, BufferAssumption DEF Entry

\* An adopted tail starts where the last event ends.
LEMMA TailOffsetIsEnd ==
    ASSUME BufferTypeOK, EndsRise
    PROVE  TailOffset(events) = End(events)
  <1>1. End(events) \in Ends(events)
    <2>1. CASE events = <<>>
      BY <2>1 DEF End, Ends
    <2>2. CASE events # <<>>
      <3>1. Len(events) \in DOMAIN events
        BY <2>2 DEF BufferTypeOK
      <3>. QED
        BY <2>2, <3>1 DEF End, Ends
    <2>. QED
      BY <2>1, <2>2
  <1>2. \A n \in Ends(events) : n \in Nat /\ n <= End(events)
    <2>1. \A i \in DOMAIN events : events[i].to \in Nat
      BY EntryTypes, BufferAssumption
    <2>2. End(events) \in Nat
      BY <1>1, <2>1 DEF Ends
    <2>. QED
      BY <2>1, <2>2 DEF Ends, EndsRise
  <1>3. /\ TailOffset(events) \in Ends(events)
        /\ \A n \in Ends(events) : n <= TailOffset(events)
    BY <1>1, <1>2 DEF TailOffset
  <1>. QED
    BY <1>1, <1>2, <1>3

\* The event log ends inside the log it is read from.
LEMMA EndInLog ==
    ASSUME BufferTypeOK, EventsTile
    PROVE  End(events) \in 0..raw /\ End(events) \in Ends(events)
  <1>1. CASE events = <<>>
    BY <1>1, BufferAssumption DEF End, Ends, BufferTypeOK
  <1>2. CASE events # <<>>
    <2>1. Len(events) \in DOMAIN events
      BY <1>2 DEF BufferTypeOK
    <2>2. events[Len(events)].to \in Nat /\ raw \in Nat
      BY <2>1, EntryTypes, BufferAssumption DEF BufferTypeOK
    <2>3. events[Len(events)].to <= raw
      BY <2>1 DEF EventsTile
    <2>. QED
      BY <1>2, <2>1, <2>2, <2>3 DEF End, Ends
  <1>. QED
    BY <1>1, <1>2

LEMMA BufferInitInv == SetupWaits = FALSE /\ BufferInit => BufferInv
  <1>. SUFFICES ASSUME SetupWaits = FALSE, BufferInit
                PROVE  BufferInv
    OBVIOUS
  <1>1. BufferTypeOK
    <2>1. events \in Seq(Entry) /\ starters \subseteq Nat
      BY EmptySeq DEF BufferInit
    <2>2. /\ crashes \in 0..MaxCrashes /\ spawned \in 0..2
          /\ raw \in 0..MaxOutput /\ tail \in 0..MaxOutput
      BY BufferAssumption DEF BufferInit
    <2>. QED
      BY <2>1, <2>2 DEF BufferInit, BufferTypeOK, Statuses, Finals, Phases
  <1>2. EventsTile /\ EndsRise
    BY DEF BufferInit, EventsTile, EndsRise
  <1>3. TailAtEnd /\ StartsClean /\ PhaseFits /\ VerdictIsWhole /\ FinalIsWhole
    BY DEF BufferInit, TailAtEnd, StartsClean, PhaseFits, VerdictIsWhole, FinalIsWhole
  <1>. QED
    BY <1>1, <1>2, <1>3 DEF BufferInv

LEMMA ExecStartKeeps ==
    ASSUME BufferInv, NEW g \in Nat, ExecStart(g)
    PROVE  BufferInv'
  <1>1. BufferTypeOK'
    <2>1. events' \in Seq(Entry) /\ starters' \subseteq Nat
      BY EmptySeq DEF ExecStart, BufferInv, BufferTypeOK
    <2>2. meta' \in Statuses /\ stream' \in Statuses /\ final' \in Finals
      BY DEF ExecStart, Statuses, Finals
    <2>. QED
      BY <2>1, <2>2 DEF ExecStart, BufferInv, BufferTypeOK
  <1>2. EventsTile' /\ EndsRise'
    BY DEF ExecStart, EventsTile, EndsRise
  <1>3. phase = "none" /\ starters = {} /\ up
    BY DEF ExecStart, AtAwait, Known, BufferInv, PhaseFits
  <1>4. TailAtEnd' /\ PhaseFits' /\ VerdictIsWhole' /\ FinalIsWhole'
    BY <1>3 DEF ExecStart, TailAtEnd, PhaseFits, VerdictIsWhole, FinalIsWhole
  <1>5. StartsClean'
    BY <1>3 DEF ExecStart, StartsClean
  <1>. QED
    BY <1>1, <1>2, <1>4, <1>5 DEF ExecStart, BufferInv

LEMMA OpenStreamKeeps ==
    ASSUME BufferInv, NEW g \in Nat, OpenStream(g)
    PROVE  BufferInv'
  <1>. USE DEF OpenStream, BufferInv, process, disk, memory
  <1>1. BufferTypeOK'
    BY BufferAssumption DEF BufferTypeOK, Statuses, Finals, Phases
  <1>2. EventsTile' /\ EndsRise' /\ TailAtEnd'
    BY DEF EventsTile, EndsRise, TailAtEnd, End, PhaseFits
  <1>3. StartsClean' /\ PhaseFits'
    BY DEF StartsClean, PhaseFits
  <1>4. VerdictIsWhole' /\ FinalIsWhole'
    BY DEF VerdictIsWhole, FinalIsWhole, PhaseFits, StartsClean, Ends
  <1>. QED
    BY <1>1, <1>2, <1>3, <1>4

LEMMA SpawnKeeps ==
    ASSUME BufferInv, Spawn
    PROVE  BufferInv'
  <1>. USE DEF Spawn, BufferInv, process, disk, memory
  <1>1. BufferTypeOK'
    BY BufferAssumption DEF BufferTypeOK, Statuses, Finals, Phases
  <1>2. EventsTile' /\ EndsRise' /\ TailAtEnd'
    BY DEF EventsTile, EndsRise, TailAtEnd, End, PhaseFits
  <1>3. StartsClean' /\ PhaseFits'
    BY DEF StartsClean, PhaseFits
  <1>4. VerdictIsWhole' /\ FinalIsWhole'
    BY DEF VerdictIsWhole, FinalIsWhole, PhaseFits, StartsClean, Ends
  <1>. QED
    BY <1>1, <1>2, <1>3, <1>4

LEMMA SpawnFailsKeeps ==
    ASSUME BufferInv, SpawnFails
    PROVE  BufferInv'
  <1>. USE DEF SpawnFails, BufferInv, process, disk, memory
  <1>1. BufferTypeOK'
    BY BufferAssumption DEF BufferTypeOK, Statuses, Finals, Phases
  <1>2. EventsTile' /\ EndsRise' /\ TailAtEnd'
    BY DEF EventsTile, EndsRise, TailAtEnd, End, PhaseFits
  <1>3. StartsClean' /\ PhaseFits'
    BY DEF StartsClean, PhaseFits
  <1>4. VerdictIsWhole' /\ FinalIsWhole'
    BY DEF VerdictIsWhole, FinalIsWhole, PhaseFits, StartsClean, Ends
  <1>. QED
    BY <1>1, <1>2, <1>3, <1>4

LEMMA RecordOwnerKeeps ==
    ASSUME BufferInv, RecordOwner
    PROVE  BufferInv'
  <1>. USE DEF RecordOwner, BufferInv, process, disk, memory
  <1>1. BufferTypeOK'
    BY BufferAssumption DEF BufferTypeOK, Statuses, Finals, Phases
  <1>2. EventsTile' /\ EndsRise' /\ TailAtEnd'
    BY DEF EventsTile, EndsRise, TailAtEnd, End, PhaseFits
  <1>3. StartsClean' /\ PhaseFits'
    BY DEF StartsClean, PhaseFits
  <1>4. VerdictIsWhole' /\ FinalIsWhole'
    BY DEF VerdictIsWhole, FinalIsWhole, PhaseFits, StartsClean, Ends
  <1>. QED
    BY <1>1, <1>2, <1>3, <1>4

LEMMA AgentWritesKeeps ==
    ASSUME BufferInv, AgentWrites
    PROVE  BufferInv'
  <1>. USE DEF AgentWrites, BufferInv, disk, memory
  <1>1. BufferTypeOK' /\ raw < raw'
    BY BufferAssumption DEF BufferTypeOK
  <1>2. EventsTile'
    BY <1>1, EntryTypes, BufferAssumption DEF BufferTypeOK, EventsTile
  <1>3. EndsRise' /\ TailAtEnd'
    BY DEF EndsRise, TailAtEnd, End
  <1>4. StartsClean' /\ PhaseFits' /\ VerdictIsWhole' /\ FinalIsWhole'
    BY DEF StartsClean, PhaseFits, VerdictIsWhole, FinalIsWhole, Ends
  <1>. QED
    BY <1>1, <1>2, <1>3, <1>4

LEMMA AgentExitsKeeps ==
    ASSUME BufferInv, AgentExits
    PROVE  BufferInv'
  <1>. USE DEF AgentExits, BufferInv, process, disk, memory
  <1>1. BufferTypeOK'
    BY BufferAssumption DEF BufferTypeOK, Statuses, Finals, Phases
  <1>2. EventsTile' /\ EndsRise' /\ TailAtEnd'
    BY DEF EventsTile, EndsRise, TailAtEnd, End, PhaseFits
  <1>3. StartsClean' /\ PhaseFits'
    BY DEF StartsClean, PhaseFits
  <1>4. VerdictIsWhole' /\ FinalIsWhole'
    BY DEF VerdictIsWhole, FinalIsWhole, PhaseFits, StartsClean, Ends
  <1>. QED
    BY <1>1, <1>2, <1>3, <1>4

LEMMA AgentKilledKeeps ==
    ASSUME BufferInv, AgentKilled
    PROVE  BufferInv'
  <1>. USE DEF AgentKilled, BufferInv, process, disk, memory
  <1>1. BufferTypeOK'
    BY BufferAssumption DEF BufferTypeOK, Statuses, Finals, Phases
  <1>2. EventsTile' /\ EndsRise' /\ TailAtEnd'
    BY DEF EventsTile, EndsRise, TailAtEnd, End, PhaseFits
  <1>3. StartsClean' /\ PhaseFits'
    BY DEF StartsClean, PhaseFits
  <1>4. VerdictIsWhole' /\ FinalIsWhole'
    BY DEF VerdictIsWhole, FinalIsWhole, PhaseFits, StartsClean, Ends
  <1>. QED
    BY <1>1, <1>2, <1>3, <1>4

LEMMA AbortKeeps ==
    ASSUME BufferInv, Abort
    PROVE  BufferInv'
  <1>. USE DEF Abort, BufferInv, process, disk, memory
  <1>1. BufferTypeOK'
    BY BufferAssumption DEF BufferTypeOK, Statuses, Finals, Phases
  <1>2. EventsTile' /\ EndsRise' /\ TailAtEnd'
    BY DEF EventsTile, EndsRise, TailAtEnd, End, PhaseFits
  <1>3. StartsClean' /\ PhaseFits'
    BY DEF StartsClean, PhaseFits
  <1>4. VerdictIsWhole' /\ FinalIsWhole'
    BY DEF VerdictIsWhole, FinalIsWhole, PhaseFits, StartsClean, Ends
  <1>. QED
    BY <1>1, <1>2, <1>3, <1>4

LEMMA PollEndsKeeps ==
    ASSUME BufferInv, PollEnds
    PROVE  BufferInv'
  <1>. USE DEF PollEnds, BufferInv, process, disk, memory
  <1>1. BufferTypeOK'
    BY BufferAssumption DEF BufferTypeOK, Statuses, Finals, Phases
  <1>2. EventsTile' /\ EndsRise' /\ TailAtEnd'
    BY DEF EventsTile, EndsRise, TailAtEnd, End, PhaseFits
  <1>3. StartsClean' /\ PhaseFits'
    BY DEF StartsClean, PhaseFits
  <1>4. VerdictIsWhole' /\ FinalIsWhole'
    BY DEF VerdictIsWhole, FinalIsWhole, PhaseFits, StartsClean, Ends
  <1>. QED
    BY <1>1, <1>2, <1>3, <1>4

LEMMA DrainedKeeps ==
    ASSUME BufferInv, Drained
    PROVE  BufferInv'
  <1>. USE DEF Drained, BufferInv, process, disk, memory
  <1>1. BufferTypeOK'
    BY BufferAssumption DEF BufferTypeOK, Statuses, Finals, Phases
  <1>2. EventsTile' /\ EndsRise' /\ TailAtEnd'
    BY DEF EventsTile, EndsRise, TailAtEnd, End, PhaseFits
  <1>3. StartsClean' /\ PhaseFits'
    BY DEF StartsClean, PhaseFits
  <1>4. VerdictIsWhole' /\ FinalIsWhole'
    <2>1. raw \in Ends(events)
      BY EndInLog, BufferAssumption DEF TailAtEnd, BufferTypeOK
    <2>. QED
      BY <2>1 DEF VerdictIsWhole, FinalIsWhole, PhaseFits, Ends
  <1>. QED
    BY <1>1, <1>2, <1>3, <1>4

LEMMA ReleasedKeeps ==
    ASSUME BufferInv, Released
    PROVE  BufferInv'
  <1>. USE DEF Released, BufferInv, process, disk, memory
  <1>1. BufferTypeOK'
    BY BufferAssumption DEF BufferTypeOK, Statuses, Finals, Phases
  <1>2. EventsTile' /\ EndsRise' /\ TailAtEnd'
    BY DEF EventsTile, EndsRise, TailAtEnd, End, PhaseFits
  <1>3. StartsClean' /\ PhaseFits'
    BY DEF StartsClean, PhaseFits
  <1>4. VerdictIsWhole' /\ FinalIsWhole'
    BY DEF VerdictIsWhole, FinalIsWhole, PhaseFits, StartsClean, Ends
  <1>. QED
    BY <1>1, <1>2, <1>3, <1>4

LEMMA WriteFinalKeeps ==
    ASSUME BufferInv, WriteFinal
    PROVE  BufferInv'
  <1>. USE DEF WriteFinal, BufferInv, process, disk, memory
  <1>1. BufferTypeOK'
    BY BufferAssumption DEF BufferTypeOK, Statuses, Finals, Phases, StatusOf
  <1>2. EventsTile' /\ EndsRise' /\ TailAtEnd'
    BY DEF EventsTile, EndsRise, TailAtEnd, End, PhaseFits
  <1>3. StartsClean' /\ PhaseFits'
    BY DEF StartsClean, PhaseFits
  <1>4. VerdictIsWhole' /\ FinalIsWhole'
    BY DEF VerdictIsWhole, FinalIsWhole, PhaseFits, StartsClean, Ends
  <1>. QED
    BY <1>1, <1>2, <1>3, <1>4

LEMMA WriteMetaKeeps ==
    ASSUME BufferInv, WriteMeta
    PROVE  BufferInv'
  <1>. USE DEF WriteMeta, BufferInv, process, disk, memory
  <1>1. BufferTypeOK'
    BY BufferAssumption DEF BufferTypeOK, Statuses, Finals, Phases, StatusOf
  <1>2. EventsTile' /\ EndsRise' /\ TailAtEnd'
    BY DEF EventsTile, EndsRise, TailAtEnd, End, PhaseFits
  <1>3. StartsClean' /\ PhaseFits'
    BY DEF StartsClean, PhaseFits
  <1>4. VerdictIsWhole' /\ FinalIsWhole'
    BY DEF VerdictIsWhole, FinalIsWhole, PhaseFits, StartsClean, Ends
  <1>. QED
    BY <1>1, <1>2, <1>3, <1>4

LEMMA CrashKeeps ==
    ASSUME BufferInv, Crash
    PROVE  BufferInv'
  <1>. USE DEF Crash, BufferInv, disk
  <1>1. BufferTypeOK'
    <2>1. starters' \subseteq Nat /\ crashes' \in 0..MaxCrashes /\ tail' \in 0..MaxOutput
      BY BufferAssumption DEF BufferTypeOK
    <2>2. stream' \in Statuses /\ phase' \in Phases /\ verdict' \in Finals
      BY DEF Statuses, Phases, Finals
    <2>. QED
      BY <2>1, <2>2 DEF BufferTypeOK
  <1>2. EventsTile' /\ EndsRise' /\ FinalIsWhole'
    BY DEF EventsTile, EndsRise, End, Ends, FinalIsWhole
  <1>3. TailAtEnd' /\ StartsClean' /\ PhaseFits' /\ VerdictIsWhole'
    BY DEF TailAtEnd, StartsClean, PhaseFits, VerdictIsWhole
  <1>. QED
    BY <1>1, <1>2, <1>3

LEMMA StopExecsKeeps ==
    ASSUME BufferInv, StopExecs
    PROVE  BufferInv'
  <1>. USE DEF StopExecs, BufferInv, process, disk, memory
  <1>1. BufferTypeOK'
    BY BufferAssumption DEF BufferTypeOK, Statuses, Finals, Phases
  <1>2. EventsTile' /\ EndsRise' /\ TailAtEnd'
    BY DEF EventsTile, EndsRise, TailAtEnd, End, PhaseFits
  <1>3. StartsClean' /\ PhaseFits'
    BY DEF StartsClean, PhaseFits
  <1>4. VerdictIsWhole' /\ FinalIsWhole'
    BY DEF VerdictIsWhole, FinalIsWhole, PhaseFits, StartsClean, Ends
  <1>. QED
    BY <1>1, <1>2, <1>3, <1>4

LEMMA RecoverNothingKeeps ==
    ASSUME BufferInv, RecoverNothing
    PROVE  BufferInv'
  <1>. USE DEF RecoverNothing, Restart, LeftRunning, Kept, BufferInv, process, disk, memory
  <1>1. BufferTypeOK'
    BY BufferAssumption DEF BufferTypeOK, Statuses, Finals, Phases
  <1>2. EventsTile' /\ EndsRise' /\ TailAtEnd'
    BY DEF EventsTile, EndsRise, TailAtEnd, End, PhaseFits
  <1>3. StartsClean' /\ PhaseFits'
    BY DEF StartsClean, PhaseFits
  <1>4. VerdictIsWhole' /\ FinalIsWhole'
    BY DEF VerdictIsWhole, FinalIsWhole, PhaseFits, StartsClean, Ends
  <1>. QED
    BY <1>1, <1>2, <1>3, <1>4

LEMMA RecoverUnownedKeeps ==
    ASSUME BufferInv, RecoverUnowned
    PROVE  BufferInv'
  <1>. USE DEF RecoverUnowned, Restart, LeftRunning, Kept, BufferInv, process, disk, memory
  <1>1. BufferTypeOK'
    BY BufferAssumption DEF BufferTypeOK, Statuses, Finals, Phases
  <1>2. EventsTile' /\ EndsRise' /\ TailAtEnd'
    BY DEF EventsTile, EndsRise, TailAtEnd, End, PhaseFits
  <1>3. StartsClean' /\ PhaseFits'
    BY DEF StartsClean, PhaseFits
  <1>4. VerdictIsWhole' /\ FinalIsWhole'
    BY DEF VerdictIsWhole, FinalIsWhole, PhaseFits, StartsClean, Ends
  <1>. QED
    BY <1>1, <1>2, <1>3, <1>4

LEMMA RecoverLostKeeps ==
    ASSUME BufferInv, RecoverLost
    PROVE  BufferInv'
  <1>. USE DEF RecoverLost, Restart, LeftRunning, Kept, BufferInv, process, disk, memory
  <1>1. BufferTypeOK'
    BY BufferAssumption DEF BufferTypeOK, Statuses, Finals, Phases
  <1>2. EventsTile' /\ EndsRise' /\ TailAtEnd'
    BY DEF EventsTile, EndsRise, TailAtEnd, End, PhaseFits
  <1>3. StartsClean' /\ PhaseFits'
    BY DEF StartsClean, PhaseFits
  <1>4. VerdictIsWhole' /\ FinalIsWhole'
    BY DEF VerdictIsWhole, FinalIsWhole, PhaseFits, StartsClean, Ends
  <1>. QED
    BY <1>1, <1>2, <1>3, <1>4

LEMMA RecoverAdoptsKeeps ==
    ASSUME BufferInv, RecoverAdopts
    PROVE  BufferInv'
  <1>. USE DEF RecoverAdopts, Restart, LeftRunning, Kept, BufferInv
  <1>1. tail' = End(events)
    BY TailOffsetIsEnd
  <1>2. BufferTypeOK'
    BY <1>1, EndInLog, BufferAssumption DEF BufferTypeOK, Statuses, Finals, Phases
  <1>3. EventsTile' /\ EndsRise' /\ FinalIsWhole'
    BY DEF EventsTile, EndsRise, End, Ends, FinalIsWhole
  <1>4. TailAtEnd' /\ StartsClean' /\ PhaseFits' /\ VerdictIsWhole'
    BY <1>1 DEF TailAtEnd, StartsClean, PhaseFits, VerdictIsWhole, End
  <1>. QED
    BY <1>2, <1>3, <1>4

LEMMA PublishKeeps ==
    ASSUME BufferInv, NEW t \in 1..MaxOutput, Publish(t)
    PROVE  BufferInv'
  <1>. DEFINE e == [off |-> tail, to |-> t]
  <1>1. /\ e \in Entry /\ events \in Seq(Entry)
        /\ tail \in Nat /\ t \in Nat /\ tail < t /\ t <= raw
    BY BufferAssumption DEF Publish, BufferInv, BufferTypeOK, Entry
  <1>2. /\ events' = Append(events, e) /\ events' \in Seq(Entry) /\ events' # <<>>
        /\ Len(events') = Len(events) + 1 /\ Len(events) \in Nat
        /\ DOMAIN events = 1..Len(events) /\ DOMAIN events' = 1..(Len(events) + 1)
        /\ \A i \in DOMAIN events : events'[i] = events[i]
        /\ events'[Len(events) + 1] = e
    BY <1>1, AppendProperties, LenProperties DEF Publish
  <1>3. tail = End(events) /\ End(events') = t
    BY <1>2 DEF Publish, BufferInv, TailAtEnd, End
  <1>4. BufferTypeOK'
    BY <1>1, <1>2, BufferAssumption DEF Publish, process, BufferInv, BufferTypeOK
  <1>5. EventsTile'
    <2>. SUFFICES ASSUME NEW i \in 1..(Len(events) + 1)
                  PROVE  /\ events'[i].off = (IF i = 1 THEN 0 ELSE events'[i - 1].to)
                         /\ events'[i].off < events'[i].to /\ events'[i].to <= raw
      BY <1>2 DEF EventsTile, Publish, process
    <2>1. CASE i = Len(events) + 1
      <3>1. CASE events = <<>>
        BY <2>1, <3>1, <1>1, <1>2, <1>3 DEF End
      <3>2. CASE events # <<>>
        <4>1. Len(events) \in DOMAIN events /\ i # 1 /\ i - 1 = Len(events)
          BY <2>1, <3>2, <1>1, <1>2, EmptySeq
        <4>. QED
          BY <2>1, <3>2, <4>1, <1>1, <1>2, <1>3 DEF End
      <3>. QED
        BY <3>1, <3>2
    <2>2. CASE i \in 1..Len(events)
      <3>1. i \in DOMAIN events /\ (i # 1 => i - 1 \in DOMAIN events)
        BY <2>2, <1>2
      <3>. QED
        BY <3>1, <1>2 DEF BufferInv, EventsTile
    <2>. QED
      BY <2>1, <2>2, <1>2
  <1>6. EndsRise' /\ TailAtEnd'
    <2>1. ASSUME NEW i \in DOMAIN events'
          PROVE  events'[i].to <= t
      <3>1. CASE i = Len(events) + 1
        BY <3>1, <1>1, <1>2
      <3>2. CASE i \in DOMAIN events
        <4>1. events[i].to \in Nat /\ events[i].to <= tail
          BY <3>2, <1>3, EntryTypes DEF BufferInv, EndsRise
        <4>. QED
          BY <4>1, <3>2, <1>1, <1>2
      <3>. QED
        BY <2>1, <3>1, <3>2, <1>2
    <2>. QED
      BY <2>1, <1>3 DEF EndsRise, TailAtEnd, Publish
  <1>7. StartsClean' /\ PhaseFits' /\ VerdictIsWhole' /\ FinalIsWhole'
    BY DEF Publish, process, BufferInv, StartsClean, PhaseFits, VerdictIsWhole, FinalIsWhole
  <1>. QED
    BY <1>4, <1>5, <1>6, <1>7 DEF BufferInv

-----------------------------------------------------------------------------

LEMMA BufferNextKeeps == BufferInv /\ [BufferNext]_bufferVars => BufferInv'
  <1>. SUFFICES ASSUME BufferInv, [BufferNext]_bufferVars
                PROVE  BufferInv'
    OBVIOUS
  <1>1. ASSUME NEW g \in Nat, ExecStart(g) \/ OpenStream(g)
        PROVE  BufferInv'
    BY <1>1, ExecStartKeeps, OpenStreamKeeps
  <1>2. CASE AgentStep
    BY <1>2, AgentWritesKeeps, AgentExitsKeeps, AgentKilledKeeps DEF AgentStep
  <1>3. CASE WatchStep \/ WriteMeta
    BY <1>3, PollEndsKeeps, DrainedKeeps, ReleasedKeeps, WriteFinalKeeps, WriteMetaKeeps,
       SpawnKeeps, SpawnFailsKeeps, RecordOwnerKeeps DEF WatchStep
  <1>4. ASSUME NEW t \in 1..MaxOutput, Publish(t)
        PROVE  BufferInv'
    BY <1>4, PublishKeeps
  <1>5. CASE Abort \/ Crash \/ StopExecs
    BY <1>5, AbortKeeps, CrashKeeps, StopExecsKeeps
  <1>6. CASE Recover
    BY <1>6, RecoverNothingKeeps, RecoverUnownedKeeps, RecoverLostKeeps, RecoverAdoptsKeeps
       DEF Recover
  <1>7. CASE UNCHANGED bufferVars
    BY <1>7 DEF bufferVars, process, disk, memory, BufferInv, BufferTypeOK, EventsTile, EndsRise,
       TailAtEnd, StartsClean, PhaseFits, VerdictIsWhole, FinalIsWhole, End, Ends
  <1>. QED
    BY <1>1, <1>2, <1>3, <1>4, <1>5, <1>6, <1>7 DEF BufferNext

\* The inductive invariant holds of every run whose start waits for no setup.
THEOREM BufferInvHolds == SetupWaits = FALSE /\ BufferSpec => []BufferInv
  <1>1. SetupWaits = FALSE /\ BufferInit => BufferInv
    BY BufferInitInv
  <1>2. BufferInv /\ [BufferNext]_bufferVars => BufferInv'
    BY BufferNextKeeps
  <1>. QED
    BY <1>1, <1>2, PTL DEF BufferSpec

\* Every event carries the bytes behind the last one, whoever published it:
\* the daemon that started the run or one that adopted it after a crash.
THEOREM EventsTileHolds == SetupWaits = FALSE /\ BufferSpec => []EventsTile
  <1>1. BufferInv => EventsTile
    BY DEF BufferInv
  <1>. QED
    BY <1>1, BufferInvHolds, PTL

\* A run that is reported as finished or cancelled has no agent left, and its
\* event log, all that finish keeps, reaches the end of the output.
THEOREM FinalIsWholeHolds == SetupWaits = FALSE /\ BufferSpec => []FinalIsWhole
  <1>1. BufferInv => FinalIsWhole
    BY DEF BufferInv
  <1>. QED
    BY <1>1, BufferInvHolds, PTL
=============================================================================
