--------------------------- MODULE CollectorProofs ---------------------------
(***************************************************************************)
(* Proofs about module Collector, for any commands, addresses, sizes and   *)
(* bounds: the three statistics agree, the panels of a round are in order, *)
(* what is printed adds up, and reader and reporter implement Ledger.      *)
(***************************************************************************)
EXTENDS Collector, FoldProofs

-----------------------------------------------------------------------------
(* The invariants                                                            *)

\* The locks the reader holds are those of its place in the program, and its
\* batch is empty unless it stands between collecting and the end of recording.
HeldAt == [collect |-> {{}}, stats |-> {{}}, cmd |-> {{"stats"}},
           client |-> {{"stats", "cmd"}}, record |-> {Locks},
           release |-> {Locks, {"stats", "cmd"}, {"stats"}}]

LockInv ==
    /\ Held \in HeldAt[rpc]
    /\ rpc \in {"stats", "cmd", "client"} => batch # <<>>
    /\ rpc \in {"collect", "release"} => batch = <<>>

\* Every event is in one place: the ring, the batch, or all three statistics.
CountInv ==
    /\ produced = Len(ring) + Len(batch) + stats.total
    /\ CmdCount = stats.total /\ CmdBytes = stats.bytes
    /\ ClientCount + unknown.count = stats.total
    /\ ClientBytes + unknown.bytes = stats.bytes
    /\ stats.hist = stats.total

\* The last state between two batches is the one with the most events.  The
\* statistics differ from it only while a batch is being recorded.
IsPosted(b) ==
    /\ b \in bounds
    /\ \A c \in bounds : c # b => c["stats"] < b["stats"]

PostedInv ==
    /\ IsPosted(Posted)
    /\ Posted["cmd"] = Posted["stats"]
    /\ rpc # "record" => Posted = Sums
    /\ Posted["stats"] <= stats.total
    /\ rpc = "record" => Posted["stats"] < stats.total + Len(batch)
    /\ Posted["client"] <= ClientCount
    /\ ClientCount + Posted["stats"] <= stats.total + Posted["client"]

\* No panel shows more than what is posted, and each panel of a round at least
\* as much as the one before it.
OrderInv ==
    /\ shown["stats"] <= Posted["stats"]
    /\ shown["cmd"] <= Posted["cmd"]
    /\ ppc \in {"client", "tick", "monitor"} => shown["stats"] <= shown["cmd"]
    /\ PanelsInOrder

\* What was reported last is not more than what was recorded, and it is what
\* the deltas printed so far add up to.
ReportInv ==
    /\ stats.prev_total <= stats.total
    /\ stats.prev_bytes <= stats.bytes
    /\ stats.total = 0 => stats.prev_total = 0
    /\ DeltasAddUp

MonitorInv ==
    /\ CpuAddsUp
    /\ monitor.prev = NoReading => monitor.used = 0

IInv == /\ TypeOK /\ LockInv /\ CountInv /\ PostedInv /\ OrderInv
        /\ ReportInv /\ MonitorInv

-----------------------------------------------------------------------------
(* Records of the statistics                                                 *)

Updated(s, x, y, z) == [s EXCEPT !.total = x, !.bytes = y, !.hist = z]

LEMMA UpdatedFields ==
    ASSUME NEW s \in LatencyStats, NEW x, NEW y, NEW z
    PROVE  /\ Updated(s, x, y, z).total = x
           /\ Updated(s, x, y, z).bytes = y
           /\ Updated(s, x, y, z).hist = z
           /\ Updated(s, x, y, z).prev_total = s.prev_total
           /\ Updated(s, x, y, z).prev_bytes = s.prev_bytes
BY DEF LatencyStats, Updated

LEMMA UpdatedType ==
    ASSUME NEW s \in LatencyStats, NEW x \in Nat, NEW y \in Nat, NEW z \in Nat
    PROVE  Updated(s, x, y, z) \in LatencyStats
BY DEF LatencyStats, Updated

LEMMA EventFields ==
    ASSUME NEW e \in Event
    PROVE  /\ e.cmd \in Cmds /\ e.ip \in Ips /\ e.bytes \in Nat
           /\ e.lat \in Nat /\ e.lat <= HistMax
BY CollectorConstants DEF Event

\* Recording an event adds to the totals and leaves the previous ones.
LEMMA RecordAdds ==
    ASSUME NEW s \in LatencyStats, NEW e \in Event
    PROVE  /\ record(s, e) \in LatencyStats
           /\ record(s, e).total = s.total + 1
           /\ record(s, e).bytes = s.bytes + e.bytes
           /\ record(s, e).hist = s.hist + 1
           /\ record(s, e).prev_total = s.prev_total
           /\ record(s, e).prev_bytes = s.prev_bytes
<1>1. e.bytes \in Nat /\ e.lat <= HistMax
  BY EventFields
<1>2. s.total + 1 \in Nat /\ s.bytes + e.bytes \in Nat /\ s.hist + 1 \in Nat
  BY <1>1 DEF LatencyStats
<1>3. record(s, e) = Updated(s, s.total + 1, s.bytes + e.bytes, s.hist + 1)
  BY <1>1, Zenon DEF record, Updated
<1>4. record(s, e) \in LatencyStats
  BY <1>2, <1>3, UpdatedType
<1> QED
  BY <1>3, <1>4, UpdatedFields

\* A report remembers the totals, if anything was counted.
LEMMA ReportRemembers ==
    ASSUME NEW s \in LatencyStats
    PROVE  /\ Reported(s) \in LatencyStats
           /\ Reported(s).total = s.total
           /\ Reported(s).bytes = s.bytes
           /\ Reported(s).hist = s.hist
           /\ s.total # 0 => /\ Reported(s).prev_total = s.total
                             /\ Reported(s).prev_bytes = s.bytes
BY DEF Reported, LatencyStats

-----------------------------------------------------------------------------
(* The sums of the panels                                                    *)

LEMMA CmdSums ==
    ASSUME TypeOK
    PROVE  CmdCount \in Nat /\ CmdBytes \in Nat
<1>1. CASE Cmds = {}
  <2>1. /\ [d \in Cmds |-> cmdStats[d].total] \in [Cmds -> {0}]
        /\ [d \in Cmds |-> cmdStats[d].bytes] \in [Cmds -> {0}]
    BY <1>1
  <2> QED
    BY <2>1, CollectorConstants, SumZero DEF CmdCount, CmdBytes
<1>2. ASSUME NEW c \in Cmds
      PROVE  CmdCount \in Nat /\ CmdBytes \in Nat
  <2>1. /\ [d \in Cmds |-> cmdStats[d].total] \in [Cmds -> Nat]
        /\ [d \in Cmds |-> cmdStats[d].bytes] \in [Cmds -> Nat]
    BY DEF TypeOK, LatencyStats
  <2> QED
    BY <1>2, <2>1, CollectorConstants, SumUpdate DEF CmdCount, CmdBytes
<1> QED
  BY <1>1, <1>2

LEMMA ClientSums ==
    ASSUME TypeOK
    PROVE  ClientCount \in Nat /\ ClientBytes \in Nat
<1>1. CASE Ips = {}
  <2>1. /\ [j \in Ips |-> clientStats[j].count] \in [Ips -> {0}]
        /\ [j \in Ips |-> clientStats[j].bytes] \in [Ips -> {0}]
    BY <1>1
  <2>2. IsFiniteSet(Ips)
    BY CollectorConstants
  <2>3. ClientCount = 0 /\ ClientBytes = 0
    BY <2>1, <2>2, SumZero DEF ClientCount, ClientBytes
  <2> QED
    BY <2>3
<1>2. ASSUME NEW i \in Ips
      PROVE  ClientCount \in Nat /\ ClientBytes \in Nat
  <2>1. /\ [j \in Ips |-> clientStats[j].count] \in [Ips -> Nat]
        /\ [j \in Ips |-> clientStats[j].bytes] \in [Ips -> Nat]
    BY DEF TypeOK, ClientInfo
  <2> QED
    BY <1>2, <2>1, CollectorConstants, SumUpdate DEF ClientCount, ClientBytes
<1> QED
  BY <1>1, <1>2

\* An event adds one, and its bytes, to its command.
LEMMA CmdRecordedAdds ==
    ASSUME TypeOK, NEW e \in Event, cmdStats' = CmdRecorded(e)
    PROVE  /\ cmdStats' \in [Cmds -> LatencyStats]
           /\ CmdCount' = CmdCount + 1
           /\ CmdBytes' = CmdBytes + e.bytes
<1> DEFINE c == e.cmd
           count == [d \in Cmds |-> cmdStats[d].total]
           bytes == [d \in Cmds |-> cmdStats[d].bytes]
<1>1. c \in Cmds /\ e.bytes \in Nat
  BY EventFields
<1>2. cmdStats \in [Cmds -> LatencyStats] /\ cmdStats[c] \in LatencyStats
  BY <1>1 DEF TypeOK
<1>3. /\ count \in [Cmds -> Nat] /\ bytes \in [Cmds -> Nat]
      /\ cmdStats[c].total \in Nat /\ cmdStats[c].bytes \in Nat
  BY <1>1, <1>2 DEF LatencyStats
<1>4. cmdStats' = [cmdStats EXCEPT ![c] = record(cmdStats[c], e)]
  BY DEF CmdRecorded
<1>5. cmdStats' \in [Cmds -> LatencyStats]
  BY <1>1, <1>2, <1>4, RecordAdds
<1>6. /\ [d \in Cmds |-> cmdStats'[d].total]
            = [count EXCEPT ![c] = cmdStats[c].total + 1]
      /\ [d \in Cmds |-> cmdStats'[d].bytes]
            = [bytes EXCEPT ![c] = cmdStats[c].bytes + e.bytes]
  <2>1. /\ cmdStats'[c].total = cmdStats[c].total + 1
        /\ cmdStats'[c].bytes = cmdStats[c].bytes + e.bytes
    BY <1>1, <1>2, <1>4, RecordAdds
  <2>2. ASSUME NEW d \in Cmds, d # c
        PROVE  cmdStats'[d] = cmdStats[d]
    BY <1>1, <1>2, <1>4, <2>2
  <2> HIDE DEF c
  <2> QED
    BY <1>1, <2>1, <2>2
<1>7. /\ count[c] = cmdStats[c].total /\ bytes[c] = cmdStats[c].bytes
      /\ cmdStats[c].total + 1 \in Nat /\ cmdStats[c].bytes + e.bytes \in Nat
  BY <1>1, <1>3
<1>8. CmdCount' = CmdCount - cmdStats[c].total + (cmdStats[c].total + 1)
  <2> HIDE DEF c
  <2> QED
    BY <1>1, <1>3, <1>6, <1>7, CollectorConstants, SumUpdate DEF CmdCount
<1>9. CmdBytes' = CmdBytes - cmdStats[c].bytes + (cmdStats[c].bytes + e.bytes)
  <2> HIDE DEF c
  <2> QED
    BY <1>1, <1>3, <1>6, <1>7, CollectorConstants, SumUpdate DEF CmdBytes
<1> QED
  BY <1>1, <1>3, <1>5, <1>8, <1>9, CmdSums

\* An event adds one, and its bytes, to its client or to the unknown ones.
LEMMA ClientRecordedAdds ==
    ASSUME TypeOK, NEW e \in Event, clientStats' = ClientRecorded(e)
    PROVE  /\ clientStats' \in [Ips -> ClientInfo]
           /\ ClientCount' = ClientCount + (IF e.ip = 0 THEN 0 ELSE 1)
           /\ ClientBytes' = ClientBytes + (IF e.ip = 0 THEN 0 ELSE e.bytes)
<1> DEFINE i == e.ip
           count == [j \in Ips |-> clientStats[j].count]
           bytes == [j \in Ips |-> clientStats[j].bytes]
           more == [count |-> clientStats[i].count + 1,
                    bytes |-> clientStats[i].bytes + e.bytes]
<1>1. i \in Ips /\ e.bytes \in Nat
  BY EventFields
<1>2. clientStats \in [Ips -> ClientInfo] /\ clientStats[i] \in ClientInfo
  BY <1>1 DEF TypeOK
<1>3. /\ count \in [Ips -> Nat] /\ bytes \in [Ips -> Nat]
      /\ clientStats[i].count \in Nat /\ clientStats[i].bytes \in Nat
  BY <1>1, <1>2 DEF ClientInfo
<1>4. CASE i = 0
  <2>1. clientStats' = clientStats
    BY <1>4 DEF ClientRecorded
  <2>2. ClientCount' = ClientCount /\ ClientBytes' = ClientBytes
    BY <2>1 DEF ClientCount, ClientBytes
  <2> QED
    BY <1>2, <1>4, <2>1, <2>2, ClientSums
<1>5. CASE i # 0
  <2>1. clientStats' = [clientStats EXCEPT ![i] = more]
    <3> DEFINE one == [clientStats EXCEPT ![i].count = @ + 1]
    <3>1. clientStats' = [one EXCEPT ![i].bytes = @ + e.bytes]
      BY <1>5, Zenon DEF ClientRecorded
    <3>2. one = [clientStats EXCEPT ![i] = [clientStats[i] EXCEPT !.count = @ + 1]]
      BY Zenon
    <3>3. one[i] = [clientStats[i] EXCEPT !.count = @ + 1]
      BY <1>1, <1>2, <3>2
    <3>4. clientStats'
             = [one EXCEPT ![i] = [one[i] EXCEPT !.bytes = one[i].bytes + e.bytes]]
      BY <3>1, Zenon
    <3>5. [one[i] EXCEPT !.bytes = one[i].bytes + e.bytes] = more
      BY <1>2, <3>3 DEF ClientInfo
    <3> HIDE DEF more
    <3> QED
      BY <1>1, <1>2, <3>2, <3>4, <3>5
  <2>2. more \in ClientInfo
    BY <1>1, <1>3 DEF ClientInfo
  <2>3. clientStats' \in [Ips -> ClientInfo]
    <3> HIDE DEF more
    <3> QED
      BY <1>1, <1>2, <2>1, <2>2
  <2>4. /\ clientStats'[i].count = clientStats[i].count + 1
        /\ clientStats'[i].bytes = clientStats[i].bytes + e.bytes
    BY <1>1, <1>2, <2>1
  <2>5. ASSUME NEW j \in Ips, j # i
        PROVE  clientStats'[j] = clientStats[j]
    <3> HIDE DEF more
    <3> QED
      BY <1>1, <1>2, <2>1, <2>5
  <2>6. /\ [j \in Ips |-> clientStats'[j].count]
              = [count EXCEPT ![i] = clientStats[i].count + 1]
        /\ [j \in Ips |-> clientStats'[j].bytes]
              = [bytes EXCEPT ![i] = clientStats[i].bytes + e.bytes]
    <3> HIDE DEF i
    <3> QED
      BY <1>1, <2>4, <2>5
  <2>7. /\ count[i] = clientStats[i].count /\ bytes[i] = clientStats[i].bytes
        /\ clientStats[i].count + 1 \in Nat
        /\ clientStats[i].bytes + e.bytes \in Nat
    BY <1>1, <1>3
  <2>8. IsFiniteSet(Ips)
    BY CollectorConstants
  <2>9. ClientCount'
           = ClientCount - clientStats[i].count + (clientStats[i].count + 1)
    <3>1. ClientCount' = SumFunction([count EXCEPT ![i] = clientStats[i].count + 1])
      BY <2>6 DEF ClientCount
    <3> HIDE DEF i, count
    <3>2. ClientCount' = SumFunction(count) - count[i] + (clientStats[i].count + 1)
      BY <1>1, <1>3, <2>7, <2>8, <3>1, SumUpdate
    <3> QED
      BY <2>7, <3>2 DEF ClientCount, count
  <2>10. ClientBytes'
           = ClientBytes - clientStats[i].bytes + (clientStats[i].bytes + e.bytes)
    <3>1. ClientBytes'
             = SumFunction([bytes EXCEPT ![i] = clientStats[i].bytes + e.bytes])
      BY <2>6 DEF ClientBytes
    <3> HIDE DEF i, bytes
    <3>2. ClientBytes'
             = SumFunction(bytes) - bytes[i] + (clientStats[i].bytes + e.bytes)
      BY <1>1, <1>3, <2>7, <2>8, <3>1, SumUpdate
    <3> QED
      BY <2>7, <3>2 DEF ClientBytes, bytes
  <2> QED
    BY <1>1, <1>3, <1>5, <2>3, <2>9, <2>10, ClientSums
<1> QED
  BY <1>4, <1>5

LEMMA SumsUnchanged ==
    ASSUME UNCHANGED dataVars
    PROVE  /\ CmdCount' = CmdCount /\ CmdBytes' = CmdBytes
           /\ ClientCount' = ClientCount /\ ClientBytes' = ClientBytes
           /\ Sums' = Sums
BY DEF dataVars, Sums, CmdCount, CmdBytes, ClientCount, ClientBytes

LEMMA SumsType ==
    ASSUME TypeOK
    PROVE  /\ Sums \in [Locks -> Nat]
           /\ Sums["stats"] = stats.total
           /\ Sums["cmd"] = CmdCount
           /\ Sums["client"] = ClientCount
<1>1. stats.total \in Nat
  BY DEF TypeOK, LatencyStats
<1> QED
  BY <1>1, CmdSums, ClientSums DEF Sums, Locks

\* What Posted chooses is the one state with more events than the others.
LEMMA PostedIs ==
    ASSUME NEW B, B \subseteq [Locks -> Nat], NEW b \in B,
           \A c \in B : c # b => c["stats"] < b["stats"]
    PROVE  (CHOOSE d \in B : \A c \in B : c["stats"] <= d["stats"]) = b
<1>1. \A c \in B : c["stats"] \in Nat
  BY DEF Locks
<1>2. \A c \in B : c["stats"] <= b["stats"]
  BY <1>1
<1>3. ASSUME NEW d \in B, \A c \in B : c["stats"] <= d["stats"]
      PROVE  d = b
  BY <1>1, <1>2, <1>3
<1> QED
  BY <1>2, <1>3, Zenon

-----------------------------------------------------------------------------
(* The locks                                                                 *)

LEMMA HeldUnchanged ==
    ASSUME UNCHANGED owner
    PROVE  Held' = Held
BY DEF Held

\* Taking a lock and dropping one change the set of those held by one.
LEMMA HeldTaken ==
    ASSUME TypeOK, NEW l \in Locks, owner' = [owner EXCEPT ![l] = "reader"]
    PROVE  Held' = Held \cup {l}
BY DEF TypeOK, Held

LEMMA HeldDropped ==
    ASSUME TypeOK, NEW l \in Locks, owner' = [owner EXCEPT ![l] = "free"]
    PROVE  Held' = Held \ {l}
BY DEF TypeOK, Held

LEMMA UnlockedIs ==
    ASSUME TypeOK, NEW l \in Locks
    PROVE  Unlocked(l) <=> l \notin Held
BY DEF TypeOK, Held, Unlocked

\* The last of the three is dropped when it is the only one held.
LEMMA HeldSizes ==
    /\ Cardinality(Locks) # 1
    /\ Cardinality({"stats", "cmd"}) # 1
    /\ Cardinality({"stats"}) = 1
<1>1. IsFiniteSet(Locks) /\ IsFiniteSet({"stats", "cmd"})
  <2>1. {"stats", "cmd"} = {"stats"} \cup {"cmd"}
        /\ Locks = {"stats", "cmd"} \cup {"client"}
    BY DEF Locks
  <2> QED
    <3>1. IsFiniteSet({"stats"})
      BY FS_Singleton
    <3>2. IsFiniteSet({"stats", "cmd"})
      BY <2>1, <3>1, FS_AddElement
    <3> QED
      BY <2>1, <3>2, FS_AddElement
<1>2. ASSUME NEW x
      PROVE  Locks # {x} /\ {"stats", "cmd"} # {x}
  <2>1. "stats" \in Locks /\ "cmd" \in Locks /\ "stats" # "cmd"
    BY DEF Locks
  <2> QED
    BY <2>1
<1> QED
  BY <1>1, <1>2, FS_Singleton

-----------------------------------------------------------------------------
(* What leaves a part of the invariant alone                                 *)

LEMMA LockFrame ==
    ASSUME LockInv, UNCHANGED <<owner, rpc, batch>>
    PROVE  LockInv'
BY HeldUnchanged DEF LockInv

LEMMA PostedFrame ==
    ASSUME UNCHANGED bounds
    PROVE  Posted' = Posted /\ (IsPosted(Posted) => IsPosted(Posted)')
BY DEF Posted, IsPosted

LEMMA PostedKept ==
    ASSUME PostedInv, TypeOK, LockInv, CountInv,
           UNCHANGED <<dataVars, bounds>>,
           rpc' # "record" => rpc # "record",
           rpc' = "record" => rpc = "record" /\ UNCHANGED batch
    PROVE  PostedInv'
<1>1. Posted' = Posted /\ IsPosted(Posted)'
  BY PostedFrame DEF PostedInv
<1>2. Sums' = Sums /\ ClientCount' = ClientCount /\ stats' = stats
  BY SumsUnchanged DEF dataVars
<1> QED
  BY <1>1, <1>2 DEF PostedInv

LEMMA OrderFrame ==
    ASSUME OrderInv, UNCHANGED <<shown, ppc, bounds>>
    PROVE  OrderInv'
<1>1. Posted' = Posted
  BY PostedFrame
<1> QED
  BY <1>1 DEF OrderInv, PanelsInOrder

LEMMA ReportFrame ==
    ASSUME ReportInv, UNCHANGED <<stats, shown, deltas>>
    PROVE  ReportInv'
BY DEF ReportInv, DeltasAddUp

LEMMA MonitorFrame ==
    ASSUME MonitorInv, UNCHANGED monitor
    PROVE  MonitorInv'
BY DEF MonitorInv, CpuAddsUp

\* The reader's steps leave what the reporter keeps alone.
LEMMA ReporterFrame ==
    ASSUME TypeOK, ReportInv, MonitorInv, OrderInv,
           UNCHANGED <<stats, bounds, reporterVars>>
    PROVE  ReportInv' /\ MonitorInv' /\ OrderInv'
BY ReportFrame, MonitorFrame, OrderFrame DEF reporterVars, panelVars

-----------------------------------------------------------------------------
(* The steps                                                                 *)

LEMMA ProduceInv ==
    ASSUME IInv, NEW e \in Event, produce(e)
    PROVE  IInv'
<1> USE DEF IInv
<1>1. TypeOK'
  <2>1. /\ ring \in Seq(Event) /\ Len(ring) < MaxBacklog
        /\ ring' = Append(ring, e)
        /\ produced \in 0 .. MaxEvents /\ produced < MaxEvents
        /\ produced' = produced + 1
    BY DEF TypeOK, produce
  <2>2. /\ ring' \in Seq(Event) /\ Len(ring') <= MaxBacklog
        /\ produced' \in 0 .. MaxEvents
    BY <2>1, CollectorConstants
  <2> QED
    BY <2>2 DEF TypeOK, produce, dataVars, readerVars, reporterVars, panelVars
<1>2. LockInv' /\ PostedInv'
  BY LockFrame, PostedKept DEF produce, readerVars, dataVars
<1>3. CountInv'
  <2>1. produced' = Len(ring') + Len(batch') + stats'.total
    BY DEF produce, TypeOK, CountInv, LatencyStats, readerVars, dataVars
  <2>2. stats' = stats /\ unknown' = unknown /\ UNCHANGED dataVars
    BY DEF produce, readerVars, dataVars
  <2> QED
    BY <2>1, <2>2, SumsUnchanged DEF CountInv
<1>4. ReportInv' /\ MonitorInv' /\ OrderInv'
  BY ReporterFrame DEF produce, readerVars, dataVars
<1> QED
  BY <1>1, <1>2, <1>3, <1>4

LEMMA CollectInv ==
    ASSUME IInv, collect
    PROVE  IInv'
<1> USE DEF IInv
<1>1. PICK n \in 1 .. Len(ring) : /\ batch' = SubSeq(ring, 1, n)
                                 /\ ring' = SubSeq(ring, n + 1, Len(ring))
  BY DEF collect
<1>2. ring \in Seq(Event) /\ Len(ring) \in Nat /\ n \in Nat
  BY <1>1 DEF TypeOK
<1>3. /\ batch' \in Seq(Event) /\ Len(batch') = n
      /\ ring' \in Seq(Event) /\ Len(ring') = Len(ring) - n
  BY <1>1, <1>2
<1>4. rpc = "collect" /\ rpc' = "stats" /\ owner' = owner /\ batch = <<>>
  BY DEF collect, LockInv
<1>5. TypeOK'
  <2>1. Len(ring') <= MaxBacklog
    BY <1>1, <1>2, <1>3, CollectorConstants DEF TypeOK
  <2> QED
    BY <1>3, <1>4, <2>1 DEF TypeOK, collect, dataVars, reporterVars, panelVars
<1>6. LockInv'
  <2>1. batch' # <<>>
    <3>1. n # 0 /\ Len(batch') # 0
      BY <1>1, <1>2, <1>3
    <3> QED
      BY <3>1
  <2> QED
    BY <1>4, <2>1, HeldUnchanged DEF LockInv, HeldAt
<1>7. PostedInv'
  BY <1>4, PostedKept DEF collect
<1>8. CountInv'
  <2>1. produced' = Len(ring') + Len(batch') + stats'.total
    BY <1>2, <1>3, <1>4
       DEF collect, TypeOK, CountInv, LatencyStats, dataVars
  <2>2. stats' = stats /\ unknown' = unknown /\ UNCHANGED dataVars
    BY DEF collect, dataVars
  <2> QED
    BY <2>1, <2>2, SumsUnchanged DEF CountInv
<1>9. ReportInv' /\ MonitorInv' /\ OrderInv'
  BY ReporterFrame DEF collect, dataVars
<1> QED
  BY <1>5, <1>6, <1>7, <1>8, <1>9

\* What only moves the reader changes no count.
LEMMA CountKept ==
    ASSUME CountInv, UNCHANGED <<ring, produced, batch, unknown, dataVars>>
    PROVE  CountInv'
BY SumsUnchanged DEF CountInv, dataVars

LEMMA LockStepInv ==
    ASSUME IInv, NEW l \in Locks, lock(l)
    PROVE  IInv'
<1> USE DEF IInv
<1>1. rpc = l /\ rpc' = After[l] /\ Held' = Held \cup {l}
  BY HeldTaken DEF lock
<1>2. batch' = batch /\ batch # <<>> /\ Held \in HeldAt[l]
  BY <1>1 DEF lock, LockInv, Locks
<1>3. TypeOK'
  BY <1>1 DEF TypeOK, lock, After, Locks, dataVars, reporterVars, panelVars
<1>4. LockInv'
  <2>1. CASE l = "stats"
    BY <1>1, <1>2, <2>1 DEF LockInv, HeldAt, After
  <2>2. CASE l = "cmd"
    BY <1>1, <1>2, <2>2 DEF LockInv, HeldAt, After
  <2>3. CASE l = "client"
    BY <1>1, <1>2, <2>3 DEF LockInv, HeldAt, After, Locks
  <2> QED
    BY <2>1, <2>2, <2>3 DEF Locks
<1>5. PostedInv'
  <2>1. Posted' = Posted /\ IsPosted(Posted)'
    BY PostedFrame DEF PostedInv, lock
  <2>2. Sums' = Sums /\ ClientCount' = ClientCount /\ stats' = stats
    BY SumsUnchanged DEF lock, dataVars
  <2>3. rpc # "record"
    BY <1>1 DEF Locks
  <2>4. Posted["stats"] = stats.total /\ stats.total \in Nat
    BY <2>3, SumsType DEF PostedInv, TypeOK, LatencyStats
  <2>5. Len(batch) > 0
    BY <1>2 DEF TypeOK
  <2>6. Posted["stats"] < stats.total + Len(batch)
    BY <2>4, <2>5 DEF TypeOK
  <2> QED
    BY <1>2, <2>1, <2>2, <2>3, <2>6 DEF PostedInv
<1>6. CountInv'
  BY CountKept DEF lock
<1>7. ReportInv' /\ MonitorInv' /\ OrderInv'
  BY ReporterFrame DEF lock, dataVars
<1> QED
  BY <1>3, <1>4, <1>5, <1>6, <1>7

LEMMA RecordEventInv ==
    ASSUME IInv, record_event
    PROVE  IInv'
<1> USE DEF IInv
<1> DEFINE e == Head(batch)
           known == IF e.ip = 0 THEN 0 ELSE 1
           knownBytes == IF e.ip = 0 THEN 0 ELSE e.bytes
<1>1. batch \in Seq(Event) /\ batch # <<>> /\ batch' = Tail(batch)
  BY DEF TypeOK, record_event
<1>2. /\ e \in Event /\ batch' \in Seq(Event)
      /\ Len(batch) \in Nat \ {0} /\ Len(batch') = Len(batch) - 1
  BY <1>1
<1>3. e.bytes \in Nat
  BY <1>2, EventFields
<1>4. /\ stats' = record(stats, e) /\ cmdStats' = CmdRecorded(e)
      /\ clientStats' = ClientRecorded(e) /\ rpc = "record" /\ rpc' = rpc
      /\ UNCHANGED <<ring, produced, owner, bounds, reporterVars>>
  BY DEF record_event
<1> HIDE DEF e
<1>5. /\ stats' \in LatencyStats /\ stats'.total = stats.total + 1
      /\ stats'.bytes = stats.bytes + e.bytes /\ stats'.hist = stats.hist + 1
      /\ stats'.prev_total = stats.prev_total
      /\ stats'.prev_bytes = stats.prev_bytes
  BY <1>2, <1>4, RecordAdds DEF TypeOK
<1>6. /\ cmdStats' \in [Cmds -> LatencyStats]
      /\ CmdCount' = CmdCount + 1 /\ CmdBytes' = CmdBytes + e.bytes
  BY <1>2, <1>4, CmdRecordedAdds
<1>7. /\ clientStats' \in [Ips -> ClientInfo]
      /\ ClientCount' = ClientCount + known
      /\ ClientBytes' = ClientBytes + knownBytes
  BY <1>2, <1>4, ClientRecordedAdds
<1>8. /\ unknown' \in [count : Nat, bytes : Nat]
      /\ unknown'.count = unknown.count + 1 - known
      /\ unknown'.bytes = unknown.bytes + e.bytes - knownBytes
  <2>1. unknown \in [count : Nat, bytes : Nat]
    BY DEF TypeOK
  <2>2. unknown' = IF e.ip # 0 THEN unknown
                   ELSE [unknown EXCEPT !.count = unknown.count + 1,
                                        !.bytes = unknown.bytes + e.bytes]
    BY Zenon DEF record_event, e
  <2>3. CASE e.ip = 0
    <3>1. unknown.count + 1 \in Nat /\ unknown.bytes + e.bytes \in Nat
      BY <1>3, <2>1
    <3>2. unknown' = [count |-> unknown.count + 1, bytes |-> unknown.bytes + e.bytes]
      BY <2>1, <2>2, <2>3
    <3>3. known = 0 /\ knownBytes = 0
      BY <2>3
    <3> QED
      BY <1>3, <2>1, <3>1, <3>2, <3>3
  <2>4. CASE e.ip # 0
    BY <1>3, <2>1, <2>2, <2>4
  <2> QED
    BY <2>3, <2>4
<1>9. TypeOK'
  BY <1>2, <1>4, <1>5, <1>6, <1>7, <1>8 DEF TypeOK, reporterVars, panelVars
<1>10. LockInv'
  BY <1>4, HeldUnchanged DEF LockInv
<1>11. stats.total \in Nat /\ stats.bytes \in Nat /\ stats.hist \in Nat
  BY DEF TypeOK, LatencyStats
<1>12. /\ CmdCount \in Nat /\ ClientCount \in Nat /\ ClientBytes \in Nat
       /\ unknown.count \in Nat /\ unknown.bytes \in Nat
  BY CmdSums, ClientSums DEF TypeOK
<1>13. CountInv'
  <2>1. ring \in Seq(Event) /\ Len(ring) \in Nat /\ produced \in Nat
    BY DEF TypeOK
  <2>2. produced' = Len(ring') + Len(batch') + stats'.total
    BY <1>2, <1>4, <1>5, <1>11, <2>1 DEF CountInv
  <2>3. known \in Nat /\ knownBytes \in Nat
    BY <1>3
  <2> HIDE DEF known, knownBytes
  <2>4. /\ ClientCount' + unknown'.count = stats'.total
        /\ ClientBytes' + unknown'.bytes = stats'.bytes
    <3>1. /\ ClientCount + unknown.count = stats.total
          /\ ClientBytes + unknown.bytes = stats.bytes
      BY DEF CountInv
    <3> HIDE DEF IInv
    <3>2. ClientCount' + unknown'.count = stats'.total
      BY <1>5, <1>7, <1>8, <1>11, <1>12, <2>3, <3>1
    <3>3. ClientBytes' + unknown'.bytes = stats'.bytes
      BY <1>3, <1>5, <1>7, <1>8, <1>11, <1>12, <2>3, <3>1
    <3> QED
      BY <3>2, <3>3
  <2> QED
    BY <1>5, <1>6, <2>2, <2>4 DEF CountInv
<1>14. PostedInv'
  <2>1. Posted' = Posted /\ IsPosted(Posted)'
    BY <1>4, PostedFrame DEF PostedInv
  <2>2. Posted \in [Locks -> Nat]
    BY DEF PostedInv, IsPosted, TypeOK
  <2>3. Posted["stats"] \in Nat /\ Posted["client"] \in Nat
    BY <2>2 DEF Locks
  <2>4. known \in 0 .. 1
    OBVIOUS
  <2>6. /\ Posted["stats"] <= stats.total
        /\ Posted["stats"] < stats.total + Len(batch)
        /\ Posted["client"] <= ClientCount
        /\ ClientCount + Posted["stats"] <= stats.total + Posted["client"]
    BY <1>4 DEF PostedInv
  <2> HIDE DEF known, knownBytes
  <2>5. /\ Posted["stats"] <= stats'.total
        /\ Posted["stats"] < stats'.total + Len(batch')
        /\ Posted["client"] <= ClientCount'
        /\ ClientCount' + Posted["stats"] <= stats'.total + Posted["client"]
    <3>1. Posted["stats"] <= stats'.total
      BY <1>5, <1>11, <2>3, <2>6
    <3>2. Posted["stats"] < stats'.total + Len(batch')
      BY <1>2, <1>5, <1>11, <2>3, <2>6
    <3>3. Posted["client"] <= ClientCount'
      BY <1>7, <1>12, <2>3, <2>4, <2>6
    <3>4. ClientCount' + Posted["stats"] <= stats'.total + Posted["client"]
      <4>1. ClientCount + known + Posted["stats"]
               <= stats.total + 1 + Posted["client"]
        BY <1>11, <1>12, <2>3, <2>4, <2>6
      <4> QED
        BY <1>5, <1>7, <4>1
    <3> QED
      BY <3>1, <3>2, <3>3, <3>4
  <2> QED
    BY <1>4, <2>1, <2>5 DEF PostedInv
<1>15. OrderInv' /\ MonitorInv'
  BY <1>4, OrderFrame, MonitorFrame DEF reporterVars, panelVars
<1>16. ReportInv'
  <2>1. stats.prev_total \in Nat /\ stats.prev_bytes \in Nat
    BY DEF TypeOK, LatencyStats
  <2> QED
    BY <1>3, <1>4, <1>5, <1>11, <2>1
       DEF ReportInv, DeltasAddUp, reporterVars, panelVars
<1> QED
  BY <1>9, <1>10, <1>13, <1>14, <1>15, <1>16

\* The reader adds the state after the batch, which has the most events.
LEMMA RecordEndInv ==
    ASSUME IInv, record_end
    PROVE  IInv' /\ Posted' = Sums
<1> USE DEF IInv
<1>1. /\ rpc = "record" /\ rpc' = "release" /\ bounds' = bounds \cup {Sums}
      /\ batch = <<>>
      /\ UNCHANGED <<ring, produced, batch, owner, unknown, dataVars>>
      /\ UNCHANGED reporterVars
  BY DEF record_end
<1>2. Sums \in [Locks -> Nat] /\ Sums["stats"] = stats.total
  BY SumsType
<1>3. TypeOK'
  BY <1>1, <1>2 DEF TypeOK, dataVars, reporterVars, panelVars
<1>4. LockInv'
  <2>1. Held' = Held /\ Held = Locks
    BY <1>1, HeldUnchanged DEF LockInv, HeldAt
  <2> QED
    BY <1>1, <2>1 DEF LockInv, HeldAt
<1>5. CountInv' /\ Sums' = Sums /\ stats' = stats /\ ClientCount' = ClientCount
  BY <1>1, CountKept, SumsUnchanged DEF dataVars
<1>6. /\ Posted \in [Locks -> Nat] /\ \A b \in bounds : b["stats"] \in Nat
      /\ stats.total \in Nat
  BY DEF PostedInv, IsPosted, TypeOK, Locks, LatencyStats
<1>7. \A b \in bounds : b["stats"] < stats.total
  <2>1. Posted["stats"] < stats.total
    BY <1>1, <1>6 DEF PostedInv
  <2>2. \A b \in bounds : b # Posted => b["stats"] < Posted["stats"]
    BY DEF PostedInv, IsPosted
  <2>3. Posted["stats"] \in Nat
    BY <1>6 DEF Locks
  <2> QED
    BY <1>6, <2>1, <2>2, <2>3
<1>8. IsPosted(Sums)'
  BY <1>1, <1>2, <1>5, <1>7 DEF IsPosted
<1>9. Posted' = Sums /\ IsPosted(Posted)'
  <2>1. Posted' = Sums'
    <3>1. /\ bounds' \subseteq [Locks -> Nat] /\ Sums' \in bounds'
          /\ \A c \in bounds' : c # Sums' => c["stats"] < Sums'["stats"]
      BY <1>3, <1>8 DEF TypeOK, IsPosted
    <3> QED
      BY <3>1, PostedIs DEF Posted
  <2> QED
    BY <1>5, <1>8, <2>1 DEF IsPosted
<1>10. PostedInv'
  <2>1. Sums["cmd"] = CmdCount /\ Sums["client"] = ClientCount
    BY SumsType
  <2>2. ClientCount \in Nat
    BY ClientSums
  <2> QED
    BY <1>1, <1>2, <1>5, <1>6, <1>9, <2>1, <2>2 DEF PostedInv, CountInv
<1>11. OrderInv'
  <2>1. shown' = shown /\ ppc' = ppc /\ bounds \subseteq bounds'
    BY <1>1 DEF reporterVars, panelVars
  <2>2. shown["stats"] <= Sums["stats"] /\ shown["cmd"] <= Sums["cmd"]
    <3>1. /\ shown["stats"] \in Nat /\ shown["cmd"] \in Nat
          /\ Posted["stats"] \in Nat /\ Posted["cmd"] \in Nat
      BY <1>6 DEF TypeOK, Locks
    <3>2. Sums["cmd"] = stats.total
      BY SumsType DEF CountInv
    <3> QED
      BY <1>2, <1>6, <3>1, <3>2 DEF OrderInv, PostedInv
  <2>3. PanelsInOrder'
    BY <2>1 DEF OrderInv, PanelsInOrder
  <2> QED
    BY <1>9, <2>1, <2>2, <2>3 DEF OrderInv
<1>12. ReportInv' /\ MonitorInv'
  BY <1>1, ReportFrame, MonitorFrame DEF dataVars, reporterVars, panelVars
<1> QED
  BY <1>3, <1>4, <1>5, <1>9, <1>10, <1>11, <1>12

LEMMA ReleaseInv ==
    ASSUME IInv, release
    PROVE  IInv'
<1> USE DEF IInv
<1>1. /\ rpc = "release" /\ batch' = batch /\ batch = <<>>
      /\ owner' = [owner EXCEPT ![LastTaken] = "free"]
      /\ rpc' = IF Cardinality(Held) = 1 THEN "collect" ELSE "release"
  BY DEF release, LockInv
<1>2. LastTaken \in Locks /\ Held' = Held \ {LastTaken}
  <2>1. LastTaken \in Locks
    BY DEF LastTaken, Locks
  <2> QED
    BY <1>1, <2>1, HeldDropped
<1>3. TypeOK'
  BY <1>1, <1>2 DEF TypeOK, release, dataVars, reporterVars, panelVars
<1>4. LockInv'
  <2>1. CASE Held = Locks
    <3>1. LastTaken = "client" /\ rpc' = "release"
      BY <1>1, <2>1, HeldSizes DEF LastTaken, Locks
    <3> QED
      BY <1>1, <1>2, <2>1, <3>1 DEF LockInv, HeldAt, Locks
  <2>2. CASE Held = {"stats", "cmd"}
    <3>1. LastTaken = "cmd" /\ rpc' = "release"
      BY <1>1, <2>2, HeldSizes DEF LastTaken
    <3> QED
      BY <1>1, <1>2, <2>2, <3>1 DEF LockInv, HeldAt
  <2>3. CASE Held = {"stats"}
    <3>1. LastTaken = "stats" /\ rpc' = "collect"
      BY <1>1, <2>3, HeldSizes DEF LastTaken
    <3> QED
      BY <1>1, <1>2, <2>3, <3>1 DEF LockInv, HeldAt
  <2> QED
    BY <1>1, <2>1, <2>2, <2>3 DEF LockInv, HeldAt
<1>5. PostedInv'
  BY <1>1, PostedKept DEF release
<1>6. CountInv'
  BY CountKept DEF release
<1>7. ReportInv' /\ MonitorInv' /\ OrderInv'
  BY ReporterFrame DEF release, dataVars
<1> QED
  BY <1>3, <1>4, <1>5, <1>6, <1>7

\* The reporter's steps leave what the reader keeps alone.
LEMMA ReaderFrame ==
    ASSUME IInv, UNCHANGED <<ring, produced, owner, dataVars, readerVars>>
    PROVE  LockInv' /\ CountInv' /\ PostedInv' /\ Posted' = Posted
BY LockFrame, CountKept, PostedKept, PostedFrame DEF IInv, readerVars, dataVars

LEMMA TimerInv ==
    ASSUME IInv, interval_passes
    PROVE  IInv'
<1>1. TypeOK'
  <2>1. ticks' \in 0 .. MaxTicks
    BY CollectorConstants DEF IInv, TypeOK, interval_passes
  <2> QED
    BY <2>1 DEF IInv, TypeOK, interval_passes, dataVars, readerVars, panelVars
<1> QED
  BY <1>1, ReaderFrame, OrderFrame, ReportFrame, MonitorFrame
     DEF IInv, interval_passes, dataVars, readerVars, panelVars

LEMMA TickInv ==
    ASSUME IInv, tick
    PROVE  IInv'
<1>1. TypeOK'
  <2>1. ticks' \in 0 .. MaxTicks /\ ppc' = "stats"
    BY CollectorConstants DEF IInv, TypeOK, tick, TickDue, NextPanel
  <2> QED
    BY <2>1 DEF IInv, TypeOK, tick, dataVars, readerVars, panelVars, Locks
<1>2. LockInv' /\ CountInv' /\ PostedInv' /\ Posted' = Posted
  BY ReaderFrame DEF tick
<1>3. OrderInv'
  BY <1>2 DEF IInv, OrderInv, PanelsInOrder, tick, NextPanel, panelVars
<1> QED
  BY <1>1, <1>2, <1>3, ReportFrame, MonitorFrame
     DEF IInv, tick, dataVars, panelVars

\* While the reporter holds a lock, no batch is half recorded.
LEMMA ReportedIsPosted ==
    ASSUME IInv, NEW l \in Locks, Unlocked(l)
    PROVE  /\ rpc # "record" /\ Posted = Sums
           /\ Posted["stats"] = stats.total
           /\ Posted["cmd"] = CmdCount
           /\ Posted["client"] = ClientCount
<1>1. rpc # "record"
  BY UnlockedIs DEF IInv, LockInv, HeldAt
<1> QED
  BY <1>1, SumsType DEF IInv, PostedInv

LEMMA ShownFields ==
    ASSUME TypeOK, NEW l \in Locks, NEW n \in Nat,
           shown' = [shown EXCEPT ![l] = n]
    PROVE  /\ shown' \in [Locks -> Nat] /\ shown'[l] = n
           /\ \A k \in Locks : k # l => shown'[k] = shown[k]
BY DEF TypeOK

LEMMA ReportStatsInv ==
    ASSUME IInv, report_stats
    PROVE  IInv'
<1> USE DEF IInv
<1>1. /\ ppc = "stats" /\ ppc' = "cmd" /\ stats' = Reported(stats)
      /\ Unlocked("stats")
      /\ shown' = [shown EXCEPT !["stats"] = stats.total]
      /\ UNCHANGED <<ring, produced, owner, cmdStats, clientStats, readerVars>>
      /\ UNCHANGED <<ticks, monitor>>
  BY DEF report_stats, NextPanel
<1>2. stats \in LatencyStats /\ stats.total \in Nat /\ stats.bytes \in Nat
  BY DEF TypeOK, LatencyStats
<1>3. /\ stats' \in LatencyStats /\ stats'.total = stats.total
      /\ stats'.bytes = stats.bytes /\ stats'.hist = stats.hist
  BY <1>1, <1>2, ReportRemembers
<1>4. /\ shown' \in [Locks -> Nat] /\ shown'["stats"] = stats.total
      /\ shown'["cmd"] = shown["cmd"] /\ shown'["client"] = shown["client"]
  BY <1>1, <1>2, ShownFields DEF Locks
<1>5. /\ CmdCount' = CmdCount /\ CmdBytes' = CmdBytes
      /\ ClientCount' = ClientCount /\ ClientBytes' = ClientBytes
      /\ Sums' = Sums
  BY <1>1, <1>3 DEF CmdCount, CmdBytes, ClientCount, ClientBytes, Sums
<1>6. /\ deltas' \in [total : Nat, bytes : Nat]
      /\ stats'.prev_total = deltas'.total /\ stats'.prev_bytes = deltas'.bytes
      /\ stats'.prev_total = stats.total
      /\ stats'.prev_bytes <= stats.bytes
  <2>1. CASE stats.total = 0
    BY <1>2, <2>1
       DEF report_stats, Reported, ReportInv, DeltasAddUp, TypeOK
  <2>2. CASE stats.total # 0
    <3>1. /\ deltas.total = stats.prev_total /\ deltas.bytes = stats.prev_bytes
          /\ stats.prev_total <= stats.total /\ stats.prev_bytes <= stats.bytes
          /\ stats.prev_total \in Nat /\ stats.prev_bytes \in Nat
      BY <1>2 DEF ReportInv, DeltasAddUp, LatencyStats
    <3>2. deltas' = [total |-> stats.total, bytes |-> stats.bytes]
      BY <1>2, <2>2, <3>1 DEF report_stats, SatSub
    <3>3. stats'.prev_total = stats.total /\ stats'.prev_bytes = stats.bytes
      BY <1>1, <1>2, <2>2, ReportRemembers
    <3> QED
      BY <1>2, <3>2, <3>3
  <2> QED
    BY <2>1, <2>2
<1>7. TypeOK'
  BY <1>1, <1>3, <1>4, <1>6 DEF TypeOK, readerVars, Locks
<1>8. LockInv'
  BY <1>1, LockFrame DEF readerVars
<1>9. CountInv'
  BY <1>1, <1>3, <1>5 DEF CountInv, readerVars
<1>10. Posted' = Posted /\ IsPosted(Posted)' /\ Posted = Sums
       /\ Posted["stats"] = stats.total
  BY <1>1, PostedFrame, ReportedIsPosted DEF PostedInv, readerVars, Locks
<1>11. PostedInv'
  BY <1>1, <1>3, <1>5, <1>10 DEF PostedInv, readerVars
<1>12. OrderInv'
  BY <1>1, <1>2, <1>4, <1>10 DEF OrderInv, PanelsInOrder
<1>13. ReportInv' /\ MonitorInv'
  BY <1>1, <1>2, <1>3, <1>4, <1>6, MonitorFrame DEF ReportInv, DeltasAddUp
<1> QED
  BY <1>7, <1>8, <1>9, <1>11, <1>12, <1>13

LEMMA ReportCmdInv ==
    ASSUME IInv, report_cmd
    PROVE  IInv'
<1> USE DEF IInv
<1>1. /\ ppc = "cmd" /\ ppc' = "client" /\ Unlocked("cmd")
      /\ shown' = [shown EXCEPT !["cmd"] = CmdCount]
      /\ UNCHANGED <<ring, produced, owner, dataVars, readerVars>>
      /\ UNCHANGED <<ticks, deltas, monitor>>
  BY DEF report_cmd, NextPanel
<1>2. /\ shown' \in [Locks -> Nat] /\ shown'["cmd"] = CmdCount
      /\ shown'["stats"] = shown["stats"] /\ shown'["client"] = shown["client"]
  BY <1>1, CmdSums, ShownFields DEF Locks
<1>3. LockInv' /\ CountInv' /\ PostedInv' /\ Posted' = Posted
  BY <1>1, ReaderFrame
<1>4. TypeOK'
  BY <1>1, <1>2 DEF TypeOK, readerVars, dataVars, Locks
<1>5. OrderInv'
  <2>1. /\ Posted["cmd"] = CmdCount /\ Posted["cmd"] = Posted["stats"]
        /\ CmdCount \in Nat
    BY <1>1, ReportedIsPosted, CmdSums DEF PostedInv, Locks
  <2> QED
    BY <1>1, <1>2, <1>3, <2>1 DEF OrderInv, PanelsInOrder
<1>6. ReportInv' /\ MonitorInv'
  BY <1>1, <1>2, MonitorFrame DEF ReportInv, DeltasAddUp, dataVars
<1> QED
  BY <1>3, <1>4, <1>5, <1>6

LEMMA ReportClientInv ==
    ASSUME IInv, report_client
    PROVE  IInv'
<1> USE DEF IInv
<1>1. /\ ppc = "client" /\ ppc' = "monitor" /\ Unlocked("client")
      /\ shown' = [shown EXCEPT !["client"] = ClientCount]
      /\ UNCHANGED <<ring, produced, owner, dataVars, readerVars>>
      /\ UNCHANGED <<ticks, deltas, monitor>>
  BY DEF report_client, NextPanel
<1>2. /\ shown' \in [Locks -> Nat] /\ shown'["client"] = ClientCount
      /\ shown'["stats"] = shown["stats"] /\ shown'["cmd"] = shown["cmd"]
  BY <1>1, ClientSums, ShownFields DEF Locks
<1>3. LockInv' /\ CountInv' /\ PostedInv' /\ Posted' = Posted
  BY <1>1, ReaderFrame
<1>4. TypeOK'
  BY <1>1, <1>2 DEF TypeOK, readerVars, dataVars, Locks
<1>5. OrderInv'
  <2>1. /\ Posted["client"] = ClientCount /\ Posted \in bounds'
        /\ shown["cmd"] <= Posted["cmd"] /\ shown["stats"] <= shown["cmd"]
    BY <1>1, ReportedIsPosted
       DEF PostedInv, IsPosted, OrderInv, readerVars, Locks
  <2>2. PanelsInOrder'
    BY <1>2, <2>1 DEF PanelsInOrder
  <2> QED
    BY <1>1, <1>2, <1>3, <2>1, <2>2 DEF OrderInv
<1>6. ReportInv' /\ MonitorInv'
  BY <1>1, <1>2, MonitorFrame DEF ReportInv, DeltasAddUp, dataVars
<1> QED
  BY <1>3, <1>4, <1>5, <1>6

LEMMA ReportMonitorInv ==
    ASSUME IInv, report_monitor
    PROVE  IInv'
<1> USE DEF IInv
<1>1. /\ ppc = "monitor" /\ ppc' = "tick"
      /\ UNCHANGED <<ring, produced, owner, dataVars, readerVars>>
      /\ UNCHANGED <<ticks, shown, deltas>>
  BY DEF report_monitor, NextPanel
<1>2. MonitorInv' /\ monitor' \in Monitor
  <2>1. CASE UNCHANGED monitor
    BY <2>1, MonitorFrame DEF TypeOK
  <2>2. CASE \E c \in 0 .. MaxCpu :
                monitor.prev <= c /\ monitor' = Monitored(monitor, c)
    <3>1. PICK c \in 0 .. MaxCpu :
              monitor.prev <= c /\ monitor' = Monitored(monitor, c)
      BY <2>2
    <3>2. c \in Nat /\ monitor \in Monitor
      BY CollectorConstants DEF TypeOK
    <3>3. CASE monitor.prev = NoReading
      <4>1. monitor' = [prev |-> c, first |-> c, used |-> monitor.used]
        BY <3>1, <3>2, <3>3 DEF Monitored, Monitor
      <4>2. monitor.used = 0
        BY <3>3 DEF MonitorInv
      <4> QED
        BY <3>2, <4>1, <4>2 DEF Monitor, MonitorInv, CpuAddsUp, NoReading
    <3>4. CASE monitor.prev # NoReading
      <4>1. /\ monitor.prev \in Nat /\ monitor.first \in Nat
            /\ monitor.used \in Nat /\ monitor.used = monitor.prev - monitor.first
        BY <3>2, <3>4 DEF Monitor, MonitorInv, CpuAddsUp
      <4> DEFINE u == monitor.used + (c - monitor.prev)
      <4>2. u \in Nat /\ u = c - monitor.first
        BY <3>1, <3>2, <4>1
      <4>3. monitor' = [prev |-> c, first |-> monitor.first, used |-> u]
        BY <3>1, <3>2, <3>4 DEF Monitored, Monitor, SatSub
      <4> HIDE DEF u
      <4> QED
        BY <3>2, <4>1, <4>2, <4>3 DEF Monitor, MonitorInv, CpuAddsUp, NoReading
    <3> QED
      BY <3>3, <3>4
  <2> QED
    BY <2>1, <2>2 DEF report_monitor
<1>3. LockInv' /\ CountInv' /\ PostedInv' /\ Posted' = Posted
  BY <1>1, ReaderFrame
<1>4. TypeOK'
  BY <1>1, <1>2 DEF TypeOK, readerVars, dataVars, Locks
<1>5. OrderInv' /\ ReportInv'
  BY <1>1, <1>3, ReportFrame DEF OrderInv, PanelsInOrder, readerVars, dataVars
<1> QED
  BY <1>2, <1>3, <1>4, <1>5

LEMMA QuietInv ==
    ASSUME IInv, UNCHANGED vars
    PROVE  IInv'
<1>1. TypeOK'
  BY DEF IInv, TypeOK, vars, dataVars, readerVars, reporterVars, panelVars
<1> QED
  BY <1>1, ReaderFrame, OrderFrame, ReportFrame, MonitorFrame
     DEF IInv, vars, dataVars, readerVars, reporterVars, panelVars

LEMMA InitIInv ==
    ASSUME Init
    PROVE  IInv /\ Posted = [l \in Locks |-> 0]
<1> DEFINE none == [l \in Locks |-> 0]
<1>1. none \in [Locks -> Nat] /\ none["stats"] = 0 /\ none["cmd"] = 0
      /\ none["client"] = 0
  BY DEF Locks
<1>2. TypeOK
  BY CollectorConstants
     DEF Init, TypeOK, LatencyStats, ClientInfo, Monitor, NewStats, NewClient,
         Locks
<1>3. CmdCount = 0 /\ CmdBytes = 0 /\ ClientCount = 0 /\ ClientBytes = 0
  <2>1. /\ [c \in Cmds |-> cmdStats[c].total] \in [Cmds -> {0}]
        /\ [c \in Cmds |-> cmdStats[c].bytes] \in [Cmds -> {0}]
        /\ [i \in Ips |-> clientStats[i].count] \in [Ips -> {0}]
        /\ [i \in Ips |-> clientStats[i].bytes] \in [Ips -> {0}]
    BY DEF Init, NewStats, NewClient
  <2>2. IsFiniteSet(Cmds) /\ IsFiniteSet(Ips)
    BY CollectorConstants
  <2> QED
    BY <2>1, <2>2, SumZero DEF CmdCount, CmdBytes, ClientCount, ClientBytes
<1>4. Sums = none
  BY <1>3 DEF Sums, Init, NewStats, Locks
<1>5. Posted = none /\ IsPosted(Posted)
  <2>1. bounds = {none}
    BY DEF Init
  <2> HIDE DEF none
  <2>2. Posted = none
    BY <1>1, <2>1, PostedIs DEF Posted
  <2> QED
    BY <2>1, <2>2 DEF IsPosted
<1>6. LockInv
  BY DEF Init, LockInv, HeldAt, Held
<1>7. CountInv
  BY <1>3 DEF Init, CountInv, NewStats
<1>8. PostedInv
  BY <1>1, <1>3, <1>4, <1>5 DEF Init, PostedInv, NewStats
<1>9. OrderInv
  BY <1>1, <1>5 DEF Init, OrderInv, PanelsInOrder
<1>10. ReportInv /\ MonitorInv
  BY <1>1 DEF Init, ReportInv, MonitorInv, DeltasAddUp, CpuAddsUp, NewStats
<1> QED
  BY <1>2, <1>5, <1>6, <1>7, <1>8, <1>9, <1>10 DEF IInv

LEMMA NextIInv == IInv /\ [Next]_vars => IInv'
BY ProduceInv, CollectInv, LockStepInv, RecordEventInv, RecordEndInv,
   ReleaseInv, TimerInv, TickInv, ReportStatsInv, ReportCmdInv,
   ReportClientInv, ReportMonitorInv, QuietInv
   DEF Next, Reader, Reporter

LEMMA Inductive == Spec => []IInv
BY InitIInv, NextIInv, PTL DEF Spec

-----------------------------------------------------------------------------
(* The theorems                                                              *)

\* Every variable keeps its type (TypeOK), for any constants.
THEOREM TypeCorrect == Spec => []TypeOK
<1>1. IInv => TypeOK
  BY DEF IInv
<1> QED
  BY <1>1, Inductive, PTL

\* Whenever the reader does not hold the locks, the latency, the command and
\* the client statistics count the same events and bytes (Conservation).
THEOREM PanelsAgree == Spec => []Conservation
<1>1. IInv => Conservation
  BY DEF IInv, CountInv, Conservation
<1> QED
  BY <1>1, Inductive, PTL

\* A panel printed later in a round is not older than one printed before it
\* (PanelsInOrder), though the reporter drops each lock in between.
THEOREM RoundInOrder == Spec => []PanelsInOrder
<1>1. IInv => PanelsInOrder
  BY DEF IInv, OrderInv
<1> QED
  BY <1>1, Inductive, PTL

\* The deltas printed as QPS and bandwidth add up to what was counted when the
\* last one was printed (DeltasAddUp): no event is missed or counted twice.
THEOREM NoDeltaLost == Spec => []DeltasAddUp
<1>1. IInv => DeltasAddUp
  BY DEF IInv, ReportInv
<1> QED
  BY <1>1, Inductive, PTL

\* The CPU time the self monitor prints adds up to the time since its first
\* reading (CpuAddsUp), whatever readings fail.
THEOREM NoCpuLost == Spec => []CpuAddsUp
<1>1. IInv => CpuAddsUp
  BY DEF IInv, MonitorInv
<1> QED
  BY <1>1, Inductive, PTL

-----------------------------------------------------------------------------
(* The refinement: a batch is posted where the reader has recorded it.       *)

Turn == IF ppc \in {"tick", "monitor"} THEN "stats" ELSE ppc

\* What leaves every variable of the ledger alone is a stutter of it.
LEMMA LedgerStutter ==
    ASSUME UNCHANGED <<produced, shown, bounds>>, Turn' = Turn
    PROVE  UNCHANGED LedgerPanels!vars
BY PostedFrame DEF LedgerPanels!vars, Turn

LEMMA LedgerAccept ==
    ASSUME NEW e \in Event, produce(e)
    PROVE  LedgerPanels!Accept
BY PostedFrame
   DEF produce, LedgerPanels!Accept, readerVars, reporterVars, panelVars

LEMMA LedgerPost ==
    ASSUME IInv, record_end
    PROVE  LedgerPanels!Post
<1> DEFINE n == stats.total - Posted["stats"]
           k == ClientCount - Posted["client"]
<1>1. Posted' = Sums /\ rpc = "record" /\ batch = <<>>
      /\ UNCHANGED <<produced, reporterVars>>
  BY RecordEndInv DEF record_end
<1>2. Posted \in [Locks -> Nat]
  BY DEF IInv, PostedInv, IsPosted, TypeOK
<1>3. /\ Posted["stats"] \in Nat /\ Posted["cmd"] = Posted["stats"]
      /\ Posted["client"] \in Nat
  BY <1>2 DEF Locks, IInv, PostedInv
<1>4. /\ stats.total \in Nat /\ ClientCount \in Nat /\ produced \in Nat
      /\ Len(ring) \in Nat /\ Len(batch) = 0
  BY <1>1, ClientSums DEF IInv, TypeOK, LatencyStats
<1>5. /\ Posted["stats"] < stats.total /\ stats.total <= produced
      /\ Posted["client"] <= ClientCount
      /\ ClientCount + Posted["stats"] <= stats.total + Posted["client"]
  <2>1. /\ Posted["stats"] < stats.total + Len(batch)
        /\ Posted["client"] <= ClientCount
        /\ ClientCount + Posted["stats"] <= stats.total + Posted["client"]
    BY <1>1 DEF IInv, PostedInv
  <2>2. produced = Len(ring) + Len(batch) + stats.total
    BY DEF IInv, CountInv
  <2> QED
    BY <1>3, <1>4, <2>1, <2>2
<1>6. n \in 1 .. produced - Posted["stats"] /\ k \in 0 .. n
  BY <1>3, <1>4, <1>5
<1>7. /\ Posted["stats"] + n = stats.total /\ Posted["client"] + k = ClientCount
      /\ CmdCount = stats.total
  BY <1>3, <1>4 DEF IInv, CountInv
<1>8. Posted' = [stats |-> Posted["stats"] + n, cmd |-> Posted["cmd"] + n,
                 client |-> Posted["client"] + k]
  BY <1>1, <1>3, <1>7 DEF Sums
<1> QED
  BY <1>1, <1>6, <1>8 DEF LedgerPanels!Post, reporterVars, panelVars

\* A panel is a copy of what was posted: no batch is half recorded under it.
LEMMA LedgerShow ==
    ASSUME IInv, report_stats \/ report_cmd \/ report_client
    PROVE  LedgerPanels!Show
<1>1. UNCHANGED <<produced, bounds>> /\ Posted' = Posted
  BY PostedFrame DEF report_stats, report_cmd, report_client, readerVars
<1>2. shown' = [shown EXCEPT ![Turn] = Posted[Turn]]
  BY ReportedIsPosted
     DEF report_stats, report_cmd, report_client, Turn, Locks
<1>3. Turn' = LedgerPanels!Following[Turn]
  BY DEF report_stats, report_cmd, report_client, Turn, NextPanel,
         LedgerPanels!Following
<1> QED
  BY <1>1, <1>2, <1>3 DEF LedgerPanels!Show, Turn

LEMMA LedgerStep ==
    IInv /\ [Next]_vars => [LedgerPanels!Next]_(LedgerPanels!vars)
<1> SUFFICES ASSUME IInv, [Next]_vars
             PROVE  [LedgerPanels!Next]_(LedgerPanels!vars)
  OBVIOUS
<1>1. CASE \E e \in Event : produce(e)
  BY <1>1, LedgerAccept DEF LedgerPanels!Next
<1>2. CASE collect \/ (\E l \in Locks : lock(l)) \/ record_event \/ release
  <2>1. UNCHANGED <<produced, shown, bounds, ppc>>
    BY <1>2
       DEF collect, lock, record_event, release, reporterVars, panelVars
  <2> QED
    BY <2>1, LedgerStutter DEF Turn
<1>3. CASE record_end
  BY <1>3, LedgerPost DEF LedgerPanels!Next
<1>4. CASE interval_passes \/ tick \/ report_monitor
  <2>1. UNCHANGED <<produced, shown, bounds>>
    BY <1>4 DEF interval_passes, tick, report_monitor, readerVars, panelVars
  <2>2. Turn' = Turn
    BY <1>4 DEF interval_passes, tick, report_monitor, Turn, NextPanel
  <2> QED
    BY <2>1, <2>2, LedgerStutter
<1>5. CASE report_stats \/ report_cmd \/ report_client
  BY <1>5, LedgerShow DEF LedgerPanels!Next
<1>6. CASE UNCHANGED vars
  BY <1>6, LedgerStutter DEF vars, readerVars, reporterVars, panelVars, Turn
<1> QED
  BY <1>1, <1>2, <1>3, <1>4, <1>5, <1>6 DEF Next, Reader, Reporter

\* Reader and reporter implement Ledger: batches are posted whole, and every
\* panel shows what was posted at one moment, for any commands, addresses,
\* bounds and any interleaving of the two tasks.
THEOREM ImplementsLedger == Spec => LedgerSpec
<1>1. Init => LedgerPanels!Init
  BY InitIInv DEF Init, LedgerPanels!Init, LedgerPanels!Zeros,
                  LedgerPanels!Panels, Locks
<1> QED
  BY <1>1, LedgerStep, Inductive, PTL
     DEF Spec, LedgerSpec, LedgerPanels!Spec
=============================================================================
