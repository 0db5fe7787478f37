----------------------------- MODULE Collector ------------------------------
(***************************************************************************)
(* The user-space collector: the latency reader task (reader.rs), the      *)
(* reporter task (reporter.rs) and the three statistics they share behind  *)
(* three mutexes (stats.rs), and the self monitor (monitor.rs).            *)
(*                                                                         *)
(* The reader takes what the ring holds into a batch without any lock,     *)
(* then takes all three locks and records the whole batch; module RingBuf  *)
(* has the wake-ups.  The reporter takes one lock at a time, prints that   *)
(* panel and drops the lock.  A panel is represented by the sums it shows. *)
(***************************************************************************)
EXTENDS Integers, Sequences, FiniteSets, Functions

CONSTANTS
    Cmds,        \* command names classify_command returns
    Ips,         \* client addresses; 0 is "unknown"
    Sizes,       \* values of the bytes field
    Latencies,   \* values of latency_ns the probes let through
    HistMax,     \* highest value the histograms hold
    MaxBacklog,  \* bound: events waiting in the ring
    MaxEvents,   \* bound: events produced
    MaxTicks,    \* bound: report intervals that have passed unserved
    MaxCpu       \* bound: CPU ticks the program uses

ASSUME CollectorConstants ==
    /\ IsFiniteSet(Cmds) /\ IsFiniteSet(Ips)
    /\ Ips \subseteq Nat
    /\ Sizes \subseteq Nat
    /\ Latencies \subseteq Nat
    /\ HistMax \in Nat
    /\ \A l \in Latencies : l <= HistMax     \* both are 10_000_000_000
    /\ MaxBacklog \in Nat /\ MaxEvents \in Nat /\ MaxCpu \in Nat
    /\ MaxTicks \in Nat \ {0}

Locks == {"stats", "cmd", "client"}

VARIABLES
    ring,        \* events in LATENCY_RINGBUF
    produced,    \* events ever put there
    batch,       \* the reader's batch
    rpc,         \* where the reader stands
    owner,       \* lock -> who holds it
    stats,       \* LatencyStats
    cmdStats,    \* CommandStats: command -> LatencyStats
    clientStats, \* ClientStats: address -> ClientInfo
    ppc,         \* where the reporter stands
    ticks,       \* intervals that have passed and were not served
    shown,       \* history: what each panel showed when last printed
    deltas,      \* history: sum of the deltas printed as QPS and BW
    monitor,     \* ProcessMonitor's prev; first and used are history
    unknown,     \* history: events recorded without a client address
    bounds       \* history: what the panels would show between two batches

dataVars == <<stats, cmdStats, clientStats>>
readerVars == <<batch, rpc, unknown, bounds>>
panelVars == <<shown, deltas, monitor>>
reporterVars == <<ppc, ticks, panelVars>>
vars == <<ring, produced, owner, dataVars, readerVars, reporterVars>>

Event == [cmd : Cmds, ip : Ips, bytes : Sizes, lat : Latencies]

-----------------------------------------------------------------------------
(* stats.rs *)

LatencyStats == [total : Nat, bytes : Nat, hist : Nat,
                 prev_total : Nat, prev_bytes : Nat]

ClientInfo == [count : Nat, bytes : Nat]

\* The reading `report` compares with; NoReading is None.
NoReading == -1

Monitor == [prev : Nat \cup {NoReading}, first : Nat, used : Nat]

\* LatencyStats::new; in cmdStats also a command that has no entry yet.
NewStats == [total |-> 0, bytes |-> 0, hist |-> 0,
             prev_total |-> 0, prev_bytes |-> 0]

NewClient == [count |-> 0, bytes |-> 0]

\* LatencyStats::record.  The histogram refuses a value out of range.
record(s, e) ==
    [s EXCEPT !.total = @ + 1, !.bytes = @ + e.bytes,
              !.hist = IF e.lat <= HistMax THEN @ + 1 ELSE @]

\* saturating_sub
SatSub(a, b) == IF a >= b THEN a - b ELSE 0

\* What LatencyStats::report remembers; nothing is printed while total is 0.
\* Mutant: prev_bytes is left behind.
ReportedTotalOnly(s) ==
    IF s.total = 0 THEN s ELSE [s EXCEPT !.prev_total = s.total]
Reported(s) ==
    IF s.total = 0 THEN s
    ELSE [s EXCEPT !.prev_total = s.total, !.prev_bytes = s.bytes]

\* CommandStats::record: a new command gets its sample like a known one.
\* Mutant: the sample that creates the entry is not recorded.
CmdRecordedNew(e) ==
    [cmdStats EXCEPT ![e.cmd] = IF @ = NewStats THEN [@ EXCEPT !.hist = 1]
                                ELSE record(@, e)]
CmdRecorded(e) == [cmdStats EXCEPT ![e.cmd] = record(@, e)]

\* ClientStats::record, called for a known address.
ClientRecorded(e) ==
    IF e.ip = 0 THEN clientStats
    ELSE [clientStats EXCEPT ![e.ip].count = @ + 1,
                             ![e.ip].bytes = @ + e.bytes]

\* The sums the command and the client panels show.
CmdCount == SumFunction([c \in Cmds |-> cmdStats[c].total])
CmdBytes == SumFunction([c \in Cmds |-> cmdStats[c].bytes])
ClientCount == SumFunction([i \in Ips |-> clientStats[i].count])
ClientBytes == SumFunction([i \in Ips |-> clientStats[i].bytes])

Sums == [stats |-> stats.total, cmd |-> CmdCount, client |-> ClientCount]

-----------------------------------------------------------------------------
TypeOK ==
    /\ ring \in Seq(Event) /\ Len(ring) <= MaxBacklog
    /\ produced \in 0 .. MaxEvents
    /\ batch \in Seq(Event)
    /\ rpc \in {"collect", "stats", "cmd", "client", "record", "release"}
    /\ owner \in [Locks -> {"free", "reader"}]
    /\ stats \in LatencyStats
    /\ cmdStats \in [Cmds -> LatencyStats]
    /\ clientStats \in [Ips -> ClientInfo]
    /\ ppc \in {"tick", "monitor"} \cup Locks
    /\ ticks \in 0 .. MaxTicks
    /\ shown \in [Locks -> Nat]
    /\ deltas \in [total : Nat, bytes : Nat]
    /\ monitor \in Monitor
    /\ unknown \in [count : Nat, bytes : Nat]
    /\ bounds \subseteq [Locks -> Nat]

Init ==
    /\ ring = <<>>
    /\ produced = 0
    /\ batch = <<>>
    /\ rpc = "collect"
    /\ owner = [l \in Locks |-> "free"]
    /\ stats = NewStats
    /\ cmdStats = [c \in Cmds |-> NewStats]
    /\ clientStats = [i \in Ips |-> NewClient]
    /\ ppc = "tick"
    /\ ticks = 1                  \* the first tick of an interval is immediate
    /\ shown = [l \in Locks |-> 0]
    /\ deltas = [total |-> 0, bytes |-> 0]
    /\ monitor = [prev |-> NoReading, first |-> 0, used |-> 0]
    /\ unknown = [count |-> 0, bytes |-> 0]
    /\ bounds = {[l \in Locks |-> 0]}

-----------------------------------------------------------------------------
(* The probes *)
produce(e) ==
    /\ produced < MaxEvents
    /\ Len(ring) < MaxBacklog
    /\ ring' = Append(ring, e)
    /\ produced' = produced + 1
    /\ UNCHANGED <<owner, dataVars, readerVars, reporterVars>>

-----------------------------------------------------------------------------
(* The reader *)

\* Phase 1: the reader drains what it finds; it stops early at a busy record.
collect ==
    /\ rpc = "collect"
    /\ \E n \in 1 .. Len(ring) :
          /\ batch' = SubSeq(ring, 1, n)
          /\ ring' = SubSeq(ring, n + 1, Len(ring))
    /\ rpc' = "stats"
    /\ UNCHANGED <<produced, owner, dataVars, unknown, bounds, reporterVars>>

\* std's Mutex.
Unlocked(l) == owner[l] = "free"

\* Phase 2 begins: the three locks, in this order.  Mutant: the first only.
AfterOnlyStats == [stats |-> "record", cmd |-> "client", client |-> "record"]
After == [stats |-> "cmd", cmd |-> "client", client |-> "record"]

lock(l) ==
    /\ rpc = l
    /\ Unlocked(l)
    /\ owner' = [owner EXCEPT ![l] = "reader"]
    /\ rpc' = After[l]
    /\ UNCHANGED <<ring, produced, batch, unknown, bounds>>
    /\ UNCHANGED <<dataVars, reporterVars>>

\* One event of the batch into the three statistics.
record_event ==
    /\ rpc = "record"
    /\ batch # <<>>
    /\ LET e == Head(batch)
       IN /\ stats' = record(stats, e)
          /\ cmdStats' = CmdRecorded(e)
          /\ clientStats' = ClientRecorded(e)
          /\ unknown' =
                IF e.ip # 0 THEN unknown
                ELSE [unknown EXCEPT !.count = @ + 1, !.bytes = @ + e.bytes]
    /\ batch' = Tail(batch)
    /\ UNCHANGED <<ring, produced, rpc, owner, bounds, reporterVars>>

record_end ==
    /\ rpc = "record"
    /\ batch = <<>>
    /\ rpc' = "release"
    /\ bounds' = bounds \cup {Sums}
    /\ UNCHANGED <<ring, produced, batch, owner, unknown>>
    /\ UNCHANGED <<dataVars, reporterVars>>

\* The guards are dropped in the reverse order of their declaration.  Mutant:
\* only one of them is.
Held == {l \in Locks : owner[l] = "reader"}
ClientOnly == "client"
LastTaken == IF "client" \in Held THEN "client"
             ELSE IF "cmd" \in Held THEN "cmd" ELSE "stats"

release ==
    /\ rpc = "release"
    /\ Held # {}
    /\ owner' = [owner EXCEPT ![LastTaken] = "free"]
    /\ rpc' = IF Cardinality(Held) = 1 THEN "collect" ELSE "release"
    /\ UNCHANGED <<ring, produced, batch, unknown, bounds>>
    /\ UNCHANGED <<dataVars, reporterVars>>

Reader == collect \/ (\E l \in Locks : lock(l)) \/ record_event \/ record_end
             \/ release

-----------------------------------------------------------------------------
(* The reporter *)

\* Another interval passes; tokio remembers ticks that were missed (Burst).
interval_passes ==
    /\ ticks < MaxTicks
    /\ ticks' = ticks + 1
    /\ UNCHANGED <<ring, produced, owner, dataVars, readerVars, ppc, panelVars>>

\* The order of a round.  Mutant: the other way round.
NextPanelReversed ==
    [tick |-> "client", client |-> "cmd", cmd |-> "stats",
     stats |-> "monitor", monitor |-> "tick"]
NextPanel ==
    [tick |-> "stats", stats |-> "cmd", cmd |-> "client",
     client |-> "monitor", monitor |-> "tick"]

\* interval.tick().await.  Mutant: it does not wait.
TickDueAlways == TRUE
TickDue == ticks > 0

tick ==
    /\ ppc = "tick"
    /\ TickDue
    /\ ticks' = ticks - 1
    /\ ppc' = NextPanel["tick"]
    /\ UNCHANGED <<ring, produced, owner, dataVars, readerVars, panelVars>>

\* lock().unwrap().report(): the lock is held for the statement only, and what
\* report reads is under that lock, so the statement is one step.
report_stats ==
    /\ ppc = "stats"
    /\ Unlocked("stats")
    /\ stats' = Reported(stats)
    /\ deltas' = IF stats.total = 0 THEN deltas
                 ELSE [total |-> deltas.total
                                   + SatSub(stats.total, stats.prev_total),
                       bytes |-> deltas.bytes
                                   + SatSub(stats.bytes, stats.prev_bytes)]
    /\ shown' = [shown EXCEPT !["stats"] = stats.total]
    /\ ppc' = NextPanel["stats"]
    /\ UNCHANGED <<ring, produced, owner, cmdStats, clientStats, readerVars>>
    /\ UNCHANGED <<ticks, monitor>>

report_cmd ==
    /\ ppc = "cmd"
    /\ Unlocked("cmd")
    /\ shown' = [shown EXCEPT !["cmd"] = CmdCount]
    /\ ppc' = NextPanel["cmd"]
    /\ UNCHANGED <<ring, produced, owner, dataVars, readerVars>>
    /\ UNCHANGED <<ticks, deltas, monitor>>

report_client ==
    /\ ppc = "client"
    /\ Unlocked("client")
    /\ shown' = [shown EXCEPT !["client"] = ClientCount]
    /\ ppc' = NextPanel["client"]
    /\ UNCHANGED <<ring, produced, owner, dataVars, readerVars>>
    /\ UNCHANGED <<ticks, deltas, monitor>>

\* What the monitor remembers of the reading c; the difference to prev is the
\* CPU time it prints.  Mutant: the difference is taken to the first reading.
MonitoredFirst(m, c) ==
    IF m.prev = NoReading THEN [m EXCEPT !.prev = c, !.first = c]
    ELSE [m EXCEPT !.used = @ + SatSub(c, m.first), !.prev = c]
Monitored(m, c) ==
    IF m.prev = NoReading THEN [m EXCEPT !.prev = c, !.first = c]
    ELSE [m EXCEPT !.used = @ + SatSub(c, m.prev), !.prev = c]

\* The counters of /proc/self/stat never decrease; reading them may fail, and
\* then the panel is left out.
report_monitor ==
    /\ ppc = "monitor"
    /\ \/ \E c \in 0 .. MaxCpu :
             monitor.prev <= c /\ monitor' = Monitored(monitor, c)
       \/ UNCHANGED monitor
    /\ ppc' = NextPanel["monitor"]
    /\ UNCHANGED <<ring, produced, owner, dataVars, readerVars>>
    /\ UNCHANGED <<ticks, shown, deltas>>

Reporter == tick \/ report_stats \/ report_cmd \/ report_client
               \/ report_monitor

-----------------------------------------------------------------------------
Next ==
    \/ \E e \in Event : produce(e)
    \/ Reader
    \/ interval_passes
    \/ Reporter

Spec == Init /\ [][Next]_vars

\* The runtime runs both tasks and its timer.  Weak fairness is enough for the
\* reporter's locks because traffic pauses: std's mutex promises no order.
FairSpec ==
    /\ Spec
    /\ WF_vars(Reader)
    /\ WF_vars(interval_passes)
    /\ WF_vars(Reporter)

-----------------------------------------------------------------------------
(* Properties *)

\* The three statistics and their histograms count the same events whenever
\* the reader does not hold the locks: no event is in one panel only.
Conservation ==
    Held = {} =>
        /\ CmdCount = stats.total /\ CmdBytes = stats.bytes
        /\ ClientCount + unknown.count = stats.total
        /\ ClientBytes + unknown.bytes = stats.bytes
        /\ stats.hist = stats.total

\* When a round of panels has been printed, a panel printed later is not older
\* than one printed before it.
PanelsInOrder ==
    ppc \in {"tick", "monitor"} =>
        /\ shown["stats"] <= shown["cmd"]
        /\ \E b \in bounds : b["client"] = shown["client"]
                               /\ shown["cmd"] <= b["cmd"]

\* The deltas printed as QPS and bandwidth add up: between two reports no event
\* is missed and none is counted twice.
DeltasAddUp ==
    /\ deltas.total = stats.prev_total
    /\ deltas.bytes = stats.prev_bytes
    /\ shown["stats"] = stats.prev_total

\* The CPU time the monitor prints adds up, whatever readings fail between two
\* that succeed.
CpuAddsUp ==
    monitor.prev # NoReading => monitor.used = monitor.prev - monitor.first

\* Reader and reporter implement a ledger to which whole batches are posted:
\* however lock, record, release and report interleave, no panel shows half a
\* batch and none shows an event that was not produced.
Posted == CHOOSE b \in bounds : \A c \in bounds : c["stats"] <= b["stats"]

LedgerPanels ==
    INSTANCE Ledger
       WITH accepted <- produced, ledger <- Posted,
            turn <- IF ppc \in {"tick", "monitor"} THEN "stats" ELSE ppc

LedgerSpec == LedgerPanels!Spec

\* What the reader has collected is eventually printed, as a latency and under
\* its command.  (The client panel passes over events without an address, so it
\* shows no number to compare with; LedgerSpec has what it prints.)
CollectedIsReported ==
    \A n \in 1 .. MaxEvents :
        stats.total + Len(batch) >= n
            ~> shown["stats"] >= n /\ shown["cmd"] >= n
=============================================================================
