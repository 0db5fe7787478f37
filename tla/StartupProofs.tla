--------------------------- MODULE StartupProofs ----------------------------
(***************************************************************************)
(* Proofs about Startup, for any process ids, options and number of        *)
(* environment steps.                                                      *)
(***************************************************************************)
EXTENDS Startup, TLAPS

\* Until the target is pinned nothing is attached and nothing has been seen.
Unpinned ==
    pc \in {"load", "pin"} =>
        /\ target = 0 /\ attached = {} /\ perf = None
        /\ traced = {} /\ sampled = {}

Inv == TypeOK /\ Unpinned /\ OnlyTarget

-----------------------------------------------------------------------------
LEMMA LoadType ==
    ASSUME NEW cli \in Cli, NEW file \in Option(ConfigFile)
    PROVE  load(file, cli) \in Config
<1> DEFINE f == Or(file, [frequency_hz |-> None, interval_secs |-> None])
<1>1. f \in ConfigFile
  BY DEF Or, Option, ConfigFile
<1>2. \A o \in Option(Frequencies) \cup Option(Intervals), n \in Nat :
        Or(o, n) \in Nat
  BY StartupConstants DEF Or, Option
<1>3. Default.frequency_hz \in Nat /\ Default.interval_secs \in Nat
  BY DEF Default
<1>4. /\ Or(cli.frequency, Or(f.frequency_hz, Default.frequency_hz)) \in Nat
      /\ Or(cli.interval, Or(f.interval_secs, Default.interval_secs)) \in Nat
  BY <1>1, <1>2, <1>3 DEF Cli, ConfigFile
<1> QED BY <1>4 DEF load, Config

LEMMA AfterType == \A s \in Steps \ {"done", "failed"} : After[s] \in Steps
BY DEF After, Steps

LEMMA DieInv == Inv /\ die => Inv'
BY DEF Inv, die, TypeOK, Steps, Unpinned, OnlyTarget, worldVars

\* What a statement of main does to the invariant.
LEMMA MainInv == Inv /\ Main => Inv'
<1> USE StartupConstants
<1> SUFFICES ASSUME Inv, Main
             PROVE  Inv'
  OBVIOUS
<1>1. CASE load_config
  <2>1. cfg' \in Config
    BY <1>1, LoadType DEF load_config
  <2> QED BY <1>1, <2>1 DEF load_config, Begin, After, Steps, Inv, TypeOK,
            Unpinned, OnlyTarget, worldVars, seenVars
<1>2. CASE pin_target_pid
  <2>1. target' \in Live \cup {0} /\ same' \in BOOLEAN
    BY <1>2 DEF pin_target_pid, Inv, TypeOK, PidFiles, Alive
  <2>2. traced = {} /\ sampled = {}
    BY <1>2 DEF pin_target_pid, Inv, Unpinned
  <2> QED BY <1>2, <2>1, <2>2 DEF pin_target_pid, After, Steps, Inv, TypeOK,
            Unpinned, OnlyTarget, worldVars, seenVars
<1>3. CASE pin_fails
  BY <1>3, DieInv DEF pin_fails
<1>4. ASSUME NEW p \in Programs, attach(p)
      PROVE  Inv'
  BY <1>4 DEF attach, Programs, Begin, After, Steps, Inv, TypeOK, Unpinned,
              OnlyTarget, worldVars, seenVars
<1>5. CASE spawn_ringbuf_reader \/ spawn_reporter
  BY <1>5 DEF spawn_ringbuf_reader, spawn_reporter, Begin, After, Steps, Inv,
              TypeOK, Unpinned, OnlyTarget, worldVars, seenVars
<1>6. CASE resolve_redis_pid
  <2>1. Resolved \subseteq Pids \cup {0, Self}
    BY DEF Resolved, Scan, FromFile, Inv, TypeOK, PidFiles, Live, InitPid
  <2> QED BY <1>6, <2>1 DEF resolve_redis_pid, Begin, After, Steps, Inv,
            TypeOK, Unpinned, OnlyTarget, worldVars, seenVars
<1>7. CASE attach_perf_event \/ attach_perf_event_fails
  <2>1. CASE attach_perf_event
    <3>1. perf' \in Pids \cup {Self, None}
      BY <2>1 DEF attach_perf_event, Inv, TypeOK
    <3> QED BY <2>1, <3>1 DEF attach_perf_event, Steps, Inv, TypeOK, Unpinned,
              OnlyTarget, worldVars, seenVars
  <2>2. CASE attach_perf_event_fails
    BY <2>2 DEF attach_perf_event_fails, Steps, Inv, TypeOK, Unpinned,
                OnlyTarget, worldVars, seenVars
  <2> QED BY <1>7, <2>1, <2>2
<1>8. CASE enable_flamegraph
  BY <1>8 DEF enable_flamegraph, Begin, After, Steps, Inv, TypeOK, Unpinned,
              OnlyTarget, worldVars, seenVars
<1>9. CASE generate_flamegraph
  BY <1>9 DEF generate_flamegraph, Begin, After, Steps, Inv, TypeOK, Unpinned,
              OnlyTarget, worldVars
<1> QED BY <1>1, <1>2, <1>3, <1>4, <1>5, <1>6, <1>7, <1>8, <1>9 DEF Main

\* What the probes see is of the pinned process.
LEMMA ProbeInv ==
    Inv /\ ((\E p \in Pids \cup {InitPid} : request(p)) \/ cpu_sample) => Inv'
<1>1. ASSUME Inv, NEW p \in Pids \cup {InitPid}, request(p)
      PROVE  Inv'
  BY <1>1 DEF request, is_target_pid, Live, Inv, TypeOK, Unpinned, OnlyTarget,
              mainVars, worldVars
<1>2. ASSUME Inv, cpu_sample
      PROVE  Inv'
  BY <1>2, StartupConstants DEF cpu_sample, is_target_pid, Live, Inv, TypeOK,
              Unpinned, OnlyTarget, mainVars, worldVars
<1> QED BY <1>1, <1>2

LEMMA EnvironmentInv == Inv /\ Environment => Inv'
<1> USE StartupConstants
<1> SUFFICES ASSUME Inv, Environment
             PROVE  Inv'
  OBVIOUS
<1>1. UNCHANGED <<mainVars, seenVars>> /\ env' \in 0 .. MaxEnv /\ same' \in BOOLEAN
  <2>1. EnvStep
    BY DEF Environment, process_starts, process_stops, truncate_pid_file,
           write_pid_file
  <2>2. env \in 0 .. MaxEnv
    BY DEF Inv, TypeOK
  <2>3. env' \in 0 .. MaxEnv
    BY <2>1, <2>2, SMT DEF EnvStep
  <2> QED BY <2>1, <2>3, Zenon DEF EnvStep
<1>2. procs' \in [Pids -> {"none", "redis", "other"}]
  BY DEF Environment, process_starts, process_stops, truncate_pid_file,
         write_pid_file, Inv, TypeOK
<1>3. pidFile' \in PidFiles
  BY DEF Environment, process_starts, process_stops, truncate_pid_file,
         write_pid_file, Inv, TypeOK, PidFiles, Scan, Live, InitPid
<1> QED BY <1>1, <1>2, <1>3 DEF Inv, TypeOK, Unpinned, OnlyTarget, mainVars,
           seenVars

LEMMA InitInv == Init => Inv
<1>1. Default \in Config
  BY DEF Default, Config
<1>2. 0 \in 0 .. MaxEnv
  BY StartupConstants
<1> QED BY <1>1, <1>2, Zenon DEF Init, Inv, TypeOK, Steps, Unpinned, OnlyTarget

LEMMA Inductive == Spec => []Inv
<1>1. Init => Inv
  BY InitInv
<1>2. Inv /\ [Next]_vars => Inv'
  <2> SUFFICES ASSUME Inv, [Next]_vars
               PROVE  Inv'
    OBVIOUS
  <2>1. CASE boot_fails
    BY <2>1, DieInv DEF boot_fails
  <2>2. CASE ctrl_c
    BY <2>2 DEF ctrl_c, Begin, After, Steps, Inv, TypeOK, Unpinned, OnlyTarget,
                worldVars, seenVars
  <2>3. CASE reporter_starts
    <3>1. CASE die
      BY <3>1, DieInv
    <3>2. CASE ~die
      BY <2>3, <3>2 DEF reporter_starts, Inv, TypeOK, Unpinned, OnlyTarget,
                        mainVars, worldVars
    <3> QED BY <3>1, <3>2
  <2>4. CASE UNCHANGED vars
    BY <2>4 DEF vars, mainVars, worldVars, seenVars, Inv, TypeOK, Unpinned,
                OnlyTarget
  <2> QED BY <2>1, <2>2, <2>3, <2>4, MainInv, ProbeInv, EnvironmentInv DEF Next
<1> QED BY <1>1, <1>2, PTL DEF Spec

(* TypeOK: in particular every statement of main leads to a statement, a     *)
(* configuration is complete whatever options are given, and the perf event  *)
(* follows a process id or the program itself.                               *)
THEOREM TypeCorrect == Spec => []TypeOK
BY Inductive, PTL DEF Inv

(* OnlyTarget: with a pinned target nothing else is traced or sampled, now   *)
(* or earlier, however processes come and go and the PID file changes.       *)
THEOREM OnlyTargetSafe == Spec => []OnlyTarget
BY Inductive, PTL DEF Inv

-----------------------------------------------------------------------------
(* The two readers of the PID file                                           *)

\* The PID file names the target for as long as same says so.
FileNamesTarget ==
    same => Alive(target) /\ pidFile = [kind |-> "pid", pid |-> target]

\* What resolve_redis_pid returned, and what perf then follows.
PerfIsTarget ==
    same /\ target > 1 =>
        /\ pc = "perf" => redis_pid = target
        /\ pc \in {"enable", "wait", "flame"} => perf \in {target, None}

NoPerf == pc \notin {"enable", "wait", "flame"} => perf = None

PinInv == Inv /\ FileNamesTarget /\ PerfIsTarget /\ NoPerf

\* A step that leaves the file and the processes alone.
LEMMA FileKept ==
    ASSUME FileNamesTarget, UNCHANGED <<target, pidFile, same, procs>>
    PROVE  FileNamesTarget'
BY DEF FileNamesTarget, Alive

\* A live process that the PID file names is what resolve_redis_pid returns.
LEMMA ResolvedTarget ==
    ASSUME FileNamesTarget, same, target > 1
    PROVE  Resolved = {target}
BY DEF FileNamesTarget, Resolved, FromFile

LEMMA PinStep ==
    PinInv /\ [Next]_vars => FileNamesTarget' /\ PerfIsTarget' /\ NoPerf'
<1> USE DEF PinInv
<1> SUFFICES ASSUME PinInv, [Next]_vars
             PROVE  FileNamesTarget' /\ PerfIsTarget' /\ NoPerf'
  OBVIOUS
<1>1. CASE pin_target_pid
  <2>1. /\ pc = "pin" /\ pc' = "on_tcp_recvmsg" /\ pidFile.kind # "garbage"
        /\ same' = Alive(target')
        /\ UNCHANGED <<pidFile, procs, perf>>
    BY <1>1 DEF pin_target_pid, After
  <2>2. target = 0 /\ ~Alive(0)
    BY <2>1, StartupConstants DEF Inv, Unpinned, Alive, InitPid
  <2>3. FileNamesTarget'
    <3>1. CASE target' = target
      BY <2>1, <2>2, <3>1 DEF FileNamesTarget
    <3>2. CASE target' # target
      <4>1. pidFile.kind = "pid" /\ target' = pidFile.pid
        BY <1>1, <3>2 DEF pin_target_pid
      <4>2. pidFile = [kind |-> "pid", pid |-> target']
        BY <4>1 DEF Inv, TypeOK, PidFiles
      <4> QED BY <2>1, <4>2 DEF FileNamesTarget, Alive
    <3> QED BY <3>1, <3>2
  <2> QED
    BY <2>1, <2>3 DEF PerfIsTarget, NoPerf
<1>2. CASE resolve_redis_pid
  <2>1. /\ pc = "resolve" /\ pc' = "perf" /\ redis_pid' \in Resolved
        /\ UNCHANGED <<target, pidFile, same, procs, perf>>
    BY <1>2 DEF resolve_redis_pid, Begin, After, worldVars
  <2>2. same /\ target > 1 => redis_pid' = target
    BY <2>1, ResolvedTarget
  <2> QED
    BY <2>1, <2>2, FileKept DEF PerfIsTarget, NoPerf
<1>3. CASE attach_perf_event
  <2>1. /\ pc = "perf" /\ pc' = "enable"
        /\ perf' = IF redis_pid = 0 THEN Self ELSE redis_pid
        /\ UNCHANGED <<target, pidFile, same, procs>>
    BY <1>3 DEF attach_perf_event, worldVars
  <2> QED
    BY <2>1, FileKept DEF PerfIsTarget, NoPerf
<1>4. CASE attach_perf_event_fails
  <2>1. /\ pc = "perf" /\ pc' = "wait"
        /\ UNCHANGED <<target, pidFile, same, procs, perf>>
    BY <1>4 DEF attach_perf_event_fails, worldVars
  <2> QED
    BY <2>1, FileKept DEF PerfIsTarget, NoPerf
<1>5. CASE \/ load_config \/ (\E p \in Programs : attach(p))
           \/ spawn_ringbuf_reader \/ spawn_reporter
  <2>1. /\ pc \in Programs \cup {"load", "reader", "reporter"}
        /\ pc' \in Programs \cup {"pin", "reader", "reporter", "resolve"}
        /\ UNCHANGED <<target, pidFile, same, procs, perf>>
    BY <1>5 DEF load_config, attach, spawn_ringbuf_reader, spawn_reporter,
                Begin, After, Programs, worldVars
  <2> QED
    BY <2>1, FileKept DEF PerfIsTarget, NoPerf, Programs
<1>6. CASE enable_flamegraph \/ ctrl_c
  <2>1. /\ pc \in {"enable", "wait"} /\ pc' \in {"wait", "flame"}
        /\ UNCHANGED <<target, pidFile, same, procs, perf>>
    BY <1>6 DEF enable_flamegraph, ctrl_c, Begin, After, worldVars
  <2> QED
    BY <2>1, FileKept DEF PerfIsTarget, NoPerf
<1>7. CASE generate_flamegraph
  <2>1. pc' = "done" /\ perf' = None /\ UNCHANGED <<target, pidFile, same, procs>>
    BY <1>7 DEF generate_flamegraph, Begin, After, worldVars
  <2> QED
    BY <2>1, FileKept DEF PerfIsTarget, NoPerf
<1>8. CASE die
  <2>1. pc' = "failed" /\ perf' = None
        /\ UNCHANGED <<target, pidFile, same, procs>>
    BY <1>8 DEF die, worldVars
  <2> QED
    BY <2>1, FileKept DEF PerfIsTarget, NoPerf
<1>9. CASE \/ (\E p \in Pids \cup {InitPid} : request(p)) \/ cpu_sample
           \/ UNCHANGED vars \/ (reporter_starts /\ ~die)
  <2>1. UNCHANGED <<pc, target, pidFile, same, procs, redis_pid, perf>>
    BY <1>9 DEF request, cpu_sample, reporter_starts, vars, mainVars, worldVars
  <2> QED
    BY <2>1, FileKept DEF PerfIsTarget, NoPerf
<1>10. CASE Environment
  <2>1. EnvStep
    BY <1>10 DEF Environment, process_starts, process_stops, truncate_pid_file,
                 write_pid_file
  <2>2. /\ same' = (same /\ pidFile' = pidFile /\ Alive(target)')
        /\ UNCHANGED <<pc, target, redis_pid, perf>>
    BY <2>1 DEF EnvStep, mainVars
  <2> QED
    BY <2>2 DEF FileNamesTarget, PerfIsTarget, NoPerf
<1> QED
  BY <1>1, <1>2, <1>3, <1>4, <1>5, <1>6, <1>7, <1>8, <1>9, <1>10
     DEF Next, Main, boot_fails, pin_fails

(* ReadersAgree: what pin_target_pid and, later, resolve_redis_pid make of the *)
(* PID file is the same process, unless the number is 0 or 1, the file changed *)
(* in between, or the process was not there all the time.                     *)
THEOREM OneTarget == Spec => []ReadersAgree
<1>1. Init => PinInv
  <2>1. Init => FileNamesTarget /\ PerfIsTarget /\ NoPerf
    BY DEF Init, FileNamesTarget, PerfIsTarget, NoPerf
  <2> QED
    BY <2>1, InitInv DEF PinInv
<1>2. PinInv /\ Inv' /\ [Next]_vars => PinInv'
  BY PinStep DEF PinInv
<1>3. PinInv => ReadersAgree
  BY DEF PinInv, PerfIsTarget, ReadersAgree
<1> QED
  BY <1>1, <1>2, <1>3, Inductive, PTL DEF Spec
=============================================================================
