------------------------------ MODULE Startup -------------------------------
(***************************************************************************)
(* main() of the collector: configuration (config.rs), pinning the target  *)
(* process (bootstrap.rs), attaching the probes (probes.rs), spawning the  *)
(* tasks, sampling the CPU, and the exit on Ctrl-C.                        *)
(*                                                                         *)
(* Beside it, Redis and other processes start and stop, and Redis rewrites *)
(* its PID file in two steps (truncate, write).  The probes run as soon as *)
(* they are attached; modules ReqProbe, RingBuf and Collector detail what  *)
(* is here one set of traced and one set of sampled processes.             *)
(***************************************************************************)
EXTENDS Integers, FiniteSets

CONSTANTS
    Pids,        \* process ids, without those of init and of aya-test
    Self,        \* the process id of aya-test
    Frequencies, \* sampling frequencies a user may give
    Intervals,   \* report intervals a user may give
    None,        \* an option that is not given, or nothing
    MaxEnv       \* bound: starts and stops of processes, changes of the file

ASSUME StartupConstants ==
    /\ Pids \subseteq Nat \ {0, 1}
    /\ Self \in Nat \ ({0, 1} \cup Pids)
    /\ Frequencies \subseteq Nat
    /\ Intervals \subseteq Nat
    /\ None \notin Nat \cup BOOLEAN
    /\ MaxEnv \in Nat

VARIABLES
    pc,          \* the statement main has reached
    cfg,         \* Config
    target,      \* TARGET_PID
    attached,    \* programs attached to the kernel's functions
    redis_pid,   \* what resolve_redis_pid returned, or None
    perf,        \* process the perf event follows, or None
    flameOn,     \* FLAMEGRAPH_ON
    reporter,    \* the reporter task
    procs,       \* pid -> what runs under it
    pidFile,     \* content of the PID file
    traced,      \* history: processes with a traced request
    sampled,     \* processes with a stack sample in flame_samples
    svg,         \* the flame graph has been written
    env,         \* bound: environment steps so far
    same         \* history: since target was pinned it has been alive and
                 \* the PID file has not changed

mainVars == <<pc, cfg, target, attached, redis_pid, perf, flameOn, svg>>
worldVars == <<procs, pidFile, env, same>>
seenVars == <<traced, sampled, reporter>>
vars == <<mainVars, worldVars, seenVars>>

Config == [frequency_hz : Nat, interval_secs : Nat]

\* Process 1 of the host.  A Redis in a container calls itself 1 as well.
InitPid == 1
Live == Pids \cup {InitPid, Self}

\* A PID file holds a number, of a process or not, or nothing that parses, or
\* cannot be read.
PidFiles == [kind : {"absent", "garbage"}, pid : {0}] \cup
            [kind : {"pid"}, pid : Live \cup {0}]

\* What follows each statement of main.  Mutant: the probes are attached
\* before the target is pinned.
AfterPinLate ==
    [load |-> "on_tcp_recvmsg", pin |-> "reader",
     on_tcp_recvmsg |-> "on_tcp_recvmsg_ret",
     on_tcp_recvmsg_ret |-> "on_tcp_sendmsg", on_tcp_sendmsg |-> "pin",
     reader |-> "reporter", reporter |-> "resolve", resolve |-> "perf",
     perf |-> "enable", enable |-> "wait", wait |-> "flame", flame |-> "done"]
After ==
    [load |-> "pin", pin |-> "on_tcp_recvmsg",
     on_tcp_recvmsg |-> "on_tcp_recvmsg_ret",
     on_tcp_recvmsg_ret |-> "on_tcp_sendmsg", on_tcp_sendmsg |-> "reader",
     reader |-> "reporter", reporter |-> "resolve", resolve |-> "perf",
     perf |-> "enable", enable |-> "wait", wait |-> "flame", flame |-> "done"]

Steps == {"load", "pin", "on_tcp_recvmsg", "on_tcp_recvmsg_ret",
          "on_tcp_sendmsg", "reader", "reporter", "resolve", "perf", "enable",
          "wait", "flame", "done", "failed"}
Programs == {"on_tcp_recvmsg", "on_tcp_recvmsg_ret", "on_tcp_sendmsg"}

TypeOK ==
    /\ pc \in Steps
    /\ cfg \in Config
    /\ target \in Live \cup {0}
    /\ attached \subseteq Programs
    /\ redis_pid \in Pids \cup {0, Self, None}
    /\ perf \in Pids \cup {Self, None}
    /\ flameOn \in BOOLEAN
    /\ reporter \in {"none", "spawned", "running"}
    /\ procs \in [Pids -> {"none", "redis", "other"}]
    /\ pidFile \in PidFiles
    /\ traced \subseteq Live
    /\ sampled \subseteq Pids \cup {Self}
    /\ svg \in BOOLEAN
    /\ env \in 0 .. MaxEnv
    /\ same \in BOOLEAN

\* Config::default.  Mutant: one without an interval.
DefaultNoInterval == [frequency_hz |-> 99, interval_secs |-> None]
Default == [frequency_hz |-> 99, interval_secs |-> 10]

Init ==
    /\ pc = "load"
    /\ cfg = Default
    /\ target = 0
    /\ attached = {}
    /\ redis_pid = None
    /\ perf = None
    /\ flameOn = FALSE
    /\ reporter = "none"
    /\ procs \in [Pids -> {"none", "redis", "other"}]
    /\ pidFile \in PidFiles
    /\ traced = {}
    /\ sampled = {}
    /\ svg = FALSE
    /\ env = 0
    /\ same = FALSE

-----------------------------------------------------------------------------
(* Configuration *)

Option(S) == S \cup {None}
Cli == [frequency : Option(Frequencies), interval : Option(Intervals)]
ConfigFile == [frequency_hz : Option(Frequencies),
               interval_secs : Option(Intervals)]

Or(option, default) == IF option = None THEN default ELSE option

\* Config::load: defaults, then the file, then the command line.
load(file, cli) ==
    LET f == Or(file, [frequency_hz |-> None, interval_secs |-> None])
    IN [frequency_hz |-> Or(cli.frequency, Or(f.frequency_hz, Default.frequency_hz)),
        interval_secs |-> Or(cli.interval, Or(f.interval_secs, Default.interval_secs))]

-----------------------------------------------------------------------------
(* main.  A failing `?` ends the process; the kernel then detaches all.      *)

Begin(s) == pc = s /\ pc' = After[s]

die ==
    /\ pc' = "failed"
    /\ attached' = {}
    /\ perf' = None
    /\ reporter' = "none"
    /\ UNCHANGED <<cfg, target, redis_pid, flameOn, svg, worldVars, traced,
                   sampled>>

\* Statements that may fail at any time: an unreadable config file or output
\* file, the program's load, the BTF, an attachment, a map.
boot_fails ==
    /\ pc \in {"load", "on_tcp_recvmsg", "on_tcp_recvmsg_ret",
               "on_tcp_sendmsg", "reader", "enable"}
    /\ die

\* Config::load, output redirection, raise_memlock, Ebpf::load, log drain.
load_config ==
    /\ Begin("load")
    /\ \E cli \in Cli, file \in Option(ConfigFile) : cfg' = load(file, cli)
    /\ UNCHANGED <<target, attached, redis_pid, perf, flameOn, svg, worldVars,
                   seenVars>>

Alive(p) ==
    \/ p \in {InitPid, Self}
    \/ p \in Pids /\ procs[p] # "none"

\* pin_target_pid: no file is no error.  Any number is pinned, and a failing
\* write to the map is ignored.
pin_target_pid ==
    /\ pc = "pin"
    /\ pidFile.kind # "garbage"
    /\ pc' = After.pin
    /\ target' \in IF pidFile.kind = "pid" THEN {pidFile.pid, target}
                                          ELSE {target}
    /\ same' = Alive(target')
    /\ UNCHANGED <<cfg, attached, redis_pid, perf, flameOn, svg, procs, pidFile,
                   env, seenVars>>

\* A file that does not parse is an error, and so is a map of another type.
pin_fails ==
    /\ pc = "pin"
    /\ pidFile.kind # "absent"
    /\ die

attach(p) ==
    /\ Begin(p)
    /\ attached' = attached \cup {p}
    /\ UNCHANGED <<cfg, target, redis_pid, perf, flameOn, svg, worldVars,
                   seenVars>>

\* take_map and spawn_ringbuf_reader.
spawn_ringbuf_reader ==
    /\ Begin("reader")
    /\ UNCHANGED <<cfg, target, attached, redis_pid, perf, flameOn, svg,
                   worldVars, seenVars>>

spawn_reporter ==
    /\ Begin("reporter")
    /\ reporter' = "spawned"
    /\ UNCHANGED <<cfg, target, attached, redis_pid, perf, flameOn, svg,
                   worldVars, traced, sampled>>

\* resolve_redis_pid: a live process named in the PID file, whatever it is;
\* else any process that is called redis-server or valkey-server; else 0.
\* Mutant: the scan comes first.
Scan == {p \in Pids : procs[p] = "redis"}
FromFile ==
    IF pidFile.kind = "pid" /\ pidFile.pid > 1 /\ Alive(pidFile.pid)
    THEN {pidFile.pid} ELSE {}
ResolvedScanFirst ==
    IF Scan # {} THEN Scan ELSE IF FromFile # {} THEN FromFile ELSE {0}
Resolved ==
    IF FromFile # {} THEN FromFile ELSE IF Scan # {} THEN Scan ELSE {0}

resolve_redis_pid ==
    /\ Begin("resolve")
    /\ \E p \in Resolved : redis_pid' = p
    /\ UNCHANGED <<cfg, target, attached, perf, flameOn, svg, worldVars,
                   seenVars>>

\* attach_perf_event: perf_event_open takes 0 for the calling process, and
\* fails for a process that is gone.
attach_perf_event ==
    /\ pc = "perf"
    /\ perf' = IF redis_pid = 0 THEN Self ELSE redis_pid
    /\ Alive(perf')
    /\ pc' = "enable"
    /\ UNCHANGED <<cfg, target, attached, redis_pid, flameOn, svg, worldVars,
                   seenVars>>

\* It may fail for other reasons too; main warns and goes on.  Mutant: it
\* tries again until Redis is there.
attach_perf_event_retries == pc = "perf" /\ UNCHANGED vars
attach_perf_event_fails ==
    /\ pc = "perf"
    /\ pc' = "wait"
    /\ UNCHANGED <<cfg, target, attached, redis_pid, perf, flameOn, svg,
                   worldVars, seenVars>>

\* enable_flamegraph, whose failing write to the map is ignored, and
\* spawn_stack_reader.
enable_flamegraph ==
    /\ Begin("enable")
    /\ flameOn' \in BOOLEAN
    /\ UNCHANGED <<cfg, target, attached, redis_pid, perf, svg, worldVars,
                   seenVars>>

ctrl_c ==
    /\ Begin("wait")
    /\ UNCHANGED <<cfg, target, attached, redis_pid, perf, flameOn, svg,
                   worldVars, seenVars>>

\* The flame graph of the samples, if there are any; rendering may fail.  Then
\* main returns and the kernel detaches the programs.
generate_flamegraph ==
    /\ Begin("flame")
    /\ svg' \in IF sampled = {} THEN {FALSE} ELSE {TRUE, FALSE}
    /\ attached' = {}
    /\ perf' = None
    /\ reporter' = "none"
    /\ UNCHANGED <<cfg, target, redis_pid, flameOn, worldVars, traced,
                   sampled>>

Main ==
    \/ load_config \/ pin_target_pid \/ pin_fails
    \/ \E p \in Programs : attach(p)
    \/ spawn_ringbuf_reader \/ spawn_reporter \/ resolve_redis_pid
    \/ attach_perf_event \/ attach_perf_event_fails \/ enable_flamegraph
    \/ generate_flamegraph

-----------------------------------------------------------------------------
(* The reporter task, which runs on its own from the moment it is spawned    *)

\* tokio::time::interval panics on a zero period, and panics abort.
reporter_starts ==
    /\ reporter = "spawned"
    /\ IF cfg.interval_secs = 0
       THEN die
       ELSE /\ reporter' = "running"
            /\ UNCHANGED <<mainVars, worldVars, traced, sampled>>

-----------------------------------------------------------------------------
(* The probes *)

\* is_target_pid
is_target_pid(p) == target = 0 \/ p = target

request(p) ==
    /\ Alive(p)
    /\ {"on_tcp_recvmsg", "on_tcp_sendmsg"} \subseteq attached
    /\ is_target_pid(p)
    /\ traced' = traced \cup {p}
    /\ UNCHANGED <<mainVars, worldVars, sampled, reporter>>

\* on_cpu_sample; a frequency of 0 never samples.
cpu_sample ==
    /\ perf \in Pids \cup {Self}
    /\ Alive(perf)
    /\ cfg.frequency_hz > 0
    /\ is_target_pid(perf) /\ flameOn
    /\ sampled' = sampled \cup {perf}
    /\ UNCHANGED <<mainVars, worldVars, traced, reporter>>

-----------------------------------------------------------------------------
(* Redis, other processes, and the PID file *)
EnvStep ==
    /\ env < MaxEnv
    /\ env' = env + 1
    /\ UNCHANGED <<mainVars, seenVars>>
    /\ same' = (same /\ pidFile' = pidFile /\ Alive(target)')

\* A new process may get an old id.  The perf event of the old process is gone,
\* so while perf holds an id nothing new is started under it.
process_starts(p, what) ==
    /\ procs[p] = "none"
    /\ perf # p
    /\ procs' = [procs EXCEPT ![p] = what]
    /\ UNCHANGED pidFile
    /\ EnvStep

process_stops(p) ==
    /\ procs[p] # "none"
    /\ procs' = [procs EXCEPT ![p] = "none"]
    /\ pidFile' \in {pidFile} \cup [kind : {"absent"}, pid : {0}]
    /\ EnvStep

truncate_pid_file ==
    /\ Scan # {}
    /\ pidFile' = [kind |-> "garbage", pid |-> 0]
    /\ UNCHANGED procs
    /\ EnvStep

\* Redis writes its id as it knows it.
write_pid_file(p) ==
    /\ p \in Scan
    /\ pidFile.kind = "garbage"
    /\ pidFile' \in [kind : {"pid"}, pid : {p, 1}]
    /\ UNCHANGED procs
    /\ EnvStep

Environment ==
    \/ \E p \in Pids, what \in {"redis", "other"} : process_starts(p, what)
    \/ \E p \in Pids : process_stops(p) \/ write_pid_file(p)
    \/ truncate_pid_file

-----------------------------------------------------------------------------
Next ==
    \/ Main \/ boot_fails \/ ctrl_c
    \/ reporter_starts
    \/ \E p \in Pids \cup {InitPid} : request(p)
    \/ cpu_sample
    \/ Environment

Spec == Init /\ [][Next]_vars

\* The runtime runs main and the tasks; nobody has to press Ctrl-C.
FairSpec == Spec /\ WF_vars(Main) /\ WF_vars(reporter_starts)

-----------------------------------------------------------------------------
(* Properties *)

\* Once a target is pinned no other process was or will be traced or sampled,
\* in any phase of the boot: the filter is set before a probe can run.
OnlyTarget ==
    target # 0 => traced \subseteq {target} /\ sampled \subseteq {target}

\* The two readers of the PID file agree on a process: if the one that was
\* pinned stays alive and the file stays as it is, the perf event follows it,
\* whatever other processes do.  The ids 0 and 1 are pinned but not resolved, and
\* there the readers differ.
ReadersAgree ==
    same /\ target > 1 /\ pc \in {"wait", "flame"} => perf \in {target, None}

\* A boot ends: main waits for Ctrl-C, or has failed.
BootEnds == <>(pc \in {"wait", "failed"})

(* What a message of the repository says, and the code does not do.          *)

\* "Cannot resolve Redis PID — flame graph will be unavailable"
UnresolvedHasNoFlameGraph == redis_pid = 0 => sampled = {}
=============================================================================
