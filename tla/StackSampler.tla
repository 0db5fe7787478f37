---------------------------- MODULE StackSampler ----------------------------
(***************************************************************************)
(* The flame graph: the perf_event probe on_cpu_sample of                  *)
(* aya-test-ebpf/src/main.rs, the stack reader (reader.rs), and what main  *)
(* does on Ctrl-C: it takes the lock on the samples and renders them       *)
(* (flamegraph.rs, with module Symbolizer).                                *)
(*                                                                         *)
(* The ring is a queue here; module RingBuf has its wake-ups.  The kernel   *)
(* opens the perf event for one thread and lets the threads and processes  *)
(* that a followed one starts inherit it.  sent and placed are history.    *)
(***************************************************************************)
EXTENDS Symbolizer, Bags

CONSTANTS
    Threads,     \* thread ids
    Tgid,        \* thread -> process id
    Target,      \* the value in TARGET_PID; 0 means sample everything
    Redis,       \* what resolve_redis_pid found; a process has the id of its
                 \* first thread
    MaxFrames,   \* MAX_STACK_FRAMES
    KStacks,     \* kernel stacks, innermost frame first
    UStacks,     \* user stacks
    Room,        \* samples the ring holds
    MaxSamples   \* bound: samples sent

ASSUME SamplerConstants ==
    /\ Tgid \in [Threads -> Nat]
    /\ Redis \in Threads /\ Tgid[Redis] = Redis
    /\ Target \in Nat /\ MaxFrames \in Nat /\ Room \in Nat /\ MaxSamples \in Nat
    /\ KStacks \cup UStacks \subseteq Seq(Addr)
    /\ \A s \in KStacks \cup UStacks : Len(s) <= MaxFrames

VARIABLES
    on,          \* FLAMEGRAPH_ON
    alive,       \* threads that run
    followed,    \* those of them the perf event follows
    sent,        \* history: samples handed to STACK_RINGBUF
    ring,        \* samples in it
    batch,       \* the reader's batch
    rpc,         \* where the reader stands
    owner,       \* who holds the lock on samples
    samples,     \* flame_samples
    main,        \* where the main task stands
    placed,      \* history: the frames of each sample rendered so far
    folded,      \* the folded stacks, a bag
    svg          \* the file: none, or its title count and its stacks

threadVars == <<alive, followed>>
probeVars == <<on, threadVars, sent>>
readerVars == <<batch, rpc>>
mainVars == <<main, placed, folded, svg, symVars>>
vars == <<probeVars, ring, readerVars, owner, samples, mainVars>>

Stack == [len : -1 .. MaxFrames, ips : [1 .. MaxFrames -> Addr]]
StackEvent == [pid : Threads, kstack : Stack, ustack : Stack]
NoSvg == [title |-> 0, stacks |-> EmptyBag]

TypeOK ==
    /\ on \in BOOLEAN
    /\ alive \subseteq Threads /\ followed \subseteq alive
    /\ \A q \in {sent, ring, batch, samples} : q \in Seq(StackEvent)
    /\ rpc \in {"off", "collect", "push", "extend"}
    /\ owner \in {"free", "reader", "main"}
    /\ main \in {"attach", "enable", "wait", "lock", "render", "done"}
    /\ Len(placed) <= Len(samples)
    /\ IsABag(folded) /\ IsABag(svg.stacks) /\ svg.title \in Nat
    /\ maps \subseteq {m \in ProcMaps : m.path \notin NoFile}
    /\ ksyms \in Seq(KernelSymbol)
    /\ aliasLast \in BOOLEAN

Init ==
    /\ on = FALSE
    /\ alive \in {A \in SUBSET Threads : Redis \in A} /\ followed = {}
    /\ sent = <<>> /\ ring = <<>> /\ batch = <<>> /\ samples = <<>>
    /\ rpc = "off"
    /\ owner = "free"
    /\ main = "attach"
    /\ placed = <<>> /\ folded = EmptyBag /\ svg = NoSvg
    /\ maps = {} /\ ksyms = <<>> /\ aliasLast = TRUE

-----------------------------------------------------------------------------
(* The probe *)

\* The perf event of a followed thread fires, and the filter compares the
\* thread's process: is_target_pid(ctx.tgid()), then flamegraph_enabled().
Sampled(t) == t \in followed /\ (Target = 0 \/ Tgid[t] = Target) /\ on

\* bpf_get_stack into a zeroed array; -1 if the walk fails.  Mutant: the bytes
\* are not divided by eight.
WalkedBytes(s) ==
    [len |-> 8 * Len(s), ips |-> [i \in 1 .. MaxFrames |->
                                     IF i <= Len(s) THEN s[i] ELSE 0]]
Walked(s) ==
    [len |-> Len(s), ips |-> [i \in 1 .. MaxFrames |->
                                 IF i <= Len(s) THEN s[i] ELSE 0]]
Failed == [len |-> -1, ips |-> [i \in 1 .. MaxFrames |-> 0]]

\* A sample without frames is not sent; on a full ring it is lost.
on_cpu_sample(t) ==
    /\ main # "done"
    /\ Sampled(t)
    /\ Len(sent) < MaxSamples
    /\ Len(ring) < Room
    /\ \E k \in {Walked(s) : s \in KStacks} \cup {Failed},
          u \in {Walked(s) : s \in UStacks} \cup {Failed} :
          /\ k.len > 0 \/ u.len > 0
          /\ LET ev == [pid |-> t, kstack |-> k, ustack |-> u]
             IN ring' = Append(ring, ev) /\ sent' = Append(sent, ev)
    /\ UNCHANGED <<on, threadVars, readerVars, owner, samples, mainVars>>

\* A thread t starts a thread of its process, or forks a process u, as Redis does
\* to write a snapshot.  What a followed thread starts is followed as well; the
\* threads there were when the perf event was opened are not.
thread_starts(t, u) ==
    /\ main \notin {"render", "done"}
    /\ t \in alive /\ u \notin alive
    /\ u # Redis /\ Tgid[u] \in {Tgid[t], u}
    /\ alive' = alive \cup {u}
    /\ followed' = IF t \in followed THEN followed \cup {u} ELSE followed
    /\ UNCHANGED <<on, sent, ring, readerVars, owner, samples, mainVars>>

thread_ends(t) ==
    /\ main \notin {"render", "done"}
    /\ t \in alive
    /\ alive' = alive \ {t} /\ followed' = followed \ {t}
    /\ UNCHANGED <<on, sent, ring, readerVars, owner, samples, mainVars>>

-----------------------------------------------------------------------------
(* The stack reader *)

\* Phase 1: what is found is pushed onto the batch.
collect ==
    /\ rpc = "collect" /\ main # "done"
    /\ \E n \in 1 .. Len(ring) :
          /\ batch' = batch \o SubSeq(ring, 1, n)
          /\ ring' = SubSeq(ring, n + 1, Len(ring))
    /\ rpc' = "push"
    /\ UNCHANGED <<probeVars, owner, samples, mainVars>>

\* std's Mutex.
Unlocked == owner = "free"

\* Phase 2: samples.lock(), extend(batch.drain(..)), and the guard is dropped.
lock_samples ==
    /\ rpc = "push" /\ main # "done"
    /\ Unlocked
    /\ owner' = "reader"
    /\ rpc' = "extend"
    /\ UNCHANGED <<probeVars, ring, batch, samples, mainVars>>

\* Mutant: the guard is kept.
ReleasedNot == owner
Released == "free"

\* drain(..) empties the batch.  Mutant: the samples are copied out of it.
DrainedNot == batch
Drained == <<>>

extend ==
    /\ rpc = "extend" /\ main # "done"
    /\ samples' = samples \o batch
    /\ batch' = Drained
    /\ owner' = Released
    /\ rpc' = "collect"
    /\ UNCHANGED <<probeVars, ring, mainVars>>

Reader == collect \/ lock_samples \/ extend

-----------------------------------------------------------------------------
(* The main task *)

\* attach_perf_event with PerfEventScope::OneProcess, which is one thread, and
\* inherit set.  It may fail: then nothing samples and nobody reads.
attach_perf_event ==
    /\ main = "attach"
    /\ \/ Redis \in alive /\ main' = "enable" /\ followed' = {Redis}
       \/ main' = "wait" /\ UNCHANGED followed
    /\ UNCHANGED <<on, alive, sent, ring, readerVars, owner, samples, placed>>
    /\ UNCHANGED <<folded, svg, symVars>>

\* enable_flamegraph, then spawn_stack_reader.
enable_flamegraph ==
    /\ main = "enable"
    /\ on' = TRUE
    /\ rpc' = "collect"
    /\ main' = "wait"
    /\ UNCHANGED <<threadVars, sent, ring, batch, owner, samples, placed>>
    /\ UNCHANGED <<folded, svg, symVars>>

ctrl_c ==
    /\ main = "wait"
    /\ main' = "lock"
    /\ UNCHANGED <<probeVars, ring, readerVars, owner, samples, placed>>
    /\ UNCHANGED <<folded, svg, symVars>>

\* The lock is taken for good.  With samples a Symbolizer is made, for the
\* thread of the first one; without, the program ends.
lock_and_load ==
    /\ main = "lock"
    /\ Unlocked
    /\ owner' = "main"
    /\ IF samples = <<>>
       THEN main' = "done" /\ UNCHANGED symVars
       ELSE main' = "render" /\ new_symbolizer(samples[1].pid \in alive)
    /\ UNCHANGED <<probeVars, ring, readerVars, samples, placed, folded, svg>>

\* The frames of one walk, outermost first: the first len entries from the last
\* to the first, without those that are zero.  Mutant: the whole array is taken,
\* in the order of the walk.
IpsUnreversed(s) == SelectSeq(s.ips, LAMBDA ip : ip # 0)
Ips(s) ==
    LET len == IF s.len < 0 THEN 0 ELSE IF s.len > MaxFrames THEN MaxFrames
                                                             ELSE s.len
        from[n \in 0 .. len] ==
            IF n = 0 THEN <<>>
            ELSE IF s.ips[n] = 0 THEN from[n - 1] ELSE <<s.ips[n]>> \o from[n - 1]
    IN from[len]

\* The kernel's frames, then the user's.
Frames(ev) ==
    LET k == Ips(ev.kstack)
        u == Ips(ev.ustack)
    IN [i \in DOMAIN k |-> resolve_kernel[k[i]]]
         \o [i \in DOMAIN u |-> resolve[u[i]]]

\* A sample adds one to its stack.  Mutant: also if it has no frame.
CountedEmpty(key) == folded (+) SetToBag({key})
Counted(key) == IF key = <<>> THEN folded ELSE folded (+) SetToBag({key})

fold_sample ==
    /\ main = "render"
    /\ Len(placed) < Len(samples)
    /\ \E key \in {Frames(samples[Len(placed) + 1])} :
          /\ placed' = Append(placed, key)
          /\ folded' = Counted(key)
    /\ UNCHANGED <<probeVars, ring, readerVars, owner, samples, main, svg>>
    /\ UNCHANGED symVars

\* inferno fails when there is no stack, and writing the file may fail; then
\* main warns and ends as well.
write_svg ==
    /\ main = "render"
    /\ Len(placed) = Len(samples)
    /\ \/ folded # EmptyBag
             /\ svg' = [title |-> Len(samples), stacks |-> folded]
       \/ UNCHANGED svg
    /\ main' = "done"
    /\ UNCHANGED <<probeVars, ring, readerVars, owner, samples, placed>>
    /\ UNCHANGED <<folded, symVars>>

Exit == lock_and_load \/ fold_sample \/ write_svg

Next ==
    \/ \E t \in Threads : on_cpu_sample(t) \/ thread_ends(t)
    \/ \E t, u \in Threads : thread_starts(t, u)
    \/ Reader
    \/ attach_perf_event \/ enable_flamegraph \/ ctrl_c
    \/ Exit

Spec == Init /\ [][Next]_vars

\* The runtime runs the reader and main.  std's mutex promises no order; weak
\* fairness is enough because between two batches the reader waits for samples.
FairSpec ==
    /\ Spec
    /\ WF_vars(Reader)
    /\ WF_vars(Exit)

-----------------------------------------------------------------------------
(* Properties *)

\* The samples that can be rendered are those the probe sent, in that order and
\* up to some point, none twice and none left out, wherever the reader stands in
\* a batch when Ctrl-C comes.
SamplesOfPrefix == IsPrefix(samples, sent)

\* The picture is of all of them at once: the title counts the samples under
\* the lock, and the stacks add up to those of them that have a frame.
PictureAddsUp ==
    svg # NoSvg =>
        /\ svg.title = Len(placed) /\ Len(placed) = Len(samples)
        /\ SumFunction(svg.stacks)
              = Cardinality({i \in DOMAIN placed : placed[i] # <<>>})
        /\ \A i \in DOMAIN placed : placed[i] # <<>> =>
              /\ BagIn(placed[i], svg.stacks)
              /\ svg.stacks[placed[i]]
                    = Cardinality({j \in DOMAIN placed :
                                      placed[j] = placed[i]})

\* Names at the greatest address not above ip.
NearestNames(T, ip) ==
    LET below == {s \in ToSet(T) : s.addr <= ip}
    IN {s.name : s \in {s \in below : \A r \in below : r.addr <= s.addr}}

\* A frame may have no name below all symbols, at the top of the address space,
\* and at an address that several symbols have.
MayBeUnnamed(T, ip) ==
    \/ NearestNames(T, ip) = {}
    \/ ip = Top
    \/ Cardinality({i \in DOMAIN T : T[i].addr = ip}) > 1

IsNamed(T, f, ip) ==
    IF f.name = "" THEN MayBeUnnamed(T, ip) ELSE f.name \in NearestNames(T, ip)

\* A user frame carries a file or a name only if ip lies in a mapping, and then
\* those of the file mapped there.
UserFrameRight(f, ip) ==
    LET home == {m \in maps : ip \in m.start .. m.end - 1}
    IN IF home = {} THEN f = Frame("user", "", ip)
       ELSE \E m \in home : \E T \in {symbol_cache[m.path]} :
               LET off == ip - m.start + m.offset
               IN IF f.kind = "file"
                  THEN f.name = m.path /\ MayBeUnnamed(T, off)
                  ELSE f.name \in NearestNames(T, off)

\* Every address is given the name of the nearest symbol at or below it, in the
\* file it is mapped from, and none only where that is excused: no search ends
\* one entry off, at a boundary, before the first entry or after the last.
FramesNamed ==
    main = "render" =>
        \A ip \in Addr :
            /\ \E f \in {resolve_kernel[ip]} : IsNamed(ksyms, f, ip)
            /\ \E f \in {resolve[ip]} : UserFrameRight(f, ip)

\* How far out the entry i of a walk stands: the outermost is at 1.
Depth(s, i) == Cardinality({j \in i .. MaxFrames : s.ips[j] # 0})

\* The entries of walk s stand in the frames ff of a sample, after the first base
\* ones, each under the frame that it called and with nothing in between.
StandsIn(ff, base, s, name) ==
    \A i \in 1 .. MaxFrames :
        s.ips[i] # 0 => ff[base + Depth(s, i)] = name[s.ips[i]]

KernelAtRoot(ff, k, u) ==
    StandsIn(ff, 0, k, resolve_kernel) /\ StandsIn(ff, Depth(k, 1), u, resolve)
UserAtRoot(ff, k, u) ==
    StandsIn(ff, 0, u, resolve) /\ StandsIn(ff, Depth(u, 1), k, resolve_kernel)

\* Every entry of the two walks of a sample has its frame, callers before what
\* they call within each walk, and the two are neither mixed nor padded; which of
\* them comes first is left open.
FramesInOrder ==
    \A n \in DOMAIN placed :
        LET k == samples[n].kstack
            u == samples[n].ustack
        IN /\ Len(placed[n]) = Depth(k, 1) + Depth(u, 1)
           /\ KernelAtRoot(placed[n], k, u) \/ UserAtRoot(placed[n], k, u)

\* After Ctrl-C the program ends, whatever the reader is doing: neither waits
\* for the other for ever.
CtrlCEnds == main = "lock" ~> main = "done"
=============================================================================
