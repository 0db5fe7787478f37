# A TLA+ model of aya-eBPF

The repository is a tracer for Redis: eBPF probes in the kernel measure the time
from `tcp_recvmsg` to `tcp_sendmsg`, a user-space collector prints statistics
and, on Ctrl-C, a CPU flame graph. This directory holds TLA+ modules of it, the
TLC runs that check them, and proofs checked by TLAPS.

## Inventory

| Component | State | Operations | Talks to |
|---|---|---|---|
| Latency probes (`aya-test-ebpf/src/main.rs` 79-209) | `REQ_CTX` (one `ReqCtx` per process), the locals of each probe | fentry and fexit of `tcp_recvmsg`, fexit of `tcp_sendmsg` | user memory, `TARGET_PID`, `LATENCY_RINGBUF` |
| Latency ring (`main.rs` 193-206, `reader.rs` 15-64) | producer and consumer positions, busy bits, `BATCH_CNT` per CPU, epoll and tokio readiness | output (reserve, publish, notify), register, wait, drain, `clear_ready` | probes, reader task |
| Stack ring (`main.rs` 244-274, `reader.rs` 66-102) | the same, without `BATCH_CNT` | the same, flags 0 | CPU sampler, stack reader |
| Reader, statistics, reporter (`reader.rs`, `stats.rs`, `reporter.rs`) | batch, three `Mutex`es, `LatencyStats`, `CommandStats`, `ClientStats`, ticks | collect, lock, record, report | latency ring, terminal |
| Startup, configuration, exit (`main.rs`, `config.rs`, `bootstrap.rs`, `probes.rs`) | `Config`, `TARGET_PID`, attached programs, perf event, `FLAMEGRAPH_ON` | load, pin, attach, spawn, resolve, sample, Ctrl-C | Redis's PID file, /proc, every task |
| CPU sampling, flame graph (`main.rs` 244-274, `flamegraph.rs`) | `flame_samples` | sample, fold, render | stack ring, symbolizer |
| Classifier (`resp.rs`) | none | `classify_command` | reader |
| Symbolizer (`symbolizer.rs`) | tables of mappings and symbols | `resolve`, `resolve_kernel` | flame graph |
| Self monitor (`monitor.rs`) | previous reading of the CPU time | `report` | reporter |

`on_tcp_connect` does nothing and is never attached. `spawn_log_drain` forwards
log records, of which the probes emit none. `RedisCommand` in `aya-test-common`
is used by no one.

What makes the system hard:

- **Shared context.** A probe runs in whatever kernel thread makes the call. The
  key of `REQ_CTX` is `ctx.tgid()`, the process, so the probes of all threads of
  a process interleave on one entry. The filter compares `ctx.pid()`, the
  thread, with `TARGET_PID`: with a pinned target only Redis's main thread is
  traced, and the entry is its own.
- **Pointers into the map.** `REQ_CTX` is pre-allocated. A lookup returns a pointer
  to an element, which is read and written afterwards without a lock; an element
  that was removed in between belongs at once to whichever process inserts next.
- **Clock before context.** The send probe reads the clock before the map. A
  context inserted in between makes `wrapping_sub` wrap.
- **Batched wake-ups.** Fifteen of sixteen outputs on a CPU forbid a wake-up; the
  consumer sleeps in epoll behind tokio's edge-triggered readiness flag.
- **Three locks.** The reader holds all three, the reporter one at a time.
- **Ctrl-C.** It comes while stack samples are in the ring, in the reader's batch
  and in `flame_samples`; `main` then takes the lock the reader also takes.
- **Searches.** The classifier looks for a name in 32 bytes that may hold the
  leftovers of earlier requests; the symbolizer chains two binary searches.
- **Two reads of the PID file**, while Redis may start, stop or rewrite it.

Correctness, per component: a sample is the time and the bytes of one request
of the process that replied; a record that enters a ring is read, and the
reader never sleeps where nothing can wake it; panels show whole batches and
their deltas add up; only the pinned process is traced, the two readers
of its PID file mean the same process, and the boot ends; a
command is counted under its name; the flame graph is of the samples sent, each
frame under the name of the function it is in and behind what called it.

## Modules

| Module | Models | Depends on |
|---|---|---|
| `ReqProbe` | the latency probes and `REQ_CTX` | - |
| `RingBuf` | one ring, its producers on each CPU, its reader task | - |
| `Collector` | reader, three statistics, reporter | - |
| `Startup` | `main`, configuration, PID file, perf event, exit | - |
| `EventChannel` | what a ring and its reader promise (abstract) | implemented by `RingBuf` |
| `Ledger` | what statistics and report promise (abstract) | implemented by `Collector` |
| `Resp` | the classifier and the buffer it reads | - |
| `Symbolizer` | the tables of symbols and mappings and their searches | - |
| `StackSampler` | CPU sampling, the stack reader, the flame graph on exit | extends `Symbolizer` |
| `*Proofs` | theorems about the module of that name; `SoleProofs` about `ReqProbe` where a process has one traced thread, `SamplerProofs` about `StackSampler` and `Symbolizer` | that module |
| `FoldProofs` | lemmas about sums and recursive functions | used by `CollectorProofs`, `SamplerProofs`, `RespProofs` |
| `MC*` | constants for TLC | the module of that name |

Each module cuts the system where another takes over. `ReqProbe!out` is what is
handed to `RingBuf!output`; `RingBuf!process_batch` is what `Collector` details
from `collect` to `release`; `Startup!request` and `cpu_sample`
stand for all that the probes do. `Collector` takes any command name where `Resp`
has the classifier, and `StackSampler` takes its ring as a queue, as `RingBuf` and
`EventChannel` justify.

### ReqProbe

An action is one atomic access to shared state: a map helper call, a clock read
with the reads of kernel memory around it, a read of user memory, one word read
or written through a pointer into the map. `pc[t]` says where thread `t` stands
between them. `recv[t]` and `send[t]` are the probes' locals, `mem` the receive
buffers of each process.

The map is the kernel's pre-allocated hash: `ref` gives the element of each
process's entry, `reqCtx` what is in each element, and `spare` the one element per
CPU that the kernel keeps for replacing an entry. Inserting a new key takes any
free element, or fails; replacing an entry takes a spare one and leaves the old
one in its place; removing frees the element at once. A lookup puts a pointer
(`ptr`) into the locals, and `todo` says which words are still to go through it, in
any order. Whatever element the pointer leads to is read and written, also when
it has become another process's by then.

The fexit probe of `tcp_recvmsg` is `recvmsg_ret_get` and `_iov` (step A of the
code), `_read` (step B), `_ptr` and `_store` (step C); the one of `tcp_sendmsg` is
`try_on_sendmsg`, `sendmsg_get`, `_copy`, `_remove` and `_output`. A helper can fail
where the kernel's can: a failed read of `iov_base` gives 0, a failed read of user
memory gives zeros. `tcp_recvmsg` itself may deliver bytes or none, in which case
the buffer keeps what an earlier call left there. `req`, `by` (the threads that wrote
into a context), `sk`, `start`, `now`, `last` and `seen` are history that only the
properties read.

The `Modulus` of the clock stands for 2^64. `MaxTime + MaxLatency < Modulus` is
assumed: 10 s and any uptime are far below 584 years.

Not modelled: the address and port reads failing (they leave 0), and the kernel's
recursion protection, which skips a program that is already active on the CPU:
one that interrupts itself, or one whose thread was preempted there in the
middle of it. A skipped probe does not only take behaviours away. After a skipped
fentry the reply uses an older context, against `LatestRequest` and `OwnData`; after
a skipped fexit `iov_base` stays set, against `NoDanglingIov`. These three are
therefore about executions in which no probe is skipped.

### RingBuf

`Batched` selects the ring. Positions count records. An output is the kernel's
three steps: reserve (`output`), clear the busy bit (`ringbuf_publish`), compare
the consumer position and wake (`ringbuf_notify`). `output` steps `BATCH_CNT`
first, as the code does, also when the ring is full (`output_full`). `cnt` is per
CPU because the map is a `PerCpuArray`. One output at a time runs on each CPU:
the map's update and the output are in one program, which the kernel does not
re-enter on a CPU.

The reader is `readable`, `collect`, `collect_end`, `clear_ready`,
`process_batch`, one for each await, call or loop of the task. `clear_ready` is
tokio's: it does nothing if readiness was set again since `readable`. `fresh`
holds exactly that. Registration (`with_interest`) reports data that is already
there, because an epoll registration does; wake-ups before it reach nobody.

### Collector

The reader's drain is one action that takes any non-empty prefix of the ring.
Then come the three locks, one action per event, and the release of the guards
in reverse order. `report()` reads only what its lock guards, so each report is
one action. A panel is represented by the sums it shows (`shown`), QPS and
bandwidth by the deltas they are computed from (`deltas`). `bounds` is history:
what the panels would show between two batches. `tick` serves missed intervals
in a burst, tokio's default. `report_monitor` reads `/proc/self/stat`, or fails and
leaves `prev` alone.

### Startup

`pc` is the statement `main` has reached. What fails with `?` ends the process
(`die`), which detaches everything. Environment actions start and stop Redis
and other processes, and truncate and write the PID file in two steps; a Redis in
a container writes 1, its own id there. A PID file may also say 0 from the start.
`pin_target_pid` writes whatever number it reads into `TARGET_PID`, where 0 means
everything; the write may fail, which the code ignores. `resolve_redis_pid` takes
only a live process above 1. `redis_pid` is what it returned; in
`attach_perf_event` 0 becomes the caller, `Self`. `same` is history: since the target
was pinned it has been alive and the file unchanged. What a followed process
starts, and so samples as well, is left to `StackSampler`. `reporter_starts` is the reporter's first
poll, at any time after it was spawned: an interval of 0 panics there, and
panics abort. Only the options that affect control are in `Config`; paths and
the output redirection are not, and `client_stats` is treated by the code just as
`command_stats` is.

### Resp

Bytes are 0 to 255; `buf` is `req_data`. A request arrives whole or in part and
is copied over what earlier calls left, since the probe always reads 32 bytes.
`ScanEnds` is the set of positions at which the code's loop would return; it
returns at the least. A length that does not fit `usize` ends the scan (`TooLong`),
one that makes `cmd_start + len` wrap gives an empty body (`BodyEnd`), as in a
release build; a debug build panics at that addition, `resp.rs` 62. The decoder is
external: an array of complete bulk strings, as the code uses it, each made into a
`String`, so that one argument that is not UTF-8 (`IsUtf8`) fails the whole array.
`try_static` returns the bytes it matches, so it and the allocated copy are
`Uppercase`. What the decoder finds goes through `str::to_uppercase`, which knows
all of Unicode and is a parameter here. `NamesInReach` is what is assumed of requests besides being bytes: the
two headers before the name leave room for it in the buffer, as Redis's own limits
on arguments and lengths make sure.

### Symbolizer and StackSampler

A table of symbols keeps the numbers of its entries in the file, and `Before` is
the order of the stable sort. `binary_search` promises nothing about which of
several equal entries it finds; `aliasLast` is that choice, made once per table
set. `LastBelow` is `Err(i)` with `i - 1`. Mappings do not overlap, so they are a
set. `/proc/kallsyms` is read with its addresses or, without the privilege, with
zeros. If the thread of the first sample has ended there are no mappings.

`StackSampler` has `main` from the attachment of the perf event to the exit, the
probe, and the stack reader with its lock. The kernel opens the event for one
thread, `Redis`; `followed` are the threads whose samples fire it: that one, and by
`inherit` the threads and processes a followed thread starts (`thread_starts`). The
threads Redis already had are alive and not followed. No thread starts while the
maps are read and the picture is drawn, since by then no sample is taken from it.
`Ips` is the loop of `collapse` over one array, from its last entry to its first,
with the zeros left out, and `Frames` puts the kernel's walk before the user's.
`Depth` says for `FramesInOrder` where an entry has to stand within its walk; the
property leaves open which walk comes first (`KernelAtRoot`, `UserAtRoot`). The
title's "PID" is the thread id of the first sample. `sent` and `placed` are history: what the
probe handed to the ring, and the frames rendered so far.

### EventChannel and Ledger

`EventChannel` accepts, finishes and delivers records; `RingBuf` maps `prodPos`,
`committed` and `recorded` to them. `Ledger` posts a batch to three counts in one
step and prints copies of them in rounds; `Collector` maps the last state between
two batches (`Posted`) to the ledger, so that recording event by event under three
locks must look like one step to every panel.

## Runs

| Run | Checks | Bounds |
|---|---|---|
| `pinned` | `TypeOK`, `TrueLatency`, `OneSamplePerRequest`, `LatestRequest`, `OwnData`, `NoDanglingIov` | two threads of Redis, the main one pinned, one socket, two buffers, two receives, two sends, map of one element and a spare |
| `all` | `TrueLatency` | two threads of one process, nothing pinned, map of one element and a spare |
| `apart` | `LatestRequest`, `OwnData`, `SameProcess` | a thread each of two processes, nothing pinned, map of one element and a spare, three receives, two sends |
| `batched` | `TypeOK`, `BacklogWithinBatch`, `NoStall`, `ForcedRecordProcessed`, `ChannelSpec` | two CPUs, batch of two, ring of three, six events |
| `adaptive` | `NoLostWakeup`, `EveryRecordProcessed`, `ChannelLive` | two CPUs, ring of two, five events |
| `panels` | `TypeOK`, `Conservation`, `PanelsInOrder`, `DeltasAddUp`, `CpuAddsUp`, `LedgerSpec`, `CollectedIsReported`, deadlock | two commands, two addresses (one unknown), three events, one tick of CPU time |
| `boot` | `TypeOK`, `OnlyTarget`, `ReadersAgree`, `BootEnds` | two process ids beside 1 and aya-test's own, two steps of the environment at any point of the boot |
| `classify` | `TypeOK`, `LettersNamed`, `NeverOther` | twelve requests, one with a UTF-8 and two with a binary argument, three texts outside RESP, three receives, each cut anywhere |
| `flame` | `TypeOK`, `SamplesOfPrefix`, `PictureAddsUp`, `FramesNamed`, `FramesInOrder`, `CtrlCEnds` | Redis with an I/O thread and a forked process, any of them there when the event is opened or started later, two samples, ring of two, addresses to 15, two mapped files, one of them stripped |

The bounds are enough for the cases that matter to happen. In `pinned` the map
holds one entry, so a context left behind makes the next insertion a replacement
in a full map, and the second receive and send are the smallest number that can
reuse, lose or mix up a context. In `all` two threads race on one entry, with the
lookup and each word of copies and stores as steps of their own. In `apart` two
processes compete for one element, so that an insertion can find the map full and
the element goes from one to the other and back. `MaxLatency` is below the clock's range so
that the filter rejects samples that did not wrap as well as those that did. In
`batched` the ring is one record larger than the CPUs can leave unread
(`RingRoom`), the tightest ring the assumption allows; more events than the
ring holds make it full and wrap the counters. In `adaptive` the ring of two
fills up and empties several times. In `panels` three events make up to three
batches around a round of panels, with another round due. In `classify` three receives put a request over what two
others left; names and arguments have letters, other characters, and more than fits, and one argument is
a NUL, which cuts the text. In
`flame` the tables have an alias, a gap between mappings, an undefined symbol and
a mapping with an offset, and the property looks at every address; two samples
make up to two batches on either side of Ctrl-C.

Deadlock is checked in `panels`. The other runs switch it off, since their
systems really stop: no thread has to make a call, no event has to come, and the collector may be waiting for Ctrl-C.

Runs that show where the code and its documentation differ, one property each:

| Run | Property | What the code does |
|---|---|---|
| `pair` | `RequestResponsePair` | with two connections read before a reply, the sample pairs a reply with another connection's request |
| `tail` | `EveryRecordProcessed` | the last events before a pause stay in the ring |
| `unresolved` | `UnresolvedHasNoFlameGraph` | with no Redis, process id 0 samples aya-test itself |

Others have no run of their own, since a reading of a few lines settles them. The
models have the behaviour of each of the first seven:

- `aya-test-ebpf/src/main.rs` 147 says "write result in-place — brief lock". There is
  no lock: with two traced threads of a process a reply can copy half of what the
  other's fexit stores.
- `main.rs` 174 copies 56 bytes through the pointer a lookup returned. With two traced
  threads one can remove the entry meanwhile, another process can take the element,
  and the "single request-response latency sample" (`aya-test-common/src/lib.rs` 55)
  has its bytes.
- `aya-test-ebpf/src/main.rs` 252-254 counts on samples of "any thread of the target
  process (e.g. Redis IO threads)". The perf event (`probes.rs` 53) is opened for one
  thread and follows what that one starts later; the I/O threads Redis already has
  are never sampled.
- `flamegraph.rs` 31 says "kernel + user frames in reverse (deepest first)". The
  kernel's walk is pushed first, so its frames stand at the root, before the user
  frames that called them, and neither walk has the deepest frame first.
- `bootstrap.rs` 57 pins any number in the PID file, 1 too, as the file of a Redis in a
  container says; `main.rs` 147 takes only ids above 1 and then looks for Redis by
  its name. "Flame-graph CPU sampling enabled" (`main.rs` 108) is announced, and the
  filter drops every sample.
- `README.md` 5 claims an accuracy of 100% for any command. `resp.rs` 66 passes over a
  name with other characters than letters: `sort_ro user` is counted as `USER`.
- `resp.rs` 31-35 decodes text only: `json.get` with an argument that is not UTF-8 ends
  as `OTHER`.
- `aya-test-ebpf/src/main.rs` 4 says that the map is keyed by TID; the key is
  `ctx.tgid()`, the process. With nothing pinned a reply can use the context that
  another thread wrote, which `ReqProbe` has.
- `aya-test-common/src/lib.rs` 77 calls the address the client's; the probe reads
  offset 4 of `struct sock`, which is the local one.
- `config.rs` 107 offers to disable the command statistics; the field is never read.
- `aya-test-ebpf/src/main.rs` 193 says that every 8th event wakes the reader, and
  `BATCH_SIZE` is 16.
- `config.toml` 9 says that an omitted frequency skips the sampling, and
  `Config::default` makes it 99 Hz.
- `symbolizer.rs` 21 says "nearest function symbol"; symbols of every type are
  taken, and a file offset is compared with symbol values, which agree only where
  a segment's offset and address do. `FramesNamed` is about the table as it is read.

A property's strength shows in its mutant: definitions such as `DrainedOnce`
or `StoredOnly` are a plausible bug in one definition of the model, listed in
`PROJECT.json` with the property that finds it.

## Fairness

`pinned`, `all`, `apart`, `classify`, `pair` and `unresolved` use `Spec`, without fairness.
The others check safety and liveness together under `FairSpec`. `RingBuf!FairSpec` has weak fairness of
the publication and notification of an output that has begun (a probe runs to
its end), of the driver and of each step of the reader (tokio keeps polling a
ready task); nothing forces an event to come, which is why `tail` fails.
`Collector!FairSpec` has weak fairness of the two tasks and of time. It needs no
more for the reporter's locks because the bounded model's traffic pauses:
`std::sync::Mutex` promises no order among waiters, so under unbroken load the
code promises the reporter nothing either, and neither does the model.
`StackSampler!FairSpec` has weak fairness of the stack reader and of `main`'s exit;
the reader's lock is free between two batches, so `main` gets it.
`ChannelLive` asks weak fairness of delivery of the abstract channel, and `RingBuf`'s
fairness implies it.
`Startup!FairSpec` makes `main` and the reporter's first poll go on; Ctrl-C, the
probes and the environment are free to do nothing.

## Proofs

`ReqProbeProofs`, for any threads, processes, sockets, buffers, map capacity
and target, from `ProbeConstants` alone:

- `TypeCorrect`. The type invariant is not inductive, since what is stored
  through a pointer and what is output come from the locals; `LocalsInv` says that the locals a
  step uses are there when it is reached.
- `LatencyTrue`. `FilterInv` says that a thread about to output has passed the
  filter. Lemma `Wrap` is the arithmetic: a difference that is negative becomes
  at least `Modulus - MaxTime`, which exceeds `MaxLatency`; so what passes was not
  negative, and is the true difference.

`RingBufProofs`, for any number of CPUs, capacity and batch size, from
`RingConstants` and `RingRoom`:

- `TypeCorrect`, with `OutputInv` (an output under way has a reserved position).
- `WakeupSafe`. `NoLostWakeup` is inductive together with the types: the lemma
  `FallAsleep` names the only steps after which nothing is under way.
- `Inductive`, `BacklogBounded`, `NoStallSafe`. While the reader sleeps after a drain
  that emptied the ring, unread records carry different pairs of CPU and counter
  value, and no value exceeds its CPU's counter (`LabelInv`). The record that
  would break it carries a forced wake-up, so the reader is not asleep any more.
  The pairs are at most `Cardinality(CPUs) * (BatchSize - 1)` many
  (`AsleepNotFull`), fewer than the ring holds. With 72 bytes for a record in
  4 MiB and 15 records per CPU, `RingRoom` holds up to 3883 CPUs.

- `ImplementsChannel`: the refinement of `EventChannel`. The drain moves over
  committed positions only, and what is collected is processed before the next
  drain, so each step of the ring is a step of the channel or a stutter.

`SoleProofs`, where a process has one traced thread (`OneTracedEach`): `OneSample`,
`LatestSample`, `OwnDataSample`, `IovCleared` and `ProcessesApart`. A pinned target is
a case of it (`PinnedIsSole`), since the filter compares thread ids; so is a machine
on which nothing is pinned and each server has one thread on its sockets. With two
traced threads of a process these properties do not hold: one consumes, tears or
outlives the context of the other. The invariant is `SoleInv`:

- `MapInv`: an element has one use, as the entry of one process or as a spare one or
  free. `PtrInv`: a pointer that is still to be used leads to the entry of the
  thread's own process. Together they say that what other threads do to the map does
  not touch the context (`Elsewhere`), although elements go from process to process.
- `CtxInv` and `CallInv` follow the context through the thread's calls: what it has
  in common with the locals and with the bytes last received, word by word.
- `FreshInv` and `NumberInv`: no sample of a context still in use is out yet.

None of the five properties is inductive without it, since each compares a sample
with a request whose call has long returned.

`CollectorProofs`, for any commands, addresses, sizes and events, from
`CollectorConstants` alone (its bounds are arbitrary; one tick is due at the start,
so `MaxTicks` is not 0). One inductive invariant, `IInv`, in parts:

- `LockInv`: the locks the reader holds follow from where it stands. Without it the
  reporter could read half a batch.
- `CountInv`: every event is in the ring, in the batch or in all three statistics.
  It gives `PanelsAgree`. A count per command is a sum over a function that grows,
  so recording an event needs `SumUpdate` and `SumExtend` of `FoldProofs`.
- `PostedInv`: the last state between two batches has the most events of `bounds`,
  and what the statistics show differs from it only while a batch is recorded.
- `OrderInv`: no panel shows more than is posted, and each of a round at least
  what the one before it did. `PanelsInOrder` alone is not inductive: it says nothing
  of a round that is not over. It gives `RoundInOrder`.
- `ReportInv` ties the previous values in `LatencyStats` to the sums printed and to
  the monotone totals, so `saturating_sub` never saturates (`NoDeltaLost`);
  `MonitorInv` does it for the monitor (`NoCpuLost`).
- `ImplementsLedger`: with these, the end of a batch is the one step that posts it,
  every other step of the reader is a stutter, and each report copies the ledger.

`StartupProofs`, for any processes and options:

- `TypeCorrect`, `OnlyTargetSafe`. The invariant is the order of `main`: before the
  probes are attached nothing is traced, and they are attached after the pin.
- `OneTarget`. `FileNamesTarget` carries what `pin_target_pid` read over the steps to
  the second reading, and `PerfIsTarget` what that one found over the steps to the
  perf event; both hold as long as that process lives and the file stays as it is
  (`same`), whatever other processes do. `ReadersAgree` has the premise
  `target > 1`: on the ids 0 and 1 the readers differ.

`SamplerProofs`, for any threads, stacks, tables and mappings that do not overlap:

- `TypeCorrect`.
- `NoSampleLost`. `Whereabouts` says that what was sent is `flame_samples`, the batch
  and the ring, concatenated; the lemmas on `\o` and `SubSeq` do the rest.
- `SymbolsRight`. `NameRight` shows for any table that the entry found is nearest,
  and that none is found only below the table, at the top of the address space
  or among aliases. `LastExists` gives the entry a binary search ends at, from
  `GreatestExists`, which needs well-foundedness instead of induction.
  `MappingRight` shows that the mapping searched for is the one the address lies in.
- `FramesOrdered`. `IpsRight` shows by induction over the array that the loop puts
  each entry that is not zero at its `Depth`; a frame stands where its entry stood.
  `KernelFirst` keeps that the kernel's walk is the first, which gives the property's
  first alternative.
- `PictureComplete`. `FoldedInv` says that the bag counts, for each stack, the samples
  rendered so far that have it, and `OwnerInv` that no sample is added meanwhile
  because `main` holds the lock. The sum over the bag grows by one with each sample
  that has a frame (`CountedAdds`).

`RespProofs`, for any requests of any number and length of arguments, any text
outside RESP, any cut, any width and any `usize`, from `RespConstants` and
`NamesInReach`:

- `TypeCorrect`, with `HeadInv`: of the request that was received last, the buffer
  holds what has been received of it, as far as it reaches.
- `LettersClassified`. `DecimalRight` shows that the decimal digits a client sends
  for a number are parsed back to it; `HeaderAt` that its header is read as one. No
  byte before the name's header is `$`, so the scan cannot stop before it, and it
  does stop there (`LettersRight`).
- `Recognised`. The decoder stands after argument `k` where the encoder started the
  next one (`Starts`); so it gets to the end, and a count in the first header cannot
  be larger than the buffer (`StartsRoom`).

`FoldProofs` has what those three need about definitions by recursion. The
induction theorems of the library take an operator, which the provers cannot
instantiate; `NatSetInduction` is about a set of numbers, and a proof takes the set
of those that have the property. A recursive function is shown to exist first
(`SumRecursion`, `Recursion`); only then does its definition say anything.

`NoStall` and `BacklogWithinBatch` leave out the case that the reader's last drain
stopped at a busy record. There the forced wake-up may already have been spent
by the time the busy record is published without one: the records behind it
wait for the next forced wake-up, and if the ring fills up before that, they wait
for ever. It takes a producer to stay between reserve and commit while other CPUs
fill 4 MiB.

Every invariant and both refinements that the passing runs check
are proved. Only model-checked is liveness, which is out of the prover's reach:
`ForcedRecordProcessed`, `EveryRecordProcessed`, `ChannelLive`, `CollectedIsReported`,
`BootEnds` and `CtrlCEnds`; and that `panels` has no deadlock, since that is a
statement about `ENABLED`.

Limits of what is proved: `Recognised` is about requests whose arguments are all
UTF-8 and without NUL; others may end as `OTHER`. `WakeupSafe` and `NoStallSafe` are
about the kernel's ring as `RingBuf` models it.

## Plan

1. Proofs: the invariants behind the liveness properties, such as that the reader
   of a ring with records left always has a step to take.
2. A larger `flame` instance with three samples, and one with nothing pinned.
3. Skipped probes in `ReqProbe`, as steps of their own.

The order followed so far is importance: what a sample is, how it gets to the
reader, what is printed of it, and how it all starts.

## Not modelled

- SVG rendering and histogram percentiles are libraries; formatting is layout.
- Parsing of `/proc` lines, ELF files and TOML: the models take tables and options.
- `on_tcp_connect` returns 0 and is never attached; `spawn_log_drain` forwards log
  records the probes do not emit; `RedisCommand`, `SyscallEvent` and `EbpfCommand` in
  `aya-test-common` have no caller.
- The build scripts run before the program.
- Redirection of the output, and the paths of files.
- A crash of the collector: nothing is persisted, and a restart is a new boot.
