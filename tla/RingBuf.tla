------------------------------ MODULE RingBuf -------------------------------
(***************************************************************************)
(* One eBPF ring buffer from the probe that fills it to the task that      *)
(* drains it.  Batched = TRUE is LATENCY_RINGBUF: on each CPU only every   *)
(* BATCH_SIZE-th output asks for a wake-up, the others forbid one.         *)
(* Batched = FALSE is STACK_RINGBUF: flags 0, the kernel decides.          *)
(*                                                                         *)
(* Records are named by their position; prodPos and consPos are the ring's *)
(* producer and consumer positions, counted in records.  An output is      *)
(* three kernel steps: reserve (the record is busy), publish (clear the    *)
(* busy bit) and notify (compare the consumer position, wake the poller).  *)
(* The consumer stops at a busy record.  label and stop are history.       *)
(***************************************************************************)
EXTENDS Integers, FiniteSets

CONSTANTS
    CPUs,        \* processors; at most one output is under way on each
    Capacity,    \* records the ring holds
    BatchSize,   \* BATCH_SIZE
    Batched,     \* which of the two rings this is
    MaxEvents    \* bound: records that ever enter the ring

ASSUME RingConstants ==
    /\ IsFiniteSet(CPUs)
    /\ Capacity \in Nat \ {0}
    /\ BatchSize \in Nat \ {0}
    /\ Batched \in BOOLEAN
    /\ MaxEvents \in Nat

\* The ring holds more than the CPUs can leave in it without asking for a
\* wake-up: 4 MiB is 58254 records of 72 bytes, 15 for each of 3883 CPUs.
ASSUME RingRoom == Capacity > Cardinality(CPUs) * (BatchSize - 1)

VARIABLES
    prodPos,     \* positions handed out
    consPos,     \* positions consumed
    committed,   \* positions whose busy bit is clear
    cnt,         \* BATCH_CNT, one per CPU
    outp,        \* CPU -> the output under way on it
    epoll,       \* the poller has an unseen wake-up
    ready,       \* tokio's readiness flag
    fresh,       \* readiness was set again after the reader last took it
    rpc,         \* where the reader task stands
    recorded,    \* positions whose batch has been processed
    label,       \* history: unread position -> <<CPU, BATCH_CNT + 1>>
    stop         \* history: why the reader's last drain ended

kernelVars == <<prodPos, committed, cnt, outp>>
readerVars == <<consPos, epoll, ready, fresh, rpc, recorded, stop>>
vars == <<kernelVars, readerVars, label>>

Positions == 0 .. MaxEvents - 1
Backlog == consPos .. prodPos - 1
Flags == {"ADAPTIVE", "NO_WAKEUP", "FORCE_WAKEUP"}
Output == [stage : {"idle", "reserved", "published"}, pos : 0 .. MaxEvents,
           flags : Flags]
Idle == [stage |-> "idle", pos |-> 0, flags |-> "ADAPTIVE"]

TypeOK ==
    /\ prodPos \in 0 .. MaxEvents
    /\ consPos \in 0 .. prodPos
    /\ committed \subseteq 0 .. prodPos - 1
    /\ cnt \in [CPUs -> 0 .. BatchSize - 1]
    /\ outp \in [CPUs -> Output]
    /\ epoll \in BOOLEAN
    /\ ready \in BOOLEAN
    /\ fresh \in BOOLEAN
    /\ rpc \in {"start", "await", "collect", "clear", "process"}
    /\ recorded \in 0 .. consPos
    /\ label \in [Backlog -> CPUs \X (1 .. BatchSize)]
    /\ stop \in {"empty", "busy"}

Init ==
    /\ prodPos = 0
    /\ consPos = 0
    /\ committed = {}
    /\ cnt = [c \in CPUs |-> 0]
    /\ outp = [c \in CPUs |-> Idle]
    /\ epoll = FALSE
    /\ ready = FALSE
    /\ fresh = FALSE
    /\ rpc = "start"
    /\ recorded = 0
    /\ label = [p \in Backlog |-> <<>>]
    /\ stop = "empty"

-----------------------------------------------------------------------------
(* The producers *)

\* BATCH_CNT and the wake-up flag it selects.  Mutants: the counter is not
\* reset; the comparison is off by one.
NextCountNoReset(c) == IF ~Batched THEN cnt[c] ELSE cnt[c] + 1
WakeFlagLate(c) ==
    IF ~Batched THEN "ADAPTIVE"
    ELSE IF cnt[c] + 1 > BatchSize THEN "FORCE_WAKEUP" ELSE "NO_WAKEUP"

NextCount(c) ==
    IF ~Batched THEN cnt[c]
    ELSE IF cnt[c] + 1 >= BatchSize THEN 0 ELSE cnt[c] + 1

WakeFlag(c) ==
    IF ~Batched THEN "ADAPTIVE"
    ELSE IF cnt[c] + 1 >= BatchSize THEN "FORCE_WAKEUP" ELSE "NO_WAKEUP"

Full == prodPos - consPos >= Capacity

\* output: BATCH_CNT is stepped and a record is reserved and filled.
output(c) ==
    /\ outp[c].stage = "idle"
    /\ ~Full
    /\ prodPos < MaxEvents
    /\ cnt' = [cnt EXCEPT ![c] = NextCount(c)]
    /\ outp' = [outp EXCEPT ![c] = [stage |-> "reserved", pos |-> prodPos,
                                    flags |-> WakeFlag(c)]]
    /\ prodPos' = prodPos + 1
    /\ label' = [p \in consPos .. prodPos |->
                    IF p = prodPos THEN <<c, cnt[c] + 1>> ELSE label[p]]
    /\ UNCHANGED <<committed, readerVars>>

\* output on a full ring: BATCH_CNT is stepped all the same, the error is
\* ignored, the event is gone, and so is the wake-up it may have carried.
output_full(c) ==
    /\ outp[c].stage = "idle"
    /\ Full
    /\ cnt' = [cnt EXCEPT ![c] = NextCount(c)]
    /\ UNCHANGED <<prodPos, committed, outp, label, readerVars>>

ringbuf_publish(c) ==
    /\ outp[c].stage = "reserved"
    /\ committed' = committed \cup {outp[c].pos}
    /\ outp' = [outp EXCEPT ![c].stage = "published"]
    /\ UNCHANGED <<prodPos, cnt, label, readerVars>>

\* Flags 0 wake the consumer only when it waits for this very record.  A
\* wake-up before the reader has registered reaches nobody.
Wakes(c) ==
    \/ outp[c].flags = "FORCE_WAKEUP"
    \/ outp[c].flags = "ADAPTIVE" /\ outp[c].pos = consPos

ringbuf_notify(c) ==
    /\ outp[c].stage = "published"
    /\ outp' = [outp EXCEPT ![c] = Idle]
    /\ epoll' = (epoll \/ (rpc # "start" /\ Wakes(c)))
    /\ UNCHANGED <<prodPos, committed, cnt, label>>
    /\ UNCHANGED <<consPos, ready, fresh, rpc, recorded, stop>>

-----------------------------------------------------------------------------
(* The reader task and tokio's I/O driver *)

\* AsyncFd::with_interest: registering with epoll reports data already there.
DataThere == consPos # prodPos

with_interest ==
    /\ rpc = "start"
    /\ rpc' = "await"
    /\ epoll' = DataThere
    /\ UNCHANGED <<kernelVars, label, consPos, ready, fresh, recorded, stop>>

\* tokio's driver takes the edge from epoll and sets the readiness flag.
io_driver ==
    /\ epoll
    /\ epoll' = FALSE
    /\ ready' = TRUE
    /\ fresh' = TRUE
    /\ UNCHANGED <<kernelVars, label, consPos, rpc, recorded, stop>>

\* readable_mut().await
readable ==
    /\ rpc = "await"
    /\ ready
    /\ fresh' = FALSE
    /\ rpc' = "collect"
    /\ UNCHANGED <<kernelVars, label, consPos, epoll, ready, recorded, stop>>

\* Mutant: the busy bit is not looked at.
HeadUnchecked == consPos # prodPos
HeadReadable == consPos # prodPos /\ consPos \in committed

\* next() returns a record, which is pushed to the batch.
collect ==
    /\ rpc = "collect"
    /\ HeadReadable
    /\ consPos' = consPos + 1
    /\ label' = [p \in consPos + 1 .. prodPos - 1 |-> label[p]]
    /\ UNCHANGED <<kernelVars, epoll, ready, fresh, rpc, recorded, stop>>

\* next() returns None: the ring is empty, or its first record is busy.
\* Mutant: one record per wake-up (if let for while let).
DrainedOnce == TRUE
Drained == ~HeadReadable

collect_end ==
    /\ rpc = "collect"
    /\ Drained
    /\ rpc' = "clear"
    /\ stop' = IF consPos = prodPos THEN "empty" ELSE "busy"
    /\ UNCHANGED <<kernelVars, label, consPos, epoll, ready, fresh, recorded>>

\* guard.clear_ready(): a no-op if the driver set readiness since readable.
StillReady == fresh

clear_ready ==
    /\ rpc = "clear"
    /\ ready' = StillReady
    /\ rpc' = "process"
    /\ UNCHANGED <<kernelVars, label, consPos, epoll, fresh, recorded, stop>>

\* Phase 2: the batch is recorded (module Collector has the detail).
process_batch ==
    /\ rpc = "process"
    /\ recorded' = consPos
    /\ rpc' = "await"
    /\ UNCHANGED <<kernelVars, label, consPos, epoll, ready, fresh, stop>>

Reader == readable \/ collect \/ collect_end \/ clear_ready \/ process_batch

Producer(c) ==
    output(c) \/ output_full(c) \/ ringbuf_publish(c) \/ ringbuf_notify(c)

Next == (\E c \in CPUs : Producer(c)) \/ with_interest \/ io_driver \/ Reader

Spec == Init /\ [][Next]_vars

\* A probe that has begun an output finishes it, and the tokio runtime keeps
\* polling its driver and its ready tasks.  Nothing makes new events come.
FairSpec ==
    /\ Spec
    /\ \A c \in CPUs : WF_vars(ringbuf_publish(c)) /\ WF_vars(ringbuf_notify(c))
    /\ WF_vars(with_interest)
    /\ WF_vars(io_driver)
    /\ WF_vars(Reader)

-----------------------------------------------------------------------------
(* Properties *)

\* Something already under way will make the reader look at the ring again.
WakeComing ==
    \/ rpc \in {"start", "collect"}
    \/ epoll
    \/ rpc = "clear" /\ fresh
    \/ rpc \in {"await", "process"} /\ ready
    \/ \E c \in CPUs : outp[c].flags = "FORCE_WAKEUP"
    \/ \E c \in CPUs : outp[c].stage = "published" /\ Wakes(c)

\* STACK_RINGBUF: the reader never sleeps on a finished record.  Clearing
\* readiness after the drain, and the kernel's position test, do not lose a
\* wake-up in any interleaving.
NoLostWakeup ==
    ~Batched /\ ~WakeComing => ~HeadReadable

\* LATENCY_RINGBUF: while the reader sleeps and nothing will wake it, each CPU
\* has at most BATCH_CNT records in the ring, provided the reader's last drain
\* emptied the ring.
BacklogWithinBatch ==
    Batched /\ ~WakeComing /\ stop = "empty" =>
        \A c \in CPUs :
            Cardinality({p \in Backlog : label[p][1] = c}) <= cnt[c]

\* LATENCY_RINGBUF: a full ring, on which every further output fails without
\* waking anybody, is never left with a sleeping reader, unless the reader's
\* last drain was cut short by a busy record.
NoStall ==
    Batched /\ Full /\ ~WakeComing => stop = "busy"

\* Every record that enters the ring is eventually processed.
EveryRecordProcessed ==
    \A p \in Positions : p < prodPos ~> p < recorded

\* LATENCY_RINGBUF: a record that forces a wake-up is eventually processed,
\* and all records before it, unless the drain stops at a busy record.
ForcedRecordProcessed ==
    \A p \in Positions :
        p \in Backlog /\ label[p][2] = BatchSize
            ~> p < recorded \/ stop = "busy"

\* The ring and its reader are an event channel: whatever the interleaving of
\* reserve, publish, notify and drain, records are processed in order, each
\* once, and none that its CPU is still writing.
Channel == INSTANCE EventChannel
              WITH accepted <- prodPos, finished <- committed,
                   delivered <- recorded

ChannelSpec == Channel!Spec

\* STACK_RINGBUF: and no finished record is left in it.
ChannelLive == Channel!FairSpec
=============================================================================
