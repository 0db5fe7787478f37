--------------------------- MODULE RingBufProofs ----------------------------
(***************************************************************************)
(* Proofs about RingBuf, for every number of CPUs, every ring size that    *)
(* satisfies RingRoom and every BATCH_SIZE.                                *)
(*                                                                         *)
(* The inductive invariant Inv relates the ring's unread records to the    *)
(* per-CPU counters: while the reader sleeps after a drain that emptied    *)
(* the ring, the unread records of CPU c carry distinct counter values     *)
(* that do not exceed cnt[c].  A pigeonhole argument then bounds the ring. *)
(***************************************************************************)
EXTENDS RingBuf, FiniteSetTheorems, TLAPS

\* What an output under way knows: its record is reserved, and its flags are
\* those of the ring it writes to.
OutputInv ==
    \A c \in CPUs :
        /\ outp[c].stage = "idle" => outp[c] = Idle
        /\ outp[c].stage # "idle" =>
              /\ outp[c].pos < prodPos
              /\ outp[c].flags = "ADAPTIVE" <=> ~Batched

\* The reader sleeps, nothing will wake it, and its last drain ended because
\* the ring was empty.
Asleep == ~WakeComing /\ stop = "empty"

LabelInv ==
    Batched /\ Asleep =>
        /\ \A p \in Backlog : label[p][2] <= cnt[label[p][1]]
        /\ \A p, q \in Backlog : label[p] = label[q] => p = q

Inv == TypeOK /\ OutputInv /\ NoLostWakeup /\ LabelInv

-----------------------------------------------------------------------------
(* Type correctness *)

LEMMA IdleType == Idle \in Output
BY SMT, RingConstants DEF Idle, Output, Flags

\* An output under way has a reserved position; the type invariant needs it
\* for the set of committed records.
Typed == TypeOK /\ OutputInv

LEMMA InitTyped == Init => Typed
<1> USE RingConstants
<1>1. ASSUME Init
      PROVE  TypeOK
  <2> USE <1>1 DEF Init
  <2>1. Backlog = {}
    BY SMT DEF Backlog
  <2>2. label \in [Backlog -> CPUs \X (1 .. BatchSize)]
    BY <2>1
  <2>3. outp \in [CPUs -> Output]
    BY IdleType
  <2>4. cnt \in [CPUs -> 0 .. BatchSize - 1]
    <3>1. 0 \in 0 .. BatchSize - 1
      BY SMT
    <3> QED BY <3>1
  <2>5. /\ prodPos \in 0 .. MaxEvents /\ consPos \in 0 .. prodPos
        /\ recorded \in 0 .. consPos /\ committed \subseteq 0 .. prodPos - 1
    BY SMT
  <2> QED BY <2>2, <2>3, <2>4, <2>5, Zenon DEF TypeOK
<1>2. Init => OutputInv
  BY DEF Init, OutputInv, Idle
<1> QED BY <1>1, <1>2 DEF Typed

LEMMA NextTyped == Typed /\ [Next]_vars => Typed'
<1> USE RingConstants
<1> SUFFICES ASSUME TypeOK, OutputInv, [Next]_vars
             PROVE  TypeOK' /\ OutputInv'
  BY DEF Typed
<1>1. ASSUME NEW c \in CPUs, output(c)
      PROVE  TypeOK' /\ OutputInv'
  <2> USE <1>1
  <2>0. /\ prodPos \in Nat /\ prodPos < MaxEvents /\ consPos \in 0 .. prodPos
        /\ cnt[c] \in 0 .. BatchSize - 1 /\ NextCount(c) \in 0 .. BatchSize - 1
        /\ WakeFlag(c) \in Flags
    BY SMT DEF output, TypeOK, NextCount, WakeFlag, Flags
  <2>1. cnt' \in [CPUs -> 0 .. BatchSize - 1]
    BY <2>0, SMT DEF output, TypeOK
  <2>2. outp' \in [CPUs -> Output]
    <3>1. [stage |-> "reserved", pos |-> prodPos, flags |-> WakeFlag(c)]
             \in Output
      BY <2>0, SMT DEF Output
    <3> QED BY <3>1, SMT DEF output, TypeOK
  <2>3. label' \in [Backlog' -> CPUs \X (1 .. BatchSize)]
    <3>1. Backlog' = consPos .. prodPos
      BY <2>0, SMT DEF output, Backlog, readerVars
    <3>2. <<c, cnt[c] + 1>> \in CPUs \X (1 .. BatchSize)
      BY <2>0, SMT
    <3>3. ASSUME NEW p \in consPos .. prodPos, p # prodPos
          PROVE  label[p] \in CPUs \X (1 .. BatchSize)
      <4>1. p \in Backlog
        BY <2>0, <3>3, SMT DEF Backlog
      <4> QED BY <4>1 DEF TypeOK
    <3> QED BY <3>1, <3>2, <3>3, SMT DEF output
  <2>4. TypeOK'
    BY <2>0, <2>1, <2>2, <2>3, SMT DEF output, TypeOK, readerVars
  <2>5. OutputInv'
    <3>1. WakeFlag(c) = "ADAPTIVE" <=> ~Batched
      BY SMT DEF WakeFlag
    <3>2. outp'[c] = [stage |-> "reserved", pos |-> prodPos,
                      flags |-> WakeFlag(c)]
      BY SMT DEF output, TypeOK
    <3>3. \A d \in CPUs : d # c => outp'[d] = outp[d]
      BY SMT DEF output, TypeOK
    <3>4. prodPos' = prodPos + 1
      BY DEF output
    <3>5. \A d \in CPUs : outp[d].pos \in Nat
      BY SMT DEF TypeOK, Output
    <3> QED BY <2>0, <3>1, <3>2, <3>3, <3>4, <3>5, SMT DEF OutputInv
  <2> QED BY <2>4, <2>5
<1>2. ASSUME NEW c \in CPUs, output_full(c)
      PROVE  TypeOK' /\ OutputInv'
  <2> USE <1>2
  <2>1. NextCount(c) \in 0 .. BatchSize - 1
    BY SMT DEF TypeOK, NextCount
  <2>2. cnt' \in [CPUs -> 0 .. BatchSize - 1]
    BY <2>1, SMT DEF output_full, TypeOK
  <2> QED BY <2>2, SMT DEF output_full, TypeOK, OutputInv, Backlog, readerVars
<1>3. ASSUME NEW c \in CPUs, ringbuf_publish(c)
      PROVE  TypeOK' /\ OutputInv'
  <2> USE <1>3
  <2>1. outp[c].pos \in 0 .. prodPos - 1
    BY SMT DEF ringbuf_publish, TypeOK, OutputInv, Output
  <2>2. outp' \in [CPUs -> Output]
    BY SMT DEF ringbuf_publish, TypeOK, Output
  <2>3. TypeOK'
    BY <2>1, <2>2, SMT DEF ringbuf_publish, TypeOK, Backlog, readerVars
  <2>4. OutputInv'
    BY SMT DEF ringbuf_publish, OutputInv, TypeOK, Output, Idle
  <2> QED BY <2>3, <2>4
<1>4. ASSUME NEW c \in CPUs, ringbuf_notify(c)
      PROVE  TypeOK' /\ OutputInv'
  <2> USE <1>4
  <2>1. outp' \in [CPUs -> Output]
    BY IdleType, SMT DEF ringbuf_notify, TypeOK
  <2>2. TypeOK'
    BY <2>1, SMT DEF ringbuf_notify, TypeOK, Backlog, Wakes
  <2>3. OutputInv'
    BY SMT DEF ringbuf_notify, OutputInv, TypeOK, Idle
  <2> QED BY <2>2, <2>3
<1>5. ASSUME collect
      PROVE  TypeOK' /\ OutputInv'
  <2> USE <1>5
  <2>1. consPos < prodPos /\ prodPos \in Nat /\ consPos \in Nat
    BY SMT DEF collect, HeadReadable, TypeOK
  <2>2. Backlog' = consPos + 1 .. prodPos - 1
    BY SMT DEF collect, Backlog, kernelVars
  <2>3. \A p \in consPos + 1 .. prodPos - 1 :
           label[p] \in CPUs \X (1 .. BatchSize)
    BY <2>1, SMT DEF TypeOK, Backlog
  <2>4. label' \in [Backlog' -> CPUs \X (1 .. BatchSize)]
    BY <2>2, <2>3, SMT DEF collect
  <2> QED BY <2>1, <2>4, SMT DEF collect, TypeOK, OutputInv, kernelVars
<1>6. ASSUME with_interest \/ io_driver \/ readable \/ collect_end
                \/ clear_ready \/ process_batch
      PROVE  TypeOK' /\ OutputInv'
  <2>1. UNCHANGED <<kernelVars, label, consPos>>
    BY <1>6, Zenon DEF with_interest, io_driver, readable, collect_end,
       clear_ready, process_batch
  <2>2. /\ epoll' \in BOOLEAN /\ ready' \in BOOLEAN /\ fresh' \in BOOLEAN
    BY <1>6, Zenon DEF with_interest, DataThere, io_driver, readable,
       collect_end, clear_ready, StillReady, process_batch, TypeOK
  <2>3. /\ rpc' \in {"start", "await", "collect", "clear", "process"}
        /\ recorded' \in 0 .. consPos
        /\ stop' \in {"empty", "busy"}
    BY <1>6, SMT DEF with_interest, io_driver, readable, collect_end,
       clear_ready, process_batch, TypeOK
  <2> QED BY <2>1, <2>2, <2>3, SMT DEF TypeOK, OutputInv, Backlog, kernelVars
<1>7. ASSUME UNCHANGED vars
      PROVE  TypeOK' /\ OutputInv'
  BY <1>7, SMT DEF vars, kernelVars, readerVars, TypeOK, OutputInv, Backlog
<1> QED
  BY <1>1, <1>2, <1>3, <1>4, <1>5, <1>6, <1>7 DEF Next, Producer, Reader

-----------------------------------------------------------------------------
(* TypeOK: every variable stays in its type; in particular the reader never *)
(* overtakes the producers and BATCH_CNT never reaches BATCH_SIZE.          *)
THEOREM TypeCorrect == Spec => []TypeOK
<1>1. Spec => []Typed
  BY InitTyped, NextTyped, PTL DEF Spec
<1>2. Typed => TypeOK
  BY DEF Typed
<1> QED BY <1>1, <1>2, PTL

-----------------------------------------------------------------------------
(* Wake-ups *)

\* The reader is left without a coming wake-up by two steps only: its first
\* registration with epoll, and the end of a drain.
LEMMA FallAsleep ==
    ASSUME Typed, [Next]_vars, ~WakeComing', WakeComing
    PROVE  with_interest \/ collect_end
<1> USE DEF Typed
<1>1. ASSUME NEW c \in CPUs, output(c)
      PROVE  FALSE
  <2>1. \A d \in CPUs : d # c => outp'[d] = outp[d]
    BY <1>1, SMT DEF output, TypeOK
  <2>2. outp[c].flags = "ADAPTIVE" /\ outp[c].stage = "idle"
    BY <1>1, SMT DEF output, OutputInv, Idle
  <2>3. UNCHANGED readerVars
    BY <1>1 DEF output
  <2> QED BY <2>1, <2>2, <2>3, SMT DEF WakeComing, Wakes, readerVars
<1>2. ASSUME NEW c \in CPUs, output_full(c)
      PROVE  FALSE
  BY <1>2, SMT DEF output_full, WakeComing, Wakes, readerVars
<1>3. ASSUME NEW c \in CPUs, ringbuf_publish(c)
      PROVE  FALSE
  <2>1. \A d \in CPUs : d # c => outp'[d] = outp[d]
    BY <1>3, SMT DEF ringbuf_publish, TypeOK
  <2>2. outp'[c].flags = outp[c].flags /\ outp[c].stage = "reserved"
    BY <1>3, SMT DEF ringbuf_publish, TypeOK, Output
  <2>3. UNCHANGED readerVars
    BY <1>3 DEF ringbuf_publish
  <2> QED BY <2>1, <2>2, <2>3, SMT DEF WakeComing, Wakes, readerVars
<1>4. ASSUME NEW c \in CPUs, ringbuf_notify(c)
      PROVE  FALSE
  <2>1. \A d \in CPUs : d # c => outp'[d] = outp[d]
    BY <1>4, SMT DEF ringbuf_notify, TypeOK
  <2>2. UNCHANGED <<consPos, ready, fresh, rpc>> /\ outp[c].stage = "published"
    BY <1>4 DEF ringbuf_notify
  <2>3. ~epoll' => ~epoll /\ (rpc = "start" \/ ~Wakes(c))
    BY <1>4, Zenon DEF ringbuf_notify
  <2> QED BY <2>1, <2>2, <2>3, SMT DEF WakeComing, Wakes
<1>5. ASSUME io_driver
      PROVE  FALSE
  BY <1>5, SMT DEF io_driver, WakeComing, TypeOK
<1>6. ASSUME readable \/ collect
      PROVE  FALSE
  BY <1>6, SMT DEF readable, collect, WakeComing
<1>7. ASSUME clear_ready \/ process_batch
      PROVE  FALSE
  BY <1>7, SMT DEF clear_ready, StillReady, process_batch, WakeComing, Wakes,
     kernelVars
<1>8. ASSUME UNCHANGED vars
      PROVE  FALSE
  BY <1>8, SMT DEF vars, kernelVars, readerVars, WakeComing, Wakes
<1> QED
  BY <1>1, <1>2, <1>3, <1>4, <1>5, <1>6, <1>7, <1>8 DEF Next, Producer, Reader

\* The adaptive wake-up test of the kernel and the reader's clear_ready leave
\* no finished record at the head of the ring unannounced.
LEMMA NextNoLostWakeup ==
    Typed /\ NoLostWakeup /\ [Next]_vars => NoLostWakeup'
<1> SUFFICES ASSUME Typed, NoLostWakeup, [Next]_vars, ~Batched, ~WakeComing'
             PROVE  ~HeadReadable'
  BY DEF NoLostWakeup
<1> USE DEF Typed
<1>a. WakeComing \/ ~HeadReadable
  BY DEF NoLostWakeup
<1>b. ~WakeComing \/ with_interest \/ collect_end
  BY FallAsleep
<1>c. rpc' # "collect" /\ rpc' # "start" /\ ~epoll'
  BY DEF WakeComing
<1>1. ASSUME NEW c \in CPUs, output(c), ~HeadReadable
      PROVE  ~HeadReadable'
  <2>1. /\ prodPos' = prodPos + 1 /\ UNCHANGED <<consPos, committed>>
        /\ prodPos \in Nat /\ consPos \in 0 .. prodPos
        /\ committed \subseteq 0 .. prodPos - 1
    BY <1>1, SMT DEF output, readerVars, TypeOK
  <2> QED BY <1>1, <2>1, SMT DEF HeadReadable
<1>2. ASSUME NEW c \in CPUs, ringbuf_publish(c), ~HeadReadable
      PROVE  ~HeadReadable'
  <2>1. outp'[c] = [outp[c] EXCEPT !.stage = "published"]
    BY <1>2, SMT DEF ringbuf_publish, TypeOK
  <2>2. outp'[c].stage = "published" /\ outp'[c].flags = "ADAPTIVE"
        /\ outp'[c].pos = outp[c].pos
    BY <1>2, <2>1, SMT DEF ringbuf_publish, OutputInv, TypeOK, Output
  <2>3. outp[c].pos # consPos
    BY <1>2, <2>2, SMT DEF WakeComing, Wakes, ringbuf_publish, readerVars
  <2> QED
    BY <1>2, <2>3, SMT DEF ringbuf_publish, readerVars, HeadReadable
<1>3. ASSUME NEW c \in CPUs, output_full(c) \/ ringbuf_notify(c), ~HeadReadable
      PROVE  ~HeadReadable'
  BY <1>3, SMT DEF output_full, ringbuf_notify, readerVars, HeadReadable
<1>4. ASSUME with_interest
      PROVE  ~HeadReadable'
  <2>1. consPos = prodPos /\ consPos' = consPos /\ prodPos' = prodPos
    BY <1>4, <1>c, Zenon DEF with_interest, DataThere, kernelVars
  <2> QED BY <2>1 DEF HeadReadable
<1>5. ASSUME collect_end
      PROVE  ~HeadReadable'
  BY <1>5, SMT DEF collect_end, Drained, kernelVars, HeadReadable
<1>6. ASSUME io_driver \/ readable \/ clear_ready \/ process_batch, ~HeadReadable
      PROVE  ~HeadReadable'
  BY <1>6, SMT DEF io_driver, readable, clear_ready, process_batch, kernelVars,
     HeadReadable
<1>7. ~collect
  BY <1>c DEF collect
<1>8. ASSUME UNCHANGED vars, ~HeadReadable
      PROVE  ~HeadReadable'
  BY <1>8, SMT DEF vars, kernelVars, readerVars, HeadReadable
<1> QED
  BY <1>a, <1>b, <1>1, <1>2, <1>3, <1>4, <1>5, <1>6, <1>7, <1>8
  DEF Next, Producer, Reader

(* NoLostWakeup: in no interleaving of the kernel's reserve, publish and    *)
(* notify steps with the reader's drain and clear_ready does the reader of  *)
(* STACK_RINGBUF sleep on a finished record.                                *)
THEOREM WakeupSafe == Spec => []NoLostWakeup
<1>1. Init => NoLostWakeup
  BY DEF Init, NoLostWakeup, HeadReadable
<1>2. Typed /\ NoLostWakeup /\ [Next]_vars => (Typed /\ NoLostWakeup)'
  BY NextTyped, NextNoLostWakeup
<1>3. Spec => [](Typed /\ NoLostWakeup)
  BY InitTyped, <1>1, <1>2, PTL DEF Spec
<1> QED BY <1>3, PTL

-----------------------------------------------------------------------------
(* Batching *)

\* While the reader is asleep the ring is not full: label maps the unread
\* records one to one into CPUs \X 1 .. BatchSize - 1.
LEMMA AsleepNotFull ==
    ASSUME Typed, LabelInv, Batched, Asleep
    PROVE  ~Full
<1> USE RingConstants
<1> DEFINE Codes == CPUs \X (1 .. BatchSize - 1)
<1>1. /\ consPos \in Nat /\ prodPos \in Nat /\ consPos <= prodPos
      /\ BatchSize - 1 \in Nat
  BY SMT DEF Typed, TypeOK
<1>2. ASSUME NEW p \in Backlog
      PROVE  label[p] \in Codes
  <2>1. label[p] \in CPUs \X (1 .. BatchSize)
    BY DEF Typed, TypeOK
  <2>2. label[p][2] <= cnt[label[p][1]] /\ cnt[label[p][1]] <= BatchSize - 1
    BY <2>1, SMT DEF Typed, TypeOK, LabelInv
  <2>3. PICK c \in CPUs, n \in 1 .. BatchSize : label[p] = <<c, n>>
    BY <2>1, SMT
  <2>4. n \in 1 .. BatchSize - 1
    BY <2>2, <2>3, SMT DEF Typed, TypeOK
  <2> QED BY <2>3, <2>4
<1>3. label \in Injection(Backlog, Codes)
  <2>1. label \in [Backlog -> Codes]
    BY <1>2 DEF Typed, TypeOK
  <2>2. \A p, q \in Backlog : label[p] = label[q] => p = q
    BY DEF LabelInv
  <2> QED BY <2>1, <2>2 DEF Injection, IsInjective
<1>4. IsFiniteSet(Codes)
      /\ Cardinality(Codes) = Cardinality(CPUs) * Cardinality(1 .. BatchSize - 1)
  <2>1. IsFiniteSet(1 .. BatchSize - 1)
    BY <1>1, FS_Interval, SMT
  <2> QED BY <2>1, FS_Product
<1>5. Cardinality(Backlog) <= Cardinality(CPUs) * (BatchSize - 1)
  <2>1. Cardinality(Backlog) <= Cardinality(Codes)
    BY <1>3, <1>4, FS_Injection
  <2>2. Cardinality(1 .. BatchSize - 1) = BatchSize - 1
    BY <1>1, FS_Interval
  <2> QED BY <2>1, <2>2, <1>4
<1>6. Cardinality(Backlog) = prodPos - consPos
  <2>1. consPos \in Int /\ prodPos - 1 \in Int
    BY <1>1, SMT
  <2>2. Cardinality(Backlog) = IF consPos > prodPos - 1 THEN 0
                               ELSE prodPos - 1 - consPos + 1
    BY <2>1, FS_Interval, Zenon DEF Backlog
  <2> QED BY <1>1, <2>2, SMT
<1>7. Cardinality(CPUs) * (BatchSize - 1) \in Int
  BY <1>1, FS_CardinalityType, SMT
<1> QED BY <1>1, <1>5, <1>6, <1>7, RingRoom, SMT DEF Full

LEMMA NextLabelInv ==
    Typed /\ LabelInv /\ [Next]_vars => LabelInv'
<1> SUFFICES ASSUME Typed, LabelInv, [Next]_vars, Batched, Asleep'
             PROVE  /\ \A p \in Backlog' : label'[p][2] <= cnt'[label'[p][1]]
                    /\ \A p, q \in Backlog' : label'[p] = label'[q] => p = q
  BY DEF LabelInv
<1> DEFINE Goal == /\ \A p \in Backlog' : label'[p][2] <= cnt'[label'[p][1]]
                   /\ \A p, q \in Backlog' : label'[p] = label'[q] => p = q
<1> USE RingConstants DEF Typed
<1>a. ~WakeComing \/ with_interest \/ collect_end
  BY FallAsleep DEF Asleep
<1>b. /\ rpc' # "collect" /\ rpc' # "start" /\ ~epoll' /\ stop' = "empty"
      /\ \A c \in CPUs : outp'[c].flags # "FORCE_WAKEUP"
  BY DEF WakeComing, Asleep
<1>c. ASSUME UNCHANGED <<kernelVars, consPos, label>>, Asleep
      PROVE  Goal
  BY <1>c, SMT DEF LabelInv, kernelVars, Backlog
<1>1. ASSUME NEW c \in CPUs, output(c), ~WakeComing
      PROVE  Goal
  <2>0. Asleep
    BY <1>1, <1>b DEF Asleep, output, readerVars
  <2>1. outp'[c].flags = WakeFlag(c)
    BY <1>1, SMT DEF output, TypeOK
  <2>2. cnt[c] + 1 < BatchSize /\ NextCount(c) = cnt[c] + 1
    BY <2>1, <1>b, SMT DEF WakeFlag, NextCount, TypeOK
  <2>3. /\ cnt'[c] = cnt[c] + 1
        /\ \A d \in CPUs : d # c => cnt'[d] = cnt[d]
    BY <2>2, <1>1, SMT DEF output, TypeOK
  <2>4. /\ prodPos \in Nat /\ consPos \in 0 .. prodPos
        /\ Backlog' = consPos .. prodPos
        /\ label'[prodPos] = <<c, cnt[c] + 1>>
    BY <1>1, SMT DEF output, TypeOK, Backlog, readerVars
  <2>5. ASSUME NEW p \in Backlog', p # prodPos
        PROVE  /\ p \in Backlog
               /\ label'[p] = label[p]
               /\ label[p] \in CPUs \X (1 .. BatchSize)
               /\ label[p][2] <= cnt[label[p][1]]
    <3>1. p \in Backlog
      <4>1. p \in consPos .. prodPos
        BY <2>4, Zenon
      <4> QED BY <4>1, <2>4, <2>5, SMT DEF Backlog
    <3> QED BY <3>1, <2>0, <2>4, <2>5, <1>1 DEF output, TypeOK, LabelInv
  <2>6. \A d \in CPUs : cnt[d] \in Nat
    BY SMT DEF TypeOK
  <2>7. ASSUME NEW p \in Backlog'
        PROVE  label'[p][2] <= cnt'[label'[p][1]]
    <3>1. CASE p = prodPos
      <4>1. label'[p][1] = c /\ label'[p][2] = cnt[c] + 1
        BY <2>4, <3>1
      <4> QED BY <4>1, <2>3, <2>6, SMT
    <3>2. CASE p # prodPos
      <4> DEFINE d == label[p][1]
                 n == label[p][2]
      <4>1. /\ label'[p][1] = d /\ label'[p][2] = n
            /\ d \in CPUs /\ n \in Nat /\ n <= cnt[d]
        BY <2>5, <2>7, <3>2
      <4>2. cnt[d] <= cnt'[d] /\ cnt[d] \in Nat /\ cnt'[d] \in Nat
        <5> HIDE DEF d, n
        <5> QED BY <4>1, <2>3, <2>6, SMT
      <4> HIDE DEF d, n
      <4> QED BY <4>1, <4>2, SMT
    <3> QED BY <3>1, <3>2
  <2>8. ASSUME NEW p \in Backlog', p # prodPos
        PROVE  label'[p] # label'[prodPos]
    <3>1. SUFFICES ASSUME label[p] = <<c, cnt[c] + 1>>
                   PROVE  FALSE
      BY <2>4, <2>5, <2>8
    <3>2. cnt[c] + 1 <= cnt[c]
      BY <2>5, <2>8, <3>1
    <3> QED BY <3>2, <2>6, SMT
  <2>9. ASSUME NEW p \in Backlog', NEW q \in Backlog', label'[p] = label'[q]
        PROVE  p = q
    BY <2>0, <2>5, <2>8, <2>9 DEF LabelInv
  <2> QED BY <2>7, <2>9
<1>2. ASSUME NEW c \in CPUs, output_full(c), ~WakeComing
      PROVE  Goal
  <2>1. Asleep
    BY <1>2, <1>b DEF Asleep, output_full, readerVars
  <2> QED BY <2>1, <1>2, AsleepNotFull DEF output_full
<1>3. ASSUME NEW c \in CPUs, ringbuf_publish(c) \/ ringbuf_notify(c), ~WakeComing
      PROVE  Goal
  <2>1. UNCHANGED <<prodPos, cnt, consPos, label, stop>>
    BY <1>3, SMT DEF ringbuf_publish, ringbuf_notify, readerVars
  <2>2. Asleep
    BY <1>3, <1>b, <2>1 DEF Asleep
  <2> QED BY <2>1, <2>2, SMT DEF LabelInv, Backlog
<1>4. ASSUME with_interest
      PROVE  Goal
  <2>1. consPos = prodPos /\ consPos' = consPos /\ prodPos' = prodPos
    BY <1>4, <1>b, Zenon DEF with_interest, DataThere, kernelVars
  <2>2. Backlog' = {}
    BY <2>1, SMT DEF Backlog, TypeOK
  <2> QED BY <2>2
<1>5. ASSUME collect_end
      PROVE  Goal
  <2>1. consPos = prodPos /\ consPos' = consPos /\ prodPos' = prodPos
    BY <1>5, <1>b, SMT DEF collect_end, kernelVars
  <2>2. Backlog' = {}
    BY <2>1, SMT DEF Backlog, TypeOK
  <2> QED BY <2>2
<1>6. ASSUME io_driver \/ readable \/ clear_ready \/ process_batch, ~WakeComing
      PROVE  Goal
  <2>1. UNCHANGED <<kernelVars, consPos, label, stop>>
    BY <1>6, SMT DEF io_driver, readable, clear_ready, process_batch
  <2> QED BY <1>6, <1>b, <1>c, <2>1 DEF Asleep
<1>7. ~collect
  BY <1>b DEF collect
<1>8. ASSUME UNCHANGED vars, ~WakeComing
      PROVE  Goal
  BY <1>8, <1>b, <1>c DEF vars, readerVars, Asleep
<1> QED
  BY <1>a, <1>1, <1>2, <1>3, <1>4, <1>5, <1>6, <1>7, <1>8
  DEF Next, Producer, Reader

\* The inductive invariant holds in every state.
LEMMA Inductive == Spec => []Inv
<1>1. Init => NoLostWakeup /\ LabelInv
  BY DEF Init, NoLostWakeup, LabelInv, HeadReadable, Asleep, WakeComing
<1>2. Init => Inv
  BY <1>1, InitTyped DEF Inv, Typed
<1>3. Inv /\ [Next]_vars => Inv'
  BY NextTyped, NextNoLostWakeup, NextLabelInv DEF Inv, Typed
<1> QED BY <1>2, <1>3, PTL DEF Spec

(* NoStall: outputs never fail behind the back of a sleeping reader; a full *)
(* ring of latency events means the reader is on its way, or that its last  *)
(* drain was cut short by a record still being written.                     *)
THEOREM NoStallSafe == Spec => []NoStall
<1>1. Inv => NoStall
  BY AsleepNotFull, SMT DEF Inv, Typed, TypeOK, NoStall, Asleep
<1> QED BY <1>1, Inductive, PTL

(* BacklogWithinBatch: what batching leaves unread, while the reader sleeps, *)
(* is at most the current value of the CPU's BATCH_CNT, so never more than   *)
(* BATCH_SIZE - 1 records per CPU.                                           *)
THEOREM BacklogBounded == Spec => []BacklogWithinBatch
<1>1. ASSUME Inv, Batched, Asleep, NEW c \in CPUs
      PROVE  Cardinality({p \in Backlog : label[p][1] = c}) <= cnt[c]
  <2> DEFINE Mine == {p \in Backlog : label[p][1] = c}
             nth == [p \in Mine |-> label[p][2]]
  <2>1. cnt[c] \in Nat
    BY <1>1, RingConstants, SMT DEF Inv, TypeOK
  <2>2. ASSUME NEW p \in Mine
        PROVE  label[p] = <<c, label[p][2]>> /\ label[p][2] \in 1 .. cnt[c]
    <3>1. label[p] \in CPUs \X (1 .. BatchSize)
      BY <1>1 DEF Inv, TypeOK
    <3>2. label[p][2] <= cnt[c]
      BY <1>1 DEF Inv, LabelInv
    <3> QED BY <3>1, <3>2, <2>1, RingConstants, SMT
  <2>3. nth \in Injection(Mine, 1 .. cnt[c])
    <3>1. nth \in [Mine -> 1 .. cnt[c]]
      BY <2>2
    <3>2. ASSUME NEW p \in Mine, NEW q \in Mine, nth[p] = nth[q]
          PROVE  p = q
      <4>1. label[p] = label[q]
        BY <2>2, <3>2
      <4> QED BY <4>1, <1>1 DEF Inv, LabelInv
    <3> QED BY <3>1, <3>2 DEF Injection, IsInjective
  <2>4. IsFiniteSet(1 .. cnt[c]) /\ Cardinality(1 .. cnt[c]) = cnt[c]
    BY <2>1, FS_Interval, SMT
  <2> QED BY <2>3, <2>4, FS_Injection
<1>2. Inv => BacklogWithinBatch
  BY <1>1 DEF BacklogWithinBatch, Asleep
<1> QED BY <1>2, Inductive, PTL

-----------------------------------------------------------------------------
(* The ring implements the event channel *)

\* What the reader has taken was finished.
TakenInv == 0 .. consPos - 1 \subseteq committed

LEMMA TakenStep == TypeOK /\ TakenInv /\ [Next]_vars => TakenInv'
<1> SUFFICES ASSUME TypeOK, TakenInv, [Next]_vars
             PROVE  TakenInv'
  OBVIOUS
<1>1. ASSUME NEW c \in CPUs, Producer(c)
      PROVE  TakenInv'
  BY <1>1, SMT DEF Producer, output, output_full, ringbuf_publish,
                   ringbuf_notify, readerVars, TakenInv
<1>2. CASE collect
  <2>1. consPos' = consPos + 1 /\ consPos \in committed
        /\ committed' = committed /\ consPos \in Nat
    BY <1>2, SMT DEF collect, HeadReadable, kernelVars, TypeOK
  <2> QED BY <2>1, SMT DEF TakenInv
<1>3. CASE with_interest \/ io_driver \/ readable \/ collect_end
           \/ clear_ready \/ process_batch
  BY <1>3, SMT DEF with_interest, io_driver, readable, collect_end,
                   clear_ready, process_batch, kernelVars, TakenInv
<1>4. CASE UNCHANGED vars
  BY <1>4, SMT DEF vars, kernelVars, readerVars, TakenInv
<1> QED BY <1>1, <1>2, <1>3, <1>4 DEF Next, Reader

\* A step of the ring is a step of the channel or leaves it alone: reserving
\* accepts, publishing finishes, processing a batch delivers.
LEMMA ChannelStep ==
    TypeOK /\ OutputInv /\ TakenInv /\ [Next]_vars => [Channel!Next]_(Channel!vars)
<1> SUFFICES ASSUME TypeOK, OutputInv, TakenInv, [Next]_vars
             PROVE  Channel!Next \/ UNCHANGED <<prodPos, committed, recorded>>
  BY DEF Channel!vars
<1>1. ASSUME NEW c \in CPUs, output(c)
      PROVE  Channel!Accept
  BY <1>1, SMT DEF output, readerVars, Channel!Accept
<1>2. ASSUME NEW c \in CPUs, ringbuf_publish(c)
      PROVE  Channel!Finish
  <2>1. outp[c].pos \in 0 .. prodPos - 1
    BY <1>2, SMT DEF ringbuf_publish, TypeOK, OutputInv, Output
  <2> QED BY <1>2, <2>1, SMT DEF ringbuf_publish, readerVars, Channel!Finish
<1>3. ASSUME process_batch
      PROVE  Channel!Deliver \/ UNCHANGED <<prodPos, committed, recorded>>
  <2>1. recorded' = consPos /\ UNCHANGED <<prodPos, committed>>
    BY <1>3 DEF process_batch, kernelVars
  <2>2. recorded \in 0 .. consPos /\ consPos \in 0 .. prodPos /\ prodPos \in Nat
    BY SMT DEF TypeOK
  <2>3. CASE recorded = consPos
    BY <2>1, <2>3
  <2>4. CASE recorded # consPos
    <3>1. consPos \in recorded + 1 .. prodPos
      BY <2>2, <2>4, SMT
    <3>2. recorded .. consPos - 1 \subseteq committed
      BY <2>2, SMT DEF TakenInv
    <3> QED BY <2>1, <3>1, <3>2 DEF Channel!Deliver
  <2> QED BY <2>3, <2>4
<1>4. ASSUME NEW c \in CPUs, output_full(c) \/ ringbuf_notify(c)
      PROVE  UNCHANGED <<prodPos, committed, recorded>>
  BY <1>4, Zenon DEF output_full, ringbuf_notify, readerVars
<1>5. CASE with_interest \/ io_driver \/ readable \/ collect \/ collect_end
           \/ clear_ready
  BY <1>5, Zenon DEF with_interest, io_driver, readable, collect, collect_end,
                     clear_ready, kernelVars
<1>6. CASE UNCHANGED vars
  BY <1>6, Zenon DEF vars, kernelVars, readerVars
<1> QED BY <1>1, <1>2, <1>3, <1>4, <1>5, <1>6
        DEF Next, Producer, Reader, Channel!Next

\* RingBuf implements EventChannel: records are processed in order, each once,
\* and none before its CPU has finished it, in both rings, for any number of
\* CPUs, any capacity and any interleaving.
THEOREM ImplementsChannel == Spec => ChannelSpec
<1>1. Init => Channel!Init /\ TakenInv
  BY SMT DEF Init, Channel!Init, TakenInv
<1>2. Typed /\ TakenInv /\ [Next]_vars
         => (Typed /\ TakenInv)' /\ [Channel!Next]_(Channel!vars)
  BY NextTyped, TakenStep, ChannelStep DEF Typed
<1> QED BY <1>1, <1>2, InitTyped, PTL DEF Spec, ChannelSpec, Channel!Spec
=============================================================================
