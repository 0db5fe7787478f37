------------------------------ MODULE ReqProbe ------------------------------
(***************************************************************************)
(* The latency probes of aya-test-ebpf/src/main.rs: fentry and fexit of    *)
(* tcp_recvmsg, fexit of tcp_sendmsg, and the REQ_CTX hash map they share. *)
(*                                                                         *)
(* A probe runs in the context of the kernel thread that makes the system  *)
(* call, so several run at once.  What is atomic is one access to shared   *)
(* state: a map helper call, a clock read, a read of user memory, a read   *)
(* or a write of one word through a pointer into the map.                  *)
(*                                                                         *)
(* REQ_CTX is preallocated: a lookup returns a pointer to an element, and  *)
(* the element may be taken for another key before the pointer is used.    *)
(*                                                                         *)
(* aya's ctx.pid() is the kernel's thread id and ctx.tgid() the process    *)
(* id; a thread is named here by its thread id, and Tgid gives its process.*)
(* The fields req, by, sk, start, now, last and seen of an event, and req  *)
(* and by of a context, are history: the program does not have them.  by   *)
(* is the set of threads that have written into a context.                 *)
(***************************************************************************)
EXTENDS Integers, Sequences

CONSTANTS
    Threads,     \* thread ids
    Tgid,        \* thread id -> process id (the id of its main thread)
    Target,      \* the value in TARGET_PID; 0 means trace everything
    Socks,       \* TCP sockets
    RcvSaddr,    \* socket -> local IPv4 address, offset 4 of struct sock
    Dport,       \* socket -> remote port, offset 12 of struct sock
    Bufs,        \* addresses of user receive buffers
    Payloads,    \* what the first 32 bytes of a request can be
    Zero,        \* 32 zero bytes
    None,        \* no map entry, no pointer
    RetVals,     \* values tcp_sendmsg returns
    Elems,       \* the elements REQ_CTX has room for: 10240 of them
    Spares,      \* one more element per CPU, for replacing an entry
    MaxLatency,  \* samples above it are discarded
    Modulus,     \* 2^64: the clock arithmetic wraps
    MaxTime,     \* bound: last value of the clock
    MaxRecv,     \* bound: number of traced tcp_recvmsg calls
    MaxSend      \* bound: number of traced tcp_sendmsg calls

PortMod == 65536

Procs == {Tgid[t] : t \in Threads}

Data == Payloads \cup {Zero}

Times == 0 .. MaxTime

\* A clock value is far below the wrap: ktime counts nanoseconds since boot.
ASSUME ProbeConstants ==
    /\ Threads \subseteq Nat \ {0}
    /\ Tgid \in [Threads -> Threads]
    /\ \A t \in Threads : Tgid[Tgid[t]] = Tgid[t]
    /\ Target \in Nat
    /\ RcvSaddr \in [Socks -> Nat]
    /\ Dport \in [Socks -> 0 .. PortMod - 1]
    /\ Bufs \subseteq Nat \ {0}
    /\ RetVals \subseteq Int
    /\ Elems \cap Spares = {}
    /\ Spares # {}
    /\ MaxLatency \in Nat
    /\ MaxTime \in Nat
    /\ Modulus \in Nat
    /\ MaxTime + MaxLatency < Modulus
    /\ MaxRecv \in Nat
    /\ MaxSend \in Nat

VARIABLES
    clock,       \* bpf_ktime_get_ns
    mem,         \* process -> user buffer -> its first 32 bytes
    ref,         \* REQ_CTX: process id -> the element of its entry, or None
    reqCtx,      \* REQ_CTX: element -> the ReqCtx in it
    spare,       \* REQ_CTX: elements kept for replacing, one per CPU
    pc,          \* thread -> where its system call or probe stands
    recv,        \* thread -> arguments and locals of its tcp_recvmsg probes
    send,        \* thread -> arguments and locals of its tcp_sendmsg probe
    out,         \* events handed to LATENCY_RINGBUF.output, in order
    nreq,        \* traced tcp_recvmsg calls so far
    nsend,       \* traced tcp_sendmsg calls so far
    last,        \* history: thread -> its latest traced tcp_recvmsg
    seen         \* history: thread -> its buffer when that call returned

map == <<ref, reqCtx, spare>>

vars == <<clock, mem, map, pc, recv, send, out, nreq, nsend, last, seen>>

-----------------------------------------------------------------------------
(* Types *)

\* lo and hi are the two halves of req_data.
ReqCtx == [start : Times, iov : Bufs \cup {0}, client : Nat, lo : Data,
           hi : Data, req : 0 .. MaxRecv, by : SUBSET Threads]

Places == Elems \cup Spares

ASSUME NoneIsNoPlace == None \notin Places

\* The words a sample is made of, and those the fexit of tcp_recvmsg writes.
CopyWords == {"start", "client", "lo", "hi"}
\* Mutant: iov_base is not cleared.
StoreWordsData == {"lo", "hi"}
StoreWords == {"lo", "hi", "iov"}

\* ptr is the pointer a lookup returned, todo what is still to go through it.
RecvCall == [buf : Bufs \cup {0}, start : Times, iov : Bufs \cup {0},
             client : Nat, data : Data, ptr : Places \cup {None},
             todo : SUBSET StoreWords]

SendCall == [now : Times, ret : RetVals \cup {0}, sk : Socks \cup {None},
             ptr : Places \cup {None}, todo : SUBSET CopyWords, ctx : ReqCtx,
             last : 0 .. MaxRecv, seen : Data]

LatencyEvent == [pid : Threads, tid : Procs, latency : Nat, bytes : Nat,
                 ip : Nat, port : Nat, err : {0, 1}, lo : Data, hi : Data,
                 req : 0 .. MaxRecv, by : SUBSET Threads,
                 sk : Socks \cup {None}, start : Times, now : Times,
                 last : 0 .. MaxRecv, seen : Data]

Steps == {"user", "recv_insert", "recv_body", "ret_get", "ret_iov", "ret_read",
          "ret_ptr", "ret_store", "send_get", "send_copy", "send_remove",
          "send_output"}

Blank == [start |-> 0, iov |-> 0, client |-> 0, lo |-> Zero, hi |-> Zero,
          req |-> 0, by |-> {}]

NoRecv == [buf |-> 0, start |-> 0, iov |-> 0, client |-> 0, data |-> Zero,
           ptr |-> None, todo |-> {}]

NoSend == [now |-> 0, ret |-> 0, sk |-> None, ptr |-> None, todo |-> {},
           ctx |-> Blank, last |-> 0, seen |-> Zero]

TypeOK ==
    /\ clock \in Times
    /\ mem \in [Procs -> [Bufs -> Data]]
    /\ ref \in [Procs -> Places \cup {None}]
    /\ reqCtx \in [Places -> ReqCtx]
    /\ spare \in SUBSET Places
    /\ pc \in [Threads -> Steps]
    /\ recv \in [Threads -> RecvCall]
    /\ send \in [Threads -> SendCall]
    /\ out \in Seq(LatencyEvent)
    /\ nreq \in 0 .. MaxRecv
    /\ nsend \in 0 .. MaxSend
    /\ last \in [Threads -> 0 .. MaxRecv]
    /\ seen \in [Threads -> Data]

-----------------------------------------------------------------------------
Init ==
    /\ clock = 0
    /\ mem = [p \in Procs |-> [b \in Bufs |-> Zero]]
    /\ ref = [p \in Procs |-> None]
    /\ reqCtx = [e \in Places |-> Blank]
    /\ spare = Spares
    /\ pc = [t \in Threads |-> "user"]
    /\ recv = [t \in Threads |-> NoRecv]
    /\ send = [t \in Threads |-> NoSend]
    /\ out = <<>>
    /\ nreq = 0
    /\ nsend = 0
    /\ last = [t \in Threads |-> 0]
    /\ seen = [t \in Threads |-> Zero]

\* is_target_pid(ctx.pid()): the thread id is compared with TARGET_PID.
is_target_pid(t) == Target = 0 \/ t = Target

\* The key of REQ_CTX: ctx.tgid().  Mutant: one slot for everybody.
KeyShared(t) == CHOOSE p \in Procs : \A q \in Procs : p <= q
Key(t) == Tgid[t]

\* client_packed: address and port in one word, and its two halves.
Pack(ip, port) == ip * PortMod + port
PackedIp(c) == c \div PortMod
PackedPort(c) == c % PortMod

Goto(t, l) == pc' = [pc EXCEPT ![t] = l]

\* The probe, or the system call, is over and its locals are gone.
Return(t) ==
    /\ Goto(t, "user")
    /\ recv' = [recv EXCEPT ![t] = NoRecv]
    /\ send' = [send EXCEPT ![t] = NoSend]

\* Buffers of the process with a receive in progress: a program does not
\* receive twice into one.
BusyBufs(t) == {recv[u].buf : u \in {v \in Threads : Tgid[v] = Tgid[t]}}

-----------------------------------------------------------------------------
(* tcp_recvmsg *)

\* fentry up to the map insertion: filter, clock, address and iov_base.  The
\* read of iov_base may fail, which leaves 0.
try_on_recvmsg(t, s, b) ==
    /\ pc[t] = "user"
    /\ is_target_pid(t)
    /\ b \notin BusyBufs(t)
    /\ nreq < MaxRecv
    /\ \E iov \in {b, 0} :
          recv' = [recv EXCEPT ![t] =
                     [NoRecv EXCEPT !.buf = b, !.start = clock, !.iov = iov,
                                    !.client = Pack(RcvSaddr[s], Dport[s])]]
    /\ Goto(t, "recv_insert")
    /\ nreq' = nreq + 1
    /\ last' = [last EXCEPT ![t] = nreq + 1]
    /\ UNCHANGED <<clock, mem, map, send, out, nsend, seen>>

\* A thread the filter rejects: both probes of the call return at once.
untraced_recvmsg(t, b) ==
    /\ pc[t] = "user"
    /\ ~is_target_pid(t)
    /\ b \notin BusyBufs(t)
    /\ \E d \in Payloads : mem' = [mem EXCEPT ![Tgid[t]][b] = d]
    /\ UNCHANGED <<clock, map, pc, recv, send, out, nreq, nsend, last, seen>>

\* The elements on the kernel's free lists.
Free == Places \ (spare \cup {ref[p] : p \in Procs})

\* The element an insertion into k takes: which one depends on the CPU.  Mutant:
\* with BPF_NOEXIST.
CandidatesNoExist(k) == IF ref[k] = None THEN Free ELSE {}
Candidates(k) == IF ref[k] = None THEN Free ELSE spare

\* The ReqCtx that fentry builds.  Mutant: req_data is not reset.
NewCtxStale(t) ==
    LET old == IF ref[Key(t)] = None THEN Blank ELSE reqCtx[ref[Key(t)]]
    IN [start |-> recv[t].start, iov |-> recv[t].iov, client |-> recv[t].client,
        lo |-> old.lo, hi |-> old.hi, req |-> last[t], by |-> {t}]
NewCtx(t) ==
    [start |-> recv[t].start, iov |-> recv[t].iov, client |-> recv[t].client,
     lo |-> Zero, hi |-> Zero, req |-> last[t], by |-> {t}]

\* REQ_CTX.insert with flags 0 (BPF_ANY); a failure, for want of an element, is
\* ignored.  The element replaced becomes the spare one of the CPU.
reqctx_insert(t) ==
    /\ pc[t] = "recv_insert"
    /\ LET k == Key(t)
       IN IF Candidates(k) = {}
          THEN UNCHANGED map
          ELSE \E e \in Candidates(k) :
                 /\ ref' = [ref EXCEPT ![k] = e]
                 /\ reqCtx' = [reqCtx EXCEPT ![e] = NewCtx(t)]
                 /\ spare' = IF ref[k] = None THEN spare
                                              ELSE (spare \ {e}) \cup {ref[k]}
    /\ Goto(t, "recv_body")
    /\ UNCHANGED <<clock, mem, recv, send, out, nreq, nsend, last, seen>>

\* The body of tcp_recvmsg: bytes arrive in the buffer, or none do (EOF,
\* EAGAIN, error) and the buffer keeps what an earlier call left there.
tcp_recvmsg(t) ==
    /\ pc[t] = "recv_body"
    /\ \E d \in Payloads \cup {mem[Tgid[t]][recv[t].buf]} :
          /\ mem' = [mem EXCEPT ![Tgid[t]][recv[t].buf] = d]
          /\ seen' = [seen EXCEPT ![t] = d]
    /\ Goto(t, "ret_get")
    /\ UNCHANGED <<clock, map, recv, send, out, nreq, nsend, last>>

\* fexit, step A: the lookup; no entry ends it.
recvmsg_ret_get(t) ==
    /\ pc[t] = "ret_get"
    /\ LET e == ref[Key(t)]
       IN IF e = None
          THEN Return(t)
          ELSE /\ recv' = [recv EXCEPT ![t].ptr = e]
               /\ Goto(t, "ret_iov")
               /\ UNCHANGED send
    /\ UNCHANGED <<clock, mem, map, out, nreq, nsend, last, seen>>

\* iov_base is read through the pointer; 0 ends the probe.
recvmsg_ret_iov(t) ==
    /\ pc[t] = "ret_iov"
    /\ LET iov == reqCtx[recv[t].ptr].iov
       IN IF iov = 0
          THEN Return(t)
          ELSE /\ recv' = [recv EXCEPT ![t].iov = iov, ![t].ptr = None]
               /\ Goto(t, "ret_read")
               /\ UNCHANGED send
    /\ UNCHANGED <<clock, mem, map, out, nreq, nsend, last, seen>>

\* fexit, step B: bpf_probe_read_user, whose failure leaves zeros.  It reads
\* the memory of the process that runs, whoever put iov_base there.
recvmsg_ret_read(t) ==
    /\ pc[t] = "ret_read"
    /\ \E d \in {mem[Tgid[t]][recv[t].iov], Zero} :
          recv' = [recv EXCEPT ![t].data = d]
    /\ Goto(t, "ret_ptr")
    /\ UNCHANGED <<clock, mem, map, send, out, nreq, nsend, last, seen>>

\* fexit, step C: get_ptr_mut.
recvmsg_ret_ptr(t) ==
    /\ pc[t] = "ret_ptr"
    /\ LET e == ref[Key(t)]
       IN IF e = None
          THEN Return(t)
          ELSE /\ recv' = [recv EXCEPT ![t].ptr = e, ![t].todo = StoreWords]
               /\ Goto(t, "ret_store")
               /\ UNCHANGED send
    /\ UNCHANGED <<clock, mem, map, out, nreq, nsend, last, seen>>

\* A context after one word of the store.
StoredIn(c, t, w) ==
    CASE w = "lo" -> [c EXCEPT !.lo = recv[t].data, !.by = @ \cup {t}]
      [] w = "hi" -> [c EXCEPT !.hi = recv[t].data, !.by = @ \cup {t}]
      [] w = "iov" -> [c EXCEPT !.iov = 0, !.by = @ \cup {t}]

\* The plain store through the pointer, a word at a time and in any order.  The
\* element is written to whatever has become of it since the lookup.
recvmsg_ret_store(t) ==
    /\ pc[t] = "ret_store"
    /\ \E w \in recv[t].todo :
          /\ reqCtx' = [reqCtx EXCEPT ![recv[t].ptr] =
                           StoredIn(reqCtx[recv[t].ptr], t, w)]
          /\ IF recv[t].todo = {w}
             THEN Return(t)
             ELSE /\ recv' = [recv EXCEPT ![t].todo = @ \ {w}]
                  /\ UNCHANGED <<pc, send>>
    /\ UNCHANGED <<clock, mem, ref, spare, out, nreq, nsend, last, seen>>

-----------------------------------------------------------------------------
(* tcp_sendmsg *)

\* fexit up to the map lookup: filter, clock and return value.  The socket is
\* known to the kernel; the probe does not look at it.
try_on_sendmsg(t, s) ==
    /\ pc[t] = "user"
    /\ is_target_pid(t)
    /\ nsend < MaxSend
    /\ \E ret \in RetVals :
          send' = [send EXCEPT ![t] =
                     [NoSend EXCEPT !.now = clock, !.ret = ret, !.sk = s,
                                    !.last = last[t], !.seen = seen[t]]]
    /\ nsend' = nsend + 1
    /\ Goto(t, "send_get")
    /\ UNCHANGED <<clock, mem, map, recv, out, nreq, last, seen>>

\* The lookup in REQ_CTX.get(&tid).copied().
sendmsg_get(t) ==
    /\ pc[t] = "send_get"
    /\ LET e == ref[Key(t)]
       IN IF e = None
          THEN Return(t)
          ELSE /\ send' = [send EXCEPT ![t].ptr = e, ![t].todo = CopyWords]
               /\ Goto(t, "send_copy")
               /\ UNCHANGED recv
    /\ UNCHANGED <<clock, mem, map, out, nreq, nsend, last, seen>>

\* A copy after one more word of c.
CopiedFrom(copy, c, w) ==
    LET all == [copy EXCEPT !.by = @ \cup c.by]
    IN CASE w = "start"  -> [all EXCEPT !.start = c.start, !.req = c.req]
         [] w = "client" -> [all EXCEPT !.client = c.client]
         [] w = "lo"     -> [all EXCEPT !.lo = c.lo]
         [] w = "hi"     -> [all EXCEPT !.hi = c.hi]

\* The copy in copied(), a word at a time and in any order.
sendmsg_copy(t) ==
    /\ pc[t] = "send_copy"
    /\ \E w \in send[t].todo :
          /\ send' = [send EXCEPT
                         ![t].ctx = CopiedFrom(@, reqCtx[send[t].ptr], w),
                         ![t].todo = @ \ {w}]
          /\ Goto(t, IF send[t].todo = {w} THEN "send_remove" ELSE "send_copy")
    /\ UNCHANGED <<clock, mem, map, recv, out, nreq, nsend, last, seen>>

\* now.wrapping_sub(start_ns)
Latency(t) == (send[t].now - send[t].ctx.start) % Modulus

\* latency_ns <= 10_000_000_000.  Mutant: no filter.
AcceptedAlways(t) == TRUE
Accepted(t) == Latency(t) <= MaxLatency

\* HashMap::remove, which puts the element on a free list at once.  Mutant: the
\* context is used and kept.
RemovedNot(k) == ref
Removed(k) == [ref EXCEPT ![k] = None]

\* REQ_CTX.remove(&tid), then the sample is dropped if it is too long.
sendmsg_remove(t) ==
    /\ pc[t] = "send_remove"
    /\ ref' = Removed(Key(t))
    /\ IF Accepted(t)
       THEN Goto(t, "send_output") /\ UNCHANGED <<recv, send>>
       ELSE Return(t)
    /\ UNCHANGED <<clock, mem, reqCtx, spare, out, nreq, nsend, last, seen>>

\* Bytes sent, 0 on failure.  Mutant: the return value as it is.
ReplyBytesRaw(ret) == ret
ReplyBytes(ret) == IF ret > 0 THEN ret ELSE 0

\* The LatencyEvent built from the copied context.
EventOf(t) ==
    LET s == send[t]
    IN [pid |-> t, tid |-> Tgid[t], latency |-> Latency(t),
        bytes |-> ReplyBytes(s.ret),
        ip |-> PackedIp(s.ctx.client), port |-> PackedPort(s.ctx.client),
        err |-> IF s.ret < 0 THEN 1 ELSE 0, lo |-> s.ctx.lo, hi |-> s.ctx.hi,
        req |-> s.ctx.req, by |-> s.ctx.by, sk |-> s.sk,
        start |-> s.ctx.start, now |-> s.now, last |-> s.last, seen |-> s.seen]

\* LATENCY_RINGBUF.output; module RingBuf takes it from here.
sendmsg_output(t) ==
    /\ pc[t] = "send_output"
    /\ out' = Append(out, EventOf(t))
    /\ Return(t)
    /\ UNCHANGED <<clock, mem, map, nreq, nsend, last, seen>>

-----------------------------------------------------------------------------
Tick ==
    /\ clock < MaxTime
    /\ clock' = clock + 1
    /\ UNCHANGED <<mem, map, pc, recv, send, out, nreq, nsend, last, seen>>

RecvSteps(t) ==
    \/ \E b \in Bufs : untraced_recvmsg(t, b)
    \/ \E s \in Socks, b \in Bufs : try_on_recvmsg(t, s, b)
    \/ reqctx_insert(t)
    \/ tcp_recvmsg(t)
    \/ recvmsg_ret_get(t)
    \/ recvmsg_ret_iov(t)
    \/ recvmsg_ret_read(t)
    \/ recvmsg_ret_ptr(t)
    \/ recvmsg_ret_store(t)

SendSteps(t) ==
    \/ \E s \in Socks : try_on_sendmsg(t, s)
    \/ sendmsg_get(t)
    \/ sendmsg_copy(t)
    \/ sendmsg_remove(t)
    \/ sendmsg_output(t)

Next == Tick \/ \E t \in Threads : RecvSteps(t) \/ SendSteps(t)

Spec == Init /\ [][Next]_vars

-----------------------------------------------------------------------------
(* Properties.  TARGET_PID is set from Redis's PID file in normal use.       *)

\* A process has one traced thread: with a pinned target, whatever the others
\* do, and with nothing pinned, if no process has two threads on its sockets.
OneTracedEach ==
    \A t, u \in Threads :
        is_target_pid(t) /\ is_target_pid(u) /\ Tgid[t] = Tgid[u] => t = u

\* Every sample's latency is the true time between the two probes, in every
\* mode: a context written by another thread after the clock was read makes
\* the subtraction wrap, and the 10 s filter has to catch it.
TrueLatency ==
    \A i \in DOMAIN out :
        /\ out[i].latency = out[i].now - out[i].start
        /\ out[i].latency <= MaxLatency

(* The next five hold where OneTracedEach does, and there only: with two      *)
(* traced threads of a process one can consume, tear or outlive the context   *)
(* of the other.                                                              *)

\* One tcp_recvmsg yields at most one sample, however many replies follow it:
\* the context is removed when it is used.
OneSamplePerRequest ==
    \A i, j \in DOMAIN out : out[i].req = out[j].req => i = j

\* A sample starts at the latest tcp_recvmsg the thread made before the reply:
\* an older, unanswered context is never used, also when the map was full.
LatestRequest ==
    \A i \in DOMAIN out : out[i].req = out[i].last

\* The bytes in a sample are those the thread's own buffer held when that
\* tcp_recvmsg returned, or zeros; never half a copy or the bytes of another
\* call.
OwnData ==
    \A i \in DOMAIN out :
        /\ out[i].lo = out[i].hi
        /\ out[i].lo \in {Zero, out[i].seen}

\* REQ_CTX holds no user address between two calls of a thread: iov_base is
\* cleared once the bytes are captured.
NoDanglingIov ==
    \A t \in Threads :
        is_target_pid(t) /\ pc[t] = "user" /\ ref[Tgid[t]] # None
            => reqCtx[ref[Tgid[t]]].iov = 0

\* Only threads of the process that replied have written into the contexts a
\* sample was copied from, although elements go from process to process.
SameProcess ==
    \A i \in DOMAIN out : \A u \in out[i].by : Tgid[u] = out[i].tid

(* What a comment of the repository says, and the code does not do.          *)

\* "A single request-response latency sample": request and response are those
\* of one connection.
RequestResponsePair ==
    \A i \in DOMAIN out : out[i].port = Dport[out[i].sk]
=============================================================================
