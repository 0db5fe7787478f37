--------------------------- MODULE ReqProbeProofs ---------------------------
(***************************************************************************)
(* Proofs about ReqProbe, for any threads, processes, sockets, buffers,    *)
(* clock range, filter and map size that satisfy ProbeConstants.           *)
(***************************************************************************)
EXTENDS ReqProbe, TLAPS

\* What the locals of a probe hold at each of its steps.
LocalsInv ==
    \A t \in Threads :
        /\ pc[t] \in {"recv_insert", "recv_body"} => recv[t].buf # 0
        /\ pc[t] = "ret_read" => recv[t].iov # 0
        /\ pc[t] \in {"ret_iov", "ret_store"} => recv[t].ptr # None
        /\ pc[t] = "send_copy" => send[t].ptr # None

Typed == TypeOK /\ LocalsInv

-----------------------------------------------------------------------------
(* Type correctness *)

LEMMA ZeroTime == 0 \in Times
BY ProbeConstants, SMT DEF Times

LEMMA BlankType == Blank \in ReqCtx
BY ProbeConstants, ZeroTime, SMT DEF Blank, ReqCtx, Data

LEMMA NoLocals == NoRecv \in RecvCall /\ NoSend \in SendCall
<1>1. NoRecv \in RecvCall
  BY ProbeConstants, ZeroTime, SMT DEF NoRecv, RecvCall, Data
<1>2. NoSend \in SendCall
  BY ProbeConstants, ZeroTime, BlankType, SMT DEF NoSend, SendCall, Data
<1> QED BY <1>1, <1>2

LEMMA PortModType == PortMod \in Nat \ {0}
BY DEF PortMod

LEMMA PackType ==
    ASSUME NEW s \in Socks
    PROVE  Pack(RcvSaddr[s], Dport[s]) \in Nat
<1>1. ASSUME NEW ip \in Nat, NEW port \in 0 .. PortMod - 1
      PROVE  Pack(ip, port) \in Nat
  <2>1. ip * PortMod \in Nat /\ port \in Nat
    BY PortModType, SMT
  <2> QED BY <2>1, SMT DEF Pack
<1>2. RcvSaddr \in [Socks -> Nat] /\ Dport \in [Socks -> 0 .. PortMod - 1]
  BY ProbeConstants, Zenon
<1>3. RcvSaddr[s] \in Nat /\ Dport[s] \in 0 .. PortMod - 1
  BY <1>2, Zenon
<1> QED BY <1>1, <1>3, Zenon

LEMMA UnpackType ==
    ASSUME NEW c \in Nat
    PROVE  PackedIp(c) \in Nat /\ PackedPort(c) \in Nat
BY SMT DEF PackedIp, PackedPort, PortMod

\* The 64-bit subtraction yields a natural number, and the filter lets only
\* true differences through.
LEMMA Wrap ==
    ASSUME NEW a \in Times, NEW b \in Times
    PROVE  /\ (a - b) % Modulus \in Nat
           /\ (a - b) % Modulus <= MaxLatency => (a - b) % Modulus = a - b
<1>1. /\ MaxTime \in Nat /\ MaxLatency \in Nat /\ Modulus \in Nat
      /\ MaxTime + MaxLatency < Modulus
      /\ a \in 0 .. MaxTime /\ b \in 0 .. MaxTime
  BY ProbeConstants DEF Times
<1> HIDE DEF Times
<1>2. CASE a >= b
  <2>1. (a - b) % Modulus = a - b
    BY <1>1, <1>2, SMT
  <2> QED BY <1>1, <1>2, <2>1, SMT
<1>3. CASE a < b
  <2>1. (a - b) % Modulus = a - b + Modulus
    BY <1>1, <1>3, SMT
  <2> QED BY <1>1, <1>3, <2>1, SMT
<1> QED BY <1>1, <1>2, <1>3, SMT

LEMMA ReplyType ==
    ASSUME NEW n \in RetVals \cup {0}
    PROVE  ReplyBytes(n) \in Nat
<1>1. ASSUME NEW m \in Int
      PROVE  ReplyBytes(m) \in Nat
  BY <1>1 DEF ReplyBytes
<1>2. RetVals \subseteq Int
  BY ProbeConstants, Zenon
<1>3. n \in Int
  <2>1. CASE n \in RetVals
    BY <1>2, <2>1, Zenon
  <2>2. CASE n = 0
    BY <2>2
  <2> QED BY <2>1, <2>2
<1> QED BY <1>1, <1>3

\* Replacing one value of a function, or one field of a record.
LEMMA Update ==
    ASSUME NEW S, NEW T, NEW f \in [S -> T], NEW x \in S, NEW v \in T
    PROVE  [f EXCEPT ![x] = v] \in [S -> T]
OBVIOUS

\* Locals after the assignments the probes make.
LEMMA RecvUpdate ==
    ASSUME NEW r \in RecvCall
    PROVE  /\ \A i \in Bufs \cup {0} :
                 [r EXCEPT !.iov = i, !.ptr = None] \in RecvCall
           /\ \A d \in Data : [r EXCEPT !.data = d] \in RecvCall
           /\ \A e \in Places : [r EXCEPT !.ptr = e] \in RecvCall
           /\ \A e \in Places :
                 [r EXCEPT !.ptr = e, !.todo = StoreWords] \in RecvCall
           /\ \A w \in StoreWords : [r EXCEPT !.todo = @ \ {w}] \in RecvCall
BY DEF RecvCall

LEMMA StoredType ==
    ASSUME TypeOK, NEW t \in Threads, NEW c \in ReqCtx, NEW w \in StoreWords
    PROVE  /\ StoredIn(c, t, w) \in ReqCtx
           /\ StoredIn(c, t, w).start = c.start
<1>1. recv[t].data \in Data
  BY DEF TypeOK, RecvCall
<1>2. CASE w = "lo"
  BY <1>1, <1>2 DEF StoredIn, ReqCtx
<1>3. CASE w = "hi"
  BY <1>1, <1>3 DEF StoredIn, ReqCtx
<1>4. CASE w = "iov"
  BY <1>4 DEF StoredIn, ReqCtx
<1> QED BY <1>2, <1>3, <1>4 DEF StoreWords

LEMMA CopiedType ==
    ASSUME NEW k \in ReqCtx, NEW c \in ReqCtx, NEW w \in CopyWords
    PROVE  CopiedFrom(k, c, w) \in ReqCtx
<1>1. CASE w = "start"
  BY <1>1 DEF CopiedFrom, ReqCtx
<1>2. CASE w = "client"
  BY <1>2 DEF CopiedFrom, ReqCtx
<1>3. CASE w = "lo"
  BY <1>3 DEF CopiedFrom, ReqCtx
<1>4. CASE w = "hi"
  BY <1>4 DEF CopiedFrom, ReqCtx
<1> QED BY <1>1, <1>2, <1>3, <1>4 DEF CopyWords

LEMMA NewCtxType ==
    ASSUME TypeOK, NEW t \in Threads
    PROVE  NewCtx(t) \in ReqCtx
<1>1. recv[t] \in RecvCall /\ last[t] \in 0 .. MaxRecv
  BY DEF TypeOK
<1> QED BY <1>1 DEF RecvCall, ReqCtx, Data, NewCtx

\* One buffer of one process.
LEMMA MemUpdate ==
    ASSUME TypeOK, NEW p \in Procs, NEW b \in Bufs, NEW d \in Data
    PROVE  /\ [mem EXCEPT ![p][b] = d] \in [Procs -> [Bufs -> Data]]
           /\ mem[p][b] \in Data
<1>1. mem \in [Procs -> [Bufs -> Data]] /\ mem[p] \in [Bufs -> Data]
  BY DEF TypeOK
<1>2. [mem[p] EXCEPT ![b] = d] \in [Bufs -> Data]
  BY <1>1
<1>3. [mem EXCEPT ![p][b] = d] = [mem EXCEPT ![p] = [mem[p] EXCEPT ![b] = d]]
  BY <1>1
<1> QED BY <1>1, <1>2, <1>3

LEMMA ReturnTyped ==
    ASSUME TypeOK, NEW t \in Threads, Return(t)
    PROVE  /\ pc' \in [Threads -> Steps]
           /\ recv' \in [Threads -> RecvCall]
           /\ send' \in [Threads -> SendCall]
BY NoLocals, SMT DEF TypeOK, Return, Goto, Steps

LEMMA ReturnLocals ==
    ASSUME TypeOK, LocalsInv, NEW t \in Threads, Return(t)
    PROVE  LocalsInv'
BY DEF TypeOK, LocalsInv, Return, Goto

LEMMA InitTyped == Init => Typed
<1> SUFFICES ASSUME Init
             PROVE  TypeOK /\ LocalsInv
  BY DEF Typed
<1>1. mem \in [Procs -> [Bufs -> Data]]
  BY DEF Init, Data
<1>2. /\ ref \in [Procs -> Places \cup {None}] /\ spare \in SUBSET Places
      /\ reqCtx \in [Places -> ReqCtx]
  BY BlankType DEF Init, Places
<1>3. TypeOK
  BY <1>1, <1>2, ProbeConstants, ZeroTime, NoLocals, SMT DEF Init, TypeOK, Data,
     Steps
<1>4. LocalsInv
  BY DEF Init, LocalsInv
<1> QED BY <1>3, <1>4

LEMMA NextTyped == Typed /\ [Next]_vars => Typed'
<1> SUFFICES ASSUME TypeOK, LocalsInv, [Next]_vars
             PROVE  TypeOK' /\ LocalsInv'
  BY DEF Typed
<1>0. /\ MaxRecv \in Nat /\ MaxSend \in Nat /\ Tgid \in [Threads -> Threads]
      /\ \A t \in Threads : Tgid[t] \in Procs /\ Tgid[t] \in Nat /\ t \in Nat
  BY ProbeConstants DEF Procs
<1>1. ASSUME NEW t \in Threads, NEW s \in Socks, NEW b \in Bufs,
             try_on_recvmsg(t, s, b)
      PROVE  TypeOK' /\ LocalsInv'
  <2> DEFINE c == Pack(RcvSaddr[s], Dport[s])
             r(iov) == [NoRecv EXCEPT !.buf = b, !.start = clock, !.iov = iov,
                                      !.client = c]
  <2>1. PICK iov \in {b, 0} : recv' = [recv EXCEPT ![t] = r(iov)]
    BY <1>1 DEF try_on_recvmsg
  <2>2. c \in Nat
    BY PackType
  <2> HIDE DEF c
  <2>3. r(iov) \in RecvCall /\ r(iov).buf = b
    BY <2>1, <2>2, NoLocals DEF TypeOK, RecvCall
  <2> HIDE DEF r
  <2>4. recv' \in [Threads -> RecvCall] /\ recv'[t].buf = b
    BY <2>1, <2>3 DEF TypeOK
  <2>5. nreq' \in 1 .. MaxRecv /\ last' \in [Threads -> 0 .. MaxRecv]
    BY <1>0, <1>1 DEF TypeOK, try_on_recvmsg
  <2>6. TypeOK'
    BY <1>1, <2>4, <2>5 DEF TypeOK, try_on_recvmsg, map, Goto, Steps
  <2>7. b # 0 /\ \A u \in Threads : u # t => recv'[u] = recv[u]
    BY <2>1, ProbeConstants DEF TypeOK
  <2>8. LocalsInv'
    BY <1>1, <2>4, <2>7 DEF TypeOK, LocalsInv, try_on_recvmsg, Goto
  <2> QED BY <2>6, <2>8
<1>2. ASSUME NEW t \in Threads, NEW b \in Bufs, untraced_recvmsg(t, b)
      PROVE  TypeOK' /\ LocalsInv'
  <2>1. mem' \in [Procs -> [Bufs -> Data]]
    BY <1>0, <1>2, MemUpdate DEF untraced_recvmsg, Data
  <2> QED BY <1>2, <2>1 DEF untraced_recvmsg, map, TypeOK, LocalsInv
<1>3. ASSUME NEW t \in Threads, reqctx_insert(t)
      PROVE  TypeOK' /\ LocalsInv'
  <2>1. /\ ref' \in [Procs -> Places \cup {None}] /\ spare' \in SUBSET Places
        /\ reqCtx' \in [Places -> ReqCtx]
    <3>1. CASE UNCHANGED map
      BY <3>1 DEF map, TypeOK
    <3>2. CASE ~UNCHANGED map
      <4>1. PICK e \in Candidates(Tgid[t]) :
               /\ ref' = [ref EXCEPT ![Tgid[t]] = e]
               /\ reqCtx' = [reqCtx EXCEPT ![e] = NewCtx(t)]
               /\ spare' = IF ref[Tgid[t]] = None THEN spare
                           ELSE (spare \ {e}) \cup {ref[Tgid[t]]}
        BY <1>3, <3>2 DEF reqctx_insert, Key
      <4>2. e \in Places
        BY <4>1 DEF Candidates, Free, TypeOK
      <4>3. NewCtx(t) \in ReqCtx
        BY NewCtxType
      <4>4. spare' \in SUBSET Places
        BY <1>0, <4>1, NoneIsNoPlace DEF TypeOK
      <4> QED BY <1>0, <4>1, <4>2, <4>3, <4>4 DEF TypeOK
    <3> QED BY <3>1, <3>2
  <2>2. TypeOK'
    BY <1>3, <2>1 DEF TypeOK, reqctx_insert, Goto, Steps
  <2>3. LocalsInv'
    BY <1>3 DEF TypeOK, LocalsInv, reqctx_insert, Goto
  <2> QED BY <2>2, <2>3
<1>4. ASSUME NEW t \in Threads, tcp_recvmsg(t)
      PROVE  TypeOK' /\ LocalsInv'
  <2>1. recv[t].buf \in Bufs
    BY <1>4 DEF tcp_recvmsg, TypeOK, LocalsInv, RecvCall
  <2>2. PICK d \in Payloads \cup {mem[Tgid[t]][recv[t].buf]} :
           /\ mem' = [mem EXCEPT ![Tgid[t]][recv[t].buf] = d]
           /\ seen' = [seen EXCEPT ![t] = d]
    BY <1>4 DEF tcp_recvmsg
  <2>3. d \in Data
    BY <1>0, <2>1, <2>2, MemUpdate DEF Data
  <2>4. mem' \in [Procs -> [Bufs -> Data]]
    BY <1>0, <2>1, <2>2, <2>3, MemUpdate
  <2>5. TypeOK'
    BY <1>4, <2>2, <2>3, <2>4 DEF TypeOK, tcp_recvmsg, map, Goto, Steps
  <2>6. LocalsInv'
    BY <1>4 DEF TypeOK, LocalsInv, tcp_recvmsg, Goto
  <2> QED BY <2>5, <2>6
<1>5. ASSUME NEW t \in Threads, recvmsg_ret_get(t)
      PROVE  TypeOK' /\ LocalsInv'
  <2>1. CASE Return(t)
    BY <1>5, <2>1, ReturnTyped, ReturnLocals DEF recvmsg_ret_get, map, TypeOK
  <2>2. CASE ~Return(t)
    <3> DEFINE e == ref[Tgid[t]]
    <3>1. /\ e \in Places /\ e # None /\ recv' = [recv EXCEPT ![t].ptr = e]
          /\ Goto(t, "ret_iov") /\ UNCHANGED send
      BY <1>0, <1>5, <2>2, NoneIsNoPlace DEF recvmsg_ret_get, Key, TypeOK
    <3>2. recv' \in [Threads -> RecvCall] /\ recv'[t].ptr = e
      BY <3>1, RecvUpdate DEF TypeOK, RecvCall
    <3>3. TypeOK'
      BY <1>5, <3>1, <3>2 DEF TypeOK, recvmsg_ret_get, map, Goto, Steps
    <3>4. LocalsInv'
      BY <3>1, <3>2 DEF TypeOK, LocalsInv, Goto
    <3> QED BY <3>3, <3>4
  <2> QED BY <2>1, <2>2
<1>6. ASSUME NEW t \in Threads, recvmsg_ret_iov(t)
      PROVE  TypeOK' /\ LocalsInv'
  <2>1. CASE Return(t)
    BY <1>6, <2>1, ReturnTyped, ReturnLocals DEF recvmsg_ret_iov, map, TypeOK
  <2>2. CASE ~Return(t)
    <3> DEFINE i == reqCtx[recv[t].ptr].iov
    <3>1. /\ i # 0 /\ recv' = [recv EXCEPT ![t].iov = i, ![t].ptr = None]
          /\ Goto(t, "ret_read") /\ UNCHANGED send
      BY <1>6, <2>2 DEF recvmsg_ret_iov
    <3>2. i \in Bufs \cup {0}
      <4>1. recv[t].ptr \in Places
        BY <1>6 DEF recvmsg_ret_iov, TypeOK, LocalsInv, RecvCall
      <4> QED BY <4>1 DEF TypeOK, ReqCtx
    <3> HIDE DEF i
    <3>3. recv[t] \in RecvCall /\ [recv[t] EXCEPT !.iov = i, !.ptr = None] \in RecvCall
      BY <3>2, RecvUpdate DEF TypeOK
    <3>4. recv' = [recv EXCEPT ![t] = [recv[t] EXCEPT !.iov = i, !.ptr = None]]
      BY <3>1, <3>3 DEF TypeOK
    <3>5. recv' \in [Threads -> RecvCall] /\ recv'[t].iov = i
      BY <3>3, <3>4 DEF TypeOK, RecvCall
    <3>6. TypeOK'
      BY <1>6, <3>1, <3>5 DEF TypeOK, recvmsg_ret_iov, map, Goto, Steps
    <3>7. LocalsInv'
      BY <3>1, <3>4, <3>5 DEF TypeOK, LocalsInv, Goto
    <3> QED BY <3>6, <3>7
  <2> QED BY <2>1, <2>2
<1>7. ASSUME NEW t \in Threads, recvmsg_ret_read(t)
      PROVE  TypeOK' /\ LocalsInv'
  <2>1. recv[t].iov \in Bufs
    BY <1>7 DEF recvmsg_ret_read, TypeOK, LocalsInv, RecvCall
  <2>2. PICK d \in {mem[Tgid[t]][recv[t].iov], Zero} :
           recv' = [recv EXCEPT ![t].data = d]
    BY <1>7 DEF recvmsg_ret_read
  <2>3. d \in Data
    <3>1. Zero \in Data
      BY DEF Data
    <3> QED BY <1>0, <2>1, <2>2, <3>1, MemUpdate
  <2>4. recv' \in [Threads -> RecvCall]
    BY <2>2, <2>3, RecvUpdate DEF TypeOK
  <2>5. TypeOK'
    BY <1>7, <2>4 DEF TypeOK, recvmsg_ret_read, map, Goto, Steps
  <2>6. LocalsInv'
    BY <1>7 DEF TypeOK, LocalsInv, recvmsg_ret_read, Goto
  <2> QED BY <2>5, <2>6
<1>8. ASSUME NEW t \in Threads, recvmsg_ret_ptr(t)
      PROVE  TypeOK' /\ LocalsInv'
  <2>1. CASE Return(t)
    BY <1>8, <2>1, ReturnTyped, ReturnLocals DEF recvmsg_ret_ptr, map, TypeOK
  <2>2. CASE ~Return(t)
    <3> DEFINE e == ref[Tgid[t]]
               r == [recv[t] EXCEPT !.ptr = e, !.todo = StoreWords]
    <3>1. /\ e \in Places /\ e # None
          /\ recv' = [recv EXCEPT ![t].ptr = e, ![t].todo = StoreWords]
          /\ Goto(t, "ret_store") /\ UNCHANGED send
      BY <1>0, <1>8, <2>2, NoneIsNoPlace DEF recvmsg_ret_ptr, Key, TypeOK
    <3>2. r \in RecvCall /\ r.ptr = e
      BY <3>1, RecvUpdate DEF TypeOK, RecvCall
    <3>3. recv' = [recv EXCEPT ![t] = r]
      BY <3>1 DEF TypeOK
    <3> HIDE DEF r, e
    <3>4. recv' \in [Threads -> RecvCall] /\ recv'[t].ptr = e
      BY <3>2, <3>3 DEF TypeOK
    <3>5. TypeOK'
      BY <1>8, <3>1, <3>4 DEF TypeOK, recvmsg_ret_ptr, map, Goto, Steps
    <3>6. LocalsInv'
      BY <3>1, <3>3, <3>4 DEF TypeOK, LocalsInv, Goto
    <3> QED BY <3>5, <3>6
  <2> QED BY <2>1, <2>2
<1>9. ASSUME NEW t \in Threads, recvmsg_ret_store(t)
      PROVE  TypeOK' /\ LocalsInv'
  <2>1. PICK w \in recv[t].todo :
           /\ reqCtx' = [reqCtx EXCEPT ![recv[t].ptr] =
                           StoredIn(reqCtx[recv[t].ptr], t, w)]
           /\ IF recv[t].todo = {w}
              THEN Return(t)
              ELSE /\ recv' = [recv EXCEPT ![t].todo = @ \ {w}]
                   /\ UNCHANGED <<pc, send>>
    BY <1>9 DEF recvmsg_ret_store
  <2>2. w \in StoreWords /\ recv[t].ptr \in Places
    BY <1>9, <2>1 DEF recvmsg_ret_store, TypeOK, LocalsInv, RecvCall
  <2>3. reqCtx' \in [Places -> ReqCtx]
    <3>1. reqCtx[recv[t].ptr] \in ReqCtx
      BY <2>2 DEF TypeOK
    <3> QED BY <2>1, <2>2, <3>1, StoredType DEF TypeOK
  <2>4. CASE Return(t)
    BY <1>9, <2>3, <2>4, ReturnTyped, ReturnLocals DEF recvmsg_ret_store, TypeOK
  <2>5. CASE ~Return(t)
    <3>1. recv' = [recv EXCEPT ![t].todo = @ \ {w}] /\ UNCHANGED <<pc, send>>
      BY <2>1, <2>5
    <3>2. recv' \in [Threads -> RecvCall]
      BY <2>2, <3>1, RecvUpdate DEF TypeOK
    <3>3. TypeOK'
      BY <1>9, <2>3, <3>1, <3>2 DEF TypeOK, recvmsg_ret_store
    <3>4. LocalsInv'
      BY <3>1 DEF TypeOK, LocalsInv, RecvCall
    <3> QED BY <3>3, <3>4
  <2> QED BY <2>4, <2>5
<1>10. ASSUME NEW t \in Threads, NEW s \in Socks, try_on_sendmsg(t, s)
       PROVE  TypeOK' /\ LocalsInv'
  <2> DEFINE r(ret) == [NoSend EXCEPT !.now = clock, !.ret = ret, !.sk = s,
                                      !.last = last[t], !.seen = seen[t]]
  <2>1. PICK ret \in RetVals : send' = [send EXCEPT ![t] = r(ret)]
    BY <1>10 DEF try_on_sendmsg
  <2>2. r(ret) \in SendCall
    <3>1. /\ clock \in Times /\ last[t] \in 0 .. MaxRecv /\ seen[t] \in Data
          /\ NoSend \in SendCall
      BY NoLocals DEF TypeOK
    <3> QED BY <3>1 DEF SendCall
  <2> HIDE DEF r
  <2>3. send' \in [Threads -> SendCall] /\ nsend' \in 0 .. MaxSend
    BY <1>0, <1>10, <2>1, <2>2 DEF try_on_sendmsg, TypeOK
  <2>4. TypeOK'
    BY <1>10, <2>3 DEF TypeOK, try_on_sendmsg, map, Goto, Steps
  <2>5. LocalsInv'
    BY <1>10, <2>1 DEF TypeOK, LocalsInv, try_on_sendmsg, Goto
  <2> QED BY <2>4, <2>5
<1>11. ASSUME NEW t \in Threads, sendmsg_get(t)
       PROVE  TypeOK' /\ LocalsInv'
  <2>1. CASE Return(t)
    BY <1>11, <2>1, ReturnTyped, ReturnLocals DEF sendmsg_get, map, TypeOK
  <2>2. CASE ~Return(t)
    <3> DEFINE e == ref[Tgid[t]]
               r == [send[t] EXCEPT !.ptr = e, !.todo = CopyWords]
    <3>1. /\ e \in Places /\ e # None
          /\ send' = [send EXCEPT ![t].ptr = e, ![t].todo = CopyWords]
          /\ Goto(t, "send_copy") /\ UNCHANGED recv
      BY <1>0, <1>11, <2>2, NoneIsNoPlace DEF sendmsg_get, Key, TypeOK
    <3>2. r \in SendCall /\ r.ptr = e
      <4>1. send[t] \in SendCall
        BY DEF TypeOK
      <4> QED BY <3>1, <4>1 DEF SendCall
    <3>3. send' = [send EXCEPT ![t] = r]
      BY <3>1 DEF TypeOK
    <3> HIDE DEF r, e
    <3>4. send' \in [Threads -> SendCall] /\ send'[t].ptr = e
      BY <3>2, <3>3 DEF TypeOK
    <3>5. TypeOK'
      BY <1>11, <3>1, <3>4 DEF TypeOK, sendmsg_get, map, Goto, Steps
    <3>6. LocalsInv'
      BY <3>1, <3>3, <3>4 DEF TypeOK, LocalsInv, Goto
    <3> QED BY <3>5, <3>6
  <2> QED BY <2>1, <2>2
<1>12. ASSUME NEW t \in Threads, sendmsg_copy(t)
       PROVE  TypeOK' /\ LocalsInv'
  <2>1. PICK w \in send[t].todo :
           /\ send' = [send EXCEPT
                         ![t].ctx = CopiedFrom(@, reqCtx[send[t].ptr], w),
                         ![t].todo = @ \ {w}]
           /\ Goto(t, IF send[t].todo = {w} THEN "send_remove" ELSE "send_copy")
    BY <1>12 DEF sendmsg_copy
  <2> DEFINE k == CopiedFrom(send[t].ctx, reqCtx[send[t].ptr], w)
             r == [send[t] EXCEPT !.ctx = k, !.todo = @ \ {w}]
  <2>2. send[t] \in SendCall /\ w \in CopyWords /\ send[t].ptr \in Places
    BY <1>12, <2>1 DEF sendmsg_copy, TypeOK, LocalsInv, SendCall
  <2>3. k \in ReqCtx
    <3>1. reqCtx[send[t].ptr] \in ReqCtx /\ send[t].ctx \in ReqCtx
      BY <2>2 DEF TypeOK, SendCall
    <3> QED BY <2>2, <3>1, CopiedType
  <2>4. send' = [send EXCEPT ![t] = r]
    BY <2>1, <2>2 DEF TypeOK
  <2> HIDE DEF k
  <2>5. r \in SendCall /\ r.ptr = send[t].ptr
    BY <2>2, <2>3 DEF SendCall
  <2> HIDE DEF r
  <2>6. send' \in [Threads -> SendCall] /\ send'[t].ptr = send[t].ptr
    BY <2>4, <2>5 DEF TypeOK
  <2>7. pc' \in [Threads -> Steps]
    BY <2>1 DEF TypeOK, Goto, Steps
  <2>8. TypeOK'
    BY <1>12, <2>6, <2>7 DEF TypeOK, sendmsg_copy, map
  <2>9. LocalsInv'
    <3>1. \A u \in Threads : u # t => send'[u] = send[u] /\ pc'[u] = pc[u]
      BY <2>1, <2>4 DEF TypeOK, Goto
    <3>2. pc[t] = "send_copy" /\ pc'[t] \in {"send_remove", "send_copy"}
          /\ recv' = recv
      BY <1>12, <2>1 DEF TypeOK, Goto, sendmsg_copy
    <3> QED BY <2>6, <3>1, <3>2 DEF LocalsInv
  <2> QED BY <2>8, <2>9
<1>13. ASSUME NEW t \in Threads, sendmsg_remove(t)
       PROVE  TypeOK' /\ LocalsInv'
  <2>1. ref' \in [Procs -> Places \cup {None}]
    BY <1>13 DEF sendmsg_remove, TypeOK, Removed
  <2>2. CASE Return(t)
    BY <1>13, <2>1, <2>2, ReturnTyped, ReturnLocals DEF sendmsg_remove, TypeOK
  <2>3. CASE ~Return(t)
    <3>1. Goto(t, "send_output") /\ UNCHANGED <<recv, send>>
      BY <1>13, <2>3, Zenon DEF sendmsg_remove
    <3>2. TypeOK'
      BY <1>13, <2>1, <3>1 DEF sendmsg_remove, TypeOK, Goto, Steps
    <3>3. LocalsInv'
      BY <3>1 DEF TypeOK, LocalsInv, Goto
    <3> QED BY <3>2, <3>3
  <2> QED BY <2>2, <2>3
<1>14. ASSUME NEW t \in Threads, sendmsg_output(t)
       PROVE  TypeOK' /\ LocalsInv'
  <2>1. send[t] \in SendCall /\ send[t].ctx \in ReqCtx
    BY DEF TypeOK, SendCall
  <2>2. Latency(t) \in Nat
    BY <2>1, Wrap DEF Latency, SendCall, ReqCtx
  <2>3. /\ PackedIp(send[t].ctx.client) \in Nat
        /\ PackedPort(send[t].ctx.client) \in Nat
    BY <2>1, UnpackType DEF ReqCtx
  <2>4. EventOf(t) \in LatencyEvent
    <3>1. ReplyBytes(send[t].ret) \in Nat
      BY <2>1, ReplyType DEF SendCall
    <3> QED BY <1>0, <2>1, <2>2, <2>3, <3>1
            DEF EventOf, SendCall, ReqCtx, LatencyEvent
  <2>5. out' \in Seq(LatencyEvent)
    BY <1>14, <2>4 DEF sendmsg_output, TypeOK
  <2>6. TypeOK'
    BY <1>14, <2>5, ReturnTyped DEF sendmsg_output, map, TypeOK
  <2>7. LocalsInv'
    BY <1>14, ReturnLocals DEF sendmsg_output
  <2> QED BY <2>6, <2>7
<1>15. ASSUME Tick
       PROVE  TypeOK' /\ LocalsInv'
  BY <1>15, ProbeConstants DEF Tick, map, TypeOK, LocalsInv, Times
<1>16. ASSUME UNCHANGED vars
       PROVE  TypeOK' /\ LocalsInv'
  BY <1>16 DEF vars, map, TypeOK, LocalsInv
<1> QED
  BY <1>1, <1>2, <1>3, <1>4, <1>5, <1>6, <1>7, <1>8, <1>9, <1>10, <1>11,
     <1>12, <1>13, <1>14, <1>15, <1>16 DEF Next, RecvSteps, SendSteps

(* TypeOK: every variable stays in its type; a probe that reads or stores    *)
(* through a pointer always holds one.                                      *)
THEOREM TypeCorrect == Spec => []TypeOK
<1>1. Spec => []Typed
  BY InitTyped, NextTyped, PTL DEF Spec
<1> QED BY <1>1, PTL DEF Typed

-----------------------------------------------------------------------------
(* Every mode: latencies *)

\* A step of one thread leaves the locals of the others alone.
LEMMA Others ==
    ASSUME TypeOK, NEW t \in Threads, RecvSteps(t) \/ SendSteps(t),
           NEW u \in Threads, u # t
    PROVE  pc'[u] = pc[u] /\ recv'[u] = recv[u] /\ send'[u] = send[u]
<1>1. ASSUME NEW b \in Bufs, untraced_recvmsg(t, b)
      PROVE  UNCHANGED <<pc, recv, send>>
  BY <1>1 DEF untraced_recvmsg
<1>2. ASSUME NEW s \in Socks, NEW b \in Bufs, try_on_recvmsg(t, s, b)
      PROVE  pc'[u] = pc[u] /\ recv'[u] = recv[u] /\ send'[u] = send[u]
  BY <1>2 DEF try_on_recvmsg, Goto, TypeOK
<1>3. ASSUME Return(t)
      PROVE  pc'[u] = pc[u] /\ recv'[u] = recv[u] /\ send'[u] = send[u]
  BY <1>3 DEF Return, Goto, TypeOK
<1>4. ASSUME reqctx_insert(t) \/ tcp_recvmsg(t) \/ recvmsg_ret_read(t)
      PROVE  pc'[u] = pc[u] /\ recv'[u] = recv[u] /\ send'[u] = send[u]
  BY <1>4 DEF reqctx_insert, tcp_recvmsg, recvmsg_ret_read, Goto, TypeOK
<1>5. ASSUME recvmsg_ret_get(t) \/ recvmsg_ret_iov(t) \/ recvmsg_ret_ptr(t)
      PROVE  pc'[u] = pc[u] /\ recv'[u] = recv[u] /\ send'[u] = send[u]
  BY <1>3, <1>5 DEF recvmsg_ret_get, recvmsg_ret_iov, recvmsg_ret_ptr, Goto,
     TypeOK
<1>6. ASSUME recvmsg_ret_store(t)
      PROVE  pc'[u] = pc[u] /\ recv'[u] = recv[u] /\ send'[u] = send[u]
  BY <1>3, <1>6 DEF recvmsg_ret_store, TypeOK
<1>7. ASSUME sendmsg_output(t)
      PROVE  pc'[u] = pc[u] /\ recv'[u] = recv[u] /\ send'[u] = send[u]
  BY <1>3, <1>7 DEF sendmsg_output
<1>8. ASSUME NEW s \in Socks, try_on_sendmsg(t, s)
      PROVE  pc'[u] = pc[u] /\ recv'[u] = recv[u] /\ send'[u] = send[u]
  BY <1>8 DEF try_on_sendmsg, Goto, TypeOK
<1>9. ASSUME sendmsg_get(t) \/ sendmsg_copy(t) \/ sendmsg_remove(t)
      PROVE  pc'[u] = pc[u] /\ recv'[u] = recv[u] /\ send'[u] = send[u]
  BY <1>3, <1>9 DEF sendmsg_get, sendmsg_copy, sendmsg_remove, Goto, TypeOK
<1> QED
  BY <1>1, <1>2, <1>4, <1>5, <1>6, <1>7, <1>8, <1>9 DEF RecvSteps, SendSteps

\* A probe about to output has passed the filter.
FilterInv ==
    /\ TrueLatency
    /\ \A t \in Threads : pc[t] = "send_output" => Latency(t) <= MaxLatency

LEMMA NextFilterInv == Typed /\ FilterInv /\ [Next]_vars => FilterInv'
<1> SUFFICES ASSUME TypeOK, LocalsInv, FilterInv, [Next]_vars
             PROVE  FilterInv'
  BY DEF Typed
<1> DEFINE Passed(t) == pc[t] = "send_output" => Latency(t) <= MaxLatency
<1>1. ASSUME NEW t \in Threads, RecvSteps(t) \/ SendSteps(t), Passed(t)'
      PROVE  \A u \in Threads : Passed(u)'
  <2>1. ASSUME NEW u \in Threads, u # t
        PROVE  Passed(u)'
    BY <1>1, <2>1, Others DEF FilterInv, Latency
  <2> QED BY <1>1, <2>1
<1>2. ASSUME NEW t \in Threads, RecvSteps(t)
      PROVE  FilterInv'
  <2>1. out' = out
    BY <1>2 DEF RecvSteps, untraced_recvmsg, try_on_recvmsg, reqctx_insert,
       tcp_recvmsg, recvmsg_ret_get, recvmsg_ret_iov, recvmsg_ret_read,
       recvmsg_ret_ptr, recvmsg_ret_store
  <2>2. pc'[t] # "send_output"
    BY <1>2 DEF RecvSteps, untraced_recvmsg, try_on_recvmsg, reqctx_insert,
       tcp_recvmsg, recvmsg_ret_get, recvmsg_ret_iov, recvmsg_ret_read,
       recvmsg_ret_ptr, recvmsg_ret_store, Return, Goto, TypeOK
  <2> QED BY <1>1, <1>2, <2>1, <2>2 DEF FilterInv, TrueLatency
<1>3. ASSUME NEW t \in Threads,
             (\E s \in Socks : try_on_sendmsg(t, s))
                \/ sendmsg_get(t) \/ sendmsg_copy(t)
      PROVE  FilterInv'
  <2>1. out' = out /\ pc'[t] # "send_output"
    BY <1>3 DEF try_on_sendmsg, sendmsg_get, sendmsg_copy, Return, Goto, TypeOK
  <2> QED BY <1>1, <1>3, <2>1 DEF SendSteps, FilterInv, TrueLatency
<1>4. ASSUME NEW t \in Threads, sendmsg_remove(t)
      PROVE  FilterInv'
  <2>1. out' = out
    BY <1>4 DEF sendmsg_remove
  <2>2. pc'[t] = "send_output" => Latency(t) <= MaxLatency /\ send' = send
    <3>1. CASE ~Accepted(t)
      <4>1. Return(t)
        BY <1>4, <3>1 DEF sendmsg_remove
      <4>2. pc'[t] = "user"
        BY <4>1 DEF Return, Goto, TypeOK
      <4> QED BY <4>2
    <3>2. CASE Accepted(t)
      <4>1. UNCHANGED send
        BY <1>4, <3>2 DEF sendmsg_remove
      <4> QED BY <3>2, <4>1 DEF Accepted
    <3> QED BY <3>1, <3>2
  <2> QED BY <1>1, <1>4, <2>1, <2>2
          DEF SendSteps, FilterInv, TrueLatency, Latency
<1>5. ASSUME NEW t \in Threads, sendmsg_output(t)
      PROVE  FilterInv'
  <2>1. pc'[t] # "send_output" /\ pc[t] = "send_output"
        /\ out' = Append(out, EventOf(t))
    BY <1>5 DEF sendmsg_output, Return, Goto, TypeOK
  <2>2. send[t].now \in Times /\ send[t].ctx.start \in Times
    BY DEF TypeOK, SendCall, ReqCtx
  <2>3. Latency(t) <= MaxLatency /\ Latency(t) = send[t].now - send[t].ctx.start
    BY <2>1, <2>2, Wrap DEF FilterInv, Latency
  <2>4. /\ EventOf(t).latency = EventOf(t).now - EventOf(t).start
        /\ EventOf(t).latency <= MaxLatency
    BY <2>3 DEF EventOf
  <2> DEFINE e == EventOf(t)
  <2> HIDE DEF e
  <2>5. out' = Append(out, e) /\ e.latency = e.now - e.start
        /\ e.latency <= MaxLatency
    BY <2>1, <2>4 DEF e
  <2>6. TrueLatency'
    BY <2>5, SMT DEF TypeOK, FilterInv, TrueLatency
  <2> QED BY <1>1, <1>5, <2>1, <2>6 DEF SendSteps, FilterInv
<1>6. ASSUME Tick \/ UNCHANGED vars
      PROVE  FilterInv'
  BY <1>6 DEF Tick, vars, map, FilterInv, TrueLatency, Latency
<1> QED BY <1>2, <1>3, <1>4, <1>5, <1>6 DEF Next, SendSteps

(* TrueLatency: now.wrapping_sub(start_ns) and the 10 s filter together let *)
(* through the true, non-negative difference only, also when another thread *)
(* of the process replaced the context after this thread read the clock.    *)
THEOREM LatencyTrue == Spec => []TrueLatency
<1>1. Init => FilterInv
  BY DEF Init, FilterInv, TrueLatency
<1>2. Spec => [](Typed /\ FilterInv)
  BY InitTyped, NextTyped, NextFilterInv, <1>1, PTL DEF Spec
<1> QED BY <1>2, PTL DEF FilterInv
=============================================================================
