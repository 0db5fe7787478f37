----------------------------- MODULE SoleProofs -----------------------------
(***************************************************************************)
(* Proofs of the properties of ReqProbe that hold where a process has one  *)
(* traced thread (OneTracedEach).                                          *)
(*                                                                         *)
(* The entry of such a process is its one thread's own: nobody replaces or *)
(* removes it between a lookup and the use of the pointer, so no pointer   *)
(* ever dangles, and what others do to elements they recycle is done       *)
(* elsewhere.  SoleInv follows the entry from one probe to the next.       *)
(***************************************************************************)
EXTENDS ReqProbeProofs

\* The entry of a thread's process.
Has(t) == ref[Tgid[t]] # None
At(t) == reqCtx[ref[Tgid[t]]]

Fresh(n) == \A i \in DOMAIN out : out[i].req # n

\* No element has two uses.
MapInv ==
    /\ \A p, q \in Procs : ref[p] # None /\ ref[p] = ref[q] => p = q
    /\ \A p \in Procs : ref[p] \notin spare
    /\ spare # {}

\* A pointer that is used leads to the entry.
PtrInv(t) ==
    /\ pc[t] \in {"ret_iov", "ret_store"} => Has(t) /\ recv[t].ptr = ref[Tgid[t]]
    /\ pc[t] = "send_copy" => Has(t) /\ send[t].ptr = ref[Tgid[t]]

\* The entry at each step of its thread.
CtxInv(t) ==
    Has(t) =>
        /\ At(t).by \subseteq {t}
        /\ pc[t] # "recv_insert" => At(t).req = last[t]
        /\ pc[t] # "send_output"
        /\ pc[t] \in {"recv_body", "ret_get", "ret_iov"} =>
              /\ At(t).iov \in {0, recv[t].buf}
              /\ At(t).lo = Zero /\ At(t).hi = Zero
        /\ pc[t] = "ret_store" =>
              /\ "lo" \in recv[t].todo \/ At(t).lo = recv[t].data
              /\ "hi" \in recv[t].todo \/ At(t).hi = recv[t].data
              /\ "iov" \in recv[t].todo \/ At(t).iov = 0
        /\ pc[t] \in {"user", "send_get", "send_copy"} =>
              /\ At(t).iov = 0
              /\ At(t).lo = At(t).hi /\ At(t).lo \in {Zero, seen[t]}

\* The thread's locals.
CallInv(t) ==
    /\ pc[t] = "recv_insert" => recv[t].iov \in {0, recv[t].buf}
    /\ pc[t] \in {"ret_get", "ret_iov", "ret_read"} =>
          recv[t].buf # 0 /\ mem[Tgid[t]][recv[t].buf] = seen[t]
    /\ pc[t] = "ret_read" => recv[t].iov = recv[t].buf
    /\ pc[t] \in {"ret_ptr", "ret_store"} => recv[t].data \in {Zero, seen[t]}
    /\ pc[t] \in {"send_get", "send_copy", "send_remove", "send_output"} =>
          /\ send[t].last = last[t] /\ send[t].seen = seen[t]
          /\ send[t].ctx.by \subseteq {t}
    /\ pc[t] = "send_copy" =>
          /\ "start" \in send[t].todo \/ send[t].ctx.req = At(t).req
          /\ "lo" \in send[t].todo \/ send[t].ctx.lo = At(t).lo
          /\ "hi" \in send[t].todo \/ send[t].ctx.hi = At(t).hi
    /\ pc[t] \in {"send_remove", "send_output"} =>
          /\ send[t].ctx.req = last[t]
          /\ send[t].ctx.lo = send[t].ctx.hi
          /\ send[t].ctx.lo \in {Zero, seen[t]}

\* A context that is in the map, or on its way, has not been used.
FreshInv(t) ==
    Has(t) \/ pc[t] \in {"recv_insert", "send_remove", "send_output"} =>
        last[t] # 0 /\ Fresh(last[t])

Known(t) ==
    IF is_target_pid(t)
    THEN PtrInv(t) /\ CtxInv(t) /\ CallInv(t) /\ FreshInv(t)
    ELSE pc[t] = "user"

\* Every traced receive has a number of its own.
NumberInv ==
    /\ \A t \in Threads : last[t] <= nreq
    /\ \A t, u \in Threads : last[t] = last[u] => t = u \/ last[t] = 0
    /\ \A i \in DOMAIN out : out[i].req <= nreq

OutInv == OneSamplePerRequest /\ LatestRequest /\ OwnData /\ SameProcess

Shared == MapInv /\ NumberInv /\ OutInv

SoleInv == Shared /\ \A t \in Threads : Known(t)

Good == OneTracedEach /\ TypeOK /\ LocalsInv /\ SoleInv

\* A pinned target is one thread.
LEMMA PinnedIsSole == Target # 0 => OneTracedEach
BY DEF OneTracedEach, is_target_pid

LEMMA ProcOf == ASSUME NEW t \in Threads PROVE Tgid[t] \in Procs
BY DEF Procs

-----------------------------------------------------------------------------
(* What a step leaves alone *)

\* The map is written by five actions.
LEMMA MapKept ==
    ASSUME NEW t \in Threads, RecvSteps(t) \/ SendSteps(t),
           ~reqctx_insert(t), ~recvmsg_ret_store(t), ~sendmsg_remove(t)
    PROVE  UNCHANGED map
BY DEF RecvSteps, SendSteps, untraced_recvmsg, try_on_recvmsg, tcp_recvmsg,
       recvmsg_ret_get, recvmsg_ret_iov, recvmsg_ret_read, recvmsg_ret_ptr,
       try_on_sendmsg, sendmsg_get, sendmsg_copy, sendmsg_output

\* A traced thread does not touch the entry of another process.
LEMMA Elsewhere ==
    ASSUME Good, NEW t \in Threads, NEW u \in Threads, t # u,
           is_target_pid(t), is_target_pid(u), RecvSteps(t) \/ SendSteps(t)
    PROVE  /\ ref'[Tgid[u]] = ref[Tgid[u]]
           /\ Has(u) => reqCtx'[ref[Tgid[u]]] = reqCtx[ref[Tgid[u]]]
           /\ mem'[Tgid[u]] = mem[Tgid[u]]
           /\ last'[u] = last[u] /\ seen'[u] = seen[u]
<1>0. /\ Tgid[t] # Tgid[u] /\ Tgid[t] \in Procs /\ Tgid[u] \in Procs
      /\ TypeOK /\ MapInv /\ Known(t)
  BY ProcOf DEF Good, OneTracedEach, SoleInv, Shared
<1>1. mem'[Tgid[u]] = mem[Tgid[u]] /\ last'[u] = last[u] /\ seen'[u] = seen[u]
  <2>1. CASE tcp_recvmsg(t)
    BY <1>0, <2>1 DEF tcp_recvmsg, TypeOK
  <2>2. CASE \E s \in Socks, b \in Bufs : try_on_recvmsg(t, s, b)
    BY <1>0, <2>2 DEF try_on_recvmsg, TypeOK
  <2>3. CASE \E b \in Bufs : untraced_recvmsg(t, b)
    BY <2>3 DEF untraced_recvmsg
  <2>4. CASE ~tcp_recvmsg(t) /\ ~(\E b \in Bufs : untraced_recvmsg(t, b))
             /\ ~(\E s \in Socks, b \in Bufs : try_on_recvmsg(t, s, b))
    BY <2>4 DEF RecvSteps, SendSteps, reqctx_insert, recvmsg_ret_get,
       recvmsg_ret_iov, recvmsg_ret_read, recvmsg_ret_ptr, recvmsg_ret_store,
       try_on_sendmsg, sendmsg_get, sendmsg_copy, sendmsg_remove, sendmsg_output
  <2> QED BY <2>1, <2>2, <2>3, <2>4
<1>2. CASE reqctx_insert(t)
  <2>1. CASE UNCHANGED map
    BY <1>1, <2>1 DEF map
  <2>2. CASE ~UNCHANGED map
    <3>1. PICK e \in Candidates(Tgid[t]) :
             /\ ref' = [ref EXCEPT ![Tgid[t]] = e]
             /\ reqCtx' = [reqCtx EXCEPT ![e] = NewCtx(t)]
      BY <1>2, <2>2 DEF reqctx_insert, Key
    <3>2. e # ref[Tgid[u]]
      BY <1>0, <3>1 DEF Candidates, Free, MapInv
    <3>3. reqCtx'[ref[Tgid[u]]] = reqCtx[ref[Tgid[u]]] \/ ~Has(u)
      BY <1>0, <3>1, <3>2 DEF TypeOK, Has
    <3> QED BY <1>0, <1>1, <3>1, <3>3 DEF TypeOK
  <2> QED BY <2>1, <2>2
<1>3. CASE recvmsg_ret_store(t)
  <2>1. recv[t].ptr = ref[Tgid[t]] /\ Has(t)
    BY <1>0, <1>3 DEF recvmsg_ret_store, Known, PtrInv
  <2>2. Has(u) => recv[t].ptr # ref[Tgid[u]]
    BY <1>0, <2>1 DEF MapInv, Has
  <2>3. ref' = ref /\ \A e \in Places : e # recv[t].ptr => reqCtx'[e] = reqCtx[e]
    BY <1>0, <1>3 DEF recvmsg_ret_store, TypeOK
  <2>4. Has(u) => ref[Tgid[u]] \in Places
    BY <1>0 DEF TypeOK, Has
  <2> QED BY <1>1, <2>2, <2>3, <2>4
<1>4. CASE sendmsg_remove(t)
  <2>1. ref' = [ref EXCEPT ![Tgid[t]] = None] /\ reqCtx' = reqCtx
    BY <1>4 DEF sendmsg_remove, Removed, Key
  <2> QED BY <1>0, <1>1, <2>1 DEF TypeOK
<1>5. CASE ~reqctx_insert(t) /\ ~recvmsg_ret_store(t) /\ ~sendmsg_remove(t)
  <2>1. UNCHANGED map
    BY <1>5, MapKept
  <2> QED BY <1>1, <2>1 DEF map
<1> QED BY <1>2, <1>3, <1>4, <1>5

\* What is known of a thread whose locals, entry and buffer stay as they are.
LEMMA Kept ==
    ASSUME Good, NEW u \in Threads,
           pc'[u] = pc[u], recv'[u] = recv[u], send'[u] = send[u],
           last'[u] = last[u], seen'[u] = seen[u],
           ref'[Tgid[u]] = ref[Tgid[u]],
           Has(u) => reqCtx'[ref[Tgid[u]]] = reqCtx[ref[Tgid[u]]],
           pc[u] \in {"ret_get", "ret_iov", "ret_read"} =>
              mem'[Tgid[u]][recv[u].buf] = mem[Tgid[u]][recv[u].buf],
           FreshInv(u) => FreshInv(u)'
    PROVE  Known(u)'
<1>1. Has(u)' = Has(u) /\ (Has(u) => At(u)' = At(u))
  BY DEF Has, At
<1>2. Known(u)
  BY DEF Good, SoleInv
<1>3. CASE ~is_target_pid(u)
  BY <1>2, <1>3 DEF Known, is_target_pid
<1>4. CASE is_target_pid(u)
  <2>1. PtrInv(u)'
    BY <1>1, <1>2, <1>4 DEF Known, PtrInv
  <2>2. CtxInv(u)'
    BY <1>1, <1>2, <1>4 DEF Known, CtxInv
  <2>3. CallInv(u)'
    BY <1>1, <1>2, <1>4 DEF Known, CallInv, PtrInv
  <2> QED BY <1>2, <1>4, <2>1, <2>2, <2>3 DEF Known, is_target_pid
<1> QED BY <1>3, <1>4

\* A step that adds no sample and starts no call keeps what is shared.
LEMMA SameOut ==
    ASSUME Good, UNCHANGED <<out, last, nreq>>
    PROVE  NumberInv' /\ OutInv'
BY DEF Good, SoleInv, Shared, NumberInv, OutInv, OneSamplePerRequest,
       LatestRequest, OwnData, SameProcess

LEMMA SameMap ==
    ASSUME Good, UNCHANGED map
    PROVE  MapInv'
BY DEF Good, SoleInv, Shared, MapInv, map

-----------------------------------------------------------------------------
(* The steps of a traced thread *)

LEMMA Facts ==
    ASSUME Good, NEW t \in Threads, is_target_pid(t)
    PROVE  /\ TypeOK /\ LocalsInv /\ MapInv /\ NumberInv /\ OutInv
           /\ PtrInv(t) /\ CtxInv(t) /\ CallInv(t) /\ FreshInv(t)
           /\ Tgid[t] \in Procs
           /\ recv[t] \in RecvCall /\ send[t] \in SendCall
           /\ Has(t) => ref[Tgid[t]] \in Places /\ At(t) \in ReqCtx
BY ProcOf DEF Good, SoleInv, Shared, Known, TypeOK, Has, At

LEMMA KnownIs ==
    ASSUME NEW t \in Threads, is_target_pid(t),
           PtrInv(t)', CtxInv(t)', CallInv(t)', FreshInv(t)'
    PROVE  Known(t)'
BY DEF Known, is_target_pid

\* After a return nothing is known but the entry and the buffer.
LEMMA Returned ==
    ASSUME Good, NEW t \in Threads, is_target_pid(t), Return(t),
           UNCHANGED <<out, last, nreq, seen>>,
           Has(t)' =>
              /\ Has(t)
              /\ At(t)'.by \subseteq {t}
              /\ At(t)'.req = last[t]
              /\ At(t)'.iov = 0
              /\ At(t)'.lo = At(t)'.hi
              /\ At(t)'.lo \in {Zero, seen[t]}
    PROVE  Known(t)'
<1>1. pc'[t] = "user"
  BY DEF Return, Goto, Good, TypeOK
<1>2. PtrInv(t)' /\ CallInv(t)'
  BY <1>1 DEF PtrInv, CallInv
<1>3. CtxInv(t)'
  BY <1>1 DEF CtxInv
<1>4. FreshInv(t)'
  BY <1>1, Facts DEF FreshInv, Fresh
<1> QED BY <1>2, <1>3, <1>4, KnownIs

LEMMA StepRecv ==
    ASSUME Good, NEW t \in Threads, is_target_pid(t), NEW s \in Socks,
           NEW b \in Bufs, try_on_recvmsg(t, s, b)
    PROVE  Known(t)' /\ Shared'
<1>1. /\ pc'[t] = "recv_insert" /\ recv'[t].iov \in {0, recv'[t].buf}
      /\ last' = [last EXCEPT ![t] = nreq + 1] /\ nreq' = nreq + 1
      /\ UNCHANGED <<ref, reqCtx, spare, out>>
  BY Facts DEF try_on_recvmsg, Goto, TypeOK, NoRecv, map
<1>2. nreq \in Nat /\ MaxRecv \in Nat /\ last \in [Threads -> Nat]
      /\ \A i \in DOMAIN out : out[i].req \in Nat
  <2>1. MaxRecv \in Nat
    BY ProbeConstants
  <2>2. ASSUME NEW i \in DOMAIN out
        PROVE  out[i].req \in 0 .. MaxRecv
    <3>1. out[i] \in LatencyEvent
      BY Facts DEF TypeOK
    <3> QED BY <3>1 DEF LatencyEvent
  <2> QED BY <2>1, <2>2, Facts DEF TypeOK
<1>3. PtrInv(t)' /\ CallInv(t)'
  BY <1>1 DEF PtrInv, CallInv
<1>4. CtxInv(t)'
  BY <1>1, Facts DEF CtxInv, Has, At
<1>5. FreshInv(t)'
  BY <1>1, <1>2, Facts DEF FreshInv, Fresh, NumberInv
<1>6. NumberInv'
  BY <1>1, <1>2, Facts DEF NumberInv
<1>7. MapInv' /\ OutInv'
  BY <1>1, Facts DEF MapInv, OutInv, OneSamplePerRequest, LatestRequest, OwnData,
     SameProcess
<1> QED BY <1>3, <1>4, <1>5, <1>6, <1>7, KnownIs DEF Shared

LEMMA StepInsert ==
    ASSUME Good, NEW t \in Threads, is_target_pid(t), reqctx_insert(t)
    PROVE  Known(t)' /\ Shared'
<1>1. pc[t] = "recv_insert" /\ pc'[t] = "recv_body"
      /\ UNCHANGED <<recv, send, out, nreq, last>>
  BY Facts DEF reqctx_insert, Goto, TypeOK
<1>2. PtrInv(t)' /\ CallInv(t)'
  BY <1>1 DEF PtrInv, CallInv
<1>3. FreshInv(t)'
  BY <1>1, Facts DEF FreshInv, Fresh
<1>4. CtxInv(t)' /\ MapInv'
  <2>1. CASE Candidates(Tgid[t]) = {}
    <3>1. UNCHANGED <<ref, reqCtx, spare>>
      BY <2>1 DEF reqctx_insert, Key, map
    <3>2. ~Has(t)
      BY <2>1, Facts DEF Candidates, Has, MapInv
    <3> QED BY <3>1, <3>2, Facts DEF CtxInv, Has, MapInv
  <2>2. CASE Candidates(Tgid[t]) # {}
    <3>1. PICK e \in Candidates(Tgid[t]) :
             /\ ref' = [ref EXCEPT ![Tgid[t]] = e]
             /\ reqCtx' = [reqCtx EXCEPT ![e] = NewCtx(t)]
             /\ spare' = IF ref[Tgid[t]] = None
                         THEN spare ELSE (spare \ {e}) \cup {ref[Tgid[t]]}
      BY <2>2 DEF reqctx_insert, Key
    <3>2. e \in Places /\ e # None /\ \A p \in Procs : ref[p] # e
      BY <3>1, NoneIsNoPlace, Facts DEF Candidates, Free, MapInv, TypeOK
    <3>3. ref'[Tgid[t]] = e /\ \A p \in Procs : p # Tgid[t] => ref'[p] = ref[p]
      BY <3>1, Facts DEF TypeOK
    <3>4. At(t)' = NewCtx(t)
      BY <3>1, <3>2, <3>3, Facts DEF At, TypeOK
    <3>5. CtxInv(t)'
      BY <1>1, <3>4, Facts DEF CtxInv, NewCtx, CallInv
    <3>6. e \notin spare' /\ spare' # {}
      BY <3>1, <3>2, Facts DEF Candidates, Free, MapInv
    <3>7. \A p \in Procs : p # Tgid[t] => ref[p] \notin spare'
      <4> SUFFICES ASSUME NEW p \in Procs, p # Tgid[t]
                   PROVE  ref[p] \notin spare'
        OBVIOUS
      <4>1. CASE ref[Tgid[t]] = None
        BY <3>1, <4>1, Facts DEF MapInv
      <4>2. CASE ref[Tgid[t]] # None
        BY <3>1, <4>2, Facts DEF MapInv
      <4> QED BY <4>1, <4>2
    <3>8. MapInv'
      BY <3>2, <3>3, <3>6, <3>7, Facts DEF MapInv
    <3> QED BY <3>5, <3>8
  <2> QED BY <2>1, <2>2
<1> QED BY <1>1, <1>2, <1>3, <1>4, SameOut, KnownIs DEF Shared

LEMMA StepBody ==
    ASSUME Good, NEW t \in Threads, is_target_pid(t), tcp_recvmsg(t)
    PROVE  Known(t)' /\ Shared'
<1>1. /\ pc[t] = "recv_body" /\ pc'[t] = "ret_get"
      /\ UNCHANGED <<ref, reqCtx, spare, recv, send, out, nreq, last>>
  BY Facts DEF tcp_recvmsg, Goto, TypeOK, map
<1>2. recv[t].buf # 0 /\ recv[t].buf \in Bufs
  BY <1>1, Facts DEF LocalsInv, RecvCall
<1>3. mem'[Tgid[t]][recv[t].buf] = seen'[t]
  <2>1. mem \in [Procs -> [Bufs -> Data]]
    BY Facts DEF TypeOK
  <2>2. seen \in [Threads -> Data]
    BY Facts DEF TypeOK
  <2> QED BY <1>2, <2>1, <2>2, Facts DEF tcp_recvmsg
<1>4. PtrInv(t)' /\ CallInv(t)'
  BY <1>1, <1>2, <1>3 DEF PtrInv, CallInv
<1>5. CtxInv(t)'
  BY <1>1, Facts DEF CtxInv, Has, At
<1>6. FreshInv(t)'
  BY <1>1, Facts DEF FreshInv, Fresh, Has
<1> QED BY <1>1, <1>4, <1>5, <1>6, SameOut, SameMap, KnownIs DEF Shared, map

LEMMA StepGet ==
    ASSUME Good, NEW t \in Threads, is_target_pid(t), recvmsg_ret_get(t)
    PROVE  Known(t)' /\ Shared'
<1>1. pc[t] = "ret_get"
      /\ UNCHANGED <<ref, reqCtx, spare, mem, out, nreq, last, seen>>
  BY DEF recvmsg_ret_get, map
<1>2. CASE ~Has(t)
  <2>1. Return(t)
    BY <1>2 DEF recvmsg_ret_get, Has, Key
  <2>2. Known(t)'
    BY <1>1, <1>2, <2>1, Returned DEF Has
  <2> QED BY <1>1, <2>2, SameOut, SameMap DEF Shared, map
<1>3. CASE Has(t)
  <2>1. /\ pc'[t] = "ret_iov" /\ recv'[t].ptr = ref[Tgid[t]]
        /\ recv'[t].buf = recv[t].buf
    <3>1. /\ recv' = [recv EXCEPT ![t].ptr = ref[Tgid[t]]]
          /\ pc' = [pc EXCEPT ![t] = "ret_iov"]
      BY <1>3 DEF recvmsg_ret_get, Has, Key, Goto
    <3> QED BY <3>1, Facts DEF TypeOK, RecvCall
  <2>2. PtrInv(t)' /\ CallInv(t)'
    BY <1>1, <1>3, <2>1, Facts DEF PtrInv, CallInv, Has
  <2>3. CtxInv(t)'
    BY <1>1, <2>1, Facts DEF CtxInv, Has, At
  <2>4. FreshInv(t)'
    BY <1>1, <2>1, Facts DEF FreshInv, Fresh, Has
  <2> QED BY <1>1, <2>2, <2>3, <2>4, SameOut, SameMap, KnownIs DEF Shared, map
<1> QED BY <1>2, <1>3

LEMMA StepIov ==
    ASSUME Good, NEW t \in Threads, is_target_pid(t), recvmsg_ret_iov(t)
    PROVE  Known(t)' /\ Shared'
<1>1. pc[t] = "ret_iov" /\ Has(t) /\ recv[t].ptr = ref[Tgid[t]]
      /\ UNCHANGED <<ref, reqCtx, spare, mem, out, nreq, last, seen>>
  BY Facts DEF recvmsg_ret_iov, map, PtrInv
<1>2. CASE At(t).iov = 0
  <2>1. Return(t)
    BY <1>1, <1>2 DEF recvmsg_ret_iov, At
  <2>2. At(t).req = last[t] /\ At(t).lo = Zero /\ At(t).hi = Zero
        /\ At(t).by \subseteq {t}
    BY <1>1, Facts DEF CtxInv
  <2>3. Known(t)'
    BY <1>1, <1>2, <2>1, <2>2, Returned DEF Has, At
  <2> QED BY <1>1, <2>3, SameOut, SameMap DEF Shared, map
<1>3. CASE At(t).iov # 0
  <2>1. /\ pc'[t] = "ret_read" /\ recv'[t].iov = At(t).iov
        /\ recv'[t].buf = recv[t].buf
    <3>1. /\ recv' = [recv EXCEPT ![t].iov = At(t).iov, ![t].ptr = None]
          /\ pc' = [pc EXCEPT ![t] = "ret_read"]
      BY <1>1, <1>3 DEF recvmsg_ret_iov, At, Goto
    <3> QED BY <3>1, Facts DEF TypeOK, RecvCall
  <2>2. At(t).iov = recv[t].buf
    BY <1>1, <1>3, Facts DEF CtxInv
  <2>3. PtrInv(t)' /\ CallInv(t)'
    BY <1>1, <2>1, <2>2, Facts DEF PtrInv, CallInv
  <2>4. CtxInv(t)'
    BY <1>1, <2>1, Facts DEF CtxInv, Has, At
  <2>5. FreshInv(t)'
    BY <1>1, <2>1, Facts DEF FreshInv, Fresh, Has
  <2> QED BY <1>1, <2>3, <2>4, <2>5, SameOut, SameMap, KnownIs DEF Shared, map
<1> QED BY <1>2, <1>3

LEMMA StepRead ==
    ASSUME Good, NEW t \in Threads, is_target_pid(t), recvmsg_ret_read(t)
    PROVE  Known(t)' /\ Shared'
<1>1. /\ pc[t] = "ret_read" /\ pc'[t] = "ret_ptr"
      /\ recv'[t].data \in {mem[Tgid[t]][recv[t].iov], Zero}
      /\ UNCHANGED <<ref, reqCtx, spare, out, nreq, last, seen>>
  BY Facts DEF recvmsg_ret_read, Goto, TypeOK, RecvCall, map
<1>2. recv'[t].data \in {Zero, seen[t]}
  BY <1>1, Facts DEF CallInv
<1>3. PtrInv(t)' /\ CallInv(t)'
  BY <1>1, <1>2 DEF PtrInv, CallInv
<1>4. CtxInv(t)'
  BY <1>1, Facts DEF CtxInv, Has, At
<1>5. FreshInv(t)'
  BY <1>1, Facts DEF FreshInv, Fresh, Has
<1> QED BY <1>1, <1>3, <1>4, <1>5, SameOut, SameMap, KnownIs DEF Shared, map

LEMMA StepPtr ==
    ASSUME Good, NEW t \in Threads, is_target_pid(t), recvmsg_ret_ptr(t)
    PROVE  Known(t)' /\ Shared'
<1>1. pc[t] = "ret_ptr"
      /\ UNCHANGED <<ref, reqCtx, spare, mem, out, nreq, last, seen>>
  BY DEF recvmsg_ret_ptr, map
<1>2. CASE ~Has(t)
  <2>1. Return(t)
    BY <1>2 DEF recvmsg_ret_ptr, Has, Key
  <2>2. Known(t)'
    BY <1>1, <1>2, <2>1, Returned DEF Has
  <2> QED BY <1>1, <2>2, SameOut, SameMap DEF Shared, map
<1>3. CASE Has(t)
  <2>1. /\ pc'[t] = "ret_store" /\ recv'[t].ptr = ref[Tgid[t]]
        /\ recv'[t].data = recv[t].data /\ recv'[t].todo = StoreWords
    <3>1. /\ recv' = [recv EXCEPT ![t].ptr = ref[Tgid[t]], ![t].todo = StoreWords]
          /\ pc' = [pc EXCEPT ![t] = "ret_store"]
      BY <1>3 DEF recvmsg_ret_ptr, Has, Key, Goto
    <3> QED BY <3>1, Facts DEF TypeOK, RecvCall
  <2>2. PtrInv(t)' /\ CallInv(t)'
    BY <1>1, <1>3, <2>1, Facts DEF PtrInv, CallInv, Has
  <2>3. CtxInv(t)'
    BY <1>1, <2>1, Facts DEF CtxInv, Has, At, StoreWords
  <2>4. FreshInv(t)'
    BY <1>1, <2>1, Facts DEF FreshInv, Fresh, Has
  <2> QED BY <1>1, <2>2, <2>3, <2>4, SameOut, SameMap, KnownIs DEF Shared, map
<1> QED BY <1>2, <1>3

LEMMA StepStore ==
    ASSUME Good, NEW t \in Threads, is_target_pid(t), recvmsg_ret_store(t)
    PROVE  Known(t)' /\ Shared'
<1>1. /\ pc[t] = "ret_store" /\ Has(t) /\ recv[t].ptr = ref[Tgid[t]]
      /\ UNCHANGED <<ref, spare, mem, out, nreq, last, seen>>
  BY Facts DEF recvmsg_ret_store, PtrInv
<1>2. PICK w \in recv[t].todo :
         /\ reqCtx' = [reqCtx EXCEPT ![recv[t].ptr] =
                          StoredIn(reqCtx[recv[t].ptr], t, w)]
         /\ IF recv[t].todo = {w}
            THEN Return(t)
            ELSE /\ recv' = [recv EXCEPT ![t].todo = @ \ {w}]
                 /\ UNCHANGED <<pc, send>>
  BY DEF recvmsg_ret_store
<1> DEFINE c == At(t)
           n == StoredIn(c, t, w)
<1>3. Has(t)' /\ At(t)' = n
  BY <1>1, <1>2, Facts DEF At, Has, TypeOK
<1>4. w \in {"lo", "hi", "iov"} /\ recv[t].todo \subseteq {"lo", "hi", "iov"}
      /\ c \in ReqCtx
  BY <1>1, <1>2, Facts DEF RecvCall, StoreWords
<1>5. /\ n.by \subseteq {t} /\ n.req = last[t]
      /\ n.lo = IF w = "lo" THEN recv[t].data ELSE c.lo
      /\ n.hi = IF w = "hi" THEN recv[t].data ELSE c.hi
      /\ n.iov = IF w = "iov" THEN 0 ELSE c.iov
  <2>1. c.by \subseteq {t} /\ c.req = last[t]
    BY <1>1, Facts DEF CtxInv
  <2> HIDE DEF c
  <2>2. CASE w = "lo"
    BY <1>4, <2>1, <2>2 DEF StoredIn, ReqCtx
  <2>3. CASE w = "hi"
    BY <1>4, <2>1, <2>3 DEF StoredIn, ReqCtx
  <2>4. CASE w = "iov"
    BY <1>4, <2>1, <2>4 DEF StoredIn, ReqCtx
  <2> QED BY <1>4, <2>2, <2>3, <2>4
<1>6. /\ "lo" \in recv[t].todo \ {w} \/ n.lo = recv[t].data
      /\ "hi" \in recv[t].todo \ {w} \/ n.hi = recv[t].data
      /\ "iov" \in recv[t].todo \ {w} \/ n.iov = 0
  BY <1>1, <1>4, <1>5, Facts DEF CtxInv
<1>7. recv[t].data \in {Zero, seen[t]}
  BY <1>1, Facts DEF CallInv
<1> HIDE DEF c, n
<1>8. CASE recv[t].todo = {w}
  <2>1. n.lo = recv[t].data /\ n.hi = recv[t].data /\ n.iov = 0
    BY <1>6, <1>8
  <2>2. Known(t)'
    BY <1>1, <1>2, <1>3, <1>5, <1>7, <1>8, <2>1, Returned
  <2> QED BY <1>1, <2>2, SameOut, Facts DEF Shared, MapInv
<1>9. CASE recv[t].todo # {w}
  <2>1. /\ pc'[t] = "ret_store" /\ recv'[t].ptr = recv[t].ptr
        /\ recv'[t].data = recv[t].data /\ recv'[t].todo = recv[t].todo \ {w}
    <3> DEFINE r == recv[t].todo \ {w}
    <3>1. recv' = [recv EXCEPT ![t].todo = r] /\ pc' = pc
      BY <1>2, <1>9, Facts DEF TypeOK
    <3> HIDE DEF r
    <3>2. /\ recv'[t].ptr = recv[t].ptr /\ recv'[t].data = recv[t].data
          /\ recv'[t].todo = r
      BY <3>1, Facts DEF TypeOK, RecvCall
    <3> QED BY <1>1, <3>1, <3>2 DEF r
  <2>2. PtrInv(t)'
    BY <1>1, <1>3, <2>1 DEF PtrInv
  <2>3. CallInv(t)'
    BY <1>1, <1>7, <2>1 DEF CallInv
  <2>4. CtxInv(t)'
    BY <1>1, <1>3, <1>5, <1>6, <2>1 DEF CtxInv
  <2>5. FreshInv(t)'
    BY <1>1, <1>3, Facts DEF FreshInv, Fresh
  <2> QED BY <1>1, <2>2, <2>3, <2>4, <2>5, SameOut, KnownIs, Facts
          DEF Shared, MapInv
<1> QED BY <1>8, <1>9

LEMMA StepSend ==
    ASSUME Good, NEW t \in Threads, is_target_pid(t), NEW s \in Socks,
           try_on_sendmsg(t, s)
    PROVE  Known(t)' /\ Shared'
<1>1. /\ pc[t] = "user" /\ pc'[t] = "send_get"
      /\ UNCHANGED <<ref, reqCtx, spare, out, nreq, last, seen>>
  BY Facts DEF try_on_sendmsg, Goto, TypeOK, map
<1>2. /\ send'[t].last = last[t] /\ send'[t].seen = seen[t]
      /\ send'[t].ctx.by = {}
  BY Facts DEF try_on_sendmsg, TypeOK, NoSend, Blank
<1>3. PtrInv(t)' /\ CallInv(t)'
  BY <1>1, <1>2 DEF PtrInv, CallInv
<1>4. CtxInv(t)'
  BY <1>1, Facts DEF CtxInv, Has, At
<1>5. FreshInv(t)'
  BY <1>1, Facts DEF FreshInv, Fresh, Has
<1> QED BY <1>1, <1>3, <1>4, <1>5, SameOut, SameMap, KnownIs DEF Shared, map

LEMMA StepSendGet ==
    ASSUME Good, NEW t \in Threads, is_target_pid(t), sendmsg_get(t)
    PROVE  Known(t)' /\ Shared'
<1>1. pc[t] = "send_get"
      /\ UNCHANGED <<ref, reqCtx, spare, mem, out, nreq, last, seen>>
  BY DEF sendmsg_get, map
<1>2. CASE ~Has(t)
  <2>1. Return(t)
    BY <1>2 DEF sendmsg_get, Has, Key
  <2>2. Known(t)'
    BY <1>1, <1>2, <2>1, Returned DEF Has
  <2> QED BY <1>1, <2>2, SameOut, SameMap DEF Shared, map
<1>3. CASE Has(t)
  <2>1. /\ send' = [send EXCEPT ![t].ptr = ref[Tgid[t]], ![t].todo = CopyWords]
        /\ pc' = [pc EXCEPT ![t] = "send_copy"]
    BY <1>3 DEF sendmsg_get, Has, Key, Goto
  <2>2. /\ pc'[t] = "send_copy" /\ send'[t].ptr = ref[Tgid[t]]
        /\ send'[t].todo = CopyWords /\ send'[t].last = send[t].last
        /\ send'[t].seen = send[t].seen /\ send'[t].ctx = send[t].ctx
    BY <2>1, Facts DEF TypeOK, SendCall
  <2>3. PtrInv(t)'
    BY <1>1, <1>3, <2>2 DEF PtrInv, Has
  <2>4. CallInv(t)'
    BY <1>1, <2>2, Facts DEF CallInv, CopyWords
  <2>5. CtxInv(t)'
    BY <1>1, <2>2, Facts DEF CtxInv, Has, At
  <2>6. FreshInv(t)'
    BY <1>1, <2>2, Facts DEF FreshInv, Fresh, Has
  <2> QED BY <1>1, <2>3, <2>4, <2>5, <2>6, SameOut, SameMap, KnownIs
          DEF Shared, map
<1> QED BY <1>2, <1>3

LEMMA StepCopy ==
    ASSUME Good, NEW t \in Threads, is_target_pid(t), sendmsg_copy(t)
    PROVE  Known(t)' /\ Shared'
<1>1. /\ pc[t] = "send_copy" /\ Has(t) /\ send[t].ptr = ref[Tgid[t]]
      /\ UNCHANGED <<ref, reqCtx, spare, mem, out, nreq, last, seen>>
  BY Facts DEF sendmsg_copy, PtrInv, map
<1> DEFINE c == At(t)
           k == send[t].ctx
<1>2. PICK w \in send[t].todo :
         /\ send' = [send EXCEPT ![t].ctx = CopiedFrom(k, c, w),
                                 ![t].todo = @ \ {w}]
         /\ pc' = [pc EXCEPT ![t] = IF send[t].todo = {w} THEN "send_remove"
                                                          ELSE "send_copy"]
  <2>1. send[t] \in SendCall /\ send \in [Threads -> SendCall]
    BY Facts DEF TypeOK
  <2> QED BY <1>1, <2>1 DEF sendmsg_copy, Goto, At
<1> DEFINE n == CopiedFrom(k, c, w)
<1>3. /\ w \in {"start", "client", "lo", "hi"} /\ c \in ReqCtx /\ k \in ReqCtx
      /\ send[t].todo \subseteq {"start", "client", "lo", "hi"}
  BY <1>1, <1>2, Facts DEF SendCall, CopyWords
<1>4. /\ c.by \subseteq {t} /\ k.by \subseteq {t} /\ c.req = last[t]
      /\ c.lo = c.hi /\ c.lo \in {Zero, seen[t]}
  BY <1>1, Facts DEF CtxInv, CallInv
<1>5. /\ n.by \subseteq {t}
      /\ n.req = IF w = "start" THEN c.req ELSE k.req
      /\ n.lo = IF w = "lo" THEN c.lo ELSE k.lo
      /\ n.hi = IF w = "hi" THEN c.hi ELSE k.hi
  <2> HIDE DEF c, k
  <2>1. CASE w = "start"
    BY <1>3, <1>4, <2>1 DEF CopiedFrom, ReqCtx
  <2>2. CASE w = "client"
    BY <1>3, <1>4, <2>2 DEF CopiedFrom, ReqCtx
  <2>3. CASE w = "lo"
    BY <1>3, <1>4, <2>3 DEF CopiedFrom, ReqCtx
  <2>4. CASE w = "hi"
    BY <1>3, <1>4, <2>4 DEF CopiedFrom, ReqCtx
  <2> QED BY <1>3, <2>1, <2>2, <2>3, <2>4
<1>6. /\ "start" \in send[t].todo \ {w} \/ n.req = c.req
      /\ "lo" \in send[t].todo \ {w} \/ n.lo = c.lo
      /\ "hi" \in send[t].todo \ {w} \/ n.hi = c.hi
  BY <1>1, <1>3, <1>5, Facts DEF CallInv
<1>7. /\ send'[t].ctx = n /\ send'[t].todo = send[t].todo \ {w}
      /\ send'[t].last = last[t] /\ send'[t].seen = seen[t]
      /\ pc'[t] = IF send[t].todo = {w} THEN "send_remove" ELSE "send_copy"
      /\ send'[t].ptr = send[t].ptr
  <2> HIDE DEF n
  <2>1. send[t].last = last[t] /\ send[t].seen = seen[t]
    BY <1>1, Facts DEF CallInv
  <2> QED BY <1>2, <2>1, Facts DEF TypeOK, SendCall, n
<1>8. Has(t)' /\ At(t)' = c
  BY <1>1 DEF Has, At
<1> HIDE DEF c, n, k
<1>9. PtrInv(t)'
  BY <1>1, <1>7, <1>8 DEF PtrInv
<1>10. CallInv(t)'
  <2>1. CASE send[t].todo = {w}
    BY <1>1, <1>4, <1>5, <1>6, <1>7, <2>1 DEF CallInv
  <2>2. CASE send[t].todo # {w}
    BY <1>1, <1>4, <1>5, <1>6, <1>7, <1>8, <2>2 DEF CallInv
  <2> QED BY <2>1, <2>2
<1>11. CtxInv(t)'
  BY <1>1, <1>4, <1>7, <1>8, Facts DEF CtxInv, c
<1>12. FreshInv(t)'
  BY <1>1, <1>8, Facts DEF FreshInv, Fresh
<1> QED BY <1>1, <1>9, <1>10, <1>11, <1>12, SameOut, SameMap, KnownIs
        DEF Shared, map

LEMMA StepRemove ==
    ASSUME Good, NEW t \in Threads, is_target_pid(t), sendmsg_remove(t)
    PROVE  Known(t)' /\ Shared'
<1>1. /\ pc[t] = "send_remove"
      /\ ref' = [ref EXCEPT ![Tgid[t]] = None]
      /\ UNCHANGED <<reqCtx, spare, mem, out, nreq, last, seen>>
  BY DEF sendmsg_remove, Removed, Key
<1>2. ref'[Tgid[t]] = None /\ \A p \in Procs : p # Tgid[t] => ref'[p] = ref[p]
  BY <1>1, Facts DEF TypeOK
<1>3. None \notin spare
  BY NoneIsNoPlace, Facts DEF TypeOK
<1>4. MapInv'
  BY <1>1, <1>2, <1>3, Facts DEF MapInv
<1>5. Known(t)'
  <2>1. CASE Accepted(t)
    <3>1. pc'[t] = "send_output" /\ send' = send /\ ~Has(t)'
      BY <1>1, <1>2, <2>1, Facts DEF sendmsg_remove, Goto, TypeOK, Has
    <3>2. PtrInv(t)' /\ CallInv(t)'
      BY <1>1, <3>1, Facts DEF PtrInv, CallInv
    <3>3. CtxInv(t)' /\ FreshInv(t)'
      BY <1>1, <3>1, Facts DEF CtxInv, FreshInv, Fresh
    <3> QED BY <3>2, <3>3, KnownIs
  <2>2. CASE ~Accepted(t)
    <3>1. Return(t)
      BY <2>2 DEF sendmsg_remove
    <3> QED BY <1>1, <1>2, <3>1, Returned DEF Has
  <2> QED BY <2>1, <2>2
<1> QED BY <1>1, <1>4, <1>5, SameOut DEF Shared

LEMMA StepOutput ==
    ASSUME Good, NEW t \in Threads, is_target_pid(t), sendmsg_output(t)
    PROVE  Known(t)' /\ Shared'
<1>1. /\ pc[t] = "send_output" /\ Return(t)
      /\ UNCHANGED <<ref, reqCtx, spare, mem, nreq, last, seen>>
  BY DEF sendmsg_output, map
<1> DEFINE e == EventOf(t)
<1>2. /\ e.req = last[t] /\ e.last = last[t]
      /\ e.lo = e.hi /\ e.lo \in {Zero, e.seen}
      /\ \A u \in e.by : Tgid[u] = e.tid
  BY <1>1, Facts DEF EventOf, CallInv
<1>3. out' = Append(out, e) /\ Fresh(e.req) /\ e.req <= nreq
      /\ ~Has(t)
  BY <1>1, <1>2, Facts DEF sendmsg_output, FreshInv, NumberInv, CtxInv
<1> HIDE DEF e
<1>4. out \in Seq(LatencyEvent)
  BY Facts DEF TypeOK
<1>5. /\ DOMAIN out' = 1 .. (Len(out) + 1) /\ DOMAIN out = 1 .. Len(out)
      /\ out'[Len(out) + 1] = e /\ Len(out) \in Nat
      /\ \A i \in DOMAIN out : out'[i] = out[i]
  BY <1>3, <1>4
<1>6. \A i \in DOMAIN out' : i = Len(out) + 1 \/ i \in DOMAIN out
  BY <1>5
<1>7. /\ NumberInv /\ OneSamplePerRequest /\ LatestRequest /\ OwnData
      /\ SameProcess
  BY Facts DEF OutInv
<1>8. OneSamplePerRequest'
  <2>1. ASSUME NEW i \in DOMAIN out', NEW j \in DOMAIN out',
               out'[i].req = out'[j].req
        PROVE  i = j
    <3>1. CASE i \in DOMAIN out /\ j \in DOMAIN out
      BY <1>5, <1>7, <2>1, <3>1 DEF OneSamplePerRequest
    <3>2. CASE i \in DOMAIN out /\ j = Len(out) + 1
      BY <1>3, <1>5, <2>1, <3>2 DEF Fresh
    <3>3. CASE i = Len(out) + 1 /\ j \in DOMAIN out
      BY <1>3, <1>5, <2>1, <3>3 DEF Fresh
    <3> QED BY <1>6, <3>1, <3>2, <3>3
  <2> QED BY <2>1 DEF OneSamplePerRequest
<1>9. LatestRequest' /\ OwnData' /\ SameProcess'
  <2>1. ASSUME NEW i \in DOMAIN out'
        PROVE  /\ out'[i].req = out'[i].last
               /\ out'[i].lo = out'[i].hi
               /\ out'[i].lo \in {Zero, out'[i].seen}
               /\ \A u \in out'[i].by : Tgid[u] = out'[i].tid
    <3>1. CASE i \in DOMAIN out
      BY <1>5, <1>7, <3>1 DEF LatestRequest, OwnData, SameProcess
    <3>2. CASE i = Len(out) + 1
      BY <1>2, <1>5, <3>2
    <3> QED BY <1>6, <3>1, <3>2
  <2> QED BY <2>1 DEF LatestRequest, OwnData, SameProcess
<1>10. NumberInv'
  <2>1. \A i \in DOMAIN out' : out'[i].req <= nreq'
    BY <1>1, <1>3, <1>5, <1>6, <1>7, Zenon DEF NumberInv
  <2> QED BY <1>1, <1>7, <2>1 DEF NumberInv
<1>11. pc'[t] = "user" /\ ~Has(t)'
  BY <1>1, <1>3, Facts DEF Return, Goto, TypeOK, Has
<1>12. Known(t)'
  <2>1. PtrInv(t)' /\ CtxInv(t)' /\ CallInv(t)' /\ FreshInv(t)'
    BY <1>11 DEF PtrInv, CtxInv, CallInv, FreshInv
  <2> QED BY <2>1, KnownIs
<1>13. MapInv'
  BY <1>1, SameMap DEF map
<1> QED BY <1>8, <1>9, <1>10, <1>12, <1>13 DEF Shared, OutInv

-----------------------------------------------------------------------------
(* Every step *)

\* A thread the filter rejects writes to a buffer no traced receive uses.
LEMMA StepUntraced ==
    ASSUME Good, NEW t \in Threads, NEW b \in Bufs, untraced_recvmsg(t, b)
    PROVE  SoleInv'
<1>1. UNCHANGED <<ref, reqCtx, spare, pc, recv, send, out, nreq, last, seen>>
  BY DEF untraced_recvmsg, map
<1>2. PICK d \in Payloads : mem' = [mem EXCEPT ![Tgid[t]][b] = d]
  BY DEF untraced_recvmsg
<1>3. ASSUME NEW u \in Threads
      PROVE  mem'[Tgid[u]][recv[u].buf] = mem[Tgid[u]][recv[u].buf]
  <2>1. CASE Tgid[u] = Tgid[t]
    <3>1. recv[u].buf # b
      BY <2>1 DEF untraced_recvmsg, BusyBufs
    <3>2. mem \in [Procs -> [Bufs -> Data]] /\ Tgid[u] \in Procs
      BY ProcOf DEF Good, TypeOK
    <3> QED BY <1>2, <2>1, <3>1, <3>2
  <2>2. CASE Tgid[u] # Tgid[t]
    <3>1. mem \in [Procs -> [Bufs -> Data]] /\ Tgid[u] \in Procs
      BY ProcOf DEF Good, TypeOK
    <3> QED BY <1>2, <2>2, <3>1
  <2> QED BY <2>1, <2>2
<1>4. ASSUME NEW u \in Threads
      PROVE  Known(u)'
  <2>1. FreshInv(u) => FreshInv(u)'
    BY <1>1 DEF FreshInv, Fresh, Has
  <2> QED BY <1>1, <1>3, <2>1, Kept
<1>5. Shared'
  BY <1>1, SameMap, SameOut DEF Shared, map
<1> QED BY <1>4, <1>5 DEF SoleInv

\* A traced thread's step leaves what is known of the others.
LEMMA StepOthers ==
    ASSUME Good, NEW t \in Threads, is_target_pid(t),
           RecvSteps(t) \/ SendSteps(t),
           NEW u \in Threads, u # t
    PROVE  Known(u)'
<1>1. pc'[u] = pc[u] /\ recv'[u] = recv[u] /\ send'[u] = send[u]
  BY Others DEF Good
<1>2. CASE ~is_target_pid(u)
  BY <1>1, <1>2 DEF Good, SoleInv, Known, is_target_pid
<1>3. CASE is_target_pid(u)
  <2>1. /\ ref'[Tgid[u]] = ref[Tgid[u]]
        /\ Has(u) => reqCtx'[ref[Tgid[u]]] = reqCtx[ref[Tgid[u]]]
        /\ mem'[Tgid[u]] = mem[Tgid[u]]
        /\ last'[u] = last[u] /\ seen'[u] = seen[u]
    BY <1>3, Elsewhere
  <2>2. FreshInv(u) => FreshInv(u)'
    <3>1. CASE out' = out
      BY <1>1, <2>1, <3>1 DEF FreshInv, Fresh, Has
    <3>2. CASE out' # out
      <4>1. sendmsg_output(t)
        BY <3>2 DEF RecvSteps, SendSteps, untraced_recvmsg, try_on_recvmsg,
           reqctx_insert, tcp_recvmsg, recvmsg_ret_get, recvmsg_ret_iov,
           recvmsg_ret_read, recvmsg_ret_ptr, recvmsg_ret_store,
           try_on_sendmsg, sendmsg_get, sendmsg_copy, sendmsg_remove
      <4>2. out' = Append(out, EventOf(t)) /\ EventOf(t).req = last[t]
            /\ last[t] # 0
        BY <4>1, Facts DEF sendmsg_output, EventOf, CallInv, FreshInv
      <4>3. last[u] # last[t]
        BY <4>2, Facts DEF NumberInv
      <4> DEFINE e == EventOf(t)
      <4> HIDE DEF e
      <4>4. out' = Append(out, e) /\ e.req = last[t] /\ out \in Seq(LatencyEvent)
        BY <4>2, Facts DEF e, TypeOK
      <4>5. \A i \in DOMAIN out' :
               \/ out'[i].req = last[t]
               \/ i \in DOMAIN out /\ out'[i] = out[i]
        BY <4>4
      <4>6. Fresh(last[u]) => Fresh(last[u])'
        BY <2>1, <4>3, <4>5 DEF Fresh
      <4> QED BY <1>1, <2>1, <4>6 DEF FreshInv, Has
    <3> QED BY <3>1, <3>2
  <2> QED BY <1>1, <2>1, <2>2, Kept
<1> QED BY <1>2, <1>3

LEMMA StepTraced ==
    ASSUME Good, NEW t \in Threads, is_target_pid(t),
           RecvSteps(t) \/ SendSteps(t)
    PROVE  SoleInv'
<1>1. CASE \E b \in Bufs : untraced_recvmsg(t, b)
  BY <1>1, StepUntraced
<1>2. CASE ~(\E b \in Bufs : untraced_recvmsg(t, b))
  <2>1. Known(t)' /\ Shared'
    BY <1>2, StepRecv, StepInsert, StepBody, StepGet, StepIov, StepRead, StepPtr,
       StepStore, StepSend, StepSendGet, StepCopy, StepRemove, StepOutput
       DEF RecvSteps, SendSteps
  <2> QED BY <2>1, StepOthers DEF SoleInv
<1> QED BY <1>1, <1>2

LEMMA InitSole == Init => SoleInv
<1> SUFFICES ASSUME Init
             PROVE  SoleInv
  OBVIOUS
<1>1. \A p \in Procs : ref[p] = None
  BY DEF Init
<1>2. MapInv
  BY <1>1, ProbeConstants, NoneIsNoPlace DEF Init, MapInv, Places
<1>3. ASSUME NEW t \in Threads
      PROVE  Known(t)
  <2>1. pc[t] = "user" /\ ~Has(t)
    BY <1>1, ProcOf DEF Init, Has
  <2> QED BY <2>1 DEF Known, PtrInv, CtxInv, CallInv, FreshInv
<1>4. NumberInv /\ OutInv
  BY DEF Init, NumberInv, OutInv, OneSamplePerRequest, LatestRequest, OwnData,
     SameProcess
<1> QED BY <1>2, <1>3, <1>4 DEF SoleInv, Shared

LEMMA NextSole == OneTracedEach /\ Typed /\ SoleInv /\ [Next]_vars => SoleInv'
<1> SUFFICES ASSUME Good, [Next]_vars
             PROVE  SoleInv'
  BY DEF Typed, Good
<1>1. CASE \E t \in Threads : RecvSteps(t) \/ SendSteps(t)
  <2>1. PICK t \in Threads : RecvSteps(t) \/ SendSteps(t)
    BY <1>1
  <2>2. CASE is_target_pid(t)
    BY <2>1, <2>2, StepTraced
  <2>3. CASE ~is_target_pid(t)
    <3>1. pc[t] = "user"
      BY <2>3 DEF Good, SoleInv, Known
    <3>2. \E b \in Bufs : untraced_recvmsg(t, b)
      BY <2>1, <2>3, <3>1 DEF RecvSteps, SendSteps, try_on_recvmsg,
         reqctx_insert, tcp_recvmsg, recvmsg_ret_get, recvmsg_ret_iov,
         recvmsg_ret_read, recvmsg_ret_ptr, recvmsg_ret_store, try_on_sendmsg,
         sendmsg_get, sendmsg_copy, sendmsg_remove, sendmsg_output
    <3> QED BY <3>2, StepUntraced
  <2> QED BY <2>2, <2>3
<1>2. CASE Tick \/ UNCHANGED vars
  <2>1. UNCHANGED <<mem, ref, reqCtx, spare, pc, recv, send, out, nreq, last, seen>>
    BY <1>2 DEF Tick, vars, map
  <2>2. ASSUME NEW u \in Threads
        PROVE  Known(u)'
    <3>1. FreshInv(u) => FreshInv(u)'
      BY <2>1 DEF FreshInv, Fresh, Has
    <3> QED BY <2>1, <3>1, Kept
  <2>3. Shared'
    BY <2>1, SameMap, SameOut DEF Shared, map
  <2> QED BY <2>2, <2>3 DEF SoleInv
<1> QED BY <1>1, <1>2 DEF Next

LEMMA AlwaysSole == OneTracedEach => (Spec => [](Typed /\ SoleInv))
<1> SUFFICES ASSUME OneTracedEach
             PROVE  Spec => [](Typed /\ SoleInv)
  OBVIOUS
<1>1. Typed /\ SoleInv /\ [Next]_vars => SoleInv'
  BY NextSole
<1> QED BY <1>1, InitSole, InitTyped, NextTyped, PTL DEF Spec

-----------------------------------------------------------------------------
(* What holds where a process has one traced thread *)

(* OneSamplePerRequest: fexit of tcp_sendmsg removes the context it copied, *)
(* so later replies to the same request find none.                         *)
THEOREM OneSample == OneTracedEach => (Spec => []OneSamplePerRequest)
<1>1. Typed /\ SoleInv => OneSamplePerRequest
  BY DEF SoleInv, Shared, OutInv
<1> QED BY <1>1, AlwaysSole, PTL

(* LatestRequest: fentry of tcp_recvmsg replaces the context an unanswered *)
(* request left; the insertion that fails for a full map leaves none.      *)
THEOREM LatestSample == OneTracedEach => (Spec => []LatestRequest)
<1>1. Typed /\ SoleInv => LatestRequest
  BY DEF SoleInv, Shared, OutInv
<1> QED BY <1>1, AlwaysSole, PTL

(* OwnData: the bytes captured through the pointer of get_ptr_mut and copied *)
(* through that of get are whole and those of the thread's own receive, or  *)
(* zeros, although elements are recycled and words are copied one by one.   *)
THEOREM OwnDataSample == OneTracedEach => (Spec => []OwnData)
<1>1. Typed /\ SoleInv => OwnData
  BY DEF SoleInv, Shared, OutInv
<1> QED BY <1>1, AlwaysSole, PTL

(* NoDanglingIov: between two calls of a thread no address of its memory is *)
(* left in its entry, whichever way the fexit of tcp_recvmsg ended.         *)
THEOREM IovCleared == OneTracedEach => (Spec => []NoDanglingIov)
<1>1. Typed /\ SoleInv => NoDanglingIov
  BY DEF SoleInv, Known, CtxInv, NoDanglingIov, Has, At
<1> QED BY <1>1, AlwaysSole, PTL

(* SameProcess: only the replying process has written into the contexts a  *)
(* sample was copied from, although the elements of REQ_CTX go from one    *)
(* process to the next and are written and read through plain pointers.    *)
THEOREM ProcessesApart == OneTracedEach => (Spec => []SameProcess)
<1>1. Typed /\ SoleInv => SameProcess
  BY DEF SoleInv, Shared, OutInv
<1> QED BY <1>1, AlwaysSole, PTL
=============================================================================
