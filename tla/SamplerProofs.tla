--------------------------- MODULE SamplerProofs ----------------------------
(***************************************************************************)
(* Proofs about StackSampler and Symbolizer, for all symbol tables, maps   *)
(* and stacks.                                                             *)
(***************************************************************************)
EXTENDS StackSampler, FoldProofs, SequenceTheorems

-----------------------------------------------------------------------------
(* The search for a symbol                                                   *)

\* A set of numbers with a bound has a greatest element.
LEMMA GreatestExists ==
    ASSUME NEW S \in SUBSET Nat, S # {}, NEW b \in Nat, \A x \in S : x <= b
    PROVE  \E m \in S : \A x \in S : x <= m
<1> DEFINE T == {b - x : x \in S}
<1>1. T \subseteq Nat /\ T # {}
  <2>1. ASSUME NEW x \in S
        PROVE  b - x \in Nat
    <3>1. x \in Nat /\ x <= b
      OBVIOUS
    <3> QED
      BY <3>1
  <2> QED
    BY <2>1
<1>2. PICK t \in T : \A u \in T : <<u, t>> \notin OpToRel(<, Nat)
  BY <1>1, NatLessThanWellFounded, WFMin
<1>3. PICK m \in S : t = b - m
  OBVIOUS
<1>4. ASSUME NEW x \in S
      PROVE  x <= m
  <2>1. <<b - x, t>> \notin OpToRel(<, Nat) /\ b - x \in Nat /\ t \in Nat
    BY <1>1, <1>2, <1>4
  <2>2. ~(b - x < t)
    BY <2>1 DEF OpToRel
  <2> QED
    BY <1>3, <2>2
<1> QED
  BY <1>4

\* A finite set with two elements has a cardinality above one.
LEMMA TwoElements ==
    ASSUME NEW S, IsFiniteSet(S), NEW x \in S, NEW y \in S, x # y
    PROVE  Cardinality(S) > 1
<1>1. IsFiniteSet({x}) /\ Cardinality({x}) = 1
  BY FS_Singleton
<1>2. IsFiniteSet({y}) /\ Cardinality({x, y}) = 2
  <2>1. {x, y} = {x} \cup {y} /\ y \notin {x}
    OBVIOUS
  <2>2. Cardinality({x} \cup {y}) = Cardinality({x}) + 1
    BY <1>1, <2>1, FS_AddElement
  <2>3. IsFiniteSet({y})
    BY FS_Singleton
  <2> QED
    BY <1>1, <2>1, <2>2, <2>3
<1>3. Cardinality({x, y}) <= Cardinality(S) /\ Cardinality(S) \in Nat
  BY FS_Subset, FS_CardinalityType
<1> QED
  BY <1>2, <1>3

\* A table of symbols: entries of a file, each with an address and a name.
IsTable(T) ==
    /\ \E n \in Nat : DOMAIN T \subseteq 1 .. n
    /\ \A i \in DOMAIN T : T[i].addr \in Nat /\ T[i].name # ""

\* With an entry at or below ip there is a last one.
LEMMA LastExists ==
    ASSUME NEW T, IsTable(T), NEW ip \in Nat,
           NEW k \in DOMAIN T, T[k].addr <= ip
    PROVE  LastBelow(T, ip) # {}
<1> DEFINE Below == {i \in DOMAIN T : T[i].addr <= ip}
           Addrs == {T[i].addr : i \in Below}
<1>1. PICK n \in Nat : DOMAIN T \subseteq 1 .. n
  BY DEF IsTable
<1>2. PICK a \in Addrs : \A x \in Addrs : x <= a
  <2>1. Addrs \in SUBSET Nat /\ Addrs # {} /\ \A x \in Addrs : x <= ip
    BY DEF IsTable
  <2> HIDE DEF Addrs
  <2> QED
    BY <2>1, GreatestExists
<1> DEFINE Top1 == {i \in Below : T[i].addr = a}
<1>3. PICK m \in Top1 : \A x \in Top1 : x <= m
  <2>1. Top1 \in SUBSET Nat /\ Top1 # {} /\ \A x \in Top1 : x <= n
    BY <1>1
  <2> HIDE DEF Top1
  <2> QED
    BY <2>1, GreatestExists
<1>4. ASSUME NEW j \in DOMAIN T, Before(T, m, j)
      PROVE  T[j].addr > ip
  <2>0. T[j].addr \in Nat
    BY DEF IsTable
  <2>1. SUFFICES ASSUME T[j].addr <= ip
                 PROVE  FALSE
    BY <2>0
  <2>2. T[j].addr \in Addrs /\ T[j].addr <= a /\ a \in Nat
    BY <2>1, <1>2 DEF IsTable
  <2>3. T[m].addr = a
    OBVIOUS
  <2>4. T[j].addr = a /\ m < j
    <3>1. T[m].addr < T[j].addr \/ (T[m].addr = T[j].addr /\ m < j)
      BY <1>4 DEF Before
    <3> QED
      BY <2>0, <2>2, <2>3, <3>1
  <2>5. j \in Top1
    BY <2>1, <2>4
  <2>6. j <= m /\ j \in Nat /\ m \in Nat
    BY <2>5, <1>1, <1>3
  <2> QED
    BY <2>4, <2>6
<1> QED
  BY <1>4 DEF LastBelow

\* The name found is the nearest, and none is found only where that is excused.
LEMMA NameRight ==
    ASSUME NEW T, IsTable(T), NEW ip \in Nat, ip <= Top, Top \in Nat
    PROVE  IF Name(T, ip) = "" THEN MayBeUnnamed(T, ip)
                               ELSE Name(T, ip) \in NearestNames(T, ip)
<1> DEFINE earlier == {i \in DOMAIN T : T[i].addr = ip} \ LastBelow(T, ip)
           found == {i \in SearchEnd(T, ip) : BelowNext(T, i, ip)}
<1>1. SearchEnd(T, ip) \subseteq DOMAIN T
  BY DEF SearchEnd, LastBelow
<1>2. CASE found = {}
  <2>1. Name(T, ip) = ""
    BY <1>2 DEF Name
  <2>2. SUFFICES ASSUME NearestNames(T, ip) # {}, ip # Top
                 PROVE  Cardinality({i \in DOMAIN T : T[i].addr = ip}) > 1
    BY <2>1 DEF MayBeUnnamed
  <2>3. PICK k \in DOMAIN T : T[k].addr <= ip
    BY <2>2 DEF NearestNames, ToSet
  <2>4. PICK l \in LastBelow(T, ip) : TRUE
    BY <2>3, LastExists
  <2>5. BelowNext(T, l, ip)
    <3>1. l \in DOMAIN T /\ \A j \in DOMAIN T : Before(T, l, j) => T[j].addr > ip
      BY <2>4 DEF LastBelow
    <3>2. \A j \in DOMAIN T : Before(T, l, j) => ip < T[j].addr
      BY <3>1 DEF IsTable
    <3> QED
      BY <2>2, <3>2 DEF BelowNext
  <2>6. l \notin SearchEnd(T, ip)
    BY <1>2, <2>5
  <2>7. PICK e \in earlier : TRUE
    BY <2>4, <2>6 DEF SearchEnd
  <2>8. e \in DOMAIN T /\ T[e].addr = ip /\ e \notin LastBelow(T, ip)
    OBVIOUS
  <2>9. PICK j \in DOMAIN T : Before(T, e, j) /\ ~(T[j].addr > ip)
    BY <2>8 DEF LastBelow
  <2>10. T[j].addr = ip /\ j # e
    <3>1. PICK n \in Nat : DOMAIN T \subseteq 1 .. n
      BY DEF IsTable
    <3>2. T[j].addr \in Nat
      BY DEF IsTable
    <3>3. j \in Nat /\ e \in Nat
      BY <2>8, <3>1
    <3>4. T[e].addr < T[j].addr \/ (T[e].addr = T[j].addr /\ e < j)
      BY <2>9 DEF Before
    <3> QED
      BY <2>8, <2>9, <3>2, <3>3, <3>4
  <2>11. IsFiniteSet({i \in DOMAIN T : T[i].addr = ip})
    <3>1. PICK n \in Nat : DOMAIN T \subseteq 1 .. n
      BY DEF IsTable
    <3>2. IsFiniteSet(1 .. n)
      BY FS_Interval
    <3> QED
      BY <3>1, <3>2, FS_Subset
  <2> QED
    BY <2>8, <2>10, <2>11, TwoElements
<1>3. CASE found # {}
  <2>1. PICK i \in found : Name(T, ip) = T[i].name
    BY <1>3 DEF Name
  <2>2. i \in DOMAIN T /\ T[i].addr \in Nat
    BY <1>1 DEF IsTable
  <2>7. T[i].name # ""
    BY <2>2 DEF IsTable
  <2>3. i \in LastBelow(T, ip) \/ T[i].addr = ip
    BY DEF SearchEnd
  <2>4. T[i].addr <= ip
    <3>1. CASE i \in LastBelow(T, ip)
      BY <3>1 DEF LastBelow
    <3>2. CASE T[i].addr = ip
      BY <2>2, <3>2
    <3> QED
      BY <2>3, <3>1, <3>2
  <2>5. ASSUME NEW j \in DOMAIN T, T[j].addr <= ip
        PROVE  T[j].addr <= T[i].addr
    <3>1. T[j].addr \in Nat
      BY DEF IsTable
    <3>2. CASE i \in LastBelow(T, ip)
      <4>1. Before(T, i, j) => T[j].addr > ip
        BY <3>2 DEF LastBelow
      <4>2. T[i].addr < T[j].addr => Before(T, i, j)
        BY DEF Before
      <4> QED
        BY <2>2, <2>5, <3>1, <4>1, <4>2
    <3>3. CASE T[i].addr = ip
      BY <2>5, <3>3
    <3> QED
      BY <2>3, <3>2, <3>3
  <2>6. T[i].name \in NearestNames(T, ip)
    BY <2>2, <2>4, <2>5 DEF NearestNames, ToSet
  <2> QED
    BY <2>1, <2>6, <2>7
<1> QED
  BY <1>2, <1>3

-----------------------------------------------------------------------------
(* The frames                                                                *)

LEMMA AddrIsNat == Top \in Nat /\ Addr \subseteq Nat
<1>1. Top \in Nat
  BY SymbolizerConstants
<1> QED
  BY <1>1 DEF Addr

LEMMA KernelTable ==
    ASSUME ksyms \in Seq(KernelSymbol)
    PROVE  IsTable(ksyms)
<1>1. DOMAIN ksyms = 1 .. Len(ksyms) /\ Len(ksyms) \in Nat
  OBVIOUS
<1>2. ASSUME NEW i \in DOMAIN ksyms
      PROVE  ksyms[i].addr \in Nat /\ ksyms[i].name # ""
  <2>1. ksyms[i] \in KernelSymbol
    OBVIOUS
  <2>2. ksyms[i].addr \in Addr
    BY <2>1 DEF KernelSymbol
  <2>3. ksyms[i].name # ""
    BY <2>1 DEF KernelSymbol
  <2> QED
    BY <2>2, <2>3, AddrIsNat
<1> QED
  BY <1>1, <1>2 DEF IsTable

LEMMA FileTable ==
    ASSUME NEW path \in DOMAIN Elf
    PROVE  IsTable(symbol_cache[path])
<1> DEFINE table == IF Elf[path].syms = <<>> THEN Elf[path].dynsyms
                                             ELSE Elf[path].syms
           I == {i \in DOMAIN table : /\ table[i].addr # 0
                                      /\ table[i].defined
                                      /\ table[i].name # ""}
<1>1. table \in Seq(Symbol)
  BY SymbolizerConstants
<1>2. symbol_cache[path] = [i \in I |-> table[i]]
  BY DEF symbol_cache, load_syms, Restrict
<1>3. DOMAIN table = 1 .. Len(table) /\ Len(table) \in Nat
  BY <1>1
<1>4. ASSUME NEW i \in I
      PROVE  table[i].addr \in Nat
  <2> HIDE DEF table
  <2>1. i \in DOMAIN table
    OBVIOUS
  <2> HIDE DEF I
  <2>2. table[i] \in Symbol
    BY <1>1, <2>1
  <2>3. table[i].addr \in Addr
    BY <2>2 DEF Symbol
  <2> QED
    BY <2>3, AddrIsNat
<1>5. \A i \in I : table[i].name # ""
  OBVIOUS
<1>6. I \subseteq 1 .. Len(table)
  BY <1>3
<1> HIDE DEF I, table
<1> QED
  BY <1>2, <1>3, <1>4, <1>5, <1>6 DEF IsTable

LEMMA KernelFrames ==
    ASSUME ksyms \in Seq(KernelSymbol), NEW ip \in Addr
    PROVE  IsNamed(ksyms, resolve_kernel[ip], ip)
<1>1. ip \in Nat /\ ip <= Top /\ Top \in Nat
  BY SymbolizerConstants DEF Addr
<1>2. resolve_kernel[ip].name = Name(ksyms, ip)
  BY DEF resolve_kernel, Frame
<1> QED
  BY <1>1, <1>2, KernelTable, NameRight DEF IsNamed

\* The mapping that is searched for is the one the address lies in.
LEMMA MappingRight ==
    ASSUME maps \subseteq ProcMaps, NEW ip \in Addr
    PROVE  MappingOf(ip) = {m \in maps : ip \in m.start .. m.end - 1}
<1>1. ASSUME NEW m \in maps
      PROVE  /\ m.start \in Nat /\ m.end \in Nat
             /\ m.start < m.end
  BY <1>1, SymbolizerConstants DEF MemMapping, Addr
<1>2. ip \in Nat
  BY SymbolizerConstants DEF Addr
<1>3. ASSUME NEW m \in MappingOf(ip)
      PROVE  m \in maps /\ ip \in m.start .. m.end - 1
  <2>1. m \in maps /\ m.start <= ip /\ (m.start = ip \/ ip < m.end)
    BY DEF MappingOf, LastMapping
  <2> QED
    BY <1>1, <1>2, <2>1
<1>4. ASSUME NEW m \in maps, ip \in m.start .. m.end - 1
      PROVE  m \in MappingOf(ip)
  <2>1. m.start <= ip /\ ip < m.end
    BY <1>1, <1>2, <1>4
  <2>2. ASSUME NEW n \in maps, n.start <= ip
        PROVE  n.start <= m.start
    <3>1. m = n \/ m.end <= n.start \/ n.end <= m.start
      BY SymbolizerConstants
    <3>2. n.start \in Nat /\ n.end \in Nat /\ n.start < n.end
      BY <1>1
    <3>3. m.start \in Nat /\ m.end \in Nat
      BY <1>1
    <3> QED
      BY <1>2, <2>1, <2>2, <3>1, <3>2, <3>3
  <2>3. m \in LastMapping(ip)
    BY <2>1, <2>2 DEF LastMapping
  <2> QED
    BY <2>1, <2>3 DEF MappingOf
<1> QED
  BY <1>3, <1>4

LEMMA UserFrames ==
    ASSUME maps \subseteq {m \in ProcMaps : m.path \notin NoFile},
           NEW ip \in Addr
    PROVE  UserFrameRight(resolve[ip], ip)
<1> DEFINE home == {m \in maps : ip \in m.start .. m.end - 1}
           off(m) == ip - m.start + m.offset
<1>1. MappingOf(ip) = home
  BY MappingRight
<1>2. CASE home = {}
  <2>1. resolve[ip] = Frame("user", "", ip)
    BY <1>1, <1>2 DEF resolve
  <2> QED
    BY <1>2, <2>1 DEF UserFrameRight
<1>3. CASE home # {}
  <2>1. PICK m \in home : resolve[ip] = FrameIn(m, off(m))
    BY <1>1, <1>3 DEF resolve
  <2>2. m \in ProcMaps /\ m.path \in DOMAIN Elf
    BY SymbolizerConstants
  <2>3. off(m) \in Nat /\ off(m) <= Top /\ Top \in Nat
    <3>1. m.start \in Nat /\ m.end \in Nat /\ m.offset \in Nat /\ Top \in Nat
      BY <2>2, SymbolizerConstants DEF MemMapping, Addr
    <3>2. m.end - m.start + m.offset <= Top
      BY <2>2, SymbolizerConstants
    <3>3. ip \in Nat /\ m.start <= ip /\ ip < m.end
      BY <3>1, SymbolizerConstants DEF Addr
    <3> QED
      BY <3>1, <3>2, <3>3
  <2> DEFINE T == symbol_cache[m.path]
             name == Name(T, off(m))
  <2>4. IF name = "" THEN MayBeUnnamed(T, off(m))
                     ELSE name \in NearestNames(T, off(m))
    BY <2>2, <2>3, FileTable, NameRight
  <2>5. CASE name = ""
    <3>1. resolve[ip] = Frame("file", m.path, off(m))
      BY <2>1, <2>5 DEF FrameIn
    <3>2. resolve[ip].kind = "file" /\ resolve[ip].name = m.path
      BY <3>1 DEF Frame
    <3> QED
      BY <1>3, <2>4, <2>5, <3>2 DEF UserFrameRight
  <2>6. CASE name # ""
    <3>1. resolve[ip] = Frame("user", name, 0)
      BY <2>1, <2>6 DEF FrameIn
    <3>2. resolve[ip].kind # "file" /\ resolve[ip].name = name
      BY <3>1 DEF Frame
    <3> QED
      BY <1>3, <2>4, <2>6, <3>2 DEF UserFrameRight
  <2> QED
    BY <2>5, <2>6
<1> QED
  BY <1>2, <1>3

-----------------------------------------------------------------------------
(* The invariant.  A sample that was sent is in flame_samples, in the        *)
(* reader's batch or in the ring, in this order, and nowhere else.           *)

Whereabouts == sent = samples \o batch \o ring

IInv ==
    /\ TypeOK
    /\ Whereabouts
    /\ \E S : placed \in Seq(S)

LEMMA InitIInv == Init => IInv
<1> SUFFICES ASSUME Init PROVE IInv
  OBVIOUS
<1>1. TypeOK
  <2>1. IsABag(EmptyBag)
    BY DEF IsABag, EmptyBag, SetToBag
  <2>2. IsABag(folded) /\ IsABag(svg.stacks) /\ svg.title \in Nat
    BY <2>1 DEF Init, NoSvg
  <2>3. Len(placed) <= Len(samples)
    BY DEF Init
  <2>4. /\ maps \subseteq {m \in ProcMaps : m.path \notin NoFile}
        /\ ksyms \in Seq(KernelSymbol) /\ aliasLast \in BOOLEAN
    BY DEF Init
  <2>5. \A q \in {sent, ring, batch, samples} : q \in Seq(StackEvent)
    <3>1. sent = <<>> /\ ring = <<>> /\ batch = <<>> /\ samples = <<>>
      BY DEF Init
    <3>2. <<>> \in Seq(StackEvent)
      OBVIOUS
    <3> QED
      BY <3>1, <3>2
  <2>6. /\ on \in BOOLEAN /\ alive \subseteq Threads /\ followed \subseteq alive
        /\ rpc \in {"off", "collect", "push", "extend"}
        /\ owner \in {"free", "reader", "main"}
        /\ main \in {"attach", "enable", "wait", "lock", "render", "done"}
    BY DEF Init
  <2> QED
    BY <2>2, <2>3, <2>4, <2>5, <2>6 DEF TypeOK
<1>2. Whereabouts
  BY DEF Init, Whereabouts
<1>3. placed \in Seq({})
  BY DEF Init
<1> QED
  BY <1>1, <1>2, <1>3 DEF IInv

LEMMA StackTyped ==
    /\ Failed \in Stack
    /\ \A s \in KStacks \cup UStacks : Walked(s) \in Stack
<1>1. 0 \in Addr /\ MaxFrames \in Nat
  BY AddrIsNat, SamplerConstants DEF Addr
<1>2. ASSUME NEW s \in KStacks \cup UStacks
      PROVE  Walked(s) \in Stack
  <2>1. s \in Seq(Addr) /\ Len(s) <= MaxFrames
    BY SamplerConstants
  <2>2. Len(s) \in -1 .. MaxFrames
    BY <1>1, <2>1
  <2>3. ASSUME NEW i \in 1 .. MaxFrames
        PROVE  (IF i <= Len(s) THEN s[i] ELSE 0) \in Addr
    BY <1>1, <2>1
  <2> QED
    BY <2>2, <2>3 DEF Walked, Stack
<1> QED
  BY <1>1, <1>2 DEF Failed, Stack

LEMMA SampleInv == ASSUME IInv, NEW t \in Threads, on_cpu_sample(t) PROVE IInv'
<1>1. PICK k \in {Walked(s) : s \in KStacks} \cup {Failed},
           u \in {Walked(s) : s \in UStacks} \cup {Failed} :
           LET ev == [pid |-> t, kstack |-> k, ustack |-> u]
           IN ring' = Append(ring, ev) /\ sent' = Append(sent, ev)
  BY DEF on_cpu_sample
<1> DEFINE ev == [pid |-> t, kstack |-> k, ustack |-> u]
<1>2. ev \in StackEvent /\ ev.pid = t
  BY StackTyped DEF StackEvent
<1>3. ring' = Append(ring, ev) /\ sent' = Append(sent, ev)
  BY <1>1
<1>4. UNCHANGED <<on, threadVars, readerVars, owner, samples, mainVars>>
  BY DEF on_cpu_sample
<1>5. /\ ring \in Seq(StackEvent) /\ sent \in Seq(StackEvent)
      /\ samples \in Seq(StackEvent) /\ batch \in Seq(StackEvent)
  BY DEF IInv, TypeOK
<1> HIDE DEF ev
<1>7. ring' \in Seq(StackEvent) /\ sent' \in Seq(StackEvent)
  BY <1>2, <1>3, <1>5
<1>8. TypeOK'
  BY <1>4, <1>7 DEF IInv, TypeOK, threadVars, readerVars, mainVars, symVars
<1>9. Whereabouts'
  <2>1. sent' = (samples \o batch) \o ring'
    <3> DEFINE sb == samples \o batch
               one == <<ev>>
    <3>1. sb \in Seq(StackEvent) /\ sent = sb \o ring
      BY <1>5, ConcatProperties DEF IInv, Whereabouts
    <3>2. one \in Seq(StackEvent)
      BY <1>2
    <3>3. sent' = sent \o one /\ ring' = ring \o one
      BY <1>2, <1>3, <1>5, AppendIsConcat
    <3> HIDE DEF sb, one
    <3>4. (sb \o ring) \o one = sb \o (ring \o one)
      BY <1>5, <3>1, <3>2, ConcatAssociative
    <3> QED
      BY <3>1, <3>3, <3>4 DEF sb
  <2> QED
    BY <1>4, <2>1 DEF Whereabouts, readerVars
<1> QED
  BY <1>4, <1>8, <1>9 DEF IInv, mainVars

LEMMA CollectInv == ASSUME IInv, collect PROVE IInv'
<1>1. PICK n \in 1 .. Len(ring) :
           /\ batch' = batch \o SubSeq(ring, 1, n)
           /\ ring' = SubSeq(ring, n + 1, Len(ring))
  BY DEF collect
<1>2. /\ ring \in Seq(StackEvent) /\ batch \in Seq(StackEvent)
      /\ samples \in Seq(StackEvent)
  BY DEF IInv, TypeOK
<1>3. UNCHANGED <<probeVars, owner, samples, mainVars>> /\ rpc' = "push"
  BY DEF collect
<1> DEFINE a == SubSeq(ring, 1, n)
           b == SubSeq(ring, n + 1, Len(ring))
<1>4. n \in Nat /\ n <= Len(ring) /\ Len(ring) \in Nat
  BY <1>2
<1>5. a \in Seq(StackEvent) /\ b \in Seq(StackEvent) /\ ring = a \o b
  <2>1. a \in Seq(StackEvent) /\ b \in Seq(StackEvent)
    BY <1>2, <1>4, SubSeqProperties
  <2>2. a \o b = SubSeq(ring, 1, Len(ring))
    BY <1>2, <1>4, ConcatAdjacentSubSeq
  <2> QED
    BY <1>2, <2>1, <2>2, SubSeqFull
<1>6. batch' = batch \o a /\ ring' = b
  BY <1>1
<1> HIDE DEF a, b
<1>7. batch' \in Seq(StackEvent) /\ ring' \in Seq(StackEvent)
  BY <1>2, <1>5, <1>6, ConcatProperties
<1>8. TypeOK'
  BY <1>3, <1>7 DEF IInv, TypeOK, probeVars, threadVars, mainVars, symVars
<1>9. Whereabouts'
  <2>1. sent = (samples \o batch) \o (a \o b)
    BY <1>5 DEF IInv, Whereabouts
  <2>2. samples \o batch \in Seq(StackEvent)
    BY <1>2, ConcatProperties
  <2>3. sent = ((samples \o batch) \o a) \o b
    <3> DEFINE sb == samples \o batch
    <3>1. sb \in Seq(StackEvent) /\ sent = sb \o (a \o b)
      BY <2>1, <2>2
    <3> HIDE DEF sb
    <3>2. a \in Seq(StackEvent) /\ b \in Seq(StackEvent)
      BY <1>5
    <3>3. (sb \o a) \o b = sb \o (a \o b)
      BY <3>1, <3>2, ConcatAssociative
    <3>4. sent = (sb \o a) \o b
      BY <3>1, <3>3
    <3> QED
      BY <3>4 DEF sb
  <2>4. (samples \o batch) \o a = samples \o (batch \o a)
    BY <1>2, <1>5, ConcatAssociative
  <2> QED
    BY <1>3, <1>6, <2>3, <2>4 DEF Whereabouts, probeVars, threadVars
<1> QED
  BY <1>3, <1>8, <1>9 DEF IInv, probeVars, threadVars, mainVars

LEMMA ExtendInv == ASSUME IInv, extend PROVE IInv'
<1>1. /\ samples' = samples \o batch /\ batch' = <<>>
      /\ owner' = "free" /\ rpc' = "collect"
      /\ UNCHANGED <<probeVars, ring, mainVars>>
  BY DEF extend, Drained, Released
<1>2. /\ ring \in Seq(StackEvent) /\ batch \in Seq(StackEvent)
      /\ samples \in Seq(StackEvent)
  BY DEF IInv, TypeOK
<1>3. samples' \in Seq(StackEvent) /\ Len(samples) <= Len(samples')
  BY <1>1, <1>2, ConcatProperties
<1>4. Len(placed') <= Len(samples')
  <2>1. PICK S : placed \in Seq(S)
    BY DEF IInv
  <2>2. Len(placed) <= Len(samples)
    BY DEF IInv, TypeOK
  <2> QED
    BY <1>1, <1>2, <1>3, <2>1, <2>2 DEF mainVars
<1>5. TypeOK'
  BY <1>1, <1>3, <1>4 DEF IInv, TypeOK, probeVars, threadVars, mainVars, symVars
<1>6. Whereabouts'
  <2>1. samples' \o <<>> = samples'
    BY <1>3, ConcatEmptySeq
  <2> QED
    BY <1>1, <2>1 DEF IInv, Whereabouts, probeVars, threadVars
<1> QED
  BY <1>1, <1>5, <1>6 DEF IInv, probeVars, threadVars, mainVars

\* Symbolizer::new fills the tables with what the files say.
LEMMA LoadInv == ASSUME IInv, lock_and_load PROVE IInv'
<1>1. /\ owner' = "main" /\ main' \in {"done", "render"}
      /\ UNCHANGED <<probeVars, ring, readerVars, samples, placed, folded, svg>>
  BY DEF lock_and_load
<1>2. ASSUME NEW hidden \in BOOLEAN
      PROVE  load_kallsyms(hidden) \in Seq(KernelSymbol)
  <2>1. Kallsyms \in Seq(KernelSymbol) /\ 0 \in Addr
    BY SymbolizerConstants, AddrIsNat DEF Addr
  <2>2. ASSUME NEW i \in DOMAIN Kallsyms
        PROVE  (IF hidden THEN [Kallsyms[i] EXCEPT !.addr = 0] ELSE Kallsyms[i])
                  \in KernelSymbol
    <3>1. Kallsyms[i] \in KernelSymbol
      BY <2>1
    <3> QED
      BY <2>1, <3>1 DEF KernelSymbol
  <2>3. DOMAIN Kallsyms = 1 .. Len(Kallsyms) /\ Len(Kallsyms) \in Nat
    BY <2>1
  <2> QED
    BY <2>2, <2>3 DEF load_kallsyms
<1>3. /\ maps' \subseteq {m \in ProcMaps : m.path \notin NoFile}
      /\ ksyms' \in Seq(KernelSymbol) /\ aliasLast' \in BOOLEAN
  <2>1. CASE UNCHANGED symVars
    BY <2>1 DEF IInv, TypeOK, symVars
  <2>2. CASE new_symbolizer(samples[1].pid \in alive)
    BY <1>2, <2>2 DEF new_symbolizer, parse_maps
  <2> QED
    BY <2>1, <2>2 DEF lock_and_load
<1>4. TypeOK'
  BY <1>1, <1>3 DEF IInv, TypeOK, probeVars, threadVars, readerVars
<1> QED
  BY <1>1, <1>4 DEF IInv, Whereabouts, probeVars, threadVars, readerVars

LEMMA FoldInv == ASSUME IInv, fold_sample PROVE IInv'
<1>1. PICK key : placed' = Append(placed, key) /\ folded' = Counted(key)
  BY DEF fold_sample
<1>2. /\ UNCHANGED <<probeVars, ring, readerVars, owner, samples, main, svg>>
      /\ UNCHANGED symVars /\ Len(placed) < Len(samples)
  BY DEF fold_sample
<1>3. PICK S : placed \in Seq(S)
  BY DEF IInv
<1>4. placed' \in Seq(S \cup {key}) /\ Len(placed') <= Len(samples')
  <2>1. placed \in Seq(S \cup {key}) /\ key \in S \cup {key}
    BY <1>3
  <2>2. Len(placed') = Len(placed) + 1 /\ placed' \in Seq(S \cup {key})
    BY <1>1, <2>1
  <2>3. Len(samples) \in Nat /\ Len(placed) \in Nat
    BY <2>1 DEF IInv, TypeOK
  <2> QED
    BY <1>2, <2>2, <2>3
<1>5. IsABag(folded')
  <2>1. IsABag(folded)
    BY DEF IInv, TypeOK
  <2>2. IsABag(folded (+) SetToBag({key}))
    BY <2>1 DEF IsABag, SetToBag, (+)
  <2> QED
    BY <1>1, <2>1, <2>2 DEF Counted
<1>6. TypeOK'
  BY <1>2, <1>4, <1>5 DEF IInv, TypeOK, probeVars, threadVars, readerVars, symVars
<1> QED
  BY <1>2, <1>4, <1>6 DEF IInv, Whereabouts, probeVars, threadVars, readerVars

\* The other actions leave the samples alone.
LEMMA QuietInv ==
    ASSUME IInv,
           \/ \E t \in Threads : thread_ends(t)
           \/ \E t, u \in Threads : thread_starts(t, u)
           \/ lock_samples \/ attach_perf_event \/ enable_flamegraph \/ ctrl_c
           \/ write_svg \/ UNCHANGED vars
    PROVE  IInv'
<1>1. UNCHANGED <<sent, ring, batch, samples, placed, folded, symVars>>
  BY DEF thread_starts, thread_ends, lock_samples, attach_perf_event,
       enable_flamegraph, ctrl_c,
         write_svg, vars, probeVars, threadVars, readerVars, mainVars
<1>2. /\ on' \in BOOLEAN /\ alive' \subseteq Threads /\ followed' \subseteq alive'
      /\ rpc' \in {"off", "collect", "push", "extend"}
      /\ owner' \in {"free", "reader", "main"}
      /\ main' \in {"attach", "enable", "wait", "lock", "render", "done"}
  BY DEF IInv, TypeOK, thread_starts, thread_ends, lock_samples, attach_perf_event,
         enable_flamegraph, ctrl_c, write_svg, vars, probeVars, threadVars,
         readerVars, mainVars
<1>3. IsABag(svg'.stacks) /\ svg'.title \in Nat
  <2>1. CASE UNCHANGED svg
    BY <2>1 DEF IInv, TypeOK
  <2>2. CASE svg' = [title |-> Len(samples), stacks |-> folded]
    <3>1. samples \in Seq(StackEvent) /\ IsABag(folded)
      BY DEF IInv, TypeOK
    <3>2. Len(samples) \in Nat
      BY <3>1
    <3> QED
      BY <2>2, <3>1, <3>2
  <2> QED
    BY <2>1, <2>2 DEF thread_starts, thread_ends, lock_samples, attach_perf_event,
       enable_flamegraph, ctrl_c, write_svg, vars, probeVars, threadVars,
       readerVars, mainVars
<1>4. TypeOK'
  BY <1>1, <1>2, <1>3 DEF IInv, TypeOK, symVars
<1> QED
  BY <1>1, <1>4 DEF IInv, Whereabouts

LEMMA NextIInv == IInv /\ [Next]_vars => IInv'
BY SampleInv, CollectInv, ExtendInv, LoadInv, FoldInv, QuietInv
   DEF Next, Reader, Exit

LEMMA Inductive == Spec => []IInv
BY InitIInv, NextIInv, PTL DEF Spec

-----------------------------------------------------------------------------
(* The theorems                                                              *)

(* TypeOK: the types of the sampler's state, the bag of folded stacks and    *)
(* the symbolizer's tables included.                                         *)
THEOREM TypeCorrect == Spec => []TypeOK
<1>1. IInv => TypeOK
  BY DEF IInv
<1> QED
  BY <1>1, Inductive, PTL

(* SamplesOfPrefix: flame_samples holds the samples in the order they were   *)
(* sent, none twice and none left out, at whatever moment Ctrl-C comes.      *)
THEOREM NoSampleLost == Spec => []SamplesOfPrefix
<1>1. IInv => SamplesOfPrefix
  <2> SUFFICES ASSUME IInv PROVE SamplesOfPrefix
    OBVIOUS
  <2>1. /\ ring \in Seq(StackEvent) /\ batch \in Seq(StackEvent)
        /\ samples \in Seq(StackEvent)
    BY DEF IInv, TypeOK
  <2> DEFINE rest == batch \o ring
  <2>2. rest \in Seq(StackEvent) /\ sent = samples \o rest
    BY <2>1, ConcatProperties, ConcatAssociative DEF IInv, Whereabouts
  <2> HIDE DEF rest
  <2>3. Len(samples) <= Len(sent) /\ Len(samples) \in Nat
    BY <2>1, <2>2, ConcatProperties
  <2>4. SubSeq(sent, 1, Len(samples)) = SubSeq(samples, 1, Len(samples))
    BY <2>1, <2>2, <2>3, SubSeqOfConcat1
  <2> QED
    BY <2>3, <2>4 DEF SamplesOfPrefix, IsPrefix
<1> QED
  BY <1>1, Inductive, PTL

(* FramesNamed: the binary searches of Symbolizer end at the right entry,    *)
(* whatever the tables hold and whatever the address.                        *)
THEOREM SymbolsRight == Spec => []FramesNamed
<1>1. IInv => FramesNamed
  BY KernelFrames, UserFrames DEF IInv, TypeOK, FramesNamed
<1> QED
  BY <1>1, Inductive, PTL

-----------------------------------------------------------------------------
(* The loop of Ips.  It goes through a walk and leaves out the zeros, so an  *)
(* entry ends up behind those that are further out.                          *)

FromStep(ips, g, n) ==
    IF n = 0 THEN <<>>
    ELSE IF ips[n] = 0 THEN g[n - 1] ELSE <<ips[n]>> \o g[n - 1]

LEMMA FromExists ==
    ASSUME NEW ips, NEW len \in Nat
    PROVE  \E g : g = [n \in 0 .. len |-> FromStep(ips, g, n)]
<1> DEFINE A == {m \in Nat : \E g : g = [n \in 0 .. m |-> FromStep(ips, g, n)]}
<1>1. 0 \in A
  <2> DEFINE g == [n \in 0 .. 0 |-> <<>>]
  <2>1. g = [n \in 0 .. 0 |-> FromStep(ips, g, n)]
    BY DEF FromStep
  <2> QED
    BY <2>1
<1>2. ASSUME NEW m \in Nat, m \in A
      PROVE  m + 1 \in A
  <2>1. PICK g : g = [n \in 0 .. m |-> FromStep(ips, g, n)]
    BY <1>2
  <2> DEFINE h == [n \in 0 .. m + 1 |-> FromStep(ips, g, n)]
  <2>2. ASSUME NEW n \in 0 .. m
        PROVE  h[n] = g[n]
    BY <2>1
  <2>3. ASSUME NEW n \in 0 .. m + 1
        PROVE  h[n] = FromStep(ips, h, n)
    <3>1. CASE n = 0
      BY <3>1 DEF FromStep
    <3>2. CASE n # 0
      <4>1. n - 1 \in 0 .. m
        BY <3>2
      <4>2. h[n - 1] = g[n - 1]
        BY <2>2, <4>1
      <4> QED
        BY <4>2 DEF FromStep
    <3> QED
      BY <3>1, <3>2
  <2>4. h = [n \in 0 .. m + 1 |-> h[n]]
    OBVIOUS
  <2> HIDE DEF h
  <2> QED
    BY <2>3, <2>4
<1> HIDE DEF A
<1>3. len \in A
  BY <1>1, <1>2, NatSetInduction
<1> QED
  BY <1>3 DEF A

\* The entries of a walk that are not padding, from a to b.
Entries(ips, a, b) == {j \in a .. b : ips[j] # 0}

LEMMA EntriesFinite ==
    ASSUME NEW ips, NEW a \in Nat, NEW b \in Nat
    PROVE  /\ IsFiniteSet(Entries(ips, a, b))
           /\ Cardinality(Entries(ips, a, b)) \in Nat
<1>1. IsFiniteSet(a .. b) /\ Entries(ips, a, b) \subseteq a .. b
  BY FS_Interval DEF Entries
<1> QED
  BY <1>1, FS_Subset, FS_CardinalityType

\* One entry more at the outer end.
LEMMA EntriesStep ==
    ASSUME NEW ips, NEW a \in Nat, NEW b \in Nat, a <= b + 1
    PROVE  Cardinality(Entries(ips, a, b + 1))
              = Cardinality(Entries(ips, a, b)) + (IF ips[b + 1] = 0 THEN 0 ELSE 1)
<1>1. CASE ips[b + 1] = 0
  <2>1. Entries(ips, a, b + 1) = Entries(ips, a, b)
    BY <1>1 DEF Entries
  <2> QED
    BY <1>1, <2>1, EntriesFinite
<1>2. CASE ips[b + 1] # 0
  <2>1. /\ Entries(ips, a, b + 1) = Entries(ips, a, b) \cup {b + 1}
        /\ b + 1 \notin Entries(ips, a, b)
    BY <1>2 DEF Entries
  <2> QED
    BY <1>2, <2>1, EntriesFinite, FS_AddElement
<1> QED
  BY <1>1, <1>2

\* What the loop has pushed when it has gone through n entries.
PushedRight(ips, q, n) ==
    /\ q \in Seq(Addr)
    /\ Len(q) = Cardinality(Entries(ips, 1, n))
    /\ \A i \in 1 .. n : ips[i] # 0 =>
          /\ Cardinality(Entries(ips, i, n)) \in 1 .. Len(q)
          /\ q[Cardinality(Entries(ips, i, n))] = ips[i]

LEMMA PushedStep ==
    ASSUME NEW ips, NEW n \in Nat, ips[n + 1] \in Addr,
           NEW q, PushedRight(ips, q, n)
    PROVE  PushedRight(ips, IF ips[n + 1] = 0 THEN q ELSE <<ips[n + 1]>> \o q,
                       n + 1)
<1> DEFINE x == ips[n + 1]
           count(i, b) == Cardinality(Entries(ips, i, b))
<1>1. /\ q \in Seq(Addr) /\ Len(q) = count(1, n)
      /\ \A i \in 1 .. n : ips[i] # 0 =>
            count(i, n) \in 1 .. Len(q) /\ q[count(i, n)] = ips[i]
  BY DEF PushedRight
<1>2. ASSUME NEW i \in 1 .. n + 1
      PROVE  /\ count(i, n) \in Nat
             /\ count(i, n + 1) = count(i, n) + (IF x = 0 THEN 0 ELSE 1)
  <2>1. i \in Nat /\ i <= n + 1
    OBVIOUS
  <2>2. count(i, n) \in Nat
    BY <2>1, EntriesFinite
  <2>3. count(i, n + 1) = count(i, n) + (IF x = 0 THEN 0 ELSE 1)
    BY <2>1, EntriesStep
  <2> QED
    BY <2>2, <2>3
<1>3. count(n + 1, n) = 0
  <2>1. Entries(ips, n + 1, n) = {}
    BY DEF Entries
  <2> QED
    BY <2>1, FS_EmptySet
<1> HIDE DEF count
<1>4. CASE x = 0
  <2>1. Len(q) = count(1, n + 1)
    BY <1>1, <1>2, <1>4
  <2>2. ASSUME NEW i \in 1 .. n + 1, ips[i] # 0
        PROVE  count(i, n + 1) \in 1 .. Len(q) /\ q[count(i, n + 1)] = ips[i]
    <3>1. i \in 1 .. n
      BY <1>4, <2>2
    <3> QED
      BY <1>1, <1>2, <1>4, <2>2, <3>1
  <2> QED
    BY <1>1, <1>4, <2>1, <2>2 DEF PushedRight, count
<1>5. CASE x # 0
  <2> DEFINE p == <<x>> \o q
  <2>1. /\ p \in Seq(Addr) /\ Len(p) = Len(q) + 1 /\ p[1] = x
        /\ \A k \in 1 .. Len(q) : p[k + 1] = q[k]
    BY <1>1
  <2> HIDE DEF p
  <2>2. Len(p) = count(1, n + 1)
    BY <1>1, <1>2, <1>5, <2>1
  <2>3. ASSUME NEW i \in 1 .. n + 1, ips[i] # 0
        PROVE  count(i, n + 1) \in 1 .. Len(p) /\ p[count(i, n + 1)] = ips[i]
    <3>1. CASE i = n + 1
      <4>1. count(i, n + 1) = 1
        BY <1>2, <1>3, <1>5, <3>1
      <4>2. Len(q) \in Nat
        BY <1>1
      <4> QED
        BY <2>1, <3>1, <4>1, <4>2
    <3>2. CASE i # n + 1
      <4>1. i \in 1 .. n
        BY <3>2
      <4>2. count(i, n) \in 1 .. Len(q) /\ q[count(i, n)] = ips[i]
        BY <1>1, <2>3, <4>1
      <4>3. count(i, n + 1) = count(i, n) + 1 /\ Len(q) \in Nat
        BY <1>1, <1>2, <1>5
      <4> QED
        BY <2>1, <4>2, <4>3
    <3> QED
      BY <3>1, <3>2
  <2> QED
    BY <1>5, <2>1, <2>2, <2>3 DEF PushedRight, count, p
<1> QED
  BY <1>4, <1>5

\* After a failed walk, and past the end of one, the array is zero.
PaddedStack ==
    {s \in Stack : \A i \in 1 .. MaxFrames : i > s.len => s.ips[i] = 0}

Sample == [pid : Threads, kstack : PaddedStack, ustack : PaddedStack]

LEMMA IpsRight ==
    ASSUME NEW s \in PaddedStack
    PROVE  /\ Ips(s) \in Seq(Addr)
           /\ Len(Ips(s)) = Depth(s, 1)
           /\ \A i \in 1 .. MaxFrames : s.ips[i] # 0 =>
                 /\ Depth(s, i) \in 1 .. Depth(s, 1)
                 /\ Ips(s)[Depth(s, i)] = s.ips[i]
<1> DEFINE len == IF s.len < 0 THEN 0 ELSE IF s.len > MaxFrames THEN MaxFrames
                                                                ELSE s.len
           ips == s.ips
<1>1. MaxFrames \in Nat
  BY SamplerConstants
<1>2. /\ s.len \in -1 .. MaxFrames /\ ips \in [1 .. MaxFrames -> Addr]
      /\ \A i \in 1 .. MaxFrames : i > s.len => ips[i] = 0
  BY DEF PaddedStack, Stack
<1>3. len \in 0 .. MaxFrames /\ \A i \in 1 .. MaxFrames : i > len => ips[i] = 0
  BY <1>1, <1>2
<1>4. \E g : /\ g = [n \in 0 .. len |-> FromStep(ips, g, n)]
             /\ Ips(s) = g[len]
  <2>1. \E g : g = [n \in 0 .. len |-> FromStep(ips, g, n)]
    <3>1. len \in Nat
      BY <1>1, <1>3
    <3> HIDE DEF len, ips
    <3> QED
      BY <3>1, FromExists
  <2> QED
    BY <2>1 DEF Ips, FromStep
<1> HIDE DEF len, ips
<1>5. PICK g : g = [n \in 0 .. len |-> FromStep(ips, g, n)] /\ Ips(s) = g[len]
  BY <1>4
<1> DEFINE A == {n \in Nat : n <= len => PushedRight(ips, g[n], n)}
<1>6. len \in Nat
  BY <1>1, <1>3
<1>7. 0 \in A
  <2>1. g[0] = <<>>
    BY <1>5, <1>6 DEF FromStep
  <2>2. Entries(ips, 1, 0) = {} /\ 1 .. 0 = {}
    BY DEF Entries
  <2>3. PushedRight(ips, <<>>, 0)
    BY <2>2, FS_EmptySet DEF PushedRight
  <2> QED
    BY <2>1, <2>3
<1>8. ASSUME NEW n \in Nat, n \in A
      PROVE  n + 1 \in A
  <2>1. SUFFICES ASSUME n + 1 <= len
                 PROVE  PushedRight(ips, g[n + 1], n + 1)
    OBVIOUS
  <2>2. PushedRight(ips, g[n], n)
    BY <1>6, <1>8, <2>1
  <2>3. ips[n + 1] \in Addr
    <3>1. n + 1 \in 1 .. MaxFrames
      BY <1>1, <1>3, <2>1
    <3> QED
      BY <1>2, <3>1
  <2>4. g[n + 1] = IF ips[n + 1] = 0 THEN g[n] ELSE <<ips[n + 1]>> \o g[n]
    <3>1. n + 1 \in 0 .. len /\ n + 1 # 0 /\ (n + 1) - 1 = n
      BY <1>6, <2>1
    <3> QED
      BY <1>5, <3>1 DEF FromStep
  <2> QED
    BY <2>2, <2>3, <2>4, PushedStep
<1>9. PushedRight(ips, Ips(s), len)
  <2>1. len \in A
    <3> HIDE DEF A
    <3> QED
      BY <1>6, <1>7, <1>8, NatSetInduction
  <2> QED
    BY <1>5, <2>1
<1>10. ASSUME NEW i \in 1 .. MaxFrames + 1
       PROVE  Depth(s, i) = Cardinality(Entries(ips, i, len))
  <2>1. {j \in i .. MaxFrames : ips[j] # 0} = Entries(ips, i, len)
    BY <1>1, <1>3 DEF Entries
  <2> QED
    BY <2>1 DEF Depth, ips
<1>11. Depth(s, 1) = Len(Ips(s))
  BY <1>1, <1>9, <1>10 DEF PushedRight
<1>12. ASSUME NEW i \in 1 .. MaxFrames, ips[i] # 0
       PROVE  Depth(s, i) \in 1 .. Depth(s, 1) /\ Ips(s)[Depth(s, i)] = ips[i]
  <2>1. i \in 1 .. len
    BY <1>1, <1>3, <1>12
  <2> QED
    BY <1>1, <1>9, <1>10, <1>11, <1>12, <2>1 DEF PushedRight
<1> QED
  BY <1>9, <1>11, <1>12 DEF PushedRight, ips

\* What is known of one sample and the frames ff it is given, where kernel and
\* user name the addresses: the code puts the kernel's walk at the root.
InOrder(ev, ff, kernel, user) ==
    LET k == ev.kstack
        u == ev.ustack
    IN /\ Len(ff) = Depth(k, 1) + Depth(u, 1)
       /\ StandsIn(ff, 0, k, kernel)
       /\ StandsIn(ff, Depth(k, 1), u, user)

LEMMA FramesRight ==
    ASSUME NEW ev \in Sample
    PROVE  InOrder(ev, Frames(ev), resolve_kernel, resolve)
<1> DEFINE k == Ips(ev.kstack)
           u == Ips(ev.ustack)
           R == {resolve_kernel[ip] : ip \in Addr} \cup {resolve[ip] : ip \in Addr}
           kk == [i \in DOMAIN k |-> resolve_kernel[k[i]]]
           uu == [i \in DOMAIN u |-> resolve[u[i]]]
           dk(i) == Depth(ev.kstack, i)
           du(i) == Depth(ev.ustack, i)
<1>1. /\ k \in Seq(Addr) /\ Len(k) = dk(1)
      /\ \A i \in 1 .. MaxFrames : ev.kstack.ips[i] # 0 =>
            dk(i) \in 1 .. dk(1) /\ k[dk(i)] = ev.kstack.ips[i]
  <2>1. ev.kstack \in PaddedStack
    BY DEF Sample
  <2> QED
    BY <2>1, IpsRight
<1>2. /\ u \in Seq(Addr) /\ Len(u) = du(1)
      /\ \A i \in 1 .. MaxFrames : ev.ustack.ips[i] # 0 =>
            du(i) \in 1 .. du(1) /\ u[du(i)] = ev.ustack.ips[i]
  <2>1. ev.ustack \in PaddedStack
    BY DEF Sample
  <2> QED
    BY <2>1, IpsRight
<1>3. Frames(ev) = kk \o uu
  BY DEF Frames
<1> HIDE DEF k, u, dk, du
<1>4. /\ kk \in Seq(R) /\ Len(kk) = dk(1)
      /\ uu \in Seq(R) /\ Len(uu) = du(1)
      /\ dk(1) \in Nat /\ du(1) \in Nat
  <2>1. Len(k) \in Nat /\ DOMAIN k = 1 .. Len(k) /\ \A i \in DOMAIN k : k[i] \in Addr
    BY <1>1
  <2>2. Len(u) \in Nat /\ DOMAIN u = 1 .. Len(u) /\ \A i \in DOMAIN u : u[i] \in Addr
    BY <1>2
  <2>3. \A ip \in Addr : resolve_kernel[ip] \in R /\ resolve[ip] \in R
    OBVIOUS
  <2> HIDE DEF R
  <2>4. kk \in [1 .. Len(k) -> R] /\ uu \in [1 .. Len(u) -> R]
    BY <2>1, <2>2, <2>3
  <2> HIDE DEF kk, uu
  <2>5. kk \in Seq(R) /\ Len(kk) = Len(k)
    BY <2>1, <2>4
  <2>6. uu \in Seq(R) /\ Len(uu) = Len(u)
    BY <2>2, <2>4
  <2> QED
    BY <1>1, <1>2, <2>1, <2>2, <2>5, <2>6
<1> HIDE DEF R
<1>5. /\ Len(kk \o uu) = dk(1) + du(1)
      /\ \A j \in 1 .. dk(1) : (kk \o uu)[j] = kk[j]
      /\ \A j \in 1 .. du(1) : (kk \o uu)[dk(1) + j] = uu[j]
  <2> HIDE DEF kk, uu
  <2> QED
    BY <1>4
<1>6. /\ \A j \in 1 .. dk(1) : kk[j] = resolve_kernel[k[j]]
      /\ \A j \in 1 .. du(1) : uu[j] = resolve[u[j]]
  BY <1>1, <1>2
<1> HIDE DEF kk, uu
<1>7. ASSUME NEW i \in 1 .. MaxFrames, ev.kstack.ips[i] # 0
      PROVE  (kk \o uu)[dk(i)] = resolve_kernel[ev.kstack.ips[i]]
  BY <1>1, <1>5, <1>6, <1>7
<1>8. ASSUME NEW i \in 1 .. MaxFrames, ev.ustack.ips[i] # 0
      PROVE  (kk \o uu)[dk(1) + du(i)] = resolve[ev.ustack.ips[i]]
  <2>1. du(i) \in 1 .. du(1) /\ u[du(i)] = ev.ustack.ips[i]
    BY <1>2, <1>8
  <2>2. (kk \o uu)[dk(1) + du(i)] = uu[du(i)]
    BY <1>5, <2>1
  <2> QED
    BY <1>6, <2>1, <2>2
<1>9. StandsIn(kk \o uu, 0, ev.kstack, resolve_kernel)
  <2>1. ASSUME NEW i \in 1 .. MaxFrames, ev.kstack.ips[i] # 0
        PROVE  (kk \o uu)[0 + dk(i)] = resolve_kernel[ev.kstack.ips[i]]
    <3>1. dk(i) \in 1 .. dk(1)
      BY <1>1, <2>1
    <3>2. 0 + dk(i) = dk(i)
      BY <1>4, <3>1
    <3> QED
      BY <1>7, <2>1, <3>2
  <2> QED
    BY <2>1 DEF StandsIn, dk
<1>10. StandsIn(kk \o uu, dk(1), ev.ustack, resolve)
  BY <1>8 DEF StandsIn, du
<1> QED
  BY <1>3, <1>5, <1>9, <1>10 DEF InOrder, dk, du

-----------------------------------------------------------------------------
(* The invariant of the rendering                                            *)

\* Who holds the lock is where it was taken, and main keeps it: once it renders
\* no sample is added, and nothing was rendered before.
OwnerInv ==
    /\ owner = "reader" <=> rpc = "extend"
    /\ owner = "main" <=> main \in {"render", "done"}
    /\ main \in {"attach", "enable"} => rpc = "off"
    /\ main \notin {"render", "done"} => placed = <<>> /\ folded = EmptyBag

PaddedInv ==
    ring \in Seq(Sample) /\ batch \in Seq(Sample) /\ samples \in Seq(Sample)

\* The bag counts, for each stack with a frame, the samples that have it.
Keyed == {i \in DOMAIN placed : placed[i] # <<>>}
At(key) == {i \in DOMAIN placed : placed[i] = key}

FoldedInv ==
    /\ DOMAIN folded = {placed[i] : i \in Keyed}
    /\ \A key \in DOMAIN folded : folded[key] = Cardinality(At(key))
    /\ SumFunction(folded) = Cardinality(Keyed)

SvgInv ==
    svg # NoSvg => /\ main = "done" /\ Len(placed) = Len(samples)
                   /\ svg.title = Len(samples) /\ svg.stacks = folded

\* Every sample rendered has the frames of its kernel walk, then those of its
\* user walk.
KernelFirst ==
    \A n \in DOMAIN placed :
        InOrder(samples[n], placed[n], resolve_kernel, resolve)

RenderInv == /\ IInv /\ OwnerInv /\ PaddedInv /\ FoldedInv /\ SvgInv
             /\ KernelFirst

-----------------------------------------------------------------------------
(* What is rendered                                                          *)

LEMMA CountedAdds ==
    ASSUME IsABag(folded), IsFiniteSet(DOMAIN folded), NEW key, key # <<>>
    PROVE  /\ DOMAIN Counted(key) = DOMAIN folded \cup {key}
           /\ Counted(key)[key]
                 = (IF key \in DOMAIN folded THEN folded[key] ELSE 0) + 1
           /\ \A k \in DOMAIN folded : k # key => Counted(key)[k] = folded[k]
           /\ SumFunction(folded) \in Nat
           /\ SumFunction(Counted(key)) = SumFunction(folded) + 1
<1> DEFINE D == DOMAIN folded
           h == Counted(key)
           old == IF key \in D THEN folded[key] ELSE 0
<1>1. folded \in [D -> Nat]
  BY DEF IsABag
<1>2. /\ DOMAIN h = D \cup {key}
      /\ h[key] = old + 1
      /\ \A k \in D : k # key => h[k] = folded[k]
      /\ h \in [D \cup {key} -> Nat]
  <2>1. h = folded (+) SetToBag({key})
    BY DEF Counted
  <2>2. SetToBag({key}) = [k \in {key} |-> 1]
    BY DEF SetToBag
  <2>3. h = [k \in D \cup {key} |->
               (IF k \in D THEN folded[k] ELSE 0)
                  + (IF k \in {key} THEN 1 ELSE 0)]
    BY <2>1, <2>2 DEF (+)
  <2> HIDE DEF h
  <2> QED
    BY <1>1, <2>3
<1>3. old \in Nat
  BY <1>1
<1> HIDE DEF h
<1>4. SumFunction(folded) \in Nat
  <2>1. CASE D = {}
    <3>1. folded \in [D -> {0}]
      BY <1>1, <2>1
    <3> QED
      BY <3>1, SumZero
  <2>2. CASE D # {}
    BY <1>1, <2>2, SumUpdate
  <2> QED
    BY <2>1, <2>2
<1>5. SumFunction(h) = SumFunction(folded) + 1
  <2>1. CASE key \in D
    <3>1. h = [folded EXCEPT ![key] = old + 1]
      BY <1>1, <1>2, <2>1
    <3>2. old + 1 \in Nat /\ old = folded[key]
      BY <1>3, <2>1
    <3> HIDE DEF old
    <3>3. SumFunction(h) = SumFunction(folded) - folded[key] + (old + 1)
      BY <1>1, <2>1, <3>1, <3>2, SumUpdate
    <3> QED
      BY <1>3, <1>4, <3>2, <3>3
  <2>2. CASE key \notin D
    <3>1. h[key] = 1 /\ \A k \in D : h[k] = folded[k]
      BY <1>2, <2>2
    <3>2. IsFiniteSet(D) /\ folded \in [D -> Nat] /\ h \in [D \cup {key} -> Nat]
      BY <1>1, <1>2
    <3> HIDE DEF D, old
    <3> QED
      BY <2>2, <3>1, <3>2, SumExtend
  <2> QED
    BY <2>1, <2>2
<1> QED
  BY <1>2, <1>4, <1>5 DEF h

LEMMA FoldedStep ==
    ASSUME IInv, FoldedInv, NEW key,
           placed' = Append(placed, key), folded' = Counted(key)
    PROVE  FoldedInv'
<1> DEFINE n == Len(placed) + 1
<1>1. PICK S : placed \in Seq(S)
  BY DEF IInv
<1>2. /\ DOMAIN placed = 1 .. Len(placed) /\ Len(placed) \in Nat
      /\ DOMAIN placed' = DOMAIN placed \cup {n} /\ n \notin DOMAIN placed
      /\ placed'[n] = key
      /\ \A i \in DOMAIN placed : placed'[i] = placed[i]
  BY <1>1
<1> HIDE DEF n
<1>3. \A k : IsFiniteSet(At(k)) /\ Cardinality(At(k)) \in Nat
  <2>1. IsFiniteSet(DOMAIN placed)
    BY <1>2, FS_Interval
  <2> QED
    BY <2>1, FS_Subset, FS_CardinalityType DEF At
<1>4. IsFiniteSet(Keyed) /\ Cardinality(Keyed) \in Nat
  <2>1. IsFiniteSet(DOMAIN placed)
    BY <1>2, FS_Interval
  <2> QED
    BY <2>1, FS_Subset, FS_CardinalityType DEF Keyed
<1>5. \A k : k # key => At(k)' = At(k)
  BY <1>2 DEF At
<1>6. CASE key = <<>>
  <2>1. folded' = folded
    BY <1>6 DEF Counted
  <2>2. Keyed' = Keyed
    BY <1>2, <1>6 DEF Keyed
  <2>3. {placed'[i] : i \in Keyed'} = {placed[i] : i \in Keyed}
    BY <1>2, <2>2 DEF Keyed
  <2>4. \A k \in DOMAIN folded : k # key
    BY <1>6 DEF FoldedInv, Keyed
  <2> QED
    BY <1>5, <2>1, <2>2, <2>3, <2>4 DEF FoldedInv
<1>7. CASE key # <<>>
  <2>1. Keyed' = Keyed \cup {n} /\ n \notin Keyed
    BY <1>2, <1>7 DEF Keyed
  <2>2. Cardinality(Keyed') = Cardinality(Keyed) + 1
    BY <1>4, <2>1, FS_AddElement
  <2>3. {placed'[i] : i \in Keyed'} = DOMAIN folded \cup {key}
    BY <1>2, <2>1 DEF FoldedInv, Keyed
  <2>4. IsABag(folded) /\ IsFiniteSet(DOMAIN folded)
    <3>1. IsFiniteSet({placed[i] : i \in Keyed})
      <4> DEFINE T == {placed[i] : i \in Keyed}
                 f == [i \in Keyed |-> placed[i]]
      <4>1. f \in Surjection(Keyed, T)
        BY DEF Surjection
      <4> HIDE DEF T, f
      <4>2. IsFiniteSet(T)
        BY <1>4, <4>1, FS_Surjection
      <4> QED
        BY <4>2 DEF T
    <3> QED
      BY <3>1 DEF FoldedInv, IInv, TypeOK
  <2>5. /\ DOMAIN folded' = DOMAIN folded \cup {key}
        /\ folded'[key] = (IF key \in DOMAIN folded THEN folded[key] ELSE 0) + 1
        /\ \A k \in DOMAIN folded : k # key => folded'[k] = folded[k]
        /\ SumFunction(folded') = SumFunction(folded) + 1
    BY <1>7, <2>4, CountedAdds
  <2>6. folded'[key] = Cardinality(At(key)')
    <3>1. At(key)' = At(key) \cup {n} /\ n \notin At(key)
      BY <1>2 DEF At
    <3>2. Cardinality(At(key)') = Cardinality(At(key)) + 1
      BY <1>3, <3>1, FS_AddElement
    <3>3. CASE key \in DOMAIN folded
      BY <2>5, <3>2, <3>3 DEF FoldedInv
    <3>4. CASE key \notin DOMAIN folded
      <4>1. At(key) = {}
        BY <1>7, <3>4 DEF At, FoldedInv, Keyed
      <4> QED
        BY <2>5, <3>2, <3>4, <4>1, FS_EmptySet
    <3> QED
      BY <3>3, <3>4
  <2>7. \A k \in DOMAIN folded' : folded'[k] = Cardinality(At(k))'
    BY <1>5, <2>5, <2>6 DEF FoldedInv
  <2>8. SumFunction(folded') = Cardinality(Keyed')
    BY <2>2, <2>5 DEF FoldedInv
  <2> QED
    BY <2>3, <2>5, <2>7, <2>8 DEF FoldedInv
<1> QED
  BY <1>6, <1>7

-----------------------------------------------------------------------------
(* The steps, one conjunct after the other                                   *)

LEMMA OwnerStep == IInv /\ OwnerInv /\ [Next]_vars => OwnerInv'
<1> SUFFICES ASSUME IInv, OwnerInv, [Next]_vars
             PROVE  OwnerInv'
  OBVIOUS
<1> USE DEF OwnerInv
<1>1. CASE \/ \E t \in Threads : on_cpu_sample(t) \/ thread_ends(t)
           \/ \E t, u \in Threads : thread_starts(t, u)
  BY <1>1 DEF on_cpu_sample, thread_starts, thread_ends, readerVars, mainVars
<1>2. CASE collect
  BY <1>2 DEF collect, mainVars
<1>3. CASE lock_samples
  BY <1>3 DEF lock_samples, Unlocked, mainVars
<1>4. CASE extend
  BY <1>4 DEF extend, Released, mainVars
<1>5. CASE attach_perf_event
  BY <1>5 DEF attach_perf_event, readerVars
<1>6. CASE enable_flamegraph
  BY <1>6 DEF enable_flamegraph
<1>7. CASE ctrl_c
  BY <1>7 DEF ctrl_c, readerVars
<1>8. CASE lock_and_load
  BY <1>8 DEF lock_and_load, Unlocked, readerVars
<1>9. CASE fold_sample
  BY <1>9 DEF fold_sample, readerVars
<1>10. CASE write_svg
  BY <1>10 DEF write_svg, readerVars
<1>11. CASE UNCHANGED vars
  BY <1>11 DEF vars, readerVars, mainVars
<1> QED
  BY <1>1, <1>2, <1>3, <1>4, <1>5, <1>6, <1>7, <1>8, <1>9, <1>10, <1>11
     DEF Next, Reader, Exit

\* Every sample that enters the ring is padded.
LEMMA WalkedPadded ==
    /\ Failed \in PaddedStack
    /\ \A s \in KStacks \cup UStacks : Walked(s) \in PaddedStack
<1>1. Failed \in PaddedStack
  BY StackTyped DEF Failed, PaddedStack
<1>2. ASSUME NEW s \in KStacks \cup UStacks
      PROVE  Walked(s) \in PaddedStack
  <2>1. Len(s) \in Nat
    BY SamplerConstants
  <2>2. Walked(s).len = Len(s)
    BY DEF Walked
  <2>3. ASSUME NEW i \in 1 .. MaxFrames, i > Len(s)
        PROVE  Walked(s).ips[i] = 0
    BY <2>1, <2>3 DEF Walked
  <2> QED
    BY <2>2, <2>3, StackTyped DEF PaddedStack
<1> QED
  BY <1>1, <1>2

LEMMA PaddedStep == IInv /\ PaddedInv /\ [Next]_vars => PaddedInv'
<1> SUFFICES ASSUME IInv, PaddedInv, [Next]_vars
             PROVE  PaddedInv'
  OBVIOUS
<1>1. ASSUME NEW t \in Threads, on_cpu_sample(t)
      PROVE  PaddedInv'
  <2>1. PICK k \in {Walked(s) : s \in KStacks} \cup {Failed},
             u \in {Walked(s) : s \in UStacks} \cup {Failed} :
             ring' = Append(ring, [pid |-> t, kstack |-> k, ustack |-> u])
    BY <1>1 DEF on_cpu_sample
  <2>2. [pid |-> t, kstack |-> k, ustack |-> u] \in Sample
    BY WalkedPadded DEF Sample
  <2>3. ring' \in Seq(Sample)
    BY <2>1, <2>2 DEF PaddedInv
  <2> QED
    BY <1>1, <2>3 DEF on_cpu_sample, PaddedInv, readerVars
<1>2. CASE collect
  <2>1. PICK n \in 1 .. Len(ring) :
             /\ batch' = batch \o SubSeq(ring, 1, n)
             /\ ring' = SubSeq(ring, n + 1, Len(ring))
    BY <1>2 DEF collect
  <2>2. ring \in Seq(Sample) /\ batch \in Seq(Sample) /\ samples \in Seq(Sample)
    BY DEF PaddedInv
  <2>3. SubSeq(ring, 1, n) \in Seq(Sample) /\ ring' \in Seq(Sample)
    BY <2>1, <2>2
  <2>4. batch' \in Seq(Sample)
    BY <2>1, <2>2, <2>3
  <2> QED
    BY <1>2, <2>2, <2>3, <2>4 DEF PaddedInv, collect
<1>3. CASE extend
  BY <1>3 DEF extend, PaddedInv, Drained
<1>4. CASE \/ \E t \in Threads : thread_ends(t)
           \/ \E t, u \in Threads : thread_starts(t, u)
           \/ lock_samples \/ attach_perf_event \/ enable_flamegraph \/ ctrl_c
           \/ Exit \/ UNCHANGED vars
  <2>1. UNCHANGED <<ring, batch, samples>>
    BY <1>4 DEF thread_starts, thread_ends, lock_samples, attach_perf_event,
         enable_flamegraph,
       ctrl_c, Exit, lock_and_load, fold_sample, write_svg, vars, probeVars,
       threadVars,
       readerVars, mainVars
  <2> QED
    BY <2>1 DEF PaddedInv
<1> QED
  BY <1>1, <1>2, <1>3, <1>4 DEF Next, Reader

LEMMA FoldedKept ==
    ASSUME FoldedInv, UNCHANGED <<placed, folded>>
    PROVE  FoldedInv'
BY DEF FoldedInv, Keyed, At

\* Once main renders, nothing but the rendering changes what is rendered.
LEMMA RenderFrame ==
    ASSUME IInv, OwnerInv, [Next]_vars, ~fold_sample
    PROVE  /\ UNCHANGED <<placed, folded>>
           /\ main \in {"render", "done"} => UNCHANGED <<samples, symVars>>
           /\ ~write_svg => UNCHANGED svg
           /\ main = "done" => main' = "done" /\ ~write_svg
<1>1. CASE \/ \E t \in Threads : on_cpu_sample(t) \/ thread_ends(t)
           \/ \E t, u \in Threads : thread_starts(t, u)
           \/ collect \/ lock_samples
  BY <1>1 DEF on_cpu_sample, thread_starts, thread_ends, collect, lock_samples,
       readerVars,
              mainVars, write_svg
<1>2. CASE extend
  BY <1>2 DEF extend, mainVars, OwnerInv, write_svg
<1>3. CASE attach_perf_event \/ enable_flamegraph \/ ctrl_c \/ lock_and_load
  BY <1>3 DEF attach_perf_event, enable_flamegraph, ctrl_c, lock_and_load,
              write_svg
<1>4. CASE write_svg
  BY <1>4 DEF write_svg
<1>5. CASE UNCHANGED vars
  BY <1>5 DEF vars, mainVars, write_svg
<1> QED
  BY <1>1, <1>2, <1>3, <1>4, <1>5 DEF Next, Reader, Exit

LEMMA FoldedInvStep == IInv /\ OwnerInv /\ FoldedInv /\ [Next]_vars => FoldedInv'
<1> SUFFICES ASSUME IInv, OwnerInv, FoldedInv, [Next]_vars
             PROVE  FoldedInv'
  OBVIOUS
<1>1. CASE fold_sample
  <2>1. PICK key : placed' = Append(placed, key) /\ folded' = Counted(key)
    BY <1>1 DEF fold_sample
  <2> QED
    BY <2>1, FoldedStep
<1>2. CASE ~fold_sample
  BY <1>2, RenderFrame, FoldedKept
<1> QED
  BY <1>1, <1>2

LEMMA SvgStep == IInv /\ OwnerInv /\ SvgInv /\ [Next]_vars => SvgInv'
<1> SUFFICES ASSUME IInv, OwnerInv, SvgInv, [Next]_vars, svg' # NoSvg
             PROVE  SvgInv'
  BY DEF SvgInv
<1>1. CASE fold_sample
  BY <1>1 DEF fold_sample, SvgInv
<1>2. CASE write_svg
  <2>1. /\ Len(placed) = Len(samples) /\ main' = "done" /\ main = "render"
        /\ UNCHANGED <<samples, placed, folded>>
    BY <1>2 DEF write_svg
  <2>2. svg = NoSvg
    BY <2>1 DEF SvgInv
  <2>3. svg' = [title |-> Len(samples), stacks |-> folded]
    BY <1>2, <2>2 DEF write_svg
  <2> QED
    BY <2>1, <2>3 DEF SvgInv
<1>3. CASE ~fold_sample /\ ~write_svg
  <2>1. svg' = svg /\ UNCHANGED <<placed, folded>>
    BY <1>3, RenderFrame
  <2>2. main = "done"
    BY <2>1 DEF SvgInv
  <2>3. main' = "done" /\ samples' = samples
    BY <1>3, <2>2, RenderFrame
  <2> QED
    BY <2>1, <2>3 DEF SvgInv
<1> QED
  BY <1>1, <1>2, <1>3

\* The tables do not change while the samples are rendered.
LEMMA ResolveKept ==
    ASSUME UNCHANGED symVars
    PROVE  resolve_kernel' = resolve_kernel /\ resolve' = resolve
<1>1. resolve_kernel' = resolve_kernel
  BY DEF symVars, resolve_kernel, Name, SearchEnd
<1>2. resolve' = resolve
  BY DEF symVars, resolve, MappingOf, LastMapping, FrameIn, Name, SearchEnd
<1> QED
  BY <1>1, <1>2

LEMMA FramesStep ==
    IInv /\ OwnerInv /\ PaddedInv /\ KernelFirst /\ [Next]_vars => KernelFirst'
<1> SUFFICES ASSUME IInv, OwnerInv, PaddedInv, KernelFirst, [Next]_vars
             PROVE  KernelFirst'
  OBVIOUS
<1> DEFINE Right(ev, ff) == InOrder(ev, ff, resolve_kernel, resolve)
<1>1. \A n \in DOMAIN placed : Right(samples[n], placed[n])
  BY DEF KernelFirst
<1>2. SUFFICES ASSUME NEW n \in DOMAIN placed'
               PROVE  InOrder(samples'[n], placed'[n], resolve_kernel', resolve')
  BY <1>2 DEF KernelFirst, InOrder, StandsIn, Depth
<1> HIDE DEF Right
<1>3. SUFFICES /\ UNCHANGED symVars
               /\ Right(samples'[n], placed'[n])
  BY ResolveKept DEF Right
<1>4. CASE fold_sample
  <2> DEFINE m == Len(placed) + 1
  <2>1. /\ placed' = Append(placed, Frames(samples[m]))
        /\ UNCHANGED <<samples, symVars>> /\ Len(placed) < Len(samples)
    BY <1>4 DEF fold_sample
  <2>2. PICK S : placed \in Seq(S)
    BY DEF IInv
  <2>3. /\ m \in 1 .. Len(samples) /\ samples[m] \in Sample
        /\ n \in DOMAIN placed \/ n = m
        /\ placed'[m] = Frames(samples[m])
        /\ n \in DOMAIN placed => placed'[n] = placed[n]
    BY <2>1, <2>2 DEF PaddedInv
  <2> HIDE DEF m
  <2>4. CASE n = m
    BY <2>1, <2>3, <2>4, FramesRight DEF Right
  <2>5. CASE n \in DOMAIN placed
    BY <1>1, <2>1, <2>3, <2>5
  <2> QED
    BY <2>3, <2>4, <2>5
<1>5. CASE ~fold_sample
  <2>1. placed' = placed
    BY <1>5, RenderFrame
  <2>2. main \in {"render", "done"}
    BY <2>1 DEF OwnerInv
  <2>3. UNCHANGED <<samples, symVars>>
    BY <1>5, <2>2, RenderFrame
  <2> QED
    BY <1>1, <2>1, <2>3
<1> QED
  BY <1>4, <1>5

LEMMA InitRenderInv == Init => RenderInv
<1> SUFFICES ASSUME Init PROVE RenderInv
  OBVIOUS
<1>1. /\ placed = <<>> /\ folded = EmptyBag /\ svg = NoSvg /\ main = "attach"
      /\ owner = "free" /\ rpc = "off"
      /\ ring = <<>> /\ batch = <<>> /\ samples = <<>>
  BY DEF Init
<1>2. FoldedInv
  <2>1. DOMAIN folded = {} /\ Keyed = {}
    BY <1>1 DEF EmptyBag, SetToBag, Keyed
  <2>2. SumFunction(folded) = 0
    <3>1. folded \in [{} -> {0}] /\ IsFiniteSet({})
      BY <1>1, FS_EmptySet DEF EmptyBag, SetToBag
    <3> QED
      BY <3>1, SumZero
  <2> QED
    BY <2>1, <2>2, FS_EmptySet DEF FoldedInv
<1>3. OwnerInv /\ PaddedInv /\ SvgInv /\ KernelFirst
  BY <1>1 DEF OwnerInv, PaddedInv, SvgInv, KernelFirst
<1> QED
  BY <1>2, <1>3, InitIInv DEF RenderInv

LEMMA RenderInductive == Spec => []RenderInv
<1>1. RenderInv /\ [Next]_vars => RenderInv'
  BY NextIInv, OwnerStep, PaddedStep, FoldedInvStep, SvgStep, FramesStep
     DEF RenderInv
<1> QED
  BY <1>1, InitRenderInv, PTL DEF Spec

-----------------------------------------------------------------------------
(* PictureAddsUp: the picture is of all samples at once, and its stacks add  *)
(* up to those that have a frame, each stack as often as samples have it.    *)
THEOREM PictureComplete == Spec => []PictureAddsUp
<1>1. RenderInv => PictureAddsUp
  <2> SUFFICES ASSUME RenderInv, svg # NoSvg
               PROVE  PictureAddsUp
    BY DEF PictureAddsUp
  <2>1. /\ svg.title = Len(samples) /\ Len(placed) = Len(samples)
        /\ svg.stacks = folded
    BY DEF RenderInv, SvgInv
  <2>2. SumFunction(folded) = Cardinality({i \in DOMAIN placed : placed[i] # <<>>})
    BY DEF RenderInv, FoldedInv, Keyed
  <2>3. ASSUME NEW i \in DOMAIN placed, placed[i] # <<>>
        PROVE  /\ BagIn(placed[i], folded)
               /\ folded[placed[i]]
                     = Cardinality({j \in DOMAIN placed : placed[j] = placed[i]})
    <3>1. placed[i] \in DOMAIN folded
      BY <2>3 DEF RenderInv, FoldedInv, Keyed
    <3> QED
      BY <3>1 DEF RenderInv, FoldedInv, At, BagIn, BagToSet
  <2> QED
    BY <2>1, <2>2, <2>3 DEF PictureAddsUp
<1> QED
  BY <1>1, RenderInductive, PTL

(* FramesInOrder: every entry of the two walks of a sample has its frame,    *)
(* callers before what they call within each walk, and the two walks are     *)
(* neither mixed nor padded.  Which of them comes first is not part of it:   *)
(* the code puts the kernel's at the root, where its callers should be.      *)
THEOREM FramesOrdered == Spec => []FramesInOrder
<1>1. RenderInv => FramesInOrder
  BY DEF RenderInv, KernelFirst, InOrder, FramesInOrder, KernelAtRoot
<1> QED
  BY <1>1, RenderInductive, PTL
=============================================================================
