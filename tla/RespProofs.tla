----------------------------- MODULE RespProofs -----------------------------
(***************************************************************************)
(* Proofs about Resp, for any requests of bytes, any width and any usize   *)
(* that leave room for the headers of a request.                           *)
(***************************************************************************)
EXTENDS Resp, FoldProofs, SequenceTheorems

-----------------------------------------------------------------------------
(* What digits spell                                                         *)

Valued(s, g) ==
    g = [k \in 0 .. Len(s) |->
            IF k = 0 THEN 0 ELSE Min({10 * g[k - 1] + s[k] - 48, UsizeMod})]

LEMMA ValuedExists ==
    ASSUME NEW s \in Seq(Digit)
    PROVE  \E g \in [0 .. Len(s) -> Nat] : Valued(s, g)
<1> DEFINE n == Len(s)
           step == [k \in 1 .. n |-> [x \in Nat |->
                       Min({10 * x + s[k] - 48, UsizeMod})]]
<1>1. n \in Nat /\ UsizeMod \in Nat
  BY RespConstants
<1>2. ASSUME NEW k \in 1 .. n, NEW x \in Nat
      PROVE  Min({10 * x + s[k] - 48, UsizeMod}) \in Nat
  <2>1. s[k] \in Nat /\ s[k] >= 48
    BY DEF Digit
  <2> HIDE DEF n
  <2>2. 10 * x + s[k] - 48 \in Nat
    BY <2>1
  <2> QED
    BY <1>1, <2>2, MinOfTwo
<1>3. step \in [1 .. n -> [Nat -> Nat]]
  BY <1>2
<1>4. \A k \in 1 .. n : \A x \in Nat :
         step[k][x] = Min({10 * x + s[k] - 48, UsizeMod})
  OBVIOUS
<1> HIDE DEF n, step
<1>5. PICK v \in [0 .. n -> Nat] : /\ v[0] = 0
                                   /\ \A k \in 1 .. n : v[k] = step[k][v[k - 1]]
  <2>1. 0 \in Nat /\ step \in Steps(Nat, n)
    BY <1>3 DEF Steps
  <2>2. \E v : Iterates(Nat, n, step, 0, v)
    BY <1>1, <2>1, Recursion, Zenon
  <2> QED
    BY <2>2 DEF Iterates
<1>6. \A k \in 1 .. n : v[k - 1] \in Nat
  BY <1>1, <1>5
<1>7. \A k \in 1 .. n : v[k] = Min({10 * v[k - 1] + s[k] - 48, UsizeMod})
  BY <1>4, <1>5, <1>6
<1>8. v = [k \in 0 .. n |->
             IF k = 0 THEN 0 ELSE Min({10 * v[k - 1] + s[k] - 48, UsizeMod})]
  <2>1. v = [k \in 0 .. n |-> v[k]]
    BY <1>5
  <2>2. \A k \in 0 .. n : k # 0 => k \in 1 .. n
    BY <1>1
  <2>3. \A k \in 0 .. n :
           v[k] = IF k = 0 THEN 0 ELSE Min({10 * v[k - 1] + s[k] - 48, UsizeMod})
    BY <1>5, <1>7, <2>2, Zenon
  <2> QED
    BY <2>1, <2>3, Zenon
<1> QED
  BY <1>5, <1>8 DEF Valued, n

LEMMA ValuedAgree ==
    ASSUME NEW s, NEW t, NEW g, NEW h, Valued(s, g), Valued(t, h),
           NEW n \in Nat, Len(s) \in Nat, Len(t) \in Nat,
           n <= Len(s), n <= Len(t), \A k \in 1 .. n : s[k] = t[k]
    PROVE  \A k \in 0 .. n : g[k] = h[k]
<1> DEFINE A == {m \in Nat : m <= n => g[m] = h[m]}
<1>1. 0 \in A
  BY DEF Valued
<1>2. ASSUME NEW m \in Nat, m \in A
      PROVE  m + 1 \in A
  <2>1. CASE m + 1 <= n
    <3>1. m <= n /\ m + 1 \in 1 .. n /\ m + 1 \in 0 .. Len(s) /\ m + 1 \in 0 .. Len(t)
          /\ m + 1 # 0 /\ (m + 1) - 1 = m
      BY <2>1
    <3>2. g[m] = h[m] /\ s[m + 1] = t[m + 1]
      BY <1>2, <3>1
    <3>3. g[m + 1] = Min({10 * g[m] + s[m + 1] - 48, UsizeMod})
      BY <3>1 DEF Valued
    <3>4. h[m + 1] = Min({10 * h[m] + t[m + 1] - 48, UsizeMod})
      BY <3>1 DEF Valued
    <3> QED
      BY <3>2, <3>3, <3>4
  <2> QED
    BY <2>1
<1> HIDE DEF A
<1>3. Nat \subseteq A
  BY <1>1, <1>2, NatSetInduction
<1> QED
  BY <1>3 DEF A

LEMMA NumberIs ==
    ASSUME NEW s \in Seq(Digit)
    PROVE  \E g \in [0 .. Len(s) -> Nat] : Valued(s, g) /\ Number(s) = g[Len(s)]
<1>1. \E g : Valued(s, g)
  BY ValuedExists
<1>2. PICK h : Valued(s, h) /\ Number(s) = h[Len(s)]
  BY <1>1 DEF Number, Valued
<1>3. PICK g \in [0 .. Len(s) -> Nat] : Valued(s, g)
  BY ValuedExists
<1>4. Len(s) \in Nat /\ Len(s) <= Len(s) /\ Len(s) \in 0 .. Len(s)
  OBVIOUS
<1>5. g[Len(s)] = h[Len(s)]
  BY <1>2, <1>3, <1>4, ValuedAgree
<1> QED
  BY <1>2, <1>3, <1>5

LEMMA NumberEmpty == Number(<<>>) = 0
<1>1. <<>> \in Seq(Digit) /\ Len(<<>>) = 0
  OBVIOUS
<1>2. PICK g : Valued(<<>>, g) /\ Number(<<>>) = g[0]
  BY <1>1, NumberIs
<1> QED
  BY <1>1, <1>2 DEF Valued

LEMMA NumberAppend ==
    ASSUME NEW s \in Seq(Digit), NEW c \in Digit
    PROVE  /\ Number(s) \in Nat
           /\ Number(Append(s, c)) = Min({10 * Number(s) + c - 48, UsizeMod})
<1> DEFINE t == Append(s, c)
           n == Len(s)
<1>1. t \in Seq(Digit) /\ n \in Nat /\ Len(t) = n + 1 /\ t[n + 1] = c
      /\ \A k \in 1 .. n : s[k] = t[k]
  OBVIOUS
<1> HIDE DEF t
<1>2. PICK g \in [0 .. n -> Nat] : Valued(s, g) /\ Number(s) = g[n]
  BY NumberIs
<1>3. PICK h : Valued(t, h) /\ Number(t) = h[n + 1]
  BY <1>1, NumberIs
<1>4. n <= Len(t) /\ Len(t) \in Nat /\ n \in 0 .. n /\ n <= n
  BY <1>1
<1>5. g[n] = h[n]
  BY <1>1, <1>2, <1>3, <1>4, ValuedAgree
<1>6. n + 1 \in 0 .. Len(t) /\ n + 1 # 0 /\ (n + 1) - 1 = n
  BY <1>1
<1>7. h[n + 1] = Min({10 * h[n] + t[n + 1] - 48, UsizeMod})
  BY <1>3, <1>6 DEF Valued
<1> QED
  BY <1>1, <1>2, <1>3, <1>5, <1>7 DEF t

-----------------------------------------------------------------------------
(* Decimal spells its argument                                               *)

Spelt(n, g) ==
    g = [k \in 0 .. n |->
            IF k < 10 THEN <<48 + k>> ELSE Append(g[k \div 10], 48 + (k % 10))]

LEMMA SpeltExists ==
    ASSUME NEW n \in Nat
    PROVE  \E g : Spelt(n, g)
<1> DEFINE Letter(g, k) == IF k < 10 THEN <<48 + k>>
                           ELSE Append(g[k \div 10], 48 + (k % 10))
           A == {m \in Nat : \E g : g = [k \in 0 .. m |-> Letter(g, k)]}
<1>1. 0 \in A
  <2> DEFINE g == [k \in 0 .. 0 |-> <<48 + k>>]
  <2>1. g = [k \in 0 .. 0 |-> Letter(g, k)]
    OBVIOUS
  <2> QED
    BY <2>1
<1>2. ASSUME NEW m \in Nat, m \in A
      PROVE  m + 1 \in A
  <2>1. PICK g : g = [k \in 0 .. m |-> Letter(g, k)]
    BY <1>2
  <2> DEFINE h == [k \in 0 .. m + 1 |-> Letter(g, k)]
  <2>2. ASSUME NEW k \in 0 .. m
        PROVE  h[k] = g[k]
    <3>1. k \in 0 .. m + 1
      OBVIOUS
    <3>2. h[k] = Letter(g, k)
      BY <3>1
    <3>3. g[k] = Letter(g, k)
      BY <2>1
    <3> QED
      BY <3>2, <3>3
  <2>3. ASSUME NEW k \in 0 .. m + 1
        PROVE  h[k] = Letter(h, k)
    <3>1. CASE k < 10
      BY <3>1
    <3>2. CASE ~(k < 10)
      <4>1. k \div 10 \in 0 .. m
        BY <3>2
      <4>2. h[k \div 10] = g[k \div 10]
        BY <2>2, <4>1
      <4>3. h[k] = Letter(g, k)
        OBVIOUS
      <4> HIDE DEF h
      <4> QED
        BY <3>2, <4>2, <4>3
    <3> QED
      BY <3>1, <3>2
  <2>4. h = [k \in 0 .. m + 1 |-> h[k]]
    OBVIOUS
  <2> HIDE DEF h, Letter
  <2>5. h = [k \in 0 .. m + 1 |-> Letter(h, k)]
    BY <2>3, <2>4
  <2> QED
    BY <2>5
<1> HIDE DEF A
<1>3. n \in A
  BY <1>1, <1>2, NatSetInduction
<1> QED
  BY <1>3 DEF A, Spelt

SpellsIt(s, k) ==
    s \in Seq(Digit) /\ s # <<>> /\ Number(s) = IF k < UsizeMod THEN k ELSE UsizeMod

LEMMA DecimalRight ==
    ASSUME NEW n \in Nat
    PROVE  SpellsIt(Decimal(n), n)
<1>0. UsizeMod \in Nat /\ UsizeMod > 0
  BY RespConstants
<1>1. \E g : Spelt(n, g)
  BY SpeltExists
<1>2. PICK g : Spelt(n, g) /\ Decimal(n) = g[n]
  BY <1>1 DEF Decimal, Spelt
<1> DEFINE A == {m \in Nat : \A k \in 0 .. m : k <= n => SpellsIt(g[k], k)}
<1>3. ASSUME NEW k \in 0 .. n, k < 10
      PROVE  SpellsIt(g[k], k)
  <2>1. g[k] = <<48 + k>> /\ 48 + k \in Digit
    BY <1>2, <1>3 DEF Spelt, Digit
  <2>2. <<48 + k>> = Append(<<>>, 48 + k) /\ <<>> \in Seq(Digit)
    OBVIOUS
  <2>3. Number(<<48 + k>>) = Min({10 * 0 + (48 + k) - 48, UsizeMod})
    BY <2>1, <2>2, NumberAppend, NumberEmpty
  <2>4. 10 * 0 + (48 + k) - 48 = k /\ k \in Int /\ UsizeMod \in Int
    BY <1>0
  <2>5. Number(<<48 + k>>) = IF k <= UsizeMod THEN k ELSE UsizeMod
    BY <2>3, <2>4, MinOfTwo
  <2>6. Number(<<48 + k>>) = IF k < UsizeMod THEN k ELSE UsizeMod
    BY <2>4, <2>5
  <2>7. <<48 + k>> \in Seq(Digit) /\ <<48 + k>> # <<>>
    BY <2>1
  <2> QED
    BY <2>1, <2>6, <2>7 DEF SpellsIt
<1>4. ASSUME NEW k \in 0 .. n, k >= 10, SpellsIt(g[k \div 10], k \div 10)
      PROVE  SpellsIt(g[k], k)
  <2> DEFINE q == k \div 10
             c == k % 10
             s == g[q]
  <2>1. q \in Nat /\ c \in 0 .. 9 /\ k = 10 * q + c /\ k \in Nat
    OBVIOUS
  <2>2. g[k] = Append(s, 48 + c)
    <3>1. ~(k < 10)
      BY <1>4
    <3> QED
      BY <1>2, <3>1, Zenon DEF Spelt
  <2>3. s \in Seq(Digit) /\ Number(s) = IF q < UsizeMod THEN q ELSE UsizeMod
    BY <1>4 DEF SpellsIt
  <2> HIDE DEF q, c, s
  <2>4. 48 + c \in Digit
    BY <2>1 DEF Digit
  <2>5. Number(g[k]) = Min({10 * Number(s) + (48 + c) - 48, UsizeMod})
    BY <2>2, <2>3, <2>4, NumberAppend
  <2>6. Number(g[k]) = IF 10 * Number(s) + c <= UsizeMod
                       THEN 10 * Number(s) + c ELSE UsizeMod
    <3>1. Number(s) \in Nat
      BY <2>3, <2>4, NumberAppend
    <3>2. 10 * Number(s) + (48 + c) - 48 = 10 * Number(s) + c
          /\ 10 * Number(s) + c \in Int /\ UsizeMod \in Int
      BY <1>0, <2>1, <3>1
    <3> QED
      BY <2>5, <3>2, MinOfTwo
  <2>7. Number(g[k]) = IF k < UsizeMod THEN k ELSE UsizeMod
    <3>1. CASE q < UsizeMod
      BY <1>0, <2>1, <2>3, <2>6, <3>1
    <3>2. CASE ~(q < UsizeMod)
      <4>1. Number(s) = UsizeMod
        BY <2>3, <3>2
      <4> QED
        BY <1>0, <2>1, <2>6, <3>2, <4>1
    <3> QED
      BY <3>1, <3>2
  <2>8. g[k] \in Seq(Digit) /\ g[k] # <<>>
    BY <2>2, <2>3, <2>4
  <2> QED
    BY <2>7, <2>8 DEF SpellsIt
<1>5. 0 \in A
  BY <1>3
<1>6. ASSUME NEW m \in Nat, m \in A
      PROVE  m + 1 \in A
  <2>1. ASSUME NEW k \in 0 .. m + 1, k <= n
        PROVE  SpellsIt(g[k], k)
    <3>1. CASE k < 10
      BY <1>3, <2>1, <3>1
    <3>2. CASE k >= 10
      <4>1. k \div 10 \in 0 .. m /\ k \div 10 <= n
        BY <2>1, <3>2
      <4>2. SpellsIt(g[k \div 10], k \div 10)
        BY <1>6, <4>1
      <4> QED
        BY <1>4, <2>1, <3>2, <4>2
    <3> QED
      BY <3>1, <3>2
  <2> QED
    BY <2>1
<1> HIDE DEF A
<1>7. n \in A
  BY <1>5, <1>6, NatSetInduction
<1> QED
  BY <1>2, <1>7 DEF A
-----------------------------------------------------------------------------
(* What a client sends is bytes                                              *)

LEMMA HeaderIs ==
    ASSUME NEW byte \in Byte, NEW n \in Nat
    PROVE  LET h == Header(byte, n)
               s == Decimal(n)
           IN /\ h \in Seq(Byte) /\ Len(h) = Len(s) + 3 /\ Len(s) \in Nat \ {0}
              /\ h[1] = byte
              /\ \A j \in 1 .. Len(s) : h[j + 1] = s[j] /\ s[j] \in Digit
              /\ h[Len(s) + 2] = Cr /\ h[Len(s) + 3] = Lf
<1> DEFINE s == Decimal(n)
<1>1. s \in Seq(Digit) /\ s # <<>>
  BY DecimalRight DEF SpellsIt
<1>2. s \in Seq(Byte)
  <2>1. Digit \subseteq Byte
    BY DEF Digit, Byte
  <2> QED
    BY <1>1, <2>1
<1>3. Len(s) \in Nat \ {0} /\ \A j \in 1 .. Len(s) : s[j] \in Digit
  BY <1>1
<1> HIDE DEF s
<1>4. Cr \in Byte /\ Lf \in Byte
  BY DEF Cr, Lf, Byte
<1> DEFINE t == <<byte>> \o s
           u == <<Cr, Lf>>
<1>5. /\ t \in Seq(Byte) /\ Len(t) = Len(s) + 1 /\ t[1] = byte
      /\ \A j \in 1 .. Len(s) : t[j + 1] = s[j]
  BY <1>2, <1>3
<1>6. u \in Seq(Byte) /\ Len(u) = 2 /\ u[1] = Cr /\ u[2] = Lf
  BY <1>4
<1> HIDE DEF t, u
<1>7. /\ t \o u \in Seq(Byte) /\ Len(t \o u) = Len(t) + 2
      /\ \A j \in 1 .. Len(t) : (t \o u)[j] = t[j]
      /\ (t \o u)[Len(t) + 1] = Cr /\ (t \o u)[Len(t) + 2] = Lf
  <2>1. /\ t \o u \in Seq(Byte) /\ Len(t \o u) = Len(t) + Len(u)
        /\ \A i \in 1 .. Len(t) + Len(u) :
              (t \o u)[i] = IF i <= Len(t) THEN t[i] ELSE u[i - Len(t)]
    BY <1>5, <1>6, ConcatProperties
  <2>2. Len(t) \in Nat
    BY <1>5
  <2>3. /\ Len(t) + 1 \in 1 .. Len(t) + 2 /\ Len(t) + 2 \in 1 .. Len(t) + 2
        /\ (Len(t) + 1) - Len(t) = 1 /\ (Len(t) + 2) - Len(t) = 2
        /\ \A j \in 1 .. Len(t) : j \in 1 .. Len(t) + 2 /\ j <= Len(t)
        /\ ~(Len(t) + 1 <= Len(t)) /\ ~(Len(t) + 2 <= Len(t))
    BY <2>2
  <2> QED
    BY <1>6, <2>1, <2>3
<1>8. Header(byte, n) = t \o u
  BY DEF Header, s, t, u
<1>9. \A j \in 1 .. Len(s) : j + 1 \in 1 .. Len(t)
  BY <1>3, <1>5
<1>10. 1 \in 1 .. Len(t)
  BY <1>3, <1>5
<1> QED
  BY <1>3, <1>5, <1>7, <1>8, <1>9, <1>10 DEF s

LEMMA BytesTyped == Star \in Byte /\ Dollar \in Byte /\ Cr \in Byte /\ Lf \in Byte
                    /\ <<Cr, Lf>> \in Seq(Byte) /\ Nul \in Byte
BY DEF Star, Dollar, Cr, Lf, Byte, Nul

LEMMA BulkTyped ==
    ASSUME NEW s \in Seq(Byte)
    PROVE  Bulk(s) \in Seq(Byte)
<1>1. Header(Dollar, Len(s)) \in Seq(Byte)
  BY BytesTyped, HeaderIs
<1> QED
  BY <1>1, BytesTyped DEF Bulk

Flattened(bs, g) ==
    g = [i \in 1 .. Len(bs) |-> IF i = 1 THEN bs[i] ELSE g[i - 1] \o bs[i]]

\* FlattenSeq of bytes is bytes, joined one sequence at a time.
LEMMA FlattenIs ==
    ASSUME NEW bs \in Seq(Seq(Byte)), bs # <<>>
    PROVE  \E g \in [1 .. Len(bs) -> Seq(Byte)] :
              Flattened(bs, g) /\ FlattenSeq(bs) = g[Len(bs)]
<1> DEFINE n == Len(bs)
           V == Seq(Byte)
           step == [k \in 1 .. n |-> [x \in V |-> x \o bs[k]]]
<1>1. n \in Nat \ {0} /\ \A k \in 1 .. n : bs[k] \in V
  OBVIOUS
<1>2. \A x, y \in V : x \o y \in V
  OBVIOUS
<1>3. <<>> \in V /\ \A x \in V : <<>> \o x = x
  OBVIOUS
<1> HIDE DEF n, V
<1>4. step \in Steps(V, n)
  BY <1>1, <1>2 DEF Steps
<1>5. \A k \in 1 .. n : \A x \in V : step[k][x] = x \o bs[k]
  OBVIOUS
<1> HIDE DEF step
<1>6. PICK v : Iterates(V, n, step, <<>>, v)
  BY <1>1, <1>3, <1>4, Recursion, Zenon
<1>7. \A k \in 1 .. n : /\ v[k] \in V /\ v[k - 1] \in V
                        /\ v[k] = v[k - 1] \o bs[k]
  <2>1. \A k \in 1 .. n : k \in 0 .. n /\ k - 1 \in 0 .. n
    BY <1>1
  <2> QED
    BY <1>5, <1>6, <2>1 DEF Iterates
<1> DEFINE w == [i \in 1 .. n |-> v[i]]
<1>8. \E g : Flattened(bs, g)
  <2>1. ASSUME NEW i \in 1 .. n
        PROVE  w[i] = IF i = 1 THEN bs[i] ELSE w[i - 1] \o bs[i]
    <3>1. CASE i = 1
      <4>1. 1 \in 1 .. n /\ 1 - 1 = 0
        BY <1>1
      <4>2. v[1] = v[0] \o bs[1] /\ v[0] = <<>> /\ bs[1] \in V
        BY <1>1, <1>6, <1>7, <4>1 DEF Iterates
      <4> QED
        BY <1>3, <3>1, <4>2
    <3>2. CASE i # 1
      <4>1. i - 1 \in 1 .. n
        BY <1>1, <3>2
      <4> QED
        BY <1>7, <3>2, <4>1
    <3> QED
      BY <3>1, <3>2
  <2>2. w = [i \in 1 .. n |-> w[i]]
    OBVIOUS
  <2> HIDE DEF w
  <2>3. w = [i \in 1 .. n |-> IF i = 1 THEN bs[i] ELSE w[i - 1] \o bs[i]]
    BY <2>1, <2>2, Zenon
  <2> QED
    BY <2>3 DEF Flattened, n
<1>9. PICK g : Flattened(bs, g) /\ FlattenSeq(bs) = g[n]
  <2>1. ~(Len(bs) = 0)
    BY <1>1 DEF n
  <2> QED
    BY <1>8, <2>1 DEF FlattenSeq, Flattened, n
<1> DEFINE A == {m \in Nat : m + 1 <= n => g[m + 1] \in V}
<1>10. 0 \in A
  <2>1. 1 \in 1 .. n
    BY <1>1
  <2>2. g[1] = bs[1]
    BY <1>9, <2>1 DEF Flattened, n
  <2> QED
    BY <1>1, <2>1, <2>2
<1>11. ASSUME NEW m \in Nat, m \in A
       PROVE  m + 1 \in A
  <2>1. CASE m + 2 <= n
    <3>1. m + 2 \in 1 .. n /\ (m + 2) - 1 = m + 1 /\ m + 2 # 1 /\ m + 1 <= n
      BY <1>1, <2>1
    <3>2. g[m + 2] = g[m + 1] \o bs[m + 2]
      BY <1>9, <3>1 DEF Flattened, n
    <3>3. g[m + 1] \in V /\ bs[m + 2] \in V
      BY <1>1, <1>11, <3>1
    <3>4. g[m + 2] \in V /\ (m + 1) + 1 = m + 2
      BY <1>2, <3>2, <3>3
    <3> QED
      BY <3>4
  <2> QED
    BY <1>1, <2>1
<1> HIDE DEF A
<1>12. Nat \subseteq A
  BY <1>10, <1>11, NatSetInduction
<1>13. \A i \in 1 .. n : g[i] \in V
  <2>1. ASSUME NEW i \in 1 .. n
        PROVE  g[i] \in V
    <3>1. i - 1 \in A /\ (i - 1) + 1 = i /\ i <= n
      BY <1>1, <1>12
    <3> QED
      BY <3>1 DEF A
  <2> QED
    BY <2>1
<1>14. g \in [1 .. n -> V]
  BY <1>9, <1>13 DEF Flattened, n
<1> QED
  BY <1>9, <1>14 DEF n, V

Bulks(r) == [i \in DOMAIN r |-> Bulk(r[i])]

LEMMA BulksTyped ==
    ASSUME NEW r \in Seq(Seq(Byte)), r # <<>>
    PROVE  /\ Bulks(r) \in Seq(Seq(Byte)) /\ Len(Bulks(r)) = Len(r)
           /\ Bulks(r) # <<>>
           /\ \A i \in 1 .. Len(r) : Bulks(r)[i] = Bulk(r[i])
<1>1. \A i \in 1 .. Len(r) : Bulk(r[i]) \in Seq(Byte)
  BY BulkTyped
<1>2. DOMAIN r = 1 .. Len(r) /\ Len(r) \in Nat \ {0}
  OBVIOUS
<1>3. /\ Bulks(r) \in [1 .. Len(r) -> Seq(Byte)]
      /\ \A i \in 1 .. Len(r) : Bulks(r)[i] = Bulk(r[i])
  BY <1>1, <1>2 DEF Bulks
<1>4. ASSUME NEW V, NEW n \in Nat \ {0}, NEW f \in [1 .. n -> V]
      PROVE  f \in Seq(V) /\ Len(f) = n /\ f # <<>>
  <2>1. f \in Seq(V) /\ Len(f) = n
    OBVIOUS
  <2> QED
    BY <2>1, EmptySeq
<1> QED
  BY <1>2, <1>3, <1>4

LEMMA EncodeTyped ==
    ASSUME NEW r \in Requests
    PROVE  /\ r \in Seq(Seq(Byte)) /\ r # <<>> /\ Len(r) \in Nat \ {0}
           /\ Header(Star, Len(r)) \in Seq(Byte)
           /\ FlattenSeq(Bulks(r)) \in Seq(Byte)
           /\ Encode(r) = Header(Star, Len(r)) \o FlattenSeq(Bulks(r))
           /\ Encode(r) \in Seq(Byte)
<1>1. r \in Seq(Seq(Byte)) /\ r # <<>>
  BY RespConstants
<1>2. Len(r) \in Nat \ {0}
  BY <1>1
<1>3. Header(Star, Len(r)) \in Seq(Byte)
  BY <1>2, BytesTyped, HeaderIs
<1>4. FlattenSeq(Bulks(r)) \in Seq(Byte)
  <2>1. Bulks(r) \in Seq(Seq(Byte)) /\ Bulks(r) # <<>>
        /\ Len(Bulks(r)) \in 1 .. Len(Bulks(r))
    BY <1>1, <1>2, BulksTyped
  <2>2. PICK g \in [1 .. Len(Bulks(r)) -> Seq(Byte)] :
           FlattenSeq(Bulks(r)) = g[Len(Bulks(r))]
    BY <2>1, FlattenIs
  <2> QED
    BY <2>1, <2>2
<1>5. Encode(r) = Header(Star, Len(r)) \o FlattenSeq(Bulks(r))
  BY DEF Encode, Bulks
<1> QED
  BY <1>1, <1>2, <1>3, <1>4, <1>5

-----------------------------------------------------------------------------
(* Types, and what the buffer holds of a request                             *)

HeadInv ==
    request # <<>> =>
        /\ request \in Requests
        /\ got \in 1 .. Len(Encode(request))
        /\ \A i \in 1 .. Width : i <= got => buf[i] = Encode(request)[i]

IInv == TypeOK /\ HeadInv

LEMMA ReceivedInv ==
    ASSUME IInv, NEW s \in Seq(Byte), NEW n \in 0 .. Len(s),
           NEW r \in Requests \cup {<<>>},
           r # <<>> => s = Encode(r) /\ n \in 1 .. Len(s),
           Received(s, n, r)
    PROVE  IInv'
<1> DEFINE h == SubSeq(s, 1, n)
<1>1. h \in Seq(Byte) /\ Len(h) = n /\ \A i \in 1 .. n : h[i] = s[i]
  OBVIOUS
<1>2. buf' = [i \in 1 .. Width |-> IF i <= n THEN s[i] ELSE buf[i]]
  <2>1. buf' = [i \in 1 .. Width |-> IF i <= Len(h) THEN h[i] ELSE buf[i]]
    BY DEF Received, Overlaid
  <2>2. Width \in Nat
    BY RespConstants
  <2> HIDE DEF h
  <2> QED
    BY <1>1, <2>1, <2>2
<1>3. buf' \in [1 .. Width -> Byte]
  <2>1. buf \in [1 .. Width -> Byte]
    BY DEF IInv, TypeOK
  <2>2. \A i \in 1 .. Width : i <= n => s[i] \in Byte
    OBVIOUS
  <2> QED
    BY <1>2, <2>1, <2>2
<1>4. SubSeq(s, n + 1, Len(s)) \in Seq(Byte)
  OBVIOUS
<1>5. TypeOK'
  BY <1>3, <1>4, RespConstants DEF IInv, TypeOK, Received
<1>6. HeadInv'
  <2>1. request' = r /\ (r # <<>> => got' = n)
    BY DEF Received
  <2>2. ASSUME NEW i \in 1 .. Width, i <= n
        PROVE  buf'[i] = s[i]
    BY <1>2, <2>2
  <2>3. Width \in Nat
    BY RespConstants
  <2> QED
    BY <2>1, <2>2, <2>3 DEF HeadInv
<1> QED
  BY <1>5, <1>6 DEF IInv

LEMMA InitIInv == Init => IInv
<1>1. <<>> \in Seq(Byte)
  OBVIOUS
<1> QED
  BY <1>1, RespConstants, BytesTyped DEF Init, IInv, TypeOK, HeadInv

LEMMA NextIInv == IInv /\ [Next]_vars => IInv'
<1> SUFFICES ASSUME IInv, [Next]_vars
             PROVE  IInv'
  OBVIOUS
<1>1. ASSUME NEW r \in Requests, receive_request(r)
      PROVE  IInv'
  <2>1. PICK n \in 1 .. Len(Encode(r)) : Received(Encode(r), n, r)
    BY <1>1 DEF receive_request
  <2>2. Encode(r) \in Seq(Byte) /\ n \in 0 .. Len(Encode(r))
    BY EncodeTyped
  <2> QED
    BY <2>1, <2>2, ReceivedInv
<1>2. ASSUME receive_rest
      PROVE  IInv'
  <2>1. rest \in Seq(Byte) /\ Len(rest) \in 0 .. Len(rest)
    BY DEF IInv, TypeOK
  <2>2. Received(rest, Len(rest), <<>>)
    BY <1>2 DEF receive_rest
  <2> QED
    BY <2>1, <2>2, ReceivedInv
<1>3. ASSUME NEW s \in Inlines, receive_inline(s)
      PROVE  IInv'
  <2>1. s \in Seq(Byte) /\ Len(s) \in 0 .. Len(s)
    BY RespConstants
  <2>2. Received(s, Len(s), <<>>)
    BY <1>3 DEF receive_inline
  <2> QED
    BY <2>1, <2>2, ReceivedInv
<1>4. CASE UNCHANGED vars
  BY <1>4 DEF vars, IInv, TypeOK, HeadInv
<1> QED
  BY <1>1, <1>2, <1>3, <1>4 DEF Next

LEMMA Inductive == Spec => []IInv
BY InitIInv, NextIInv, PTL DEF Spec

\* TypeOK: whatever is received, req_data stays as many bytes as the probe
\* copies, and what no call has received yet is bytes.
THEOREM TypeCorrect == Spec => []TypeOK
<1>1. IInv => TypeOK
  BY DEF IInv
<1> QED
  BY <1>1, Inductive, PTL
-----------------------------------------------------------------------------
(* Reading what was sent                                                     *)

\* s stands in d from position p on.
At(d, p, s) ==
    /\ p + Len(s) <= Len(d) + 1
    /\ \A j \in 1 .. Len(s) : d[p + j - 1] = s[j]

LEMMA AtParts ==
    ASSUME NEW d \in Seq(Byte), NEW p \in Nat \ {0},
           NEW s \in Seq(Byte), NEW t \in Seq(Byte), At(d, p, s \o t)
    PROVE  At(d, p, s) /\ At(d, p + Len(s), t)
<1>1. /\ Len(s \o t) = Len(s) + Len(t)
      /\ \A i \in 1 .. Len(s) + Len(t) :
            (s \o t)[i] = IF i <= Len(s) THEN s[i] ELSE t[i - Len(s)]
  BY ConcatProperties
<1>2. Len(s) \in Nat /\ Len(t) \in Nat /\ Len(d) \in Nat
  OBVIOUS
<1>3. \A i \in 1 .. Len(s) + Len(t) : d[p + i - 1] = (s \o t)[i]
  BY <1>1 DEF At
<1>4. p + (Len(s) + Len(t)) <= Len(d) + 1
  BY <1>1 DEF At
<1>5. ASSUME NEW j \in 1 .. Len(s)
      PROVE  d[p + j - 1] = s[j]
  <2>1. j \in 1 .. Len(s) + Len(t) /\ j <= Len(s)
    BY <1>2
  <2> QED
    BY <1>1, <1>3, <2>1
<1>6. ASSUME NEW j \in 1 .. Len(t)
      PROVE  d[(p + Len(s)) + j - 1] = t[j]
  <2>1. /\ Len(s) + j \in 1 .. Len(s) + Len(t) /\ ~(Len(s) + j <= Len(s))
        /\ (Len(s) + j) - Len(s) = j
        /\ p + (Len(s) + j) - 1 = (p + Len(s)) + j - 1
    BY <1>2
  <2>2. (s \o t)[Len(s) + j] = t[j]
    BY <1>1, <2>1
  <2> QED
    BY <1>3, <2>1, <2>2
<1>7. p + Len(s) <= Len(d) + 1 /\ (p + Len(s)) + Len(t) <= Len(d) + 1
  BY <1>2, <1>4
<1> QED
  BY <1>5, <1>6, <1>7 DEF At

\* A header that was sent is read as one, with the number that was sent.
LEMMA HeaderAt ==
    ASSUME NEW d \in Seq(Byte), NEW p \in Nat \ {0}, NEW byte \in Byte,
           NEW n \in Nat, n < UsizeMod, At(d, p, Header(byte, n))
    PROVE  /\ p \in 1 .. Len(d) /\ d[p] = byte /\ IsHeader(d, p)
           /\ HeaderNumber(d, p) = n
           /\ BodyStart(d, p) = p + Len(Header(byte, n))
<1> DEFINE s == Decimal(n)
           h == Header(byte, n)
           w == Len(s)
<1>1. /\ Len(h) = w + 3 /\ w \in Nat \ {0}
      /\ h[1] = byte
      /\ \A j \in 1 .. w : h[j + 1] = s[j] /\ s[j] \in Digit
      /\ h[w + 2] = Cr /\ h[w + 3] = Lf
  BY HeaderIs
<1>2. s \in Seq(Digit) /\ Number(s) = n
  BY DecimalRight DEF SpellsIt
<1>3. /\ p + Len(h) <= Len(d) + 1
      /\ \A j \in 1 .. Len(h) : d[p + j - 1] = h[j]
  BY DEF At
<1> HIDE DEF h, w, s
<1>4. Len(d) \in Nat /\ p + w + 2 <= Len(d)
  BY <1>1, <1>3
<1>5. ASSUME NEW j \in 1 .. w
      PROVE  d[p + j] = s[j] /\ s[j] \in Digit
  <2>1. j + 1 \in 1 .. Len(h) /\ p + (j + 1) - 1 = p + j
    BY <1>1
  <2> QED
    BY <1>1, <1>3, <2>1
<1>6. d[p] = byte /\ d[p + w + 1] = Cr /\ d[p + w + 2] = Lf
  <2>1. /\ 1 \in 1 .. Len(h) /\ p + 1 - 1 = p
        /\ w + 2 \in 1 .. Len(h) /\ p + (w + 2) - 1 = p + w + 1
        /\ w + 3 \in 1 .. Len(h) /\ p + (w + 3) - 1 = p + w + 2
    BY <1>1
  <2> QED
    BY <1>1, <1>3, <2>1
<1>7. DigitEnd(d, p + 1) = p + w + 1
  <2> DEFINE K == {k \in p + 1 .. Len(d) : d[k] \notin Digit} \cup {Len(d) + 1}
  <2>1. p + w + 1 \in K
    <3>1. p + w + 1 \in p + 1 .. Len(d)
      BY <1>1, <1>4
    <3>2. Cr \notin Digit
      BY DEF Cr, Digit
    <3> QED
      BY <1>6, <3>1, <3>2
  <2>2. ASSUME NEW k \in K
        PROVE  p + w + 1 <= k
    <3>1. CASE k = Len(d) + 1
      BY <1>1, <1>4, <3>1
    <3>2. CASE k # Len(d) + 1
      <4>1. k \in p + 1 .. Len(d) /\ d[k] \notin Digit
        BY <3>2
      <4>2. ~(k - p \in 1 .. w)
        <5>1. p + (k - p) = k
          BY <4>1
        <5> QED
          BY <1>5, <4>1, <5>1
      <4> QED
        BY <1>1, <4>1, <4>2
    <3> QED
      BY <3>1, <3>2
  <2>3. K \in SUBSET Nat
    BY <1>4
  <2> HIDE DEF K
  <2>4. Min(K) = p + w + 1
    BY <2>1, <2>2, <2>3, MinIs
  <2> QED
    BY <2>4 DEF DigitEnd, K
<1>8. IsHeader(d, p)
  <2>1. p + w + 1 > p + 1 /\ (p + w + 1) + 1 <= Len(d) /\ (p + w + 1) + 1 = p + w + 2
    BY <1>1, <1>4
  <2> QED
    BY <1>6, <1>7, <2>1 DEF IsHeader
<1>9. HeaderNumber(d, p) = n
  <2> DEFINE u == SubSeq(d, p + 1, p + w)
  <2>1. \A i \in p + 1 .. p + w : d[i] \in Digit
    <3>1. ASSUME NEW i \in p + 1 .. p + w
          PROVE  d[i] \in Digit
      <4>1. i - p \in 1 .. w /\ p + (i - p) = i
        BY <1>1
      <4> QED
        BY <1>5, <4>1
    <3> QED
      BY <3>1
  <2>2. p + 1 \in Int /\ p + w \in Int /\ p + 1 <= p + w
        /\ (p + w) - (p + 1) + 1 = w
    BY <1>1
  <2>3. /\ u \in Seq(Digit) /\ Len(u) = w
        /\ \A i \in 1 .. w : u[i] = d[(p + 1) + i - 1]
    BY <2>1, <2>2, SubSeqProperties
  <2>4. \A i \in 1 .. w : (p + 1) + i - 1 = p + i
    BY <1>1
  <2> HIDE DEF u
  <2>5. \A i \in 1 .. w : u[i] = s[i]
    BY <1>5, <2>3, <2>4
  <2>6. u = s
    BY <1>2, <2>3, <2>5, SeqEqual DEF w
  <2>7. DigitEnd(d, p + 1) - 1 = p + w
    BY <1>1, <1>7
  <2> QED
    BY <1>2, <2>6, <2>7 DEF HeaderNumber, u
<1>10. BodyStart(d, p) = p + Len(h)
  <2>1. (p + w + 1) + 2 = p + (w + 3)
    BY <1>1
  <2> QED
    BY <1>1, <1>7, <2>1 DEF BodyStart
<1>11. p \in 1 .. Len(d)
  BY <1>1, <1>4
<1> QED
  BY <1>6, <1>8, <1>9, <1>10, <1>11 DEF h

\* What precedes the first NUL is read as it is.
LEMMA TextRight ==
    ASSUME NEW b \in [1 .. Width -> Byte], NEW m \in 0 .. Width,
           \A i \in 1 .. m : b[i] # Nul
    PROVE  /\ Text(b) \in Seq(Byte) /\ Len(Text(b)) \in m .. Width
           /\ \A i \in 1 .. Len(Text(b)) : Text(b)[i] = b[i]
<1> DEFINE nuls == {i \in DOMAIN b : b[i] = Nul}
<1>0. Width \in Nat /\ m \in Nat /\ m <= Width
  BY RespConstants
<1>1. CASE nuls = {}
  <2>1. Text(b) = b
    BY <1>1 DEF Text
  <2>2. b \in Seq(Byte) /\ Len(b) = Width
    BY <1>0
  <2> QED
    BY <1>0, <2>1, <2>2
<1>2. CASE nuls # {}
  <2> DEFINE k == Min(nuls)
  <2>1. nuls \in SUBSET Nat
    BY <1>0
  <2>2. k \in nuls
    <3> HIDE DEF nuls
    <3> QED
      BY <1>2, <2>1, MinLeast
  <2>3. k \in 1 .. Width /\ b[k] = Nul
    BY <2>2
  <2>4. Text(b) = SubSeq(b, 1, k - 1)
    BY <1>2 DEF Text
  <2> HIDE DEF k
  <2>5. k > m
    BY <1>0, <2>3
  <2>6. 1 \in Int /\ k - 1 \in Int /\ \A i \in 1 .. k - 1 : b[i] \in Byte
    BY <1>0, <2>3
  <2>7. /\ SubSeq(b, 1, k - 1) \in Seq(Byte)
        /\ Len(SubSeq(b, 1, k - 1)) = IF 1 <= k - 1 THEN (k - 1) - 1 + 1 ELSE 0
        /\ \A i \in 1 .. (k - 1) - 1 + 1 : SubSeq(b, 1, k - 1)[i] = b[1 + i - 1]
    BY <2>6, SubSeqProperties
  <2>8. /\ Len(Text(b)) = k - 1
        /\ \A i \in 1 .. k - 1 : i \in 1 .. (k - 1) - 1 + 1 /\ 1 + i - 1 = i
    BY <2>3, <2>4, <2>7
  <2>9. k - 1 \in m .. Width
    BY <1>0, <2>3, <2>5
  <2> QED
    BY <2>4, <2>7, <2>8, <2>9
<1> QED
  BY <1>1, <1>2
\* Every intermediate result of a flattening is a prefix of the last.
LEMMA FlattenPrefix ==
    ASSUME NEW bs \in Seq(Seq(Byte)), NEW g \in [1 .. Len(bs) -> Seq(Byte)],
           Flattened(bs, g), NEW i \in 1 .. Len(bs)
    PROVE  \E t \in Seq(Byte) : g[Len(bs)] = g[i] \o t
<1> DEFINE n == Len(bs)
           V == Seq(Byte)
           A == {m \in Nat : \A k \in 1 .. n :
                    k + m = n => \E t \in V : g[n] = g[k] \o t}
<1>1. n \in Nat /\ g \in [1 .. n -> V] /\ \A k \in 1 .. n : bs[k] \in V
  OBVIOUS
<1>2. <<>> \in V /\ \A x \in V : x \o <<>> = x
  OBVIOUS
<1>3. \A x, y, z \in V : y \o z \in V /\ (x \o y) \o z = x \o (y \o z)
  OBVIOUS
<1> HIDE DEF n, V
<1>4. 0 \in A
  <2>1. ASSUME NEW k \in 1 .. n, k + 0 = n
        PROVE  \E t \in V : g[n] = g[k] \o t
    <3>1. k = n /\ g[k] \in V
      BY <1>1, <2>1
    <3> QED
      BY <1>2, <3>1
  <2> QED
    BY <2>1
<1>5. ASSUME NEW m \in Nat, m \in A
      PROVE  m + 1 \in A
  <2>1. ASSUME NEW k \in 1 .. n, k + (m + 1) = n
        PROVE  \E t \in V : g[n] = g[k] \o t
    <3>1. k + 1 \in 1 .. n /\ (k + 1) + m = n /\ k + 1 # 1 /\ (k + 1) - 1 = k
      BY <1>1, <2>1
    <3>2. PICK t \in V : g[n] = g[k + 1] \o t
      BY <1>5, <3>1
    <3>3. g[k + 1] = g[k] \o bs[k + 1]
      BY <3>1, Zenon DEF Flattened, n
    <3>4. g[k] \in V /\ bs[k + 1] \in V
      BY <1>1, <3>1
    <3>5. /\ (g[k] \o bs[k + 1]) \o t = g[k] \o (bs[k + 1] \o t)
          /\ bs[k + 1] \o t \in V
      BY <1>3, <3>4
    <3> QED
      BY <3>2, <3>3, <3>5, Zenon
  <2>2. m + 1 \in Nat
    OBVIOUS
  <2> QED
    BY <2>1, <2>2, Zenon
<1> HIDE DEF A
<1>6. n - i \in A
  <2>1. n - i \in Nat
    BY <1>1 DEF n
  <2>2. Nat \subseteq A
    BY <1>4, <1>5, NatSetInduction
  <2> QED
    BY <2>1, <2>2
<1>7. i \in 1 .. n /\ i + (n - i) = n
  BY <1>1 DEF n
<1> QED
  BY <1>6, <1>7 DEF A, n, V

\* A bulk string is its header, its bytes, and CR LF.
LEMMA BulkAt ==
    ASSUME NEW d \in Seq(Byte), NEW p \in Nat \ {0}, NEW s \in Seq(Byte),
           At(d, p, Bulk(s))
    PROVE  LET h == Header(Dollar, Len(s))
           IN /\ h \in Seq(Byte)
              /\ Len(Bulk(s)) = Len(h) + Len(s) + 2
              /\ At(d, p, h) /\ At(d, p + Len(h), s)
              /\ At(d, p + Len(h) + Len(s), <<Cr, Lf>>)
<1> DEFINE h == Header(Dollar, Len(s))
           u == <<Cr, Lf>>
<1>1. h \in Seq(Byte) /\ u \in Seq(Byte) /\ Len(u) = 2
  BY BytesTyped, HeaderIs
<1>2. Bulk(s) = (h \o s) \o u
  BY DEF Bulk
<1> HIDE DEF h, u
<1>3. h \o s \in Seq(Byte) /\ Len(h \o s) = Len(h) + Len(s)
  BY <1>1
<1>4. Len((h \o s) \o u) = Len(h) + Len(s) + 2
  <2>1. \A x \in Seq(Byte) : Len(x \o u) = Len(x) + Len(u)
    BY <1>1, ConcatProperties
  <2> QED
    BY <1>1, <1>3, <2>1
<1>5. At(d, p, h \o s) /\ At(d, p + (Len(h) + Len(s)), u)
  <2>1. At(d, p, (h \o s) \o u)
    BY <1>2
  <2>2. At(d, p, h \o s) /\ At(d, p + Len(h \o s), u)
    BY <1>1, <1>3, <2>1, AtParts
  <2> QED
    BY <1>3, <2>2
<1>6. At(d, p, h) /\ At(d, p + Len(h), s)
  BY <1>1, <1>5, AtParts
<1>7. p + (Len(h) + Len(s)) = p + Len(h) + Len(s)
  BY <1>1
<1> QED
  BY <1>1, <1>2, <1>4, <1>5, <1>6, <1>7 DEF h, u

LEMMA AtItself ==
    ASSUME NEW s \in Seq(Byte)
    PROVE  At(s, 1, s)
<1>1. Len(s) \in Nat /\ \A j \in 1 .. Len(s) : 1 + j - 1 = j
  OBVIOUS
<1> QED
  BY <1>1 DEF At

\* A request starts with two headers and its name.
LEMMA EncodeHead ==
    ASSUME NEW r \in Requests
    PROVE  LET e == Encode(r)
               h1 == Header(Star, Len(r))
               h2 == Header(Dollar, Len(r[1]))
           IN /\ e \in Seq(Byte) /\ r[1] \in Seq(Byte)
              /\ At(e, 1, h1) /\ At(e, 1 + Len(h1), h2)
              /\ At(e, NameStart(r), r[1])
              /\ Len(e) >= NameEnd(r)
<1> DEFINE e == Encode(r)
           h1 == Header(Star, Len(r))
           h2 == Header(Dollar, Len(r[1]))
           bs == Bulks(r)
           f == FlattenSeq(bs)
<1>1. /\ r \in Seq(Seq(Byte)) /\ r # <<>> /\ Len(r) \in Nat \ {0}
      /\ h1 \in Seq(Byte) /\ f \in Seq(Byte) /\ e = h1 \o f /\ e \in Seq(Byte)
  BY EncodeTyped
<1>2. r[1] \in Seq(Byte) /\ 1 \in 1 .. Len(r)
  BY <1>1
<1>3. /\ bs \in Seq(Seq(Byte)) /\ bs # <<>> /\ 1 \in 1 .. Len(bs)
      /\ bs[1] = Bulk(r[1])
  BY <1>1, <1>2, BulksTyped
<1>4. Bulk(r[1]) \in Seq(Byte)
  BY <1>2, BulkTyped
<1> HIDE DEF bs
<1>5. PICK g \in [1 .. Len(bs) -> Seq(Byte)] : Flattened(bs, g) /\ f = g[Len(bs)]
  BY <1>3, FlattenIs
<1>6. PICK t \in Seq(Byte) : f = g[1] \o t
  BY <1>3, <1>5, FlattenPrefix
<1>7. g[1] = Bulk(r[1])
  BY <1>3, <1>5 DEF Flattened
<1> HIDE DEF e, h1, f
<1>8. At(e, 1, h1) /\ At(e, 1 + Len(h1), f)
  <2>1. At(e, 1, e)
    BY <1>1, AtItself
  <2>2. At(e, 1, h1 \o f)
    BY <1>1, <2>1
  <2>3. 1 \in Nat \ {0}
    OBVIOUS
  <2> QED
    BY <1>1, <2>2, <2>3, AtParts
<1>9. 1 + Len(h1) \in Nat \ {0}
  BY <1>1
<1>10. At(e, 1 + Len(h1), Bulk(r[1]))
  BY <1>1, <1>4, <1>6, <1>7, <1>8, <1>9, AtParts
<1>11. /\ h2 \in Seq(Byte) /\ At(e, 1 + Len(h1), h2)
       /\ At(e, 1 + Len(h1) + Len(h2), r[1])
  BY <1>1, <1>2, <1>9, <1>10, BulkAt
<1>12. NameStart(r) = 1 + Len(h1) + Len(h2)
  <2>1. NameStart(r) = Len(h1) + Len(h2) + 1
    BY DEF NameStart, h1
  <2> QED
    BY <1>1, <1>11, <2>1
<1>13. Len(e) >= NameEnd(r)
  <2>1. NameStart(r) + Len(r[1]) <= Len(e) + 1
    BY <1>11, <1>12 DEF At
  <2>2. NameStart(r) \in Nat /\ Len(r[1]) \in Nat /\ Len(e) \in Nat
    BY <1>1, <1>2, <1>11, <1>12
  <2> QED
    BY <2>1, <2>2 DEF NameEnd
<1> QED
  BY <1>1, <1>2, <1>8, <1>11, <1>12, <1>13 DEF e, h1
-----------------------------------------------------------------------------
(* The scan finds the name                                                   *)

LEMMA HeaderPlain ==
    ASSUME NEW byte \in Byte \ {Nul}, NEW n \in Nat
    PROVE  \A i \in 1 .. Len(Header(byte, n)) :
              /\ Header(byte, n)[i] # Nul
              /\ byte # Dollar => Header(byte, n)[i] # Dollar
<1> DEFINE s == Decimal(n)
           h == Header(byte, n)
<1>1. /\ Len(h) = Len(s) + 3 /\ Len(s) \in Nat \ {0}
      /\ h[1] = byte
      /\ \A j \in 1 .. Len(s) : h[j + 1] = s[j] /\ s[j] \in Digit
      /\ h[Len(s) + 2] = Cr /\ h[Len(s) + 3] = Lf
  BY HeaderIs
<1> HIDE DEF s, h
<1>2. ASSUME NEW i \in 1 .. Len(h)
      PROVE  h[i] # Nul /\ (byte # Dollar => h[i] # Dollar)
  <2>1. CASE i = 1
    BY <1>1, <2>1
  <2>2. CASE i - 1 \in 1 .. Len(s)
    <3>1. (i - 1) + 1 = i
      OBVIOUS
    <3>2. h[i] \in Digit
      BY <1>1, <2>2, <3>1
    <3> QED
      BY <3>2 DEF Digit, Nul, Dollar
  <2>3. CASE i = Len(s) + 2
    BY <1>1, <2>3 DEF Cr, Nul, Dollar
  <2>4. CASE i = Len(s) + 3
    BY <1>1, <2>4 DEF Lf, Nul, Dollar
  <2> QED
    BY <1>1, <2>1, <2>2, <2>3, <2>4
<1> QED
  BY <1>2 DEF h

\* What stands in one sequence stands in another that agrees with it so far.
LEMMA AtAgree ==
    ASSUME NEW d \in Seq(Byte), NEW e \in Seq(Byte), NEW s \in Seq(Byte),
           NEW p \in Nat \ {0}, NEW m \in 0 .. Len(d), At(e, p, s),
           \A i \in 1 .. m : d[i] = e[i], p + Len(s) <= m + 1
    PROVE  At(d, p, s)
<1>1. Len(s) \in Nat /\ Len(d) \in Nat
  OBVIOUS
<1>2. ASSUME NEW j \in 1 .. Len(s)
      PROVE  d[p + j - 1] = s[j]
  <2>1. p + j - 1 \in 1 .. m
    BY <1>1
  <2> QED
    BY <2>1 DEF At
<1> QED
  BY <1>1, <1>2 DEF At

LEMMA LettersRight ==
    ASSUME NEW r \in Requests, NEW b \in [1 .. Width -> Byte], r[1] # <<>>,
           \A k \in DOMAIN r[1] : r[1][k] \in Upper \cup Lower,
           NEW m \in Nat, m = IF NameEnd(r) <= Width THEN NameEnd(r) ELSE Width,
           \A i \in 1 .. m : b[i] = Encode(r)[i]
    PROVE  classify_command(b) =
              Uppercase(SubSeq(r[1], 1, m - NameStart(r) + 1))
<1> DEFINE e == Encode(r)
           h1 == Header(Star, Len(r))
           h2 == Header(Dollar, Len(r[1]))
           name == r[1]
           len == Len(r[1])
           a == Len(h1)
           p == NameStart(r)
           d == Text(b)
<1>1. /\ e \in Seq(Byte) /\ name \in Seq(Byte)
      /\ At(e, 1, h1) /\ At(e, 1 + a, h2) /\ At(e, p, name)
      /\ Len(e) >= NameEnd(r)
  BY EncodeHead
<1>2. /\ h1 \in Seq(Byte) /\ Len(h1) >= 4 /\ Len(h1) \in Nat
      /\ h2 \in Seq(Byte) /\ Len(h2) >= 4 /\ Len(h2) \in Nat
      /\ Len(r) \in Nat \ {0} /\ len \in Nat \ {0}
  <2>1. Len(r) \in Nat \ {0}
    BY EncodeTyped
  <2>2. len \in Nat \ {0}
    BY <1>1
  <2>3. /\ Len(h1) = Len(Decimal(Len(r))) + 3
        /\ Len(Decimal(Len(r))) \in Nat \ {0}
        /\ h1 \in Seq(Byte)
    BY <2>1, BytesTyped, HeaderIs
  <2>4. /\ Len(h2) = Len(Decimal(len)) + 3
        /\ Len(Decimal(len)) \in Nat \ {0}
        /\ h2 \in Seq(Byte)
    BY <2>2, BytesTyped, HeaderIs
  <2> QED
    BY <2>1, <2>2, <2>3, <2>4
<1>3. p = a + Len(h2) + 1 /\ NameEnd(r) = p + len - 1
  BY DEF NameStart, NameEnd
<1>4. Width \in Nat /\ UsizeMod \in Nat /\ p <= Width /\ Width + len < UsizeMod
  BY RespConstants, NamesInReach
<1> HIDE DEF e, h1, h2, len, p
<1>5. p \in Nat /\ p >= 9 /\ m \in p .. Width /\ m <= p + len - 1
  BY <1>2, <1>3, <1>4
<1>6. \A i \in 1 .. m : e[i] # Nul
  <2>1. ASSUME NEW i \in 1 .. m
        PROVE  e[i] # Nul
    <3>1. CASE i <= a
      <4>1. e[i] = h1[i]
        <5>1. i \in 1 .. Len(h1) /\ 1 + i - 1 = i
          BY <1>2, <3>1
        <5> QED
          BY <1>1, <5>1 DEF At
      <4>2. Star \in Byte \ {Nul}
        BY DEF Star, Byte, Nul
      <4> QED
        BY <1>2, <3>1, <4>1, <4>2, HeaderPlain DEF h1
    <3>2. CASE i > a /\ i < p
      <4>1. i - a \in 1 .. Len(h2) /\ (1 + a) + (i - a) - 1 = i
        BY <1>2, <1>3, <3>2
      <4>2. e[i] = h2[i - a]
        BY <1>1, <4>1 DEF At
      <4>3. Dollar \in Byte \ {Nul}
        BY DEF Dollar, Byte, Nul
      <4> QED
        BY <1>2, <4>1, <4>2, <4>3, HeaderPlain DEF h2, len
    <3>3. CASE i >= p
      <4>1. i - p + 1 \in 1 .. len /\ p + (i - p + 1) - 1 = i
        BY <1>2, <1>5, <3>3
      <4>2. e[i] = name[i - p + 1]
        BY <1>1, <4>1 DEF At, len
      <4>3. i - p + 1 \in DOMAIN name
        BY <1>1, <4>1 DEF len
      <4>4. e[i] \in Upper \cup Lower
        BY <4>2, <4>3
      <4>5. Nul \notin Upper \cup Lower
        BY DEF Upper, Lower, Nul
      <4> QED
        BY <4>4, <4>5
    <3> QED
      BY <1>2, <1>5, <3>1, <3>2, <3>3
  <2> QED
    BY <2>1
<1>7. /\ d \in Seq(Byte) /\ Len(d) \in m .. Width
      /\ \A i \in 1 .. m : d[i] = e[i]
  <2>1. \A i \in 1 .. m : b[i] = e[i]
    BY DEF e
  <2>2. m \in 0 .. Width /\ \A i \in 1 .. m : b[i] # Nul
    BY <1>4, <1>5, <1>6, <2>1
  <2>3. /\ d \in Seq(Byte) /\ Len(d) \in m .. Width
        /\ \A i \in 1 .. Len(d) : d[i] = b[i]
    BY <2>2, TextRight
  <2>4. \A i \in 1 .. m : i \in 1 .. Len(d)
    BY <1>5, <2>3
  <2> QED
    BY <2>1, <2>3, <2>4
<1> HIDE DEF d
<1>8. At(d, 1, h1) /\ At(d, 1 + a, h2)
  <2>1. m \in 0 .. Len(d)
    BY <1>5, <1>7
  <2>2. 1 + a \in Nat \ {0} /\ 1 \in Nat \ {0}
    BY <1>2
  <2>3. 1 + Len(h1) <= m + 1 /\ (1 + a) + Len(h2) <= m + 1
    BY <1>2, <1>3, <1>5
  <2> QED
    BY <1>1, <1>2, <1>7, <2>1, <2>2, <2>3, AtAgree
<1>9. /\ 1 + a \in 1 .. Len(d) /\ d[1 + a] = Dollar /\ IsHeader(d, 1 + a)
      /\ HeaderNumber(d, 1 + a) = len
      /\ BodyStart(d, 1 + a) = p
  <2>1. 1 + a \in Nat \ {0} /\ len < UsizeMod /\ len \in Nat
    BY <1>2, <1>4
  <2>2. At(d, 1 + a, Header(Dollar, len))
    BY <1>8 DEF h2, len
  <2>3. /\ 1 + a \in 1 .. Len(d) /\ d[1 + a] = Dollar /\ IsHeader(d, 1 + a)
        /\ HeaderNumber(d, 1 + a) = len
        /\ BodyStart(d, 1 + a) = (1 + a) + Len(Header(Dollar, len))
    BY <1>7, <2>1, <2>2, BytesTyped, HeaderAt
  <2>4. (1 + a) + Len(h2) = p
    BY <1>2, <1>3
  <2> QED
    BY <2>3, <2>4 DEF h2, len
<1>10. BodyEnd(d, 1 + a) = m + 1
  <2>1. p + len - 1 \in 0 .. UsizeMod - 1
    BY <1>2, <1>4, <1>5
  <2>2. (p + len - 1) % UsizeMod = p + len - 1
    BY <1>4, <2>1
  <2>3. BodyEnd(d, 1 + a) = Min({1 + (p + len - 1), Len(d) + 1})
    BY <1>9, <2>2 DEF BodyEnd
  <2>4. 1 + (p + len - 1) \in Int /\ Len(d) + 1 \in Int
    BY <1>2, <1>5, <1>7
  <2>5. BodyEnd(d, 1 + a) = IF 1 + (p + len - 1) <= Len(d) + 1
                            THEN 1 + (p + len - 1) ELSE Len(d) + 1
    BY <2>3, <2>4, MinOfTwo
  <2>6. CASE p + len - 1 <= Width
    <3>1. m = p + len - 1
      BY <1>3, <2>6
    <3>2. 1 + (p + len - 1) = m + 1 /\ m + 1 <= Len(d) + 1
      BY <1>5, <1>7, <3>1
    <3> QED
      BY <2>5, <3>2
  <2>7. CASE ~(p + len - 1 <= Width)
    <3>1. m = Width
      BY <1>3, <2>7
    <3>2. Len(d) = m
      BY <1>4, <1>7, <3>1
    <3> QED
      BY <1>2, <1>4, <1>5, <2>5, <2>7, <3>1, <3>2
  <2> QED
    BY <2>6, <2>7
<1>11. Body(d, 1 + a) = SubSeq(name, 1, m - p + 1)
  <2> DEFINE s == SubSeq(d, p, m)
             t == SubSeq(name, 1, m - p + 1)
  <2>1. \A i \in p .. m : d[i] \in Byte
    BY <1>5, <1>7
  <2>2. /\ s \in Seq(Byte) /\ Len(s) = m - p + 1
        /\ \A i \in 1 .. m - p + 1 : s[i] = d[p + i - 1]
    BY <1>5, <2>1, SubSeqProperties
  <2>3. m - p + 1 \in 1 .. len
    BY <1>2, <1>5
  <2>4. \A i \in 1 .. m - p + 1 : name[i] \in Byte
    BY <1>1, <2>3 DEF len
  <2>5. /\ t \in Seq(Byte) /\ Len(t) = m - p + 1
        /\ \A i \in 1 .. m - p + 1 : t[i] = name[i]
    BY <1>1, <2>3 DEF len
  <2>6. ASSUME NEW i \in 1 .. m - p + 1
        PROVE  s[i] = t[i]
    <3>1. p + i - 1 \in 1 .. m
      BY <1>5, <2>6
    <3>2. i \in 1 .. len
      BY <1>2, <2>3
    <3>3. e[p + i - 1] = name[i]
      BY <1>1, <3>2 DEF At, len
    <3> QED
      BY <1>7, <2>2, <2>5, <3>1, <3>3
  <2>7. s = t
    <3> HIDE DEF s, t
    <3> QED
      BY <2>2, <2>5, <2>6, SeqEqual
  <2>8. (m + 1) - 1 = m
    BY <1>5
  <2> QED
    BY <1>9, <1>10, <2>7, <2>8 DEF Body
<1>12. IsName(d, 1 + a) /\ ~TooLong(d, 1 + a)
  <2>1. m - p + 1 \in 1 .. len
    BY <1>2, <1>5
  <2>2. ASSUME NEW k \in DOMAIN SubSeq(name, 1, m - p + 1)
        PROVE  SubSeq(name, 1, m - p + 1)[k] \in Upper \cup Lower
    <3>1. k \in DOMAIN name /\ SubSeq(name, 1, m - p + 1)[k] = name[k]
      BY <1>1, <2>1, <2>2 DEF len
    <3> QED
      BY <3>1
  <2>3. m + 1 > p /\ ~(len >= UsizeMod)
    BY <1>2, <1>4, <1>5
  <2> QED
    BY <1>9, <1>10, <1>11, <2>2, <2>3 DEF IsName, TooLong
<1>13. Min(ScanEnds(d)) = 1 + a /\ ScanEnds(d) # {}
  <2>1. 1 + a \in ScanEnds(d)
    BY <1>7, <1>9, <1>12 DEF ScanEnds
  <2>2. ScanEnds(d) \in SUBSET Nat
    BY <1>7 DEF ScanEnds
  <2>3. ASSUME NEW x \in ScanEnds(d)
        PROVE  1 + a <= x
    <3>1. x \in 1 .. Len(d) /\ d[x] = Dollar
      BY <1>7, <2>3 DEF ScanEnds
    <3>2. ASSUME x \in 1 .. a
          PROVE  FALSE
      <4>1. 1 + x - 1 = x
        BY <3>2
      <4>2. d[x] = h1[x]
        BY <1>8, <3>2, <4>1 DEF At
      <4>3. Star \in Byte \ {Nul} /\ Star # Dollar
        BY DEF Star, Byte, Nul, Dollar
      <4> QED
        BY <1>2, <3>1, <3>2, <4>2, <4>3, HeaderPlain DEF h1
    <3> QED
      BY <1>2, <3>1, <3>2
  <2> QED
    BY <2>1, <2>2, <2>3, MinIs
<1>14. ScanFinds(d) /\ Len(d) >= 4
  BY <1>5, <1>7, <1>12, <1>13 DEF ScanFinds
<1>15. IsRecognised(b)
  BY <1>14 DEF IsRecognised, d
<1>16. classify_command(b) = Uppercase(Body(d, Min(ScanEnds(d))))
  BY <1>14, <1>15 DEF classify_command, d
<1> QED
  BY <1>11, <1>13, <1>16 DEF p

\* LettersNamed: classify_command counts a request under its own name, whatever
\* arguments follow it and whatever earlier receives left in the buffer.
THEOREM LettersClassified == Spec => []LettersNamed
<1>1. ASSUME IInv
      PROVE  LettersNamed
  <2> SUFFICES ASSUME request # <<>>, request[1] # <<>>,
                      \A k \in DOMAIN request[1] :
                         request[1][k] \in Upper \cup Lower,
                      got >= Min({NameEnd(request), Width})
               PROVE  classify_command(buf) =
                         Uppercase(SubSeq(request[1], 1,
                            Len(request[1])
                               - (Max({NameEnd(request), Width}) - Width)))
    BY DEF LettersNamed
  <2> DEFINE r == request
             m == IF NameEnd(r) <= Width THEN NameEnd(r) ELSE Width
  <2>1. /\ r \in Requests /\ buf \in [1 .. Width -> Byte]
        /\ \A i \in 1 .. Width : i <= got => buf[i] = Encode(r)[i]
        /\ got \in Nat
    BY <1>1 DEF IInv, HeadInv, TypeOK
  <2>2. Width \in Nat /\ Len(r[1]) \in Nat /\ NameStart(r) \in Nat
    <3>1. /\ Header(Star, Len(r)) \in Seq(Byte) /\ r[1] \in Seq(Byte)
          /\ Len(r) \in Nat
      BY <2>1, EncodeHead, EncodeTyped
    <3>2. Header(Dollar, Len(r[1])) \in Seq(Byte)
      BY <3>1, BytesTyped, HeaderIs
    <3> QED
      BY <3>1, <3>2, RespConstants DEF NameStart
  <2>3. NameEnd(r) = NameStart(r) + Len(r[1]) - 1 /\ NameStart(r) <= Width
    BY <2>1, NamesInReach DEF NameEnd
  <2>4. NameEnd(r) \in Int
    BY <2>2, <2>3
  <2>5. m = Min({NameEnd(r), Width})
    BY <2>2, <2>4, MinOfTwo
  <2>6. Max({NameEnd(r), Width}) = IF NameEnd(r) <= Width THEN Width ELSE NameEnd(r)
    BY <2>2, <2>4 DEF Max
  <2>7. m \in Int /\ m <= Width /\ m <= got
    BY <2>1, <2>2, <2>4, <2>5
  <2> HIDE DEF m
  <2>8. m \in Nat
    <3>1. NameStart(r) >= 1
      BY <2>2 DEF NameStart
    <3> QED
      BY <2>2, <2>3, <3>1 DEF m
  <2>9. \A i \in 1 .. m : buf[i] = Encode(r)[i]
    BY <2>1, <2>2, <2>7, <2>8
  <2>10. classify_command(buf) = Uppercase(SubSeq(r[1], 1, m - NameStart(r) + 1))
    BY <2>1, <2>8, <2>9, LettersRight DEF m
  <2>11. m - NameStart(r) + 1
           = Len(r[1]) - (Max({NameEnd(r), Width}) - Width)
    BY <2>2, <2>3, <2>4, <2>6 DEF m
  <2> QED
    BY <2>10, <2>11
<1> QED
  BY <1>1, Inductive, PTL
-----------------------------------------------------------------------------
(* The decoder takes a request that is there whole                           *)

\* Where the arguments of a request start, one after the other.
Starts(d, r, P) ==
    /\ P \in [0 .. Len(r) -> Nat \ {0}]
    /\ P[0] = 1 + Len(Header(Star, Len(r)))
    /\ \A k \in 1 .. Len(r) : /\ At(d, P[k - 1], Bulk(r[k]))
                              /\ P[k] = P[k - 1] + Len(Bulk(r[k]))

LEMMA StartsExist ==
    ASSUME NEW r \in Requests, NEW d \in Seq(Byte), At(d, 1, Encode(r))
    PROVE  At(d, 1, Header(Star, Len(r))) /\ \E P : Starts(d, r, P)
<1> DEFINE h1 == Header(Star, Len(r))
           bs == Bulks(r)
           f == FlattenSeq(bs)
           n == Len(r)
           q == 1 + Len(h1)
<1>1. /\ r \in Seq(Seq(Byte)) /\ r # <<>> /\ n \in Nat \ {0}
      /\ h1 \in Seq(Byte) /\ f \in Seq(Byte) /\ Encode(r) = h1 \o f
  BY EncodeTyped
<1>2. /\ bs \in Seq(Seq(Byte)) /\ bs # <<>> /\ Len(bs) = n
      /\ \A i \in 1 .. n : bs[i] = Bulk(r[i]) /\ bs[i] \in Seq(Byte)
  BY <1>1, BulksTyped, BulkTyped
<1> HIDE DEF bs, n, h1
<1>3. PICK g \in [1 .. n -> Seq(Byte)] : Flattened(bs, g) /\ f = g[n]
  BY <1>2, FlattenIs
<1> HIDE DEF f
<1>4. At(d, 1, h1) /\ At(d, q, f)
  <2>1. At(d, 1, h1 \o f)
    BY <1>1
  <2>2. 1 \in Nat \ {0}
    OBVIOUS
  <2> QED
    BY <1>1, <2>1, <2>2, AtParts
<1>5. q \in Nat \ {0}
  BY <1>1
<1> HIDE DEF q
<1>6. ASSUME NEW k \in 1 .. n
      PROVE  At(d, q, g[k])
  <2>1. PICK t \in Seq(Byte) : f = g[k] \o t
    BY <1>2, <1>3, FlattenPrefix
  <2>2. g[k] \in Seq(Byte) /\ At(d, q, g[k] \o t)
    BY <1>3, <1>4, <2>1
  <2> QED
    BY <1>5, <2>2, AtParts
<1> DEFINE P == [k \in 0 .. n |-> IF k = 0 THEN q ELSE q + Len(g[k])]
<1>7. P \in [0 .. n -> Nat \ {0}] /\ P[0] = q
  <2>1. \A k \in 0 .. n : k # 0 => k \in 1 .. n /\ Len(g[k]) \in Nat
    BY <1>1, <1>3
  <2>2. \A k \in 0 .. n : (IF k = 0 THEN q ELSE q + Len(g[k])) \in Nat \ {0}
    BY <1>5, <2>1
  <2>3. 0 \in 0 .. n
    BY <1>1
  <2> QED
    BY <2>2, <2>3
<1>8. ASSUME NEW k \in 1 .. n
      PROVE  At(d, P[k - 1], bs[k]) /\ P[k] = P[k - 1] + Len(bs[k])
  <2>1. k \in 0 .. n /\ k # 0 /\ k - 1 \in 0 .. n
    BY <1>1
  <2>2. P[k] = q + Len(g[k])
    BY <2>1
  <2>3. CASE k = 1
    <3>1. g[1] = bs[1]
      BY <1>2, <1>3, <2>3 DEF Flattened
    <3>2. P[k - 1] = q
      BY <1>7, <2>3
    <3> HIDE DEF P
    <3> QED
      BY <1>6, <2>2, <2>3, <3>1, <3>2
  <2>4. CASE k # 1
    <3>1. k - 1 \in 1 .. n /\ k - 1 # 0
      BY <1>1, <2>4
    <3>2. g[k] = g[k - 1] \o bs[k]
      BY <1>2, <1>3, <2>4, Zenon DEF Flattened
    <3>3. P[k - 1] = q + Len(g[k - 1])
      BY <2>1, <3>1
    <3>4. g[k - 1] \in Seq(Byte) /\ bs[k] \in Seq(Byte)
      BY <1>2, <1>3, <3>1
    <3> HIDE DEF P
    <3>5. At(d, q, g[k - 1] \o bs[k])
      BY <1>6, <3>2
    <3>6. At(d, q + Len(g[k - 1]), bs[k])
      BY <1>5, <3>4, <3>5, AtParts
    <3>7. Len(g[k - 1] \o bs[k]) = Len(g[k - 1]) + Len(bs[k])
      BY <3>4, ConcatProperties
    <3>8. Len(g[k - 1]) \in Nat /\ Len(bs[k]) \in Nat
      BY <3>4
    <3>9. \A x, y \in Nat : q + (x + y) = (q + x) + y
      BY <1>5
    <3>10. Len(g[k]) = Len(g[k - 1]) + Len(bs[k])
      BY <3>2, <3>7, Zenon
    <3>11. P[k] = (q + Len(g[k - 1])) + Len(bs[k])
      BY <2>2, <3>8, <3>9, <3>10, Zenon
    <3>12. At(d, P[k - 1], bs[k])
      BY <3>3, <3>6, Zenon
    <3> QED
      BY <3>3, <3>11, <3>12, Zenon
  <2> QED
    BY <2>3, <2>4
<1> HIDE DEF P
<1>9. Starts(d, r, P)
  BY <1>2, <1>7, <1>8 DEF Starts, q, h1, n
<1> QED
  BY <1>4, <1>9 DEF h1

\* The arguments are no more than the bytes.
LEMMA StartsRoom ==
    ASSUME NEW r \in Requests, NEW d \in Seq(Byte), NEW P, Starts(d, r, P)
    PROVE  /\ Len(r) <= Len(d)
           /\ \A k \in 1 .. Len(r) : /\ r[k] \in Seq(Byte)
                                     /\ Len(r[k]) <= Len(d)
<1> DEFINE n == Len(r)
           A == {m \in Nat : m <= n => P[m] > m}
<1>1. /\ r \in Seq(Seq(Byte)) /\ n \in Nat \ {0} /\ Len(d) \in Nat
      /\ P \in [0 .. n -> Nat \ {0}]
  BY EncodeTyped DEF Starts
<1>2. ASSUME NEW k \in 1 .. n
      PROVE  /\ r[k] \in Seq(Byte) /\ Len(r[k]) \in Nat
             /\ Len(Bulk(r[k])) \in Nat /\ Len(Bulk(r[k])) >= Len(r[k]) + 1
             /\ P[k - 1] \in Nat \ {0} /\ P[k] = P[k - 1] + Len(Bulk(r[k]))
             /\ P[k] <= Len(d) + 1
  <2>1. r[k] \in Seq(Byte) /\ k - 1 \in 0 .. n
    BY <1>1
  <2>2. /\ At(d, P[k - 1], Bulk(r[k]))
        /\ P[k] = P[k - 1] + Len(Bulk(r[k]))
        /\ P[k - 1] \in Nat \ {0}
    BY <1>1, <2>1 DEF Starts
  <2>3. /\ Header(Dollar, Len(r[k])) \in Seq(Byte)
        /\ Len(Bulk(r[k])) = Len(Header(Dollar, Len(r[k]))) + Len(r[k]) + 2
    BY <2>1, <2>2, BulkAt
  <2>4. Len(Header(Dollar, Len(r[k]))) \in Nat /\ Len(r[k]) \in Nat
    BY <2>1, <2>3
  <2>5. P[k - 1] + Len(Bulk(r[k])) <= Len(d) + 1
    BY <2>2 DEF At
  <2>6. Len(Bulk(r[k])) \in Nat /\ Len(Bulk(r[k])) >= Len(r[k]) + 1
    <3>1. \A x, y \in Nat : x + y + 2 \in Nat /\ x + y + 2 >= y + 1
      OBVIOUS
    <3> QED
      BY <2>3, <2>4, <3>1, Zenon
  <2>7. P[k] <= Len(d) + 1
    BY <2>2, <2>5, Zenon
  <2> QED
    BY <2>1, <2>2, <2>4, <2>6, <2>7
<1>3. 0 \in A
  <2>1. 0 \in 0 .. n
    BY <1>1
  <2>2. P[0] \in Nat \ {0}
    BY <1>1, <2>1
  <2> QED
    BY <2>2
<1>4. ASSUME NEW m \in Nat, m \in A
      PROVE  m + 1 \in A
  <2>1. CASE m + 1 <= n
    <3>1. m + 1 \in 1 .. n /\ (m + 1) - 1 = m /\ m <= n
      BY <1>1, <2>1
    <3>2. P[m] > m
      BY <1>4, <3>1
    <3>3. /\ Len(r[m + 1]) \in Nat /\ Len(Bulk(r[m + 1])) \in Nat
          /\ Len(Bulk(r[m + 1])) >= Len(r[m + 1]) + 1
          /\ P[m] \in Nat /\ P[m + 1] = P[m] + Len(Bulk(r[m + 1]))
      BY <1>2, <3>1
    <3>4. P[m + 1] > m + 1
      BY <3>2, <3>3
    <3> QED
      BY <3>4
  <2> QED
    BY <2>1
<1> HIDE DEF A
<1>5. n \in A
  BY <1>1, <1>3, <1>4, NatSetInduction
<1>6. n < P[n] /\ n \in 1 .. n
  BY <1>1, <1>5 DEF A
<1>7. P[n] <= Len(d) + 1 /\ P[n] \in Nat
  <2>1. n \in 0 .. n
    BY <1>1
  <2> HIDE DEF n
  <2> QED
    BY <1>1, <1>2, <1>6, <2>1
<1>8. n <= Len(d)
  BY <1>1, <1>6, <1>7
<1>9. ASSUME NEW k \in 1 .. n
      PROVE  r[k] \in Seq(Byte) /\ Len(r[k]) <= Len(d)
  BY <1>1, <1>2
<1> QED
  BY <1>8, <1>9

\* What stands at a position is what is read from there.
LEMMA ReadAt ==
    ASSUME NEW d \in Seq(Byte), NEW b \in Nat \ {0}, NEW s \in Seq(Byte),
           At(d, b, s)
    PROVE  SubSeq(d, b, b + Len(s) - 1) = s
<1> DEFINE n == Len(s)
           t == SubSeq(d, b, b + n - 1)
<1>1. /\ n \in Nat /\ b + n <= Len(d) + 1
      /\ \A j \in 1 .. n : d[b + j - 1] = s[j]
  BY DEF At
<1>2. s = [j \in 1 .. n |-> s[j]]
  OBVIOUS
<1> HIDE DEF n
<1>3. (b + n - 1) - b + 1 = n /\ b \in Int /\ b + n - 1 \in Int
  BY <1>1
<1>4. t = [j \in 1 .. (b + n - 1) - b + 1 |-> d[b + j - 1]]
  <2>1. \A j \in 1 .. n : j + b - 1 = b + j - 1
    BY <1>1
  <2>2. t = [j \in 1 .. (b + n - 1) - b + 1 |-> d[j + b - 1]]
    BY <1>1, <1>3, SMT
  <2> QED
    BY <1>1, <1>3, <2>1, <2>2
<1>5. t = [j \in 1 .. n |-> s[j]]
  BY <1>1, <1>3, <1>4
<1> QED
  BY <1>2, <1>5 DEF n

LEMMA AfterBulkIs ==
    ASSUME NEW d \in Seq(Byte), NEW p \in Nat \ {0}, NEW s \in Seq(Byte),
           Len(s) < UsizeMod, At(d, p, Bulk(s)), IsUtf8(s)
    PROVE  AfterBulk(d, p) = p + Len(Bulk(s))
<1> DEFINE h == Header(Dollar, Len(s))
           b == p + Len(h)
           len == Len(s)
<1>1. /\ h \in Seq(Byte) /\ Len(Bulk(s)) = Len(h) + len + 2
      /\ At(d, p, h) /\ At(d, b + len, <<Cr, Lf>>)
  BY BulkAt
<1>2. len \in Nat /\ Len(h) \in Nat /\ b \in Nat /\ Len(d) \in Nat
  BY <1>1
<1>3. /\ p \in 1 .. Len(d) /\ d[p] = Dollar /\ IsHeader(d, p)
      /\ HeaderNumber(d, p) = len /\ BodyStart(d, p) = b
  BY <1>1, <1>2, BytesTyped, HeaderAt
<1>4. /\ d[b + len] = Cr /\ d[b + len + 1] = Lf /\ b + len + 2 <= Len(d) + 1
  <2> DEFINE u == <<Cr, Lf>>
  <2>1. Len(u) = 2 /\ u[1] = Cr /\ u[2] = Lf /\ 1 \in 1 .. 2 /\ 2 \in 1 .. 2
    OBVIOUS
  <2> HIDE DEF u, b, len
  <2>2. /\ (b + len) + 2 <= Len(d) + 1
        /\ d[(b + len) + 1 - 1] = Cr /\ d[(b + len) + 2 - 1] = Lf
    BY <1>1, <2>1 DEF At, u
  <2>3. (b + len) + 1 - 1 = b + len /\ (b + len) + 2 - 1 = b + len + 1
    BY <1>2
  <2> QED
    BY <2>2, <2>3
<1> HIDE DEF h, b, len
<1>5. (b + len + 2) - 2 = b + len /\ (b + len + 2) - 1 = b + len + 1
  BY <1>2
<1>9. IsUtf8(SubSeq(d, b, (b + len + 2) - 3))
  <2>1. At(d, b, s) /\ b # 0
    BY <1>2, BulkAt DEF h, b
  <2>2. SubSeq(d, b, b + len - 1) = s
    BY <1>2, <2>1, ReadAt DEF len
  <2>3. (b + len + 2) - 3 = b + len - 1
    BY <1>2
  <2> QED
    BY <2>2, <2>3
<1>6. AfterBulk(d, p) = b + len + 2
  BY <1>3, <1>4, <1>5, <1>9 DEF AfterBulk
<1>7. b + len + 2 = p + (Len(h) + len + 2)
  BY <1>2 DEF b
<1> QED
  BY <1>1, <1>6, <1>7

LEMMA DecodesRight ==
    ASSUME NEW r \in Requests, NEW d \in Seq(Byte), At(d, 1, Encode(r)),
           Len(d) < UsizeMod, \A k \in DOMAIN r : IsUtf8(r[k])
    PROVE  Decodes(d)
<1> DEFINE n == Len(r)
<1>1. At(d, 1, Header(Star, n)) /\ \E P : Starts(d, r, P)
  BY StartsExist
<1>2. PICK P : Starts(d, r, P)
  BY <1>1
<1>3. /\ n \in Nat \ {0} /\ n < UsizeMod
      /\ \A k \in 1 .. n : r[k] \in Seq(Byte) /\ Len(r[k]) < UsizeMod
  <2>1. n \in Nat \ {0} /\ Len(d) \in Nat /\ UsizeMod \in Nat
    BY EncodeTyped, RespConstants
  <2>2. /\ n <= Len(d)
        /\ \A k \in 1 .. n : r[k] \in Seq(Byte) /\ Len(r[k]) <= Len(d)
    BY <1>2, StartsRoom
  <2>3. \A k \in 1 .. n : Len(r[k]) \in Nat
    BY <2>2
  <2> QED
    BY <2>1, <2>2, <2>3
<1> HIDE DEF n
<1>4. /\ 1 \in 1 .. Len(d) /\ d[1] = Star /\ IsHeader(d, 1)
      /\ HeaderNumber(d, 1) = n
      /\ BodyStart(d, 1) = 1 + Len(Header(Star, n))
  <2>1. 1 \in Nat \ {0}
    OBVIOUS
  <2> QED
    BY <1>1, <1>3, <2>1, BytesTyped, HeaderAt
<1>5. /\ P \in [0 .. n -> Nat \ {0}] /\ P[0] = BodyStart(d, 1)
      /\ \A k \in 1 .. n : P[k] = AfterBulk(d, P[k - 1])
  <2>1. P \in [0 .. n -> Nat \ {0}] /\ P[0] = BodyStart(d, 1)
    BY <1>2, <1>4 DEF Starts, n
  <2>2. ASSUME NEW k \in 1 .. n
        PROVE  P[k] = AfterBulk(d, P[k - 1])
    <3>1. k - 1 \in 0 .. n
      BY <1>3
    <3>2. /\ P[k - 1] \in Nat \ {0} /\ At(d, P[k - 1], Bulk(r[k]))
          /\ P[k] = P[k - 1] + Len(Bulk(r[k]))
      BY <1>2, <3>1 DEF Starts, n
    <3>3. IsUtf8(r[k])
      <4>1. n = Len(r) /\ r \in Seq(Seq(Byte))
        BY EncodeTyped DEF n
      <4> QED
        BY <4>1
    <3> QED
      BY <1>3, <3>2, <3>3, AfterBulkIs
  <2> QED
    BY <2>1, <2>2
<1> DEFINE Carried(g) ==
               g = [k \in 0 .. n |-> IF k = 0 THEN BodyStart(d, 1)
                                     ELSE AfterBulk(d, g[k - 1])]
<1>6. Carried(P)
  <2>1. P = [k \in 0 .. n |-> P[k]]
    BY <1>5
  <2>2. \A k \in 0 .. n : k # 0 => k \in 1 .. n
    BY <1>3
  <2>3. \A k \in 0 .. n : P[k] = IF k = 0 THEN BodyStart(d, 1)
                                 ELSE AfterBulk(d, P[k - 1])
    BY <1>5, <2>2, Zenon
  <2> QED
    BY <2>1, <2>3, Zenon
<1>7. ASSUME NEW g, Carried(g)
      PROVE  g[n] = P[n]
  <2> DEFINE A == {m \in Nat : m <= n => g[m] = P[m]}
  <2>1. 0 \in A
    BY <1>5, <1>7
  <2>2. ASSUME NEW m \in Nat, m \in A
        PROVE  m + 1 \in A
    <3>1. CASE m + 1 <= n
      <4>1. /\ m + 1 \in 0 .. n /\ m + 1 \in 1 .. n /\ m + 1 # 0
            /\ (m + 1) - 1 = m /\ m <= n
        BY <1>3, <3>1
      <4>2. g[m] = P[m]
        BY <2>2, <4>1
      <4>3. g[m + 1] = AfterBulk(d, g[m])
        BY <1>7, <4>1
      <4>4. P[m + 1] = AfterBulk(d, P[m])
        BY <1>5, <4>1
      <4> QED
        BY <4>2, <4>3, <4>4
    <3> QED
      BY <3>1
  <2> HIDE DEF A, Carried
  <2>3. n \in A
    BY <1>3, <2>1, <2>2, NatSetInduction
  <2> QED
    BY <1>3, <2>3 DEF A
<1> DEFINE last == LET after[k \in 0 .. n] ==
                          IF k = 0 THEN BodyStart(d, 1)
                          ELSE AfterBulk(d, after[k - 1])
                   IN after[n]
<1>8. \E g : Carried(g) /\ last = g[n]
  BY <1>6
<1>9. last # 0
  <2>1. P[n] # 0
    BY <1>3, <1>5
  <2> HIDE DEF last, Carried
  <2> QED
    BY <1>7, <1>8, <2>1
<1>10. HeaderNumber(d, 1) > 0
  BY <1>3, <1>4
<1> QED
  BY <1>4, <1>9, <1>10 DEF Decodes
Plain(s) == \A i \in 1 .. Len(s) : s[i] # Nul

LEMMA ConcatPlain ==
    ASSUME NEW s \in Seq(Byte), NEW t \in Seq(Byte), Plain(s), Plain(t)
    PROVE  Plain(s \o t)
<1>1. /\ Len(s \o t) = Len(s) + Len(t)
      /\ \A i \in 1 .. Len(s) + Len(t) :
            (s \o t)[i] = IF i <= Len(s) THEN s[i] ELSE t[i - Len(s)]
  BY ConcatProperties
<1>2. Len(s) \in Nat /\ Len(t) \in Nat
  OBVIOUS
<1>3. ASSUME NEW i \in 1 .. Len(s) + Len(t)
      PROVE  (s \o t)[i] # Nul
  <2>1. CASE i <= Len(s)
    BY <1>1, <1>2, <2>1 DEF Plain
  <2>2. CASE ~(i <= Len(s))
    <3>1. i - Len(s) \in 1 .. Len(t)
      BY <1>2, <2>2
    <3> QED
      BY <1>1, <2>2, <3>1 DEF Plain
  <2> QED
    BY <2>1, <2>2
<1> QED
  BY <1>1, <1>3 DEF Plain

LEMMA BulkPlain ==
    ASSUME NEW s \in Seq(Byte), Plain(s)
    PROVE  Plain(Bulk(s))
<1> DEFINE h == Header(Dollar, Len(s))
           u == <<Cr, Lf>>
<1>1. h \in Seq(Byte) /\ u \in Seq(Byte)
  BY BytesTyped, HeaderIs
<1>2. Plain(h)
  <2>1. Dollar \in Byte \ {Nul} /\ Len(s) \in Nat
    BY DEF Dollar, Byte, Nul
  <2> QED
    BY <2>1, HeaderPlain DEF Plain
<1>3. Plain(u)
  BY DEF Plain, Cr, Lf, Nul
<1> HIDE DEF h, u
<1>4. h \o s \in Seq(Byte) /\ Plain(h \o s)
  BY <1>1, <1>2, ConcatPlain
<1>5. Plain((h \o s) \o u)
  BY <1>1, <1>3, <1>4, ConcatPlain
<1> QED
  BY <1>5 DEF Bulk, h, u

LEMMA EncodePlain ==
    ASSUME NEW r \in Requests, \A k \in DOMAIN r : Nul \notin Range(r[k])
    PROVE  Plain(Encode(r))
<1> DEFINE h1 == Header(Star, Len(r))
           bs == Bulks(r)
           f == FlattenSeq(bs)
           n == Len(r)
<1>1. /\ r \in Seq(Seq(Byte)) /\ r # <<>> /\ n \in Nat \ {0}
      /\ h1 \in Seq(Byte) /\ f \in Seq(Byte) /\ Encode(r) = h1 \o f
  BY EncodeTyped
<1>2. /\ bs \in Seq(Seq(Byte)) /\ bs # <<>> /\ Len(bs) = n
      /\ \A i \in 1 .. n : bs[i] = Bulk(r[i]) /\ bs[i] \in Seq(Byte)
  BY <1>1, BulksTyped, BulkTyped
<1>3. Plain(h1)
  <2>1. Star \in Byte \ {Nul}
    BY DEF Star, Byte, Nul
  <2> QED
    BY <1>1, <2>1, HeaderPlain DEF Plain
<1>4. ASSUME NEW k \in 1 .. n
      PROVE  Plain(bs[k])
  <2>1. r[k] \in Seq(Byte) /\ k \in DOMAIN r
    BY <1>1
  <2>2. Plain(r[k])
    <3>1. \A i \in 1 .. Len(r[k]) : r[k][i] \in Range(r[k])
      BY <2>1 DEF Range
    <3> QED
      BY <2>1, <3>1 DEF Plain
  <2> QED
    BY <1>2, <2>1, <2>2, BulkPlain
<1> HIDE DEF bs, n, h1
<1>5. PICK g \in [1 .. n -> Seq(Byte)] : Flattened(bs, g) /\ f = g[n]
  BY <1>2, FlattenIs
<1> HIDE DEF f
<1> DEFINE A == {m \in Nat : m + 1 <= n => Plain(g[m + 1])}
<1>6. 0 \in A
  <2>1. 1 \in 1 .. n /\ 0 + 1 = 1
    BY <1>1
  <2>2. g[1] = bs[1]
    BY <1>2, <1>5, <2>1 DEF Flattened
  <2>3. Plain(g[0 + 1])
    BY <1>4, <2>1, <2>2
  <2> QED
    BY <2>3
<1>7. ASSUME NEW m \in Nat, m \in A
      PROVE  m + 1 \in A
  <2>1. CASE (m + 1) + 1 <= n
    <3> DEFINE k == (m + 1) + 1
    <3>1. k \in 1 .. n /\ k - 1 = m + 1 /\ k # 1 /\ m + 1 \in 1 .. n /\ m + 1 <= n
      BY <1>1, <2>1
    <3> HIDE DEF k
    <3>2. g[k] = g[k - 1] \o bs[k]
      BY <1>2, <1>5, <3>1, Zenon DEF Flattened
    <3>3. g[m + 1] \in Seq(Byte) /\ bs[k] \in Seq(Byte)
      BY <1>2, <1>5, <3>1
    <3>4. Plain(g[m + 1]) /\ Plain(bs[k])
      BY <1>4, <1>7, <3>1
    <3>5. Plain(g[m + 1] \o bs[k])
      BY <3>3, <3>4, ConcatPlain
    <3>6. Plain(g[k])
      BY <3>1, <3>2, <3>5, Zenon
    <3> QED
      BY <3>6 DEF k
  <2> QED
    BY <2>1
<1> HIDE DEF A
<1>8. n - 1 \in A
  <2>1. n - 1 \in Nat
    BY <1>1
  <2>2. Nat \subseteq A
    BY <1>6, <1>7, NatSetInduction
  <2> QED
    BY <2>1, <2>2
<1>9. (n - 1) + 1 = n
  BY <1>1
<1>10. Plain(f)
  BY <1>1, <1>5, <1>8, <1>9 DEF A
<1> QED
  BY <1>1, <1>3, <1>10, ConcatPlain

\* NeverOther: a request of UTF-8 texts without NUL that is in the buffer whole
\* is counted as something, if not by the scan then by the decoder.
THEOREM Recognised == Spec => []NeverOther
<1>1. ASSUME IInv
      PROVE  NeverOther
  <2> SUFFICES ASSUME request # <<>>,
                      \A k \in DOMAIN request :
                         Nul \notin Range(request[k]) /\ IsUtf8(request[k]),
                      Len(Encode(request)) <= got, got <= Width
               PROVE  IsRecognised(buf)
    BY DEF NeverOther
  <2> DEFINE r == request
             e == Encode(r)
             d == Text(buf)
  <2>1. /\ r \in Requests /\ buf \in [1 .. Width -> Byte]
        /\ \A i \in 1 .. Width : i <= got => buf[i] = e[i]
        /\ got \in Nat /\ Width \in Nat /\ Width < UsizeMod /\ UsizeMod \in Nat
    BY <1>1, RespConstants DEF IInv, HeadInv, TypeOK
  <2>2. e \in Seq(Byte) /\ Len(e) \in Nat /\ Len(e) <= got /\ Len(e) <= Width
    BY <2>1, EncodeTyped
  <2>3. Plain(e)
    BY <2>1, EncodePlain
  <2> HIDE DEF e
  <2>4. \A i \in 1 .. Len(e) : buf[i] = e[i] /\ buf[i] # Nul
    <3>1. \A i \in 1 .. Len(e) : i \in 1 .. Width /\ i <= got
      BY <2>1, <2>2
    <3> QED
      BY <2>1, <2>3, <3>1 DEF Plain
  <2>5. /\ d \in Seq(Byte) /\ Len(d) \in Len(e) .. Width
        /\ \A i \in 1 .. Len(d) : d[i] = buf[i]
    <3>1. Len(e) \in 0 .. Width
      BY <2>1, <2>2
    <3> QED
      BY <2>1, <2>4, <3>1, TextRight
  <2> HIDE DEF d
  <2>6. At(d, 1, e)
    <3>1. \A i \in 1 .. Len(e) : i \in 1 .. Len(d) /\ 1 + i - 1 = i
      BY <2>2, <2>5
    <3>2. 1 + Len(e) <= Len(d) + 1
      BY <2>2, <2>5
    <3> QED
      BY <2>4, <2>5, <3>1, <3>2 DEF At
  <2>7. Decodes(d)
    <3>1. Len(d) < UsizeMod
      BY <2>1, <2>2, <2>5
    <3> QED
      BY <2>1, <2>5, <2>6, <3>1, DecodesRight DEF e
  <2>8. Len(d) >= 4
    <3>1. /\ Header(Star, Len(r)) \in Seq(Byte) /\ Len(r) \in Nat
          /\ Len(Header(Star, Len(r))) = Len(Decimal(Len(r))) + 3
          /\ Len(Decimal(Len(r))) \in Nat \ {0}
      BY <2>1, EncodeTyped, BytesTyped, HeaderIs
    <3>2. At(e, 1, Header(Star, Len(r)))
      BY <2>1, EncodeHead DEF e
    <3> QED
      BY <2>2, <2>5, <3>1, <3>2 DEF At
  <2> QED
    BY <2>7, <2>8 DEF IsRecognised, d
<1> QED
  BY <1>1, Inductive, PTL
=============================================================================
