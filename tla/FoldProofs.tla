----------------------------- MODULE FoldProofs -----------------------------
(***************************************************************************)
(* Facts about recursive definitions that proofs about the modules cite.   *)
(* Induction is over a set of numbers, which the provers can instantiate.  *)
(***************************************************************************)
EXTENDS Integers, Sequences, FiniteSetsExt, FiniteSetTheorems,
        WellFoundedInduction, TLAPS

\* A set of numbers that holds 0, and with n also n + 1, holds all of them.
LEMMA NatSetInduction ==
    ASSUME NEW A, 0 \in A, \A n \in Nat : n \in A => n + 1 \in A
    PROVE  Nat \subseteq A
<1> DEFINE T == Nat \ A
<1> SUFFICES ASSUME T # {}
             PROVE  FALSE
  OBVIOUS
<1>1. PICK m \in T : \A u \in T : <<u, m>> \notin OpToRel(<, Nat)
  BY NatLessThanWellFounded, WFMin
<1>2. m \in Nat /\ m # 0 /\ m - 1 \in Nat
  OBVIOUS
<1>3. m - 1 \notin T
  <2>1. <<m - 1, m>> \in OpToRel(<, Nat)
    BY <1>2 DEF OpToRel
  <2> QED
    BY <1>1, <2>1
<1> QED
  BY <1>2, <1>3

-----------------------------------------------------------------------------
(* SumFunction                                                               *)

Chosen(s) == CHOOSE x \in s : TRUE

\* One step of the sum over a set of indices.
SumStep(f, g, s) == IF s = {} THEN 0 ELSE f[Chosen(s)] + g[s \ {Chosen(s)}]

LEMMA ChosenRest ==
    ASSUME NEW s, s # {}, IsFiniteSet(s)
    PROVE  /\ Chosen(s) \in s
           /\ IsFiniteSet(s \ {Chosen(s)})
           /\ Cardinality(s) \in Nat \ {0}
           /\ Cardinality(s \ {Chosen(s)}) = Cardinality(s) - 1
<1>1. Chosen(s) \in s
  BY DEF Chosen
<1> QED
  BY <1>1, FS_RemoveElement, FS_CardinalityType, FS_EmptySet

LEMMA SumRecursion ==
    ASSUME NEW f, IsFiniteSet(DOMAIN f)
    PROVE  \E g : g = [s \in SUBSET DOMAIN f |-> SumStep(f, g, s)]
<1> DEFINE D == DOMAIN f
           Good(g, n) == \A s \in SUBSET D :
                            Cardinality(s) <= n => g[s] = SumStep(f, g, s)
           A == {n \in Nat : \E g : g = [s \in SUBSET D |-> g[s]] /\ Good(g, n)}
<1>0. \A s \in SUBSET D : IsFiniteSet(s) /\ Cardinality(s) \in Nat
  BY FS_Subset, FS_CardinalityType
<1>1. 0 \in A
  <2> DEFINE g == [s \in SUBSET D |-> 0]
  <2>1. Good(g, 0)
    <3>1. ASSUME NEW s \in SUBSET D, Cardinality(s) <= 0
          PROVE  s = {}
      BY <1>0, <3>1, FS_EmptySet
    <3> QED
      BY <3>1 DEF SumStep
  <2>2. g = [s \in SUBSET D |-> g[s]]
    OBVIOUS
  <2> QED
    BY <2>1, <2>2
<1>2. ASSUME NEW n \in Nat, n \in A
      PROVE  n + 1 \in A
  <2>1. PICK g : g = [s \in SUBSET D |-> g[s]] /\ Good(g, n)
    BY <1>2
  <2> DEFINE h == [s \in SUBSET D |-> SumStep(f, g, s)]
  <2>2. ASSUME NEW s \in SUBSET D, Cardinality(s) <= n
        PROVE  h[s] = g[s]
    BY <2>1, <2>2
  <2>3. Good(h, n + 1)
    <3>1. ASSUME NEW s \in SUBSET D, Cardinality(s) <= n + 1
          PROVE  h[s] = SumStep(f, h, s)
      <4>1. CASE s = {}
        BY <4>1 DEF SumStep
      <4>2. CASE s # {}
        <5>1. Cardinality(s \ {Chosen(s)}) <= n
          BY <1>0, <3>1, <4>2, ChosenRest
        <5>2. s \ {Chosen(s)} \in SUBSET D
          OBVIOUS
        <5>3. h[s \ {Chosen(s)}] = g[s \ {Chosen(s)}]
          BY <2>2, <5>1, <5>2
        <5> QED
          BY <4>2, <5>3 DEF SumStep
      <4> QED
        BY <4>1, <4>2
    <3> QED
      BY <3>1
  <2>4. h = [s \in SUBSET D |-> h[s]]
    OBVIOUS
  <2> HIDE DEF h, Good
  <2> QED
    BY <2>3, <2>4
<1>3. Cardinality(D) \in A
  <2> HIDE DEF A
  <2> QED
    BY <1>0, <1>1, <1>2, NatSetInduction
<1>4. PICK g : g = [s \in SUBSET D |-> g[s]] /\ Good(g, Cardinality(D))
  BY <1>3
<1>5. \A s \in SUBSET D : g[s] = SumStep(f, g, s)
  BY <1>4, FS_Subset
<1>6. g = [s \in SUBSET D |-> SumStep(f, g, s)]
  BY <1>4, <1>5
<1> QED
  BY <1>6

\* SumFunction is the recursion carried out.
LEMMA SumIsRecursive ==
    ASSUME NEW f, IsFiniteSet(DOMAIN f)
    PROVE  \E g : /\ g = [s \in SUBSET DOMAIN f |-> SumStep(f, g, s)]
                  /\ SumFunction(f) = g[DOMAIN f]
<1>1. \E g : g = [s \in SUBSET DOMAIN f |-> SumStep(f, g, s)]
  BY SumRecursion
<1> QED
  BY <1>1 DEF SumFunction, SumFunctionOnSet, FoldFunctionOnSet, MapThenFoldSet,
              SumStep, Chosen

\* How the partial sums of two functions differ that differ at one index.
LEMMA SumUpdate ==
    ASSUME NEW D, IsFiniteSet(D), NEW f \in [D -> Nat], NEW x \in D,
           NEW v \in Nat
    PROVE  /\ SumFunction(f) \in Nat
           /\ SumFunction([f EXCEPT ![x] = v]) = SumFunction(f) - f[x] + v
<1> DEFINE h == [f EXCEPT ![x] = v]
<1>1. PICK F : /\ F = [s \in SUBSET D |-> SumStep(f, F, s)]
               /\ SumFunction(f) = F[D]
  BY SumIsRecursive
<1>2. PICK H : /\ H = [s \in SUBSET D |-> SumStep(h, H, s)]
               /\ SumFunction(h) = H[D]
  BY SumIsRecursive
<1> DEFINE Differ(s) == /\ F[s] \in Nat
                        /\ H[s] = IF x \in s THEN F[s] - f[x] + v ELSE F[s]
           A == {n \in Nat : \A s \in SUBSET D : Cardinality(s) = n => Differ(s)}
<1>3. \A s \in SUBSET D : IsFiniteSet(s) /\ Cardinality(s) \in Nat
  BY FS_Subset, FS_CardinalityType
<1>4. 0 \in A
  <2>1. ASSUME NEW s \in SUBSET D, Cardinality(s) = 0
        PROVE  Differ(s)
    <3>1. s = {}
      BY <1>3, <2>1, FS_EmptySet
    <3> QED
      BY <1>1, <1>2, <3>1 DEF SumStep
  <2> QED
    BY <2>1
<1>5. ASSUME NEW n \in Nat, n \in A
      PROVE  n + 1 \in A
  <2>1. ASSUME NEW s \in SUBSET D, Cardinality(s) = n + 1
        PROVE  Differ(s)
    <3> DEFINE c == Chosen(s)
               r == s \ {Chosen(s)}
    <3>1. s # {}
      BY <2>1, FS_EmptySet
    <3>2. c \in s /\ Cardinality(r) = n /\ r \in SUBSET D
      BY <1>3, <2>1, <3>1, ChosenRest
    <3>3. Differ(r)
      BY <1>5, <3>2
    <3>4. F[s] = f[c] + F[r] /\ H[s] = h[c] + H[r]
      BY <1>1, <1>2, <3>1 DEF SumStep
    <3>5. f[c] \in Nat /\ f[x] \in Nat
      BY <3>2
    <3>6. CASE c = x
      <4>1. h[c] = v /\ x \notin r /\ x \in s
        BY <3>2, <3>6
      <4> QED
        BY <3>3, <3>4, <3>5, <3>6, <4>1
    <3>7. CASE c # x
      <4>1. h[c] = f[c] /\ (x \in r <=> x \in s)
        BY <3>2, <3>7
      <4> HIDE DEF h, c, r
      <4> QED
        BY <3>3, <3>4, <3>5, <4>1
    <3> QED
      BY <3>6, <3>7
  <2> QED
    BY <2>1
<1>6. Cardinality(D) \in A
  <2> HIDE DEF A
  <2> QED
    BY <1>3, <1>4, <1>5, NatSetInduction
<1>7. Differ(D)
  BY <1>6
<1> QED
  BY <1>1, <1>2, <1>7

LEMMA SumZero ==
    ASSUME NEW D, IsFiniteSet(D), NEW f \in [D -> {0}]
    PROVE  SumFunction(f) = 0
<1>1. PICK F : /\ F = [s \in SUBSET D |-> SumStep(f, F, s)]
               /\ SumFunction(f) = F[D]
  BY SumIsRecursive
<1> DEFINE A == {n \in Nat : \A s \in SUBSET D : Cardinality(s) = n => F[s] = 0}
<1>2. \A s \in SUBSET D : IsFiniteSet(s) /\ Cardinality(s) \in Nat
  BY FS_Subset, FS_CardinalityType
<1>3. 0 \in A
  BY <1>1, <1>2, FS_EmptySet DEF SumStep
<1>4. ASSUME NEW n \in Nat, n \in A
      PROVE  n + 1 \in A
  <2>1. ASSUME NEW s \in SUBSET D, Cardinality(s) = n + 1
        PROVE  F[s] = 0
    <3>1. s # {}
      BY <2>1, FS_EmptySet
    <3>2. /\ Chosen(s) \in s /\ Cardinality(s \ {Chosen(s)}) = n
          /\ s \ {Chosen(s)} \in SUBSET D
      BY <1>2, <2>1, <3>1, ChosenRest
    <3>3. F[s] = f[Chosen(s)] + F[s \ {Chosen(s)}]
      BY <1>1, <3>1 DEF SumStep
    <3>4. f[Chosen(s)] = 0
      BY <3>2
    <3>5. F[s \ {Chosen(s)}] = 0
      BY <1>4, <3>2
    <3> QED
      BY <3>3, <3>4, <3>5
  <2> QED
    BY <2>1
<1>5. Cardinality(D) \in A
  <2> HIDE DEF A
  <2> QED
    BY <1>2, <1>3, <1>4, NatSetInduction
<1> QED
  BY <1>1, <1>5

\* F gives the sum over each set of indices.
PartialSum(f, F) == F = [s \in SUBSET DOMAIN f |-> SumStep(f, F, s)]

LEMMA PartialSums ==
    ASSUME NEW D, IsFiniteSet(D), NEW f \in [D -> Nat],
           NEW F, PartialSum(f, F)
    PROVE  \A s \in SUBSET D : F[s] \in Nat
<1> DEFINE A == {n \in Nat : \A s \in SUBSET D : Cardinality(s) = n => F[s] \in Nat}
<1>1. \A s \in SUBSET D : IsFiniteSet(s) /\ Cardinality(s) \in Nat
  BY FS_Subset, FS_CardinalityType
<1>2. 0 \in A
  BY <1>1, FS_EmptySet DEF SumStep, PartialSum
<1>3. ASSUME NEW n \in Nat, n \in A
      PROVE  n + 1 \in A
  <2>1. ASSUME NEW s \in SUBSET D, Cardinality(s) = n + 1
        PROVE  F[s] \in Nat
    <3>1. s # {}
      BY <2>1, FS_EmptySet
    <3>2. /\ Chosen(s) \in s /\ Cardinality(s \ {Chosen(s)}) = n
          /\ s \ {Chosen(s)} \in SUBSET D
      BY <1>1, <2>1, <3>1, ChosenRest
    <3>3. F[s] = f[Chosen(s)] + F[s \ {Chosen(s)}]
      BY <3>1 DEF SumStep, PartialSum
    <3>4. F[s \ {Chosen(s)}] \in Nat /\ f[Chosen(s)] \in Nat
      BY <1>3, <3>2
    <3> QED
      BY <3>3, <3>4
  <2> QED
    BY <2>1
<1>4. ASSUME NEW s \in SUBSET D
      PROVE  F[s] \in Nat
  <2>1. Cardinality(s) \in A
    <3> HIDE DEF A
    <3> QED
      BY <1>1, <1>2, <1>3, NatSetInduction
  <2> QED
    BY <2>1
<1> QED
  BY <1>4

\* The sum over a set does not depend on which index is taken first.
LEMMA SumAnyFirst ==
    ASSUME NEW D, IsFiniteSet(D), NEW f \in [D -> Nat],
           NEW F, PartialSum(f, F)
    PROVE  \A s \in SUBSET D : \A y \in s : F[s] = f[y] + F[s \ {y}]
<1> DEFINE Free(s) == \A y \in s : F[s] = f[y] + F[s \ {y}]
           A == {n \in Nat : \A s \in SUBSET D : Cardinality(s) = n => Free(s)}
<1>1. \A s \in SUBSET D : IsFiniteSet(s) /\ Cardinality(s) \in Nat
  BY FS_Subset, FS_CardinalityType
<1>2. 0 \in A
  <2>1. ASSUME NEW s \in SUBSET D, Cardinality(s) = 0
        PROVE  s = {}
    BY <1>1, <2>1, FS_EmptySet
  <2> QED
    BY <2>1
<1>3. ASSUME NEW n \in Nat, n \in A
      PROVE  n + 1 \in A
  <2>1. ASSUME NEW s \in SUBSET D, Cardinality(s) = n + 1
        PROVE  Free(s)
    <3> DEFINE c == Chosen(s)
    <3>1. s # {}
      <4> HIDE DEF A, Free
      <4> QED
        BY <2>1, FS_EmptySet
    <3>2. c \in s /\ Cardinality(s \ {c}) = n /\ s \ {c} \in SUBSET D
      BY <1>1, <2>1, <3>1, ChosenRest
    <3>3. F[s] = f[c] + F[s \ {c}]
      BY <3>1 DEF SumStep, PartialSum
    <3>4. Free(s \ {c})
      BY <1>3, <3>2
    <3> HIDE DEF c
    <3>5. ASSUME NEW y \in s, y # c
          PROVE  F[s] = f[y] + F[s \ {y}]
      <4>1. Cardinality(s \ {y}) = n /\ s \ {y} \in SUBSET D
        <5> HIDE DEF A, Free
        <5>1. Cardinality(s \ {y}) = Cardinality(s) - 1
          BY <1>1, FS_RemoveElement
        <5> QED
          BY <2>1, <5>1
      <4>2. Free(s \ {y})
        BY <1>3, <4>1
      <4>3. F[s \ {y}] = f[c] + F[(s \ {y}) \ {c}]
        BY <3>2, <3>5, <4>2
      <4>4. F[s \ {c}] = f[y] + F[(s \ {c}) \ {y}]
        BY <3>4, <3>5
      <4>5. (s \ {y}) \ {c} = (s \ {c}) \ {y}
        OBVIOUS
      <4>6. f[c] \in Nat /\ f[y] \in Nat /\ F[(s \ {c}) \ {y}] \in Nat
        <5>1. (s \ {c}) \ {y} \in SUBSET D
          OBVIOUS
        <5> QED
          BY <3>2, <5>1, PartialSums
      <4> DEFINE z == F[(s \ {c}) \ {y}]
      <4>7. /\ F[s \ {y}] = f[c] + z /\ F[s] = f[c] + (f[y] + z)
            /\ z \in Nat
        BY <3>3, <4>3, <4>4, <4>5, <4>6, Zenon
      <4>8. f[c] + (f[y] + z) = f[y] + (f[c] + z)
        <5> HIDE DEF z
        <5> QED
          BY <4>6, <4>7
      <4> QED
        BY <4>7, <4>8, Zenon
    <3> QED
      BY <3>3, <3>5
  <2> HIDE DEF Free
  <2> QED
    BY <2>1
<1>4. ASSUME NEW s \in SUBSET D
      PROVE  Free(s)
  <2>1. Cardinality(s) \in A
    <3> HIDE DEF A
    <3> QED
      BY <1>1, <1>2, <1>3, NatSetInduction
  <2> QED
    BY <2>1
<1> QED
  BY <1>4

\* A function with one index more adds the value there.
LEMMA SumExtend ==
    ASSUME NEW D, IsFiniteSet(D), NEW f \in [D -> Nat], NEW x, x \notin D,
           NEW v \in Nat, NEW h \in [D \cup {x} -> Nat],
           h[x] = v, \A d \in D : h[d] = f[d]
    PROVE  SumFunction(h) = SumFunction(f) + v
<1> DEFINE E == D \cup {x}
<1>1. PICK F : /\ F = [s \in SUBSET D |-> SumStep(f, F, s)]
               /\ SumFunction(f) = F[D]
  BY SumIsRecursive
<1>2. IsFiniteSet(E)
  BY FS_AddElement
<1>3. PICK H : /\ H = [s \in SUBSET E |-> SumStep(h, H, s)]
               /\ SumFunction(h) = H[E]
  BY <1>2, SumIsRecursive
<1>4. H[E] = v + H[D] /\ H[D] \in Nat
  <2>1. \A s \in SUBSET E : /\ H[s] \in Nat
                            /\ \A y \in s : H[s] = h[y] + H[s \ {y}]
    <3> HIDE DEF E
    <3>1. PartialSum(h, H) /\ h \in [E -> Nat]
      BY <1>3 DEF E, PartialSum
    <3>2. \A s \in SUBSET E : H[s] \in Nat
      BY <1>2, <3>1, PartialSums
    <3>3. \A s \in SUBSET E : \A y \in s : H[s] = h[y] + H[s \ {y}]
      <4> SUFFICES ASSUME NEW s \in SUBSET E, NEW y \in s
                   PROVE  H[s] = h[y] + H[s \ {y}]
        OBVIOUS
      <4> QED
        BY <1>2, <3>1, SumAnyFirst
    <3> QED
      BY <3>2, <3>3
  <2>2. E \ {x} = D /\ x \in E /\ E \in SUBSET E /\ D \in SUBSET E
    OBVIOUS
  <2> HIDE DEF E
  <2> QED
    BY <2>1, <2>2
<1> DEFINE A == {n \in Nat : \A s \in SUBSET D : Cardinality(s) = n => H[s] = F[s]}
<1>5. \A s \in SUBSET D : IsFiniteSet(s) /\ Cardinality(s) \in Nat
  BY FS_Subset, FS_CardinalityType
<1>6. 0 \in A
  <2>1. ASSUME NEW s \in SUBSET D, Cardinality(s) = 0
        PROVE  H[s] = F[s]
    <3>1. s = {}
      BY <1>5, <2>1, FS_EmptySet
    <3> QED
      BY <1>1, <1>3, <3>1 DEF SumStep
  <2> QED
    BY <2>1
<1>7. ASSUME NEW n \in Nat, n \in A
      PROVE  n + 1 \in A
  <2>1. ASSUME NEW s \in SUBSET D, Cardinality(s) = n + 1
        PROVE  H[s] = F[s]
    <3> DEFINE c == Chosen(s)
    <3>1. s # {}
      <4>1. Cardinality({}) = 0
        BY FS_EmptySet
      <4> HIDE DEF A, E
      <4> QED
        BY <2>1, <4>1
    <3>2. c \in s /\ Cardinality(s \ {c}) = n /\ s \ {c} \in SUBSET D
      BY <1>5, <2>1, <3>1, ChosenRest
    <3>3. H[s \ {c}] = F[s \ {c}] /\ h[c] = f[c]
      BY <1>7, <3>2
    <3>4. s \in SUBSET E
      OBVIOUS
    <3> HIDE DEF E
    <3>5. F[s] = f[c] + F[s \ {c}] /\ H[s] = h[c] + H[s \ {c}]
      BY <1>1, <1>3, <3>1, <3>4 DEF SumStep
    <3> QED
      BY <3>3, <3>5
  <2> QED
    BY <2>1
<1>8. H[D] = F[D]
  <2>1. Cardinality(D) \in A
    <3> HIDE DEF A
    <3> QED
      BY <1>5, <1>6, <1>7, NatSetInduction
  <2> QED
    BY <2>1
<1> QED
  BY <1>1, <1>3, <1>4, <1>8
-----------------------------------------------------------------------------
(* Recursion over a prefix of the numbers, and the least of a set            *)

\* n steps on the values of V, given as functions.
Steps(V, n) == [1 .. n -> [V -> V]]

\* What they make of a value, one after the other.
Iterates(V, n, step, base, v) ==
    /\ v \in [0 .. n -> V]
    /\ v[0] = base
    /\ \A k \in 1 .. n : v[k] = step[k][v[k - 1]]

\* Steps can be taken one after the other.
LEMMA Recursion ==
    ASSUME NEW V, NEW base \in V, NEW n \in Nat, NEW step \in Steps(V, n)
    PROVE  \E v : Iterates(V, n, step, base, v)
<1> USE DEF Steps
<1> DEFINE Upto(v, m) == /\ v[0] = base
                         /\ \A k \in 1 .. n : k <= m => v[k] = step[k][v[k - 1]]
           A == {m \in Nat : \E v \in [0 .. n -> V] : Upto(v, m)}
<1>1. 0 \in A
  <2> DEFINE v == [k \in 0 .. n |-> base]
  <2>1. v \in [0 .. n -> V] /\ Upto(v, 0)
    OBVIOUS
  <2> QED
    BY <2>1
<1>2. ASSUME NEW m \in Nat, m \in A
      PROVE  m + 1 \in A
  <2>1. PICK v \in [0 .. n -> V] : Upto(v, m)
    BY <1>2
  <2>2. CASE m + 1 \notin 1 .. n
    BY <2>1, <2>2
  <2>3. CASE m + 1 \in 1 .. n
    <3> DEFINE w == [v EXCEPT ![m + 1] = step[m + 1][v[m]]]
    <3>1. m \in 0 .. n /\ v[m] \in V
      BY <2>3
    <3>2. step[m + 1][v[m]] \in V
      BY <2>3, <3>1
    <3>3. w \in [0 .. n -> V]
      BY <3>2
    <3>4. \A k \in 0 .. n : w[k] = IF k = m + 1 THEN step[m + 1][v[m]] ELSE v[k]
      OBVIOUS
    <3> HIDE DEF w
    <3>5. w[0] = base
      BY <2>1, <3>4
    <3>6. ASSUME NEW k \in 1 .. n, k <= m + 1
          PROVE  w[k] = step[k][w[k - 1]]
      <4>1. w[k - 1] = v[k - 1]
        BY <3>4, <3>6
      <4>2. CASE k = m + 1
        <5>1. w[k] = step[k][v[m]] /\ k - 1 = m
          BY <3>4, <4>2
        <5> QED
          BY <4>1, <5>1
      <4>3. CASE k <= m
        BY <2>1, <3>4, <4>1, <4>3
      <4> QED
        BY <3>6, <4>2, <4>3
    <3> QED
      BY <3>3, <3>5, <3>6
  <2> QED
    BY <2>2, <2>3
<1> HIDE DEF A
<1>3. n \in A
  BY <1>1, <1>2, NatSetInduction
<1> QED
  BY <1>3 DEF A, Iterates

LEMMA MinOfTwo ==
    ASSUME NEW a \in Int, NEW b \in Int
    PROVE  Min({a, b}) = IF a <= b THEN a ELSE b
BY DEF Min

LEMMA MinLeast ==
    ASSUME NEW S \in SUBSET Nat, S # {}
    PROVE  Min(S) \in S /\ \A x \in S : Min(S) <= x
<1>1. PICK m \in S : \A u \in S : <<u, m>> \notin OpToRel(<, Nat)
  BY NatLessThanWellFounded, WFMin
<1>2. ASSUME NEW u \in S
      PROVE  m <= u
  <2>1. <<u, m>> \notin OpToRel(<, Nat) /\ u \in Nat /\ m \in Nat
    BY <1>1, <1>2
  <2>2. ~(u < m)
    BY <2>1 DEF OpToRel
  <2>3. \A x, y \in Nat : ~(x < y) => y <= x
    OBVIOUS
  <2> QED
    BY <2>1, <2>2, <2>3
<1> QED
  BY <1>2 DEF Min

\* An element below which there is none is the least.
LEMMA MinIs ==
    ASSUME NEW S \in SUBSET Nat, NEW m \in S, \A x \in S : m <= x
    PROVE  Min(S) = m
<1>1. Min(S) \in S /\ Min(S) <= m
  BY MinLeast
<1>2. m <= Min(S) /\ Min(S) \in Nat /\ m \in Nat
  BY <1>1
<1> QED
  BY <1>1, <1>2
=============================================================================
