----------------------------- MODULE FoldLemmas -----------------------------
(***************************************************************************)
(* Folds over a sequence, from left to right: what the fold of the         *)
(* community modules computes for every sequence.                          *)
(*                                                                         *)
(* SetInduction is induction over the natural numbers, stated for a set    *)
(* of numbers and not for a predicate, and proved by counting: a set with  *)
(* a first gap could be mapped one to one into itself without 0.           *)
(***************************************************************************)
EXTENDS Integers, FiniteSetsExt, FiniteSetTheorems, TLAPS

LEMMA SetInduction ==
  ASSUME NEW S \in SUBSET Nat, 0 \in S, \A n \in S : n + 1 \in S
  PROVE  S = Nat
<1> SUFFICES ASSUME NEW m \in Nat, m \notin S
             PROVE  FALSE
  OBVIOUS
<1> DEFINE A == S \cap (0 .. m)
           f == [x \in A |-> x + 1]
<1>1. IsFiniteSet(A) /\ IsFiniteSet(A \ {0}) /\ 0 \in A
  <2>1. IsFiniteSet(0 .. m)
    BY FS_Interval
  <2>2. A \subseteq 0 .. m /\ A \ {0} \subseteq 0 .. m /\ 0 \in A
    OBVIOUS
  <2> HIDE DEF A
  <2>3. QED
    BY <2>1, <2>2, FS_Subset
<1>2. f \in [A -> A \ {0}]
  OBVIOUS
<1>3. \A x, y \in A : f[x] = f[y] => x = y
  OBVIOUS
<1>4. f \in Injection(A, A \ {0})
  BY <1>2, <1>3 DEF Injection, IsInjective
<1>5. Cardinality(A) <= Cardinality(A \ {0})
  BY <1>1, <1>4, FS_Injection
<1>6. Cardinality(A \ {0}) = Cardinality(A) - 1 /\ Cardinality(A) \in Nat
  BY <1>1, FS_RemoveElement, FS_CardinalityType
<1>7. QED
  BY <1>5, <1>6

LEMMA MaxOfInterval ==
  \A n \in Nat : \A s \in SUBSET (1 .. n) :
    s # {} => Max(s) \in s /\ \A x \in s : x <= Max(s)
<1> DEFINE Good(n) == \A s \in SUBSET (1 .. n) : s # {} => \E m \in s : \A x \in s : m >= x
           S == {n \in Nat : Good(n)}
<1>1. 0 \in S
  <2>1. \A s \in SUBSET (1 .. 0) : s = {}
    OBVIOUS
  <2>2. Good(0)
    BY <2>1
  <2> HIDE DEF Good
  <2>3. QED
    BY <2>2
<1>2. ASSUME NEW n \in S
      PROVE  n + 1 \in S
  <2>1. n \in Nat /\ Good(n)
    OBVIOUS
  <2>2. ASSUME NEW s \in SUBSET (1 .. n + 1), s # {}
        PROVE  \E m \in s : \A x \in s : m >= x
    <3>1. CASE n + 1 \in s
      BY <2>1, <2>2, <3>1
    <3>2. CASE n + 1 \notin s
      <4>1. s \in SUBSET (1 .. n)
        BY <2>1, <3>2
      <4>2. QED
        BY <2>1, <2>2, <4>1
    <3>3. QED
      BY <3>1, <3>2
  <2>3. Good(n + 1)
    BY <2>2
  <2> HIDE DEF Good
  <2>4. QED
    BY <2>1, <2>3
<1>3. S = Nat
  <2> HIDE DEF Good
  <2>1. S \in SUBSET Nat
    OBVIOUS
  <2> HIDE DEF S
  <2>2. QED
    BY <1>1, <1>2, <2>1, SetInduction
<1>4. ASSUME NEW n \in Nat, NEW s \in SUBSET (1 .. n), s # {}
      PROVE  Max(s) \in s /\ \A x \in s : x <= Max(s)
  <2>1. n \in S
    BY <1>3
  <2>2. \E m \in s : \A x \in s : m >= x
    BY <1>4, <2>1
  <2>3. Max(s) \in s /\ \A x \in s : Max(s) >= x
    BY <2>2 DEF Max
  <2>4. QED
    BY <2>3
<1>5. QED
  BY <1>4

\* g is a fold over the sets of indices up to n.
FoldsUpTo(g, n, base, step) ==
  \A s \in SUBSET (1 .. n) :
    g[s] = IF s = {} THEN base ELSE step[<<Max(s), g[s \ {Max(s)}]>>]

LEMMA FoldExists ==
  ASSUME NEW V, NEW base \in V, NEW n \in Nat, NEW step \in [(1 .. n) \X V -> V]
  PROVE  \E g \in [SUBSET (1 .. n) -> V] : FoldsUpTo(g, n, base, step)
<1> DEFINE Good(k) == \A st \in [(1 .. k) \X V -> V] :
                        \E g \in [SUBSET (1 .. k) -> V] : FoldsUpTo(g, k, base, st)
           S == {k \in Nat : Good(k)}
<1>1. 0 \in S
  <2>1. ASSUME NEW st \in [(1 .. 0) \X V -> V]
        PROVE  \E g \in [SUBSET (1 .. 0) -> V] : FoldsUpTo(g, 0, base, st)
    <3>1. \A s \in SUBSET (1 .. 0) : s = {}
      OBVIOUS
    <3>2. [s \in SUBSET (1 .. 0) |-> base] \in [SUBSET (1 .. 0) -> V]
      OBVIOUS
    <3>3. FoldsUpTo([s \in SUBSET (1 .. 0) |-> base], 0, base, st)
      BY <3>1 DEF FoldsUpTo
    <3>4. QED
      BY <3>2, <3>3
  <2>2. QED
    BY <2>1
<1>2. ASSUME NEW k \in S
      PROVE  k + 1 \in S
  <2>1. k \in Nat /\ Good(k)
    OBVIOUS
  <2>2. ASSUME NEW st \in [(1 .. k + 1) \X V -> V]
        PROVE  \E h \in [SUBSET (1 .. k + 1) -> V] : FoldsUpTo(h, k + 1, base, st)
    <3> DEFINE st0 == [x \in (1 .. k) \X V |-> st[x]]
    <3>1. (1 .. k) \subseteq (1 .. k + 1) /\ k + 1 \in 1 .. k + 1
      BY <2>1
    <3>2. st0 \in [(1 .. k) \X V -> V]
      BY <3>1
    <3>3. PICK g \in [SUBSET (1 .. k) -> V] : FoldsUpTo(g, k, base, st0)
      BY <2>1, <3>2
    <3> DEFINE h == [s \in SUBSET (1 .. k + 1) |->
                       IF k + 1 \in s THEN st[<<k + 1, g[s \ {k + 1}]>>] ELSE g[s]]
    <3>4. \A s \in SUBSET (1 .. k + 1) : s \ {k + 1} \in SUBSET (1 .. k)
      BY <2>1
    <3>5. \A s \in SUBSET (1 .. k + 1) : k + 1 \notin s => s \in SUBSET (1 .. k)
      BY <3>4
    <3>6. h \in [SUBSET (1 .. k + 1) -> V]
      BY <3>1, <3>4, <3>5
    <3>7. ASSUME NEW s \in SUBSET (1 .. k + 1)
          PROVE  h[s] = IF s = {} THEN base ELSE st[<<Max(s), h[s \ {Max(s)}]>>]
      <4>1. CASE s = {}
        BY <3>3, <3>5, <4>1 DEF FoldsUpTo
      <4>2. CASE k + 1 \in s
        <5>0. k + 1 \in Nat /\ s # {}
          BY <2>1, <4>2
        <5> HIDE DEF S, Good
        <5>1. Max(s) \in s /\ \A x \in s : x <= Max(s)
          BY <5>0, MaxOfInterval
        <5>2. Max(s) = k + 1
          <6>1. Max(s) \in 1 .. k + 1 /\ k + 1 <= Max(s)
            BY <4>2, <5>1
          <6>2. QED
            BY <2>1, <6>1
        <5>3. h[s \ {k + 1}] = g[s \ {k + 1}]
          OBVIOUS
        <5>4. h[s] = st[<<k + 1, g[s \ {k + 1}]>>]
          BY <4>2
        <5> HIDE DEF h
        <5>5. QED
          BY <4>2, <5>2, <5>3, <5>4
      <4>3. CASE s # {} /\ k + 1 \notin s
        <5>1. s \in SUBSET (1 .. k)
          BY <3>5, <4>3
        <5>2. Max(s) \in s /\ Max(s) \in 1 .. k
          BY <2>1, <4>3, <5>1, MaxOfInterval
        <5>3. g[s] = st0[<<Max(s), g[s \ {Max(s)}]>>]
          BY <3>3, <4>3, <5>1 DEF FoldsUpTo
        <5>4. s \ {Max(s)} \in SUBSET (1 .. k)
          BY <5>1
        <5>5. g[s \ {Max(s)}] \in V
          BY <5>4
        <5>6. h[s] = g[s]
          BY <4>3
        <5>7. h[s \ {Max(s)}] = g[s \ {Max(s)}]
          BY <4>3
        <5>8. st0[<<Max(s), g[s \ {Max(s)}]>>] = st[<<Max(s), g[s \ {Max(s)}]>>]
          BY <5>2, <5>5
        <5> HIDE DEF h, st0
        <5>9. QED
          BY <4>3, <5>3, <5>6, <5>7, <5>8
      <4>4. QED
        BY <4>1, <4>2, <4>3
    <3> HIDE DEF h
    <3>8. FoldsUpTo(h, k + 1, base, st)
      BY <3>7 DEF FoldsUpTo
    <3>9. QED
      BY <3>6, <3>8
  <2>3. Good(k + 1)
    BY <2>2
  <2> HIDE DEF Good
  <2>4. QED
    BY <2>1, <2>3
<1>3. S = Nat
  <2> HIDE DEF Good
  <2>1. S \in SUBSET Nat
    OBVIOUS
  <2> HIDE DEF S
  <2>2. QED
    BY <1>1, <1>2, <2>1, SetInduction
<1>4. Good(n)
  <2> HIDE DEF Good
  <2>1. n \in S
    BY <1>3
  <2>2. QED
    BY <2>1
<1>5. QED
  BY <1>4

\* Induction over the sets of indices, from each to the set without its last.
LEMMA IndexInduction ==
  ASSUME NEW n \in Nat, NEW A \in SUBSET (SUBSET (1 .. n)), {} \in A,
         \A s \in SUBSET (1 .. n) : s # {} /\ s \ {Max(s)} \in A => s \in A
  PROVE  A = SUBSET (1 .. n)
<1> DEFINE Good(k) == \A s \in SUBSET (1 .. n) : s \subseteq 1 .. k => s \in A
           S == {k \in Nat : Good(k)}
<1>1. 0 \in S
  <2>1. \A s : s \subseteq 1 .. 0 => s = {}
    OBVIOUS
  <2>2. Good(0)
    BY <2>1
  <2> HIDE DEF Good
  <2>3. QED
    BY <2>2
<1>2. ASSUME NEW k \in S
      PROVE  k + 1 \in S
  <2>1. k \in Nat /\ Good(k)
    OBVIOUS
  <2> HIDE DEF S
  <2>2. ASSUME NEW s \in SUBSET (1 .. n), s \subseteq 1 .. k + 1, s # {}
        PROVE  s \in A
    <3>1. Max(s) \in s /\ \A x \in s : x <= Max(s)
      BY <2>2, MaxOfInterval
    <3>2. \A m, x \in 1 .. k + 1 : x <= m /\ x # m => x \in 1 .. k
      BY <2>1
    <3>3. s \ {Max(s)} \subseteq 1 .. k
      <4> SUFFICES ASSUME NEW x \in s, x # Max(s)
                   PROVE  x \in 1 .. k
        OBVIOUS
      <4>1. x \in 1 .. k + 1 /\ Max(s) \in 1 .. k + 1 /\ x <= Max(s)
        BY <2>2, <3>1
      <4>2. QED
        BY <3>2, <4>1
    <3>4. s \ {Max(s)} \in SUBSET (1 .. n)
      OBVIOUS
    <3>5. s \ {Max(s)} \in A
      BY <2>1, <3>3, <3>4
    <3>6. QED
      BY <2>2, <3>5
  <2>3. Good(k + 1)
    BY <2>2
  <2> HIDE DEF Good
  <2>4. QED
    BY <2>1, <2>3 DEF S
<1>3. S = Nat
  <2> HIDE DEF Good
  <2>1. S \in SUBSET Nat
    OBVIOUS
  <2> HIDE DEF S
  <2>2. QED
    BY <1>1, <1>2, <2>1, SetInduction
<1>4. Good(n)
  <2> HIDE DEF Good
  <2>1. n \in S
    BY <1>3
  <2>2. QED
    BY <2>1
<1>5. QED
  BY <1>4

\* The value of the fold of n elements from base, where step[<<i, v>>] is what
\* element i makes of v.
FoldFunctionUpTo(V, base, n, step) ==
  CHOOSE g \in [SUBSET (1 .. n) -> V] : FoldsUpTo(g, n, base, step)
FoldValue(V, base, n, step) == FoldFunctionUpTo(V, base, n, step)[1 .. n]

LEMMA FoldFunctionFolds ==
  ASSUME NEW V, NEW base \in V, NEW n \in Nat, NEW step \in [(1 .. n) \X V -> V]
  PROVE  /\ FoldFunctionUpTo(V, base, n, step) \in [SUBSET (1 .. n) -> V]
         /\ FoldsUpTo(FoldFunctionUpTo(V, base, n, step), n, base, step)
BY FoldExists DEF FoldFunctionUpTo

LEMMA FoldNothing ==
  ASSUME NEW V, NEW base \in V, NEW step \in [(1 .. 0) \X V -> V]
  PROVE  FoldValue(V, base, 0, step) = base
<1>1. 1 .. 0 = {}
  OBVIOUS
<1>2. FoldsUpTo(FoldFunctionUpTo(V, base, 0, step), 0, base, step)
  BY FoldFunctionFolds
<1>3. QED
  BY <1>1, <1>2 DEF FoldsUpTo, FoldValue

LEMMA FoldType ==
  ASSUME NEW V, NEW base \in V, NEW n \in Nat, NEW step \in [(1 .. n) \X V -> V]
  PROVE  FoldValue(V, base, n, step) \in V
<1>1. FoldFunctionUpTo(V, base, n, step) \in [SUBSET (1 .. n) -> V]
  BY FoldFunctionFolds
<1>2. 1 .. n \in SUBSET (1 .. n)
  OBVIOUS
<1>3. QED
  BY <1>1, <1>2 DEF FoldValue

\* The last element acts on the fold of those before it.
LEMMA FoldLast ==
  ASSUME NEW V, NEW base \in V, NEW n \in Nat, NEW step \in [(1 .. n) \X V -> V],
         NEW longer \in [(1 .. n + 1) \X V -> V],
         \A i \in 1 .. n, v \in V : longer[<<i, v>>] = step[<<i, v>>]
  PROVE  FoldValue(V, base, n + 1, longer) = longer[<<n + 1, FoldValue(V, base, n, step)>>]
<1> DEFINE g == FoldFunctionUpTo(V, base, n, step)
           h == FoldFunctionUpTo(V, base, n + 1, longer)
<1>0. n + 1 \in Nat /\ 1 .. n \subseteq 1 .. n + 1 /\ (1 .. n + 1) \ {n + 1} = 1 .. n
  OBVIOUS
<1>1. g \in [SUBSET (1 .. n) -> V] /\ FoldsUpTo(g, n, base, step)
  BY FoldFunctionFolds
<1>2. h \in [SUBSET (1 .. n + 1) -> V] /\ FoldsUpTo(h, n + 1, base, longer)
  BY <1>0, FoldFunctionFolds
<1> HIDE DEF g, h
<1>3. \A s \in SUBSET (1 .. n) : g[s] = h[s]
  <2>1. g[{}] = base /\ h[{}] = base
    BY <1>1, <1>2 DEF FoldsUpTo
  <2>2. ASSUME NEW s \in SUBSET (1 .. n), s # {}, g[s \ {Max(s)}] = h[s \ {Max(s)}]
        PROVE  g[s] = h[s]
    <3>1. Max(s) \in 1 .. n
      BY <2>2, MaxOfInterval
    <3>2. g[s \ {Max(s)}] \in V
      BY <1>1
    <3>3. s \in SUBSET (1 .. n + 1)
      BY <1>0
    <3>4. g[s] = step[<<Max(s), g[s \ {Max(s)}]>>]
      BY <1>1, <2>2 DEF FoldsUpTo
    <3>5. h[s] = longer[<<Max(s), h[s \ {Max(s)}]>>]
      BY <1>2, <2>2, <3>3 DEF FoldsUpTo
    <3>6. QED
      BY <2>2, <3>1, <3>2, <3>4, <3>5
  <2> DEFINE A == {s \in SUBSET (1 .. n) : g[s] = h[s]}
  <2>3. {} \in A /\ A \in SUBSET (SUBSET (1 .. n))
    BY <2>1
  <2>4. \A s \in SUBSET (1 .. n) : s # {} /\ s \ {Max(s)} \in A => s \in A
    BY <2>2
  <2> HIDE DEF A
  <2>5. A = SUBSET (1 .. n)
    BY <2>3, <2>4, IndexInduction
  <2>6. QED
    BY <2>5 DEF A
<1>4. Max(1 .. n + 1) = n + 1
  <2>1. 1 .. n + 1 # {} /\ n + 1 \in 1 .. n + 1
    BY <1>0
  <2>2. Max(1 .. n + 1) \in 1 .. n + 1 /\ n + 1 <= Max(1 .. n + 1)
    BY <1>0, <2>1, MaxOfInterval
  <2>3. QED
    BY <2>2
<1>5. h[1 .. n + 1] = longer[<<n + 1, h[1 .. n]>>]
  <2>1. 1 .. n + 1 \in SUBSET (1 .. n + 1) /\ 1 .. n + 1 # {}
    BY <1>0
  <2>2. QED
    BY <1>0, <1>2, <1>4, <2>1 DEF FoldsUpTo
<1>6. QED
  BY <1>3, <1>5 DEF FoldValue, g, h
=============================================================================
