------------------------------ MODULE Numbers ------------------------------
(* The least element of a set of numbers, which the proofs about queues    *)
(* and about recursive definitions go by, and what a sum over a finite set *)
(* is: the library computes it by recursion, taking one element at a time. *)
EXTENDS Naturals, FiniteSetTheorems, WellFoundedInduction, TLAPS

\* A set of numbers has a least one: the library states it for predicates only.
LEMMA LeastNat ==
  ASSUME NEW S, S \subseteq Nat, S # {}
  PROVE  \E n \in S : \A m \in S : n <= m
  <1>. DEFINE T == {0..n : n \in S}
              R == StrictSubsetOrdering(Nat)
              F == FiniteSubsetsOf(Nat)
  <1>1. IsWellFoundedOn(R, F)
    BY FS_StrictSubsetOrderingWellFounded
  <1>2. ASSUME NEW t \in T PROVE t \in F
    <2>1. PICK n \in S : t = 0..n
      OBVIOUS
    <2>2. IsFiniteSet(0..n) /\ 0..n \subseteq Nat
      BY FS_Interval
    <2>. QED BY <2>1, <2>2 DEF FiniteSubsetsOf
  <1>3. \A a, b \in SUBSET Nat : a \subseteq b /\ a # b => <<a, b>> \in R
    BY DEF StrictSubsetOrdering
  <1>4. T # {} /\ T \subseteq F
    BY <1>2
  <1>5. \E t \in T : \A u \in T : ~(<<u, t>> \in R)
    <2>. HIDE DEF R, T, F
    <2>. QED BY <1>1, <1>4, WFMin
  <1>6. PICK t \in T : \A u \in T : ~(<<u, t>> \in R)
    BY <1>5
  <1>7. PICK n \in S : t = 0..n
    OBVIOUS
  <1>8. ASSUME NEW m \in S, m < n PROVE FALSE
    <2>1. 0..m \in T /\ n \in Nat /\ m \in Nat
      OBVIOUS
    <2>2. 0..m \subseteq 0..n /\ n \in 0..n /\ n \notin 0..m /\ 0..m \subseteq Nat /\ 0..n \subseteq Nat
      BY <1>8, <2>1
    <2>. HIDE DEF T, R
    <2>3. <<0..m, 0..n>> \in R
      BY <1>3, <2>2
    <2>. QED BY <1>6, <1>7, <2>1, <2>3
  <1>9. n \in Nat /\ \A m \in S : m \in Nat
    OBVIOUS
  <1>. QED BY <1>8, <1>9

\* Induction over the numbers, with a set for the predicate.
LEMMA AllNumbers ==
  ASSUME NEW G, 0 \in G, \A n \in Nat : n \in G => n + 1 \in G
  PROVE  Nat \subseteq G
  <1>. DEFINE S == {n \in Nat : n \notin G}
  <1>1. ASSUME S # {} PROVE FALSE
    <2>1. S \subseteq Nat
      OBVIOUS
    <2>2. PICK n \in S : \A m \in S : n <= m
      <3>. HIDE DEF S
      <3>. QED BY <1>1, <2>1, LeastNat
    <2>3. n \in Nat /\ n \notin G /\ n # 0
      OBVIOUS
    <2>4. n - 1 \in Nat /\ ~(n <= n - 1) /\ (n - 1) + 1 = n
      BY <2>3
    <2>5. n - 1 \in G
      BY <2>2, <2>4
    <2>. QED BY <2>3, <2>4, <2>5
  <1>. QED BY <1>1

\* Induction over the subsets of a finite set, element by element.
LEMMA AllSubsets ==
  ASSUME NEW S, IsFiniteSet(S), NEW G, {} \in G,
         \A T \in SUBSET S, x \in S : T \in G => T \cup {x} \in G
  PROVE  SUBSET S \subseteq G
  <1>. DEFINE N == {n \in Nat : \A T \in SUBSET S : Cardinality(T) = n => T \in G}
  <1>1. \A T \in SUBSET S : IsFiniteSet(T) /\ Cardinality(T) \in Nat
    BY FS_Subset, FS_CardinalityType
  <1>2. 0 \in N
    BY <1>1, FS_EmptySet
  <1>3. ASSUME NEW n \in Nat, n \in N PROVE n + 1 \in N
    <2>1. ASSUME NEW T \in SUBSET S, Cardinality(T) = n + 1 PROVE T \in G
      <3>1. IsFiniteSet(T) /\ Cardinality(T) # 0
        BY <1>1, <2>1
      <3>2. T # {}
        BY <3>1, FS_EmptySet
      <3>3. PICK x \in T : TRUE
        BY <3>2
      <3>4. Cardinality(T \ {x}) = Cardinality(T) - 1
        BY <3>1, FS_RemoveElement
      <3>41. Cardinality(T \ {x}) = n
        BY <2>1, <3>4
      <3>5. T \ {x} \in SUBSET S /\ x \in S /\ (T \ {x}) \cup {x} = T
        OBVIOUS
      <3>6. T \ {x} \in G
        BY <1>3, <3>41, <3>5
      <3>. QED BY <3>5, <3>6
    <2>. QED BY <2>1
  <1>4. Nat \subseteq N
    <2>. HIDE DEF N
    <2>. QED BY <1>2, <1>3, AllNumbers
  <1>. QED BY <1>1, <1>4

\* n steps of F, from a.
Repeated(F, a, n, W) ==
  /\ W \in [0..n -> DOMAIN F]
  /\ W[0] = a
  /\ \A k \in 1..n : W[k] = F[W[k - 1]]

\* A step that stays in its domain can be repeated.
LEMMA Repeats ==
  ASSUME NEW F, NEW a \in DOMAIN F, \A s \in DOMAIN F : F[s] \in DOMAIN F, NEW n \in Nat
  PROVE  \E W : Repeated(F, a, n, W)
  <1>. DEFINE S == DOMAIN F
              Runs(k, W) == W \in [0..k -> S] /\ W[0] = a /\ \A i \in 1..k : W[i] = F[W[i - 1]]
              Bad == {k \in Nat : ~(\E W : Runs(k, W))}
  <1>1. ASSUME Bad # {} PROVE FALSE
    <2>1. PICK k \in Bad : \A i \in Bad : k <= i
      BY <1>1, LeastNat
    <2>2. k # 0
      <3>1. Runs(0, [i \in 0..0 |-> a])
        OBVIOUS
      <3>. QED BY <3>1
    <2>3. k \in Nat /\ k - 1 \in Nat /\ k - 1 \notin Bad
      <3>1. k \in Nat /\ k - 1 \in Nat /\ ~(k <= k - 1)
        BY <2>2
      <3>. QED BY <2>1, <3>1
    <2>4. PICK V : Runs(k - 1, V)
      BY <2>3
    <2>. DEFINE W == [i \in 0..k |-> IF i = k THEN F[V[k - 1]] ELSE V[i]]
    <2>5. \A i \in 0..(k - 1) : W[i] = V[i] /\ V[i] \in S
      BY <2>3, <2>4
    <2>6. W \in [0..k -> S]
      <3>1. F[V[k - 1]] \in S
        <4>1. k - 1 \in 0..(k - 1)
          BY <2>3
        <4>2. V[k - 1] \in S
          BY <2>5, <4>1
        <4>. QED BY <4>2
      <3>2. \A i \in 0..k : i # k => i \in 0..(k - 1)
        BY <2>3
      <3>. QED BY <2>5, <3>1, <3>2
    <2>7. W[0] = a
      BY <2>2, <2>3, <2>4, <2>5
    <2>8. ASSUME NEW i \in 1..k PROVE W[i] = F[W[i - 1]]
      <3>1. CASE i = k
        BY <2>3, <2>5, <3>1
      <3>2. CASE i # k
        <4>1. i \in 1..(k - 1) /\ i \in 0..(k - 1) /\ i - 1 \in 0..(k - 1)
          BY <2>3, <3>2
        <4>. QED BY <2>4, <2>5, <4>1
      <3>. QED BY <3>1, <3>2
    <2>. HIDE DEF W
    <2>9. Runs(k, W)
      BY <2>6, <2>7, <2>8
    <2>. QED BY <2>1, <2>9
  <1>2. \E W : Runs(n, W)
    BY <1>1
  <1>. QED BY <1>2 DEF Repeated

\* What holds at first and carries on holds at last.
LEMMA CarriesOn ==
  ASSUME NEW n \in Nat, NEW G, 0 \in G, \A k \in 1..n : k - 1 \in G => k \in G
  PROVE  n \in G
  <1>. DEFINE Bad == (0..n) \ G
  <1>1. ASSUME Bad # {} PROVE FALSE
    <2>0. Bad \subseteq Nat
      OBVIOUS
    <2>1. PICK k \in Bad : \A i \in Bad : k <= i
      <3>. HIDE DEF Bad
      <3>. QED BY <1>1, <2>0, LeastNat
    <2>2. k \in 1..n /\ k - 1 \in 0..n /\ k - 1 \notin Bad
      BY <2>1
    <2>. QED BY <2>1, <2>2
  <1>. QED BY <1>1

------------------------------------------------------------------------------
(* Sums.                                                                   *)

PickOf(s) == CHOOSE x \in s : TRUE
IsSumOf(iter, F, S) ==
  iter = [s \in SUBSET S |-> IF s = {} THEN 0 ELSE F[PickOf(s)] + iter[s \ {PickOf(s)}]]
SumOf(F, S) == CHOOSE iter : IsSumOf(iter, F, S)

LEMMA SumIs ==
  ASSUME NEW F, NEW S
  PROVE SumFunctionOnSet(F, S) = SumOf(F, S)[S]
  BY DEF SumFunctionOnSet, FoldFunctionOnSet, MapThenFoldSet, SumOf, IsSumOf, PickOf

LEMMA PickOfIn ==
  ASSUME NEW s, s # {}
  PROVE  PickOf(s) \in s
  BY DEF PickOf

\* As far as the sets of n elements the sums are defined.
UpTo(S, n) == {s \in SUBSET S : Cardinality(s) <= n}
SumsTo(iter, F, S, n) ==
  iter = [s \in UpTo(S, n) |-> IF s = {} THEN 0 ELSE F[PickOf(s)] + iter[s \ {PickOf(s)}]]

LEMMA OneLess ==
  ASSUME NEW S, IsFiniteSet(S), NEW n \in Nat, NEW s \in UpTo(S, n + 1), s # {}
  PROVE  s \ {PickOf(s)} \in UpTo(S, n)
  <1>1. IsFiniteSet(s) /\ Cardinality(s) \in Nat /\ Cardinality(s) <= n + 1 /\ s \subseteq S
    BY FS_Subset, FS_CardinalityType DEF UpTo
  <1>2. PickOf(s) \in s
    BY PickOfIn
  <1>3. Cardinality(s \ {PickOf(s)}) = Cardinality(s) - 1
    BY <1>1, <1>2, FS_RemoveElement
  <1>. QED BY <1>1, <1>3 DEF UpTo

LEMMA SumsGoOn ==
  ASSUME NEW F, NEW S, IsFiniteSet(S), NEW n \in Nat, NEW g, SumsTo(g, F, S, n)
  PROVE  \E h : SumsTo(h, F, S, n + 1)
  <1>. DEFINE Term(s) == IF s = {} THEN 0 ELSE F[PickOf(s)] + g[s \ {PickOf(s)}]
              h == [s \in UpTo(S, n + 1) |-> Term(s)]
  <1>1. g = [s \in UpTo(S, n) |-> Term(s)]
    BY DEF SumsTo
  <1>2. UpTo(S, n) \subseteq UpTo(S, n + 1)
    <2>1. \A s \in SUBSET S : Cardinality(s) \in Nat
      BY FS_Subset, FS_CardinalityType
    <2>. QED BY <2>1 DEF UpTo
  <1>3. \A s \in UpTo(S, n) : g[s] = h[s]
    <2>. HIDE DEF Term
    <2>. QED BY <1>1, <1>2
  <1>4. \A s \in UpTo(S, n + 1) : s # {} => g[s \ {PickOf(s)}] = h[s \ {PickOf(s)}]
    <2>. HIDE DEF h
    <2>. QED BY <1>3, OneLess
  <1>5. h = [s \in UpTo(S, n + 1) |-> IF s = {} THEN 0 ELSE F[PickOf(s)] + h[s \ {PickOf(s)}]]
    <2>1. \A s \in UpTo(S, n + 1) : Term(s) = IF s = {} THEN 0 ELSE F[PickOf(s)] + h[s \ {PickOf(s)}]
      <3>. HIDE DEF h
      <3>. QED BY <1>4
    <2>. HIDE DEF Term
    <2>. QED BY <2>1
  <1>6. SumsTo(h, F, S, n + 1)
    <2>. HIDE DEF h
    <2>. QED BY <1>5 DEF SumsTo
  <1>. QED BY <1>6

LEMMA SumsExist ==
  ASSUME NEW F, NEW S, IsFiniteSet(S)
  PROVE  IsSumOf(SumOf(F, S), F, S)
  <1>. DEFINE N == {n \in Nat : \E g : SumsTo(g, F, S, n)}
  <1>1. 0 \in N
    <2>1. \A s \in UpTo(S, 0) : s = {}
      <3>1. \A s \in SUBSET S : IsFiniteSet(s) /\ Cardinality(s) \in Nat
        BY FS_Subset, FS_CardinalityType
      <3>. QED BY <3>1, FS_EmptySet DEF UpTo
    <2>. DEFINE g == [s \in UpTo(S, 0) |-> 0]
    <2>2. g = [s \in UpTo(S, 0) |-> IF s = {} THEN 0 ELSE F[PickOf(s)] + g[s \ {PickOf(s)}]]
      BY <2>1
    <2>3. SumsTo(g, F, S, 0)
      <3>. HIDE DEF g
      <3>. QED BY <2>2 DEF SumsTo
    <2>. QED BY <2>3
  <1>2. \A n \in Nat : n \in N => n + 1 \in N
    BY SumsGoOn
  <1>3. Nat \subseteq N
    <2>. HIDE DEF N
    <2>. QED BY <1>1, <1>2, AllNumbers
  <1>4. Cardinality(S) \in Nat
    BY FS_CardinalityType
  <1>5. PICK g : SumsTo(g, F, S, Cardinality(S))
    BY <1>3, <1>4
  <1>6. UpTo(S, Cardinality(S)) = SUBSET S
    BY FS_Subset DEF UpTo
  <1>7. IsSumOf(g, F, S)
    BY <1>5, <1>6 DEF SumsTo, IsSumOf
  <1>. QED BY <1>7 DEF SumOf


LEMMA SumSteps ==
  ASSUME NEW F, NEW S, NEW f, IsSumOf(f, F, S)
  PROVE  /\ f[{}] = 0
         /\ \A s \in SUBSET S : s # {} => f[s] = F[PickOf(s)] + f[s \ {PickOf(s)}]
  <1>. DEFINE Term(s) == IF s = {} THEN 0 ELSE F[PickOf(s)] + f[s \ {PickOf(s)}]
  <1>1. f = [s \in SUBSET S |-> Term(s)]
    BY DEF IsSumOf
  <1>2. \A s \in SUBSET S : f[s] = Term(s)
    <2>. HIDE DEF Term
    <2>. QED BY <1>1
  <1>3. {} \in SUBSET S
    OBVIOUS
  <1>. QED BY <1>2, <1>3

LEMMA SumOfNone ==
  ASSUME NEW F
  PROVE  SumFunctionOnSet(F, {}) = 0
  <1>1. IsSumOf(SumOf(F, {}), F, {})
    BY FS_EmptySet, SumsExist
  <1>. QED BY <1>1, SumIs DEF IsSumOf

LEMMA SumsAgree ==
  ASSUME NEW F, NEW S, IsFiniteSet(S), NEW T \in SUBSET S
  PROVE  SumOf(F, S)[T] = SumFunctionOnSet(F, T)
  <1>. DEFINE f == SumOf(F, S)
              g == SumOf(F, T)
              N == {n \in Nat : \A s \in UpTo(T, n) : f[s] = g[s]}
  <1>1. IsFiniteSet(T)
    BY FS_Subset
  <1>2. IsSumOf(f, F, S) /\ IsSumOf(g, F, T)
    BY <1>1, SumsExist
  <1>. HIDE DEF f, g
  <1>20. \A t, h : IsSumOf(h, F, t)
           => h[{}] = 0 /\ \A s \in SUBSET t : s # {} => h[s] = F[PickOf(s)] + h[s \ {PickOf(s)}]
    BY SumSteps
  <1>3. /\ f[{}] = 0 /\ \A s \in SUBSET T : s # {} => f[s] = F[PickOf(s)] + f[s \ {PickOf(s)}]
        /\ g[{}] = 0 /\ \A s \in SUBSET T : s # {} => g[s] = F[PickOf(s)] + g[s \ {PickOf(s)}]
    <2>1. f[{}] = 0 /\ \A s \in SUBSET S : s # {} => f[s] = F[PickOf(s)] + f[s \ {PickOf(s)}]
      BY <1>2, <1>20, Zenon
    <2>2. g[{}] = 0 /\ \A s \in SUBSET T : s # {} => g[s] = F[PickOf(s)] + g[s \ {PickOf(s)}]
      BY <1>2, <1>20, Zenon
    <2>3. \A s \in SUBSET T : s \in SUBSET S
      OBVIOUS
    <2>. QED BY <2>1, <2>2, <2>3, Zenon
  <1>4. 0 \in N
    <2>1. \A s \in UpTo(T, 0) : s = {}
      <3>1. \A s \in SUBSET T : IsFiniteSet(s) /\ Cardinality(s) \in Nat
        BY <1>1, FS_Subset, FS_CardinalityType
      <3>. QED BY <3>1, FS_EmptySet DEF UpTo
    <2>. QED BY <1>3, <2>1
  <1>5. ASSUME NEW n \in Nat, n \in N PROVE n + 1 \in N
    <2>1. ASSUME NEW s \in UpTo(T, n + 1) PROVE f[s] = g[s]
      <3>1. CASE s = {}
        BY <1>3, <3>1
      <3>2. CASE s # {}
        <4>1. s \ {PickOf(s)} \in UpTo(T, n)
          BY <1>1, <3>2, OneLess
        <4>2. s \in SUBSET T
          BY DEF UpTo
        <4>3. f[s] = F[PickOf(s)] + f[s \ {PickOf(s)}] /\ g[s] = F[PickOf(s)] + g[s \ {PickOf(s)}]
          BY <1>3, <3>2, <4>2
        <4>4. f[s \ {PickOf(s)}] = g[s \ {PickOf(s)}]
          BY <1>5, <4>1
        <4>. QED BY <4>3, <4>4
      <3>. QED BY <3>1, <3>2
    <2>. QED BY <2>1
  <1>6. Nat \subseteq N
    <2>. HIDE DEF N
    <2>. QED BY <1>4, <1>5, AllNumbers
  <1>7. Cardinality(T) \in Nat /\ T \in UpTo(T, Cardinality(T))
    BY <1>1, FS_CardinalityType DEF UpTo
  <1>8. f[T] = g[T]
    BY <1>6, <1>7
  <1>. QED BY <1>8, SumIs DEF f, g

LEMMA SumPicks ==
  ASSUME NEW F, NEW S, IsFiniteSet(S), S # {}
  PROVE  SumFunctionOnSet(F, S) = F[PickOf(S)] + SumFunctionOnSet(F, S \ {PickOf(S)})
  <1>1. SumOf(F, S)[S] = F[PickOf(S)] + SumOf(F, S)[S \ {PickOf(S)}]
    <2>1. IsSumOf(SumOf(F, S), F, S)
      BY SumsExist
    <2>. QED BY <2>1, SumSteps
  <1>2. S \ {PickOf(S)} \in SUBSET S /\ S \in SUBSET S
    OBVIOUS
  <1>. QED BY <1>1, <1>2, SumsAgree

\* The sum of numbers is a number, and any of them may be taken out of it.
SumGood(F, T) ==
  /\ SumFunctionOnSet(F, T) \in Nat
  /\ \A x \in T : SumFunctionOnSet(F, T) = F[x] + SumFunctionOnSet(F, T \ {x})

LEMMA SumsAreGood ==
  ASSUME NEW F, NEW S, IsFiniteSet(S), \A x \in S : F[x] \in Nat
  PROVE  SumGood(F, S)
  <1>. DEFINE N == {n \in Nat : \A T \in UpTo(S, n) : SumGood(F, T)}
  <1>1. \A T \in SUBSET S : IsFiniteSet(T) /\ Cardinality(T) \in Nat
    BY FS_Subset, FS_CardinalityType
  <1>2. SumGood(F, {})
    BY SumOfNone DEF SumGood
  <1>3. 0 \in N
    <2>1. \A s \in UpTo(S, 0) : s = {}
      BY <1>1, FS_EmptySet DEF UpTo
    <2>. QED BY <1>2, <2>1
  <1>4. ASSUME NEW n \in Nat, n \in N PROVE n + 1 \in N
    <2>1. ASSUME NEW T \in UpTo(S, n + 1), T # {} PROVE SumGood(F, T)
      <3>. DEFINE y == PickOf(T)
      <3>1. T \in SUBSET S /\ IsFiniteSet(T) /\ Cardinality(T) \in Nat /\ Cardinality(T) <= n + 1
        BY <1>1 DEF UpTo
      <3>2. y \in T
        BY <2>1, PickOfIn
      <3>3. ASSUME NEW x \in T PROVE T \ {x} \in UpTo(S, n)
        <4>1. Cardinality(T \ {x}) = Cardinality(T) - 1
          BY <3>1, FS_RemoveElement
        <4>2. Cardinality(T \ {x}) <= n
          BY <3>1, <4>1
        <4>. QED BY <3>1, <4>2 DEF UpTo
      <3>. HIDE DEF y
      <3>4. \A x \in T : SumGood(F, T \ {x}) /\ F[x] \in Nat
        BY <1>4, <3>1, <3>3
      <3>5. SumFunctionOnSet(F, T) = F[y] + SumFunctionOnSet(F, T \ {y})
        BY <2>1, <3>1, SumPicks DEF y
      <3>6. SumFunctionOnSet(F, T) \in Nat
        BY <3>2, <3>4, <3>5 DEF SumGood
      <3>7. ASSUME NEW x \in T, x # y PROVE SumFunctionOnSet(F, T) = F[x] + SumFunctionOnSet(F, T \ {x})
        <4>1. SumFunctionOnSet(F, T \ {y}) = F[x] + SumFunctionOnSet(F, (T \ {y}) \ {x})
          BY <3>2, <3>4, <3>7 DEF SumGood
        <4>2. SumFunctionOnSet(F, T \ {x}) = F[y] + SumFunctionOnSet(F, (T \ {x}) \ {y})
          BY <3>2, <3>4, <3>7 DEF SumGood
        <4>3. (T \ {x}) \ {y} = (T \ {y}) \ {x}
          OBVIOUS
        <4>4. T \ {x} \in UpTo(S, n) /\ T \ {x} # {}
          BY <3>2, <3>3, <3>7
        <4>5. Cardinality((T \ {x}) \ {y}) \in Nat /\ (T \ {x}) \ {y} \in SUBSET S
          BY <1>1, <3>1
        <4>6. Cardinality((T \ {x}) \ {y}) <= n
          <5>1. IsFiniteSet(T \ {x}) /\ Cardinality(T \ {x}) \in Nat /\ Cardinality(T \ {x}) <= n
            BY <1>1, <4>4 DEF UpTo
          <5>2. Cardinality((T \ {x}) \ {y}) <= Cardinality(T \ {x})
            BY <5>1, FS_RemoveElement
          <5>. QED BY <4>5, <5>1, <5>2
        <4>7. SumFunctionOnSet(F, (T \ {x}) \ {y}) \in Nat
          BY <1>4, <4>5, <4>6 DEF SumGood, UpTo
        <4>8. F[x] \in Nat /\ F[y] \in Nat
          BY <3>2, <3>4
        <4>9. SumFunctionOnSet(F, T) = F[y] + (F[x] + SumFunctionOnSet(F, (T \ {x}) \ {y}))
          BY <3>5, <4>1, <4>3
        <4>10. \A a, b, c \in Nat : b + (a + c) = a + (b + c)
          OBVIOUS
        <4>. QED BY <4>2, <4>7, <4>8, <4>9, <4>10
      <3>8. \A x \in T : SumFunctionOnSet(F, T) = F[x] + SumFunctionOnSet(F, T \ {x})
        BY <3>5, <3>7
      <3>. QED BY <3>6, <3>8 DEF SumGood
    <2>2. \A T \in UpTo(S, n + 1) : SumGood(F, T)
      BY <1>2, <2>1
    <2>. QED BY <2>2
  <1>5. Nat \subseteq N
    <2>. HIDE DEF N
    <2>. QED BY <1>3, <1>4, AllNumbers
  <1>6. Cardinality(S) \in Nat /\ S \in UpTo(S, Cardinality(S))
    BY <1>1 DEF UpTo
  <1>. QED BY <1>5, <1>6

LEMMA SumNat ==
  ASSUME NEW F, NEW S, IsFiniteSet(S), \A x \in S : F[x] \in Nat
  PROVE  SumFunctionOnSet(F, S) \in Nat
  BY SumsAreGood DEF SumGood

LEMMA SumWith ==
  ASSUME NEW F, NEW S, IsFiniteSet(S), NEW x, x \notin S, \A y \in S \cup {x} : F[y] \in Nat
  PROVE  SumFunctionOnSet(F, S \cup {x}) = F[x] + SumFunctionOnSet(F, S)
  <1>1. IsFiniteSet(S \cup {x}) /\ x \in S \cup {x} /\ (S \cup {x}) \ {x} = S
    BY FS_AddElement
  <1>2. SumGood(F, S \cup {x})
    BY <1>1, SumsAreGood
  <1>. QED BY <1>1, <1>2 DEF SumGood

\* The sum depends on the values of the members only.
LEMMA SumSame ==
  ASSUME NEW F, NEW H, NEW S, IsFiniteSet(S), \A x \in S : F[x] \in Nat /\ F[x] = H[x]
  PROVE  SumFunctionOnSet(F, S) = SumFunctionOnSet(H, S)
  <1>. DEFINE G == {T \in SUBSET S : SumFunctionOnSet(F, T) = SumFunctionOnSet(H, T)}
  <1>1. {} \in G
    BY SumOfNone
  <1>2. ASSUME NEW T \in SUBSET S, NEW x \in S, T \in G PROVE T \cup {x} \in G
    <2>1. CASE x \in T
      <3>1. T \cup {x} = T
        BY <2>1
      <3>. QED BY <1>2, <3>1
    <2>2. CASE x \notin T
      <3>1. IsFiniteSet(T) /\ \A y \in T \cup {x} : F[y] \in Nat /\ H[y] \in Nat
        BY FS_Subset
      <3>2. SumFunctionOnSet(F, T \cup {x}) = F[x] + SumFunctionOnSet(F, T)
        BY <2>2, <3>1, SumWith
      <3>3. SumFunctionOnSet(H, T \cup {x}) = H[x] + SumFunctionOnSet(H, T)
        BY <2>2, <3>1, SumWith
      <3>. QED BY <1>2, <3>2, <3>3
    <2>. QED BY <2>1, <2>2
  <1>3. SUBSET S \subseteq G
    <2>. HIDE DEF G
    <2>. QED BY <1>1, <1>2, AllSubsets
  <1>. QED BY <1>3

\* The sum over two sets without a common member.
LEMMA SumOfTwo ==
  ASSUME NEW F, NEW A, NEW B, IsFiniteSet(A), IsFiniteSet(B), A \cap B = {},
         \A x \in A \cup B : F[x] \in Nat
  PROVE  SumFunctionOnSet(F, A \cup B) = SumFunctionOnSet(F, A) + SumFunctionOnSet(F, B)
  <1>. DEFINE G == {T \in SUBSET B : SumFunctionOnSet(F, A \cup T) = SumFunctionOnSet(F, A) + SumFunctionOnSet(F, T)}
  <1>1. {} \in G
    <2>1. A \cup {} = A /\ SumFunctionOnSet(F, A) \in Nat
      BY SumNat
    <2>. QED BY <2>1, SumOfNone
  <1>2. ASSUME NEW T \in SUBSET B, NEW x \in B, T \in G PROVE T \cup {x} \in G
    <2>1. CASE x \in T
      <3>1. T \cup {x} = T
        BY <2>1
      <3>. QED BY <1>2, <3>1
    <2>2. CASE x \notin T
      <3>1. IsFiniteSet(T) /\ IsFiniteSet(A \cup T)
        BY FS_Subset, FS_Union
      <3>2. x \notin A \cup T /\ A \cup (T \cup {x}) = (A \cup T) \cup {x}
            /\ \A y \in (A \cup T) \cup {x} : F[y] \in Nat
        BY <2>2
      <3>3. SumFunctionOnSet(F, (A \cup T) \cup {x}) = F[x] + SumFunctionOnSet(F, A \cup T)
        BY <3>1, <3>2, SumWith
      <3>4. SumFunctionOnSet(F, T \cup {x}) = F[x] + SumFunctionOnSet(F, T)
        BY <2>2, <3>1, <3>2, SumWith
      <3>5. SumFunctionOnSet(F, A) \in Nat /\ SumFunctionOnSet(F, T) \in Nat /\ F[x] \in Nat
        BY <3>1, SumNat
      <3>6. SumFunctionOnSet(F, A \cup T) = SumFunctionOnSet(F, A) + SumFunctionOnSet(F, T)
        BY <1>2
      <3>7. SumFunctionOnSet(F, A \cup (T \cup {x})) = F[x] + (SumFunctionOnSet(F, A) + SumFunctionOnSet(F, T))
        BY <3>2, <3>3, <3>6
      <3>8. \A a, b, c \in Nat : a + (b + c) = b + (a + c)
        OBVIOUS
      <3>9. SumFunctionOnSet(F, A \cup (T \cup {x})) = SumFunctionOnSet(F, A) + SumFunctionOnSet(F, T \cup {x})
        BY <3>4, <3>5, <3>7, <3>8
      <3>. QED BY <3>9
    <2>. QED BY <2>1, <2>2
  <1>3. SUBSET B \subseteq G
    <2>. HIDE DEF G
    <2>. QED BY <1>1, <1>2, AllSubsets
  <1>. QED BY <1>3

\* The sum may be taken class by class: H[c] is the sum over the members of class c.
ClassOf(S, k, c) == {x \in S : k[x] = c}

LEMMA SumByClass ==
  ASSUME NEW F, NEW S, IsFiniteSet(S), \A x \in S : F[x] \in Nat,
         NEW C, IsFiniteSet(C), NEW k, \A x \in S : k[x] \in C,
         NEW H, \A c \in C : H[c] = SumFunctionOnSet(F, ClassOf(S, k, c))
  PROVE  SumFunctionOnSet(H, C) = SumFunctionOnSet(F, S)
  <1>. DEFINE In(D) == {x \in S : k[x] \in D}
              G == {D \in SUBSET C : SumFunctionOnSet(H, D) = SumFunctionOnSet(F, In(D))}
  <1>1. {} \in G
    <2>1. In({}) = {}
      OBVIOUS
    <2>. QED BY <2>1, SumOfNone
  <1>2. \A c \in C : H[c] \in Nat
    <2>1. ASSUME NEW c \in C PROVE H[c] \in Nat
      <3>1. ClassOf(S, k, c) \in SUBSET S
        BY DEF ClassOf
      <3>2. IsFiniteSet(ClassOf(S, k, c)) /\ \A x \in ClassOf(S, k, c) : F[x] \in Nat
        BY <3>1, FS_Subset
      <3>. QED BY <3>2, SumNat
    <2>. QED BY <2>1
  <1>3. ASSUME NEW D \in SUBSET C, NEW c \in C, D \in G PROVE D \cup {c} \in G
    <2>1. CASE c \in D
      <3>1. D \cup {c} = D
        BY <2>1
      <3>. QED BY <1>3, <3>1
    <2>2. CASE c \notin D
      <3>1. IsFiniteSet(D) /\ \A y \in D \cup {c} : H[y] \in Nat
        BY <1>2, FS_Subset
      <3>2. SumFunctionOnSet(H, D \cup {c}) = H[c] + SumFunctionOnSet(H, D)
        BY <2>2, <3>1, SumWith
      <3>3. /\ In(D \cup {c}) = ClassOf(S, k, c) \cup In(D) /\ ClassOf(S, k, c) \cap In(D) = {}
            /\ ClassOf(S, k, c) \in SUBSET S /\ In(D) \in SUBSET S
        BY <2>2 DEF ClassOf
      <3>. HIDE DEF In
      <3>4. IsFiniteSet(ClassOf(S, k, c)) /\ IsFiniteSet(In(D))
            /\ \A x \in ClassOf(S, k, c) \cup In(D) : F[x] \in Nat
        BY <3>3, FS_Subset
      <3>5. SumFunctionOnSet(F, ClassOf(S, k, c) \cup In(D)) = SumFunctionOnSet(F, ClassOf(S, k, c)) + SumFunctionOnSet(F, In(D))
        BY <3>3, <3>4, SumOfTwo
      <3>6. SumFunctionOnSet(H, D \cup {c}) = SumFunctionOnSet(F, In(D \cup {c}))
        BY <1>3, <3>2, <3>3, <3>5
      <3>. QED BY <3>6
    <2>. QED BY <2>1, <2>2
  <1>4. SUBSET C \subseteq G
    <2>. HIDE DEF G
    <2>. QED BY <1>1, <1>3, AllSubsets
  <1>5. In(C) = S
    OBVIOUS
  <1>. QED BY <1>4, <1>5

\* As many as there are ones.
LEMMA SumOfOnes ==
  ASSUME NEW F, NEW S, IsFiniteSet(S), \A x \in S : F[x] = 1
  PROVE  SumFunctionOnSet(F, S) = Cardinality(S)
  <1>. DEFINE G == {T \in SUBSET S : SumFunctionOnSet(F, T) = Cardinality(T)}
  <1>1. {} \in G
    BY SumOfNone, FS_EmptySet
  <1>2. ASSUME NEW T \in SUBSET S, NEW x \in S, T \in G PROVE T \cup {x} \in G
    <2>1. CASE x \in T
      <3>1. T \cup {x} = T
        BY <2>1
      <3>. QED BY <1>2, <3>1
    <2>2. CASE x \notin T
      <3>1. IsFiniteSet(T) /\ \A y \in T \cup {x} : F[y] \in Nat
        BY FS_Subset
      <3>2. SumFunctionOnSet(F, T \cup {x}) = 1 + SumFunctionOnSet(F, T)
        BY <2>2, <3>1, SumWith
      <3>3. Cardinality(T \cup {x}) = Cardinality(T) + 1 /\ Cardinality(T) \in Nat
        BY <2>2, <3>1, FS_AddElement, FS_CardinalityType
      <3>. QED BY <1>2, <3>2, <3>3
    <2>. QED BY <2>1, <2>2
  <1>3. SUBSET S \subseteq G
    <2>. HIDE DEF G
    <2>. QED BY <1>1, <1>2, AllSubsets
  <1>. QED BY <1>3

LEMMA SumOfNoughts ==
  ASSUME NEW F, NEW S, IsFiniteSet(S), \A x \in S : F[x] = 0
  PROVE  SumFunctionOnSet(F, S) = 0
  <1>. DEFINE G == {T \in SUBSET S : SumFunctionOnSet(F, T) = 0}
  <1>1. {} \in G
    BY SumOfNone
  <1>2. ASSUME NEW T \in SUBSET S, NEW x \in S, T \in G PROVE T \cup {x} \in G
    <2>1. CASE x \in T
      <3>1. T \cup {x} = T
        BY <2>1
      <3>. QED BY <1>2, <3>1
    <2>2. CASE x \notin T
      <3>1. IsFiniteSet(T) /\ \A y \in T \cup {x} : F[y] \in Nat
        BY FS_Subset
      <3>2. SumFunctionOnSet(F, T \cup {x}) = F[x] + SumFunctionOnSet(F, T)
        BY <2>2, <3>1, SumWith
      <3>. QED BY <1>2, <3>2
    <2>. QED BY <2>1, <2>2
  <1>3. SUBSET S \subseteq G
    <2>. HIDE DEF G
    <2>. QED BY <1>1, <1>2, AllSubsets
  <1>. QED BY <1>3

\* A common factor.
LEMMA SumTimes ==
  ASSUME NEW F, NEW H, NEW S, IsFiniteSet(S), NEW c \in Nat, \A x \in S : H[x] \in Nat /\ F[x] = c * H[x]
  PROVE  SumFunctionOnSet(F, S) = c * SumFunctionOnSet(H, S)
  <1>. DEFINE G == {T \in SUBSET S : SumFunctionOnSet(F, T) = c * SumFunctionOnSet(H, T)}
  <1>1. {} \in G
    BY SumOfNone
  <1>2. ASSUME NEW T \in SUBSET S, NEW x \in S, T \in G PROVE T \cup {x} \in G
    <2>1. CASE x \in T
      <3>1. T \cup {x} = T
        BY <2>1
      <3>. QED BY <1>2, <3>1
    <2>2. CASE x \notin T
      <3>1. IsFiniteSet(T) /\ \A y \in T \cup {x} : F[y] \in Nat /\ H[y] \in Nat
        <4>1. \A y \in S : c * H[y] \in Nat
          OBVIOUS
        <4>. QED BY <4>1, FS_Subset
      <3>2. SumFunctionOnSet(F, T \cup {x}) = F[x] + SumFunctionOnSet(F, T)
        BY <2>2, <3>1, SumWith
      <3>3. SumFunctionOnSet(H, T \cup {x}) = H[x] + SumFunctionOnSet(H, T)
        BY <2>2, <3>1, SumWith
      <3>4. SumFunctionOnSet(H, T) \in Nat /\ H[x] \in Nat
        BY <3>1, SumNat
      <3>5. \A a, b \in Nat : c * a + c * b = c * (a + b)
        OBVIOUS
      <3>6. SumFunctionOnSet(F, T \cup {x}) = c * H[x] + c * SumFunctionOnSet(H, T)
        BY <1>2, <3>2
      <3>. QED BY <3>3, <3>4, <3>5, <3>6
    <2>. QED BY <2>1, <2>2
  <1>3. SUBSET S \subseteq G
    <2>. HIDE DEF G
    <2>. QED BY <1>1, <1>2, AllSubsets
  <1>. QED BY <1>3
=============================================================================
