------------------------------ MODULE FoldFacts ------------------------------
(***************************************************************************)
(* Facts about the folds of the community modules that the other proofs    *)
(* use.  A fold is a recursive function over the subsets of a finite set;  *)
(* that the recursion has a solution, and what it is, is shown by looking  *)
(* at a smallest set for which it would not.                               *)
(***************************************************************************)
EXTENDS FiniteSetsExt, FiniteSetTheorems, Integers, TLAPS

(* Of a set of natural numbers one is the smallest.                        *)
LEMMA LeastNatural ==
    ASSUME NEW B \in SUBSET Nat, B # {}
    PROVE  \E n \in B : \A m \in B : n <= m
<1>1. PICK n \in B : \A m \in B : ~(<<m, n>> \in OpToRel(<, Nat))
  BY NatLessThanWellFounded, WFMin
<1>2. ASSUME NEW m \in B PROVE n <= m
  <2>1. m \in Nat /\ n \in Nat
    OBVIOUS
  <2>2. ~(m < n)
    BY <1>1, <2>1 DEF OpToRel
  <2> QED
    BY <2>1, <2>2
<1> QED
  BY <1>2

(* Of a set of natural numbers with a bound one is the largest.            *)
LEMMA GreatestNatural ==
    ASSUME NEW S \in SUBSET Nat, S # {}, NEW n \in Nat, \A x \in S : x <= n
    PROVE  Max(S) \in S /\ \A x \in S : x <= Max(S)
<1> DEFINE B == {m \in Nat : \A x \in S : x <= m}
<1>1. PICK m \in B : \A k \in B : m <= k
  BY LeastNatural
<1>2. m \in S
  <2>1. SUFFICES ASSUME m \notin S PROVE FALSE
    OBVIOUS
  <2>2. \A x \in S : x <= m - 1 /\ m - 1 \in Nat
    BY <2>1
  <2>3. m - 1 \in B /\ m \in Nat
    BY <2>2
  <2> QED
    BY <1>1, <2>3
<1>3. \E x \in S : \A y \in S : x >= y
  BY <1>2
<1>4. Max(S) \in S /\ \A y \in S : Max(S) >= y
  BY <1>3 DEF Max
<1>5. Max(S) \in Nat
  BY <1>4
<1> HIDE DEF B
<1> QED
  BY <1>4, <1>5

(* Of a set of subsets of a finite set one contains no other.              *)
LEMMA MinimalSubset ==
    ASSUME NEW S, IsFiniteSet(S), NEW B \in SUBSET (SUBSET S), B # {}
    PROVE  \E T \in B : \A U \in B : U \subseteq T => U = T
<1>1. IsWellFoundedOn(StrictSubsetOrdering(S), SUBSET S)
  BY FS_StrictSubsetOrderingWellFounded, FS_FiniteSubsetsOfFinite
<1>2. PICK T \in B : \A U \in B : ~(<<U, T>> \in StrictSubsetOrdering(S))
  BY <1>1, WFMin
<1>3. ASSUME NEW U \in B, U \subseteq T PROVE U = T
  BY <1>2, <1>3 DEF StrictSubsetOrdering
<1> QED
  BY <1>3

-----------------------------------------------------------------------------
(* g folds step over the subsets of T, from base, taking c[s] out of s.    *)
IsFold(g, T, base, c, step) ==
    \A s \in SUBSET T :
        g[s] = IF s = {} THEN base ELSE step[<<c[s], g[s \ {c[s]}]>>]

(* Two folds agree where both are defined.                                 *)
LEMMA FoldUnique ==
    ASSUME NEW S, IsFiniteSet(S), NEW base, NEW step,
           NEW c, \A s \in SUBSET S : s # {} => c[s] \in s,
           NEW T \in SUBSET S, NEW g, IsFold(g, T, base, c, step),
           NEW U \in SUBSET S, NEW h, IsFold(h, U, base, c, step)
    PROVE  \A s \in SUBSET T : s \in SUBSET U => g[s] = h[s]
<1> DEFINE B == {s \in SUBSET T : s \in SUBSET U /\ g[s] # h[s]}
<1>1. SUFFICES ASSUME B # {} PROVE FALSE
  OBVIOUS
<1>2. PICK s \in B : \A r \in B : r \subseteq s => r = s
  <2>1. B \in SUBSET (SUBSET S)
    OBVIOUS
  <2> HIDE DEF B
  <2> QED
    BY <1>1, <2>1, MinimalSubset
<1>3. s \in SUBSET T /\ s \in SUBSET U /\ s \in SUBSET S /\ g[s] # h[s]
  OBVIOUS
<1>4. s # {}
  BY <1>3 DEF IsFold
<1>5. s \ {c[s]} \notin B
  BY <1>2, <1>3, <1>4
<1>6. g[s \ {c[s]}] = h[s \ {c[s]}]
  BY <1>3, <1>5
<1> QED
  BY <1>3, <1>4, <1>6 DEF IsFold

(* There is a fold over the subsets of every finite set.                   *)
LEMMA FoldExists ==
    ASSUME NEW S, IsFiniteSet(S), NEW V, NEW base \in V, NEW step,
           \A x \in S, v \in V : step[<<x, v>>] \in V,
           NEW c, \A s \in SUBSET S : s # {} => c[s] \in s
    PROVE  \E g \in [SUBSET S -> V] : IsFold(g, S, base, c, step)
<1> DEFINE Folds(T) == {g \in [SUBSET T -> V] : IsFold(g, T, base, c, step)}
           B == {T \in SUBSET S : Folds(T) = {}}
<1>1. SUFFICES ASSUME B # {} PROVE FALSE
  <2>1. Folds(S) # {} => \E g \in [SUBSET S -> V] : IsFold(g, S, base, c, step)
    OBVIOUS
  <2>2. S \in SUBSET S
    OBVIOUS
  <2> HIDE DEF Folds
  <2> QED
    BY <2>1, <2>2
<1>2. PICK T \in B : \A U \in B : U \subseteq T => U = T
  <2>1. B \in SUBSET (SUBSET S)
    OBVIOUS
  <2> HIDE DEF B
  <2> QED
    BY <1>1, <2>1, MinimalSubset
<1> DEFINE part(s) == CHOOSE g : g \in Folds(s)
           rest == T \ {c[T]}
           top == IF T = {} THEN base ELSE step[<<c[T], part(rest)[rest]>>]
           g == [s \in SUBSET T |-> IF s = T THEN top ELSE part(s)[s]]
<1>3. ASSUME NEW s \in SUBSET T, s # T PROVE part(s) \in Folds(s)
  <2>1. s \in SUBSET S /\ s \notin B
    BY <1>2, <1>3
  <2>2. Folds(s) # {}
    BY <2>1
  <2> HIDE DEF Folds
  <2> QED
    BY <2>2
<1>4. ASSUME NEW s \in SUBSET T, s # T
      PROVE  /\ IsFold(part(s), s, base, c, step)
             /\ part(s) \in [SUBSET s -> V]
             /\ part(s)[s] \in V
  <2>1. part(s) \in {h \in [SUBSET s -> V] : IsFold(h, s, base, c, step)}
    BY <1>3, <1>4
  <2> HIDE DEF part
  <2>2. part(s) \in [SUBSET s -> V] /\ IsFold(part(s), s, base, c, step)
    BY <2>1
  <2>3. s \in SUBSET s
    OBVIOUS
  <2> QED
    BY <2>2, <2>3
<1>5. T \in SUBSET S /\ Folds(T) = {}
  BY <1>2
<1>6. T # {} => c[T] \in T /\ rest \in SUBSET T /\ rest # T
  BY <1>5
<1> HIDE DEF part, B
<1>7. top \in V
  BY <1>4, <1>5, <1>6
<1>8. g \in [SUBSET T -> V]
  <2> HIDE DEF top
  <2> QED
    BY <1>4, <1>7
<1>9. g[T] = top /\ \A s \in SUBSET T : s # T => g[s] = part(s)[s]
  OBVIOUS
<1> HIDE DEF g, Folds
<1>10. ASSUME NEW s \in SUBSET T
       PROVE  g[s] = IF s = {} THEN base ELSE step[<<c[s], g[s \ {c[s]}]>>]
  <2>1. CASE s = T
    BY <2>1, <1>6, <1>9
  <2>2. CASE s # T
    <3>1. /\ g[s] = part(s)[s]
          /\ part(s)[s] = IF s = {} THEN base
                          ELSE step[<<c[s], part(s)[s \ {c[s]}]>>]
      BY <2>2, <1>4, <1>9 DEF IsFold
    <3>2. CASE s = {}
      BY <3>1, <3>2
    <3>3. CASE s # {}
      <4> DEFINE r == s \ {c[s]}
      <4>1. r \in SUBSET T /\ r # T /\ r \in SUBSET s /\ r \in SUBSET S /\ s \in SUBSET S
        BY <2>2, <3>3, <1>5
      <4> HIDE DEF r
      <4>2. IsFold(part(s), s, base, c, step) /\ IsFold(part(r), r, base, c, step)
        BY <4>1, <2>2, <1>4
      <4>3. part(s)[r] = part(r)[r]
        BY <4>1, <4>2, FoldUnique
      <4>4. g[r] = part(r)[r]
        BY <4>1, <1>9
      <4> QED
        BY <3>1, <3>3, <4>3, <4>4 DEF r
    <3> QED
      BY <3>2, <3>3
  <2> QED
    BY <2>1, <2>2
<1>11. IsFold(g, T, base, c, step)
  BY <1>10 DEF IsFold
<1> QED
  BY <1>5, <1>8, <1>11 DEF Folds

-----------------------------------------------------------------------------
(* Which element the sum takes out of s first.                             *)
Pick(s) == CHOOSE x \in s : TRUE

(* The recursion that a sum over S is the chosen solution of.              *)
IsSum(g, f, S) ==
    g = [s \in SUBSET S |-> IF s = {} THEN 0
                            ELSE f[CHOOSE x \in s : TRUE] + g[s \ {CHOOSE x \in s : TRUE}]]

(* The sums over all subsets of a finite set are a natural-valued function *)
(* that obeys the recursion.                                               *)
LEMMA SumsOfSubsets ==
    ASSUME NEW S, IsFiniteSet(S), NEW f, \A x \in S : f[x] \in Nat
    PROVE  \A T \in SUBSET S :
              /\ SumFunctionOnSet(f, T) \in Nat
              /\ T = {} => SumFunctionOnSet(f, T) = 0
              /\ T # {} => SumFunctionOnSet(f, T) = f[Pick(T)] + SumFunctionOnSet(f, T \ {Pick(T)})
<1> DEFINE c == [s \in SUBSET S |-> Pick(s)]
           step == [p \in S \X Nat |-> f[p[1]] + p[2]]
<1>1. \A s \in SUBSET S : s # {} => Pick(s) \in s
  BY DEF Pick
<1>2. \A s \in SUBSET S : c[s] = Pick(s)
  OBVIOUS
<1>3. \A x \in S, v \in Nat : step[<<x, v>>] = f[x] + v /\ step[<<x, v>>] \in Nat
  OBVIOUS
<1> HIDE DEF c, step
<1>4. PICK h \in [SUBSET S -> Nat] : IsFold(h, S, 0, c, step)
  <2>1. \A s \in SUBSET S : s # {} => c[s] \in s
    BY <1>1, <1>2
  <2>2. 0 \in Nat /\ \A x \in S, v \in Nat : step[<<x, v>>] \in Nat
    BY <1>3
  <2> QED
    BY <2>1, <2>2, FoldExists
<1>5. ASSUME NEW s \in SUBSET S
      PROVE  h[s] \in Nat /\ h[s] = IF s = {} THEN 0 ELSE f[Pick(s)] + h[s \ {Pick(s)}]
  <2>1. CASE s = {}
    BY <2>1, <1>4 DEF IsFold
  <2>2. CASE s # {}
    <3>1. Pick(s) \in S /\ s \ {Pick(s)} \in SUBSET S
      BY <2>2, <1>1
    <3>2. h[s] = step[<<Pick(s), h[s \ {Pick(s)}]>>] /\ h[s \ {Pick(s)}] \in Nat
      BY <3>1, <2>2, <1>2, <1>4 DEF IsFold
    <3> QED
      BY <3>1, <3>2, <2>2, <1>3
  <2> QED
    BY <2>1, <2>2
<1>6. ASSUME NEW T \in SUBSET S PROVE SumFunctionOnSet(f, T) = h[T]
  <2> DEFINE r == [s \in SUBSET T |-> h[s]]
             sum == CHOOSE g : IsSum(g, f, T)
  <2>1. IsSum(r, f, T)
    <3>1. ASSUME NEW s \in SUBSET T
          PROVE  r[s] = IF s = {} THEN 0 ELSE f[Pick(s)] + r[s \ {Pick(s)}]
      BY <1>5
    <3>2. r = [s \in SUBSET T |-> r[s]]
      OBVIOUS
    <3> HIDE DEF r
    <3> QED
      BY <3>1, <3>2 DEF IsSum, Pick
  <2>2. IsSum(sum, f, T)
    BY <2>1
  <2>3. SumFunctionOnSet(f, T) = sum[T]
    BY DEF SumFunctionOnSet, FoldFunctionOnSet, MapThenFoldSet, IsSum
  <2> HIDE DEF sum
  <2>4. ASSUME NEW s \in SUBSET T
        PROVE  sum[s] = IF s = {} THEN 0 ELSE f[Pick(s)] + sum[s \ {Pick(s)}]
    BY <2>2 DEF IsSum, Pick
  <2> DEFINE B == {s \in SUBSET T : sum[s] # h[s]}
  <2>5. ASSUME B # {} PROVE FALSE
    <3>1. PICK s \in B : \A u \in B : u \subseteq s => u = s
      <4>1. B \in SUBSET (SUBSET S)
        OBVIOUS
      <4> HIDE DEF B
      <4> QED
        BY <2>5, <4>1, MinimalSubset
    <3>2. s \in SUBSET T /\ s \in SUBSET S /\ sum[s] # h[s]
      OBVIOUS
    <3>3. s # {}
      BY <3>2, <2>4, <1>5
    <3>4. s \ {Pick(s)} \in SUBSET T /\ s \ {Pick(s)} \notin B
      BY <3>1, <3>2, <3>3, <1>1
    <3>5. sum[s \ {Pick(s)}] = h[s \ {Pick(s)}]
      BY <3>4
    <3> QED
      BY <3>2, <3>3, <3>5, <2>4, <1>5
  <2> QED
    BY <2>3, <2>5
<1> QED
  BY <1>1, <1>5, <1>6

(* Nothing sums to zero.                                                   *)
LEMMA SumOfNothing ==
    ASSUME NEW f
    PROVE  SumFunctionOnSet(f, {}) = 0
BY SumsOfSubsets, FS_EmptySet

(* A sum is a natural number, and it does not matter which element is      *)
(* taken out first.                                                        *)
LEMMA SumWithout ==
    ASSUME NEW S, IsFiniteSet(S), NEW f, \A x \in S : f[x] \in Nat,
           NEW x \in S
    PROVE  /\ SumFunctionOnSet(f, S) \in Nat
           /\ SumFunctionOnSet(f, S \ {x}) \in Nat
           /\ SumFunctionOnSet(f, S) = f[x] + SumFunctionOnSet(f, S \ {x})
<1> DEFINE Bad(T) == \E y \in T : SumFunctionOnSet(f, T) # f[y] + SumFunctionOnSet(f, T \ {y})
           B == {T \in SUBSET S : Bad(T)}
<1>1. \A T \in SUBSET S : SumFunctionOnSet(f, T) \in Nat
  BY SumsOfSubsets
<1>2. ASSUME B # {} PROVE FALSE
  <2>1. PICK T \in B : \A u \in B : u \subseteq T => u = T
    <3>1. B \in SUBSET (SUBSET S)
      OBVIOUS
    <3> HIDE DEF B
    <3> QED
      BY <1>2, <3>1, MinimalSubset
  <2>2. PICK y \in T : SumFunctionOnSet(f, T) # f[y] + SumFunctionOnSet(f, T \ {y})
    BY <2>1
  <2> DEFINE c == Pick(T)
             u == T \ {c}
             v == T \ {y}
  <2>10. T \in SUBSET S /\ c \in T
    BY <2>2 DEF Pick
  <2>3. T \in SUBSET S /\ c \in T /\ SumFunctionOnSet(f, T) = f[c] + SumFunctionOnSet(f, u)
    BY <2>10, SumsOfSubsets
  <2> HIDE DEF c
  <2>4. c # y
    BY <2>2, <2>3
  <2>5. u \in SUBSET S /\ v \in SUBSET S /\ u \notin B /\ v \notin B
    BY <2>1, <2>2, <2>3
  <2>6. SumFunctionOnSet(f, u) = f[y] + SumFunctionOnSet(f, u \ {y})
    BY <2>4, <2>5
  <2>7. SumFunctionOnSet(f, v) = f[c] + SumFunctionOnSet(f, v \ {c})
    BY <2>3, <2>4, <2>5
  <2>8. u \ {y} = v \ {c}
    OBVIOUS
  <2>9. SumFunctionOnSet(f, u \ {y}) \in Nat /\ f[y] \in Nat /\ f[c] \in Nat
    BY <1>1, <2>3
  <2> HIDE DEF u
  <2> QED
    BY <2>2, <2>3, <2>6, <2>7, <2>8, <2>9
<1> QED
  BY <1>1, <1>2

(* A sum depends on nothing but the values of f on S.                      *)
LEMMA SumSame ==
    ASSUME NEW S, IsFiniteSet(S), NEW f, NEW g,
           \A x \in S : f[x] \in Nat /\ f[x] = g[x]
    PROVE  SumFunctionOnSet(f, S) = SumFunctionOnSet(g, S)
<1> DEFINE B == {T \in SUBSET S : SumFunctionOnSet(f, T) # SumFunctionOnSet(g, T)}
<1>1. ASSUME B # {} PROVE FALSE
  <2>1. PICK T \in B : \A u \in B : u \subseteq T => u = T
    <3>1. B \in SUBSET (SUBSET S)
      OBVIOUS
    <3> HIDE DEF B
    <3> QED
      BY <1>1, <3>1, MinimalSubset
  <2>2. T \in SUBSET S /\ SumFunctionOnSet(f, T) # SumFunctionOnSet(g, T)
    OBVIOUS
  <2>3. T # {}
    BY <2>2, SumOfNothing
  <2>4. PICK x : x \in T
    BY <2>3
  <2>5. T \ {x} \notin B /\ IsFiniteSet(T)
    BY <2>1, <2>2, <2>4, FS_Subset
  <2>6. SumFunctionOnSet(f, T) = f[x] + SumFunctionOnSet(f, T \ {x})
    BY <2>2, <2>4, <2>5, SumWithout
  <2>7. SumFunctionOnSet(g, T) = g[x] + SumFunctionOnSet(g, T \ {x})
    BY <2>2, <2>4, <2>5, SumWithout
  <2> QED
    BY <2>2, <2>4, <2>5, <2>6, <2>7
<1> QED
  BY <1>1

(* A smaller set has no larger a sum.                                      *)
LEMMA SumMonotone ==
    ASSUME NEW S, IsFiniteSet(S), NEW f, \A x \in S : f[x] \in Nat,
           NEW T \in SUBSET S
    PROVE  SumFunctionOnSet(f, T) <= SumFunctionOnSet(f, S)
<1> DEFINE B == {U \in SUBSET S : T \subseteq U /\ ~(SumFunctionOnSet(f, T) <= SumFunctionOnSet(f, U))}
<1>1. ASSUME B # {} PROVE FALSE
  <2>1. PICK U \in B : \A u \in B : u \subseteq U => u = U
    <3>1. B \in SUBSET (SUBSET S)
      OBVIOUS
    <3> HIDE DEF B
    <3> QED
      BY <1>1, <3>1, MinimalSubset
  <2>2. U \in SUBSET S /\ T \subseteq U /\ ~(SumFunctionOnSet(f, T) <= SumFunctionOnSet(f, U))
    OBVIOUS
  <2>3. SumFunctionOnSet(f, T) \in Nat
    BY SumsOfSubsets
  <2>4. PICK x \in U : x \notin T
    BY <2>2, <2>3
  <2>5. U \ {x} \notin B /\ U \ {x} \in SUBSET S /\ T \subseteq U \ {x} /\ IsFiniteSet(U)
    BY <2>1, <2>2, <2>4, FS_Subset
  <2>6. SumFunctionOnSet(f, T) <= SumFunctionOnSet(f, U \ {x})
    BY <2>5
  <2>7. SumFunctionOnSet(f, U) = f[x] + SumFunctionOnSet(f, U \ {x}) /\ SumFunctionOnSet(f, U \ {x}) \in Nat
    BY <2>2, <2>4, <2>5, SumWithout
  <2>8. f[x] \in Nat
    BY <2>2, <2>4
  <2> QED
    BY <2>2, <2>3, <2>6, <2>7, <2>8
<1> QED
  BY <1>1
=============================================================================
