----------------------------- MODULE FoldLemmas -----------------------------
(***************************************************************************)
(* Lemmas about finite sets, sums, sequences and folds that the proofs     *)
(* about several components use: induction, stated for sets instead of     *)
(* predicates so that the provers can use it, what SumFunction adds up to, *)
(* that FoldLeft goes through its sequence one element after the other,    *)
(* what Python's sorted returns for whatever comparison it is given, and   *)
(* sequences without repetition.                                           *)
(***************************************************************************)
EXTENDS Ordering, FiniteSetTheorems, SequenceTheorems, TLAPS

-----------------------------------------------------------------------------
(* Induction.                                                              *)

\* A non-empty set of subsets of a finite set has a smallest one.
LEMMA SmallestSubset ==
  ASSUME NEW S, IsFiniteSet(S), NEW T \in SUBSET SUBSET S, T # {}
  PROVE  \E x \in T : \A y \in T : y \subseteq x => y = x
<1>1. IsWellFoundedOn(StrictSubsetOrdering(S), FiniteSubsetsOf(S))
  BY FS_StrictSubsetOrderingWellFounded
<1>2. T \subseteq FiniteSubsetsOf(S)
  BY FS_FiniteSubsetsOfFinite
<1>3. PICK x \in T : \A y \in T : <<y, x>> \notin StrictSubsetOrdering(S)
  BY <1>1, <1>2, WFMin
<1> QED
  BY <1>3 DEF StrictSubsetOrdering

\* What holds of the empty set and survives one element more holds of S.
LEMMA SetInduction ==
  ASSUME NEW S, IsFiniteSet(S), NEW P, {} \in P,
         \A T \in SUBSET S : \A x \in S \ T : T \in P => T \cup {x} \in P
  PROVE  S \in P
<1> DEFINE Bad == {T \in SUBSET S : T \notin P}
<1>1. SUFFICES ASSUME Bad # {} PROVE FALSE
  OBVIOUS
<1>2. PICK T \in Bad : \A U \in Bad : U \subseteq T => U = T
  <2>1. Bad \in SUBSET SUBSET S
    OBVIOUS
  <2> HIDE DEF Bad
  <2> QED
    BY <1>1, <2>1, SmallestSubset
<1>3. PICK x \in T : TRUE
  BY <1>2
<1>4. T \ {x} \in P
  BY <1>2, <1>3
<1>5. (T \ {x}) \cup {x} = T
  BY <1>3
<1> QED
  BY <1>2, <1>3, <1>4, <1>5

\* The same for the numbers up to n.
LEMMA UpToInduction ==
  ASSUME NEW n \in Nat, NEW P, 0 \in P, \A k \in 0..(n - 1) : k \in P => k + 1 \in P
  PROVE  \A k \in 0..n : k \in P
<1> DEFINE Bad == {b \in SUBSET (0..n) : \E k \in 0..n : k \notin P /\ b = 0..k}
<1>1. SUFFICES ASSUME NEW m \in 0..n, m \notin P PROVE FALSE
  OBVIOUS
<1>2. 0..m \in Bad
  BY <1>1
<1>3. IsFiniteSet(0..n)
  BY FS_Interval
<1>4. PICK b \in Bad : \A c \in Bad : c \subseteq b => c = b
  <2> DEFINE I == 0..n
  <2>1. IsFiniteSet(I) /\ Bad \in SUBSET SUBSET I /\ Bad # {}
    BY <1>2, <1>3
  <2> HIDE DEF Bad, I
  <2> QED
    BY <2>1, SmallestSubset
<1>5. PICK k \in 0..n : k \notin P /\ b = 0..k
  BY <1>4
<1>6. k # 0 /\ k - 1 \in 0..(n - 1)
  BY <1>5
<1>7. k - 1 \notin P
  BY <1>5, <1>6
<1>8. 0..(k - 1) \in Bad /\ 0..(k - 1) \subseteq b /\ 0..(k - 1) # b
  BY <1>5, <1>6, <1>7
<1> QED
  BY <1>4, <1>8

\* The library's lemma on images takes an operator; this one takes a function.
LEMMA ImageFinite ==
  ASSUME NEW S, IsFiniteSet(S), NEW p
  PROVE  IsFiniteSet({p[x] : x \in S})
<1> DEFINE T == {p[x] : x \in S}
           q == [x \in S |-> p[x]]
<1>1. q \in Surjection(S, T)
  BY DEF Surjection
<1> HIDE DEF T, q
<1>2. IsFiniteSet(T)
  BY <1>1, FS_Surjection
<1> QED
  BY <1>2 DEF T

\* A strict total order has a greatest element on a finite set.
LEMMA GreatestExists ==
  ASSUME NEW S, IsFiniteSet(S), S # {}, NEW R,
         \A x, y \in S : x # y => <<x, y>> \in R \/ <<y, x>> \in R,
         \A x, y, z \in S : <<x, y>> \in R /\ <<y, z>> \in R => <<x, z>> \in R
  PROVE  \E m \in S : \A x \in S \ {m} : <<m, x>> \in R
<1> DEFINE P == {T \in SUBSET S : T # {} => \E m \in T : \A x \in T \ {m} : <<m, x>> \in R}
<1>1. {} \in P
  OBVIOUS
<1>2. ASSUME NEW T \in SUBSET S, NEW y \in S \ T, T \in P PROVE T \cup {y} \in P
  <2>1. CASE T = {}
    BY <2>1
  <2>2. CASE T # {}
    <3>1. PICK m \in T : \A x \in T \ {m} : <<m, x>> \in R
      BY <1>2, <2>2
    <3>2. CASE <<m, y>> \in R
      BY <3>1, <3>2
    <3>3. CASE <<y, m>> \in R
      <4>1. \A x \in T : <<y, x>> \in R
        BY <3>1, <3>3
      <4> QED
        BY <4>1
    <3> QED
      BY <3>1, <3>2, <3>3
  <2> QED
    BY <2>1, <2>2
<1>3. S \in P
  <2> HIDE DEF P
  <2> QED
    BY <1>1, <1>2, SetInduction
<1> QED
  BY <1>3

-----------------------------------------------------------------------------
(* Recursion.  A fold takes one element out of a set after the other; step *)
(* says what it makes of an element and of what the rest gave.             *)

Solves(g, T, V, base, pick, step) ==
  /\ g \in [SUBSET T -> V]
  /\ \A s \in SUBSET T :
       g[s] = IF s = {} THEN base ELSE step[<<pick[s], g[s \ {pick[s]}]>>]

Picks(pick, S) ==
  /\ pick \in [(SUBSET S) \ {{}} -> S]
  /\ \A s \in (SUBSET S) \ {{}} : pick[s] \in s

LEMMA SolutionsAgree ==
  ASSUME NEW S, IsFiniteSet(S), NEW V, NEW base, NEW pick, Picks(pick, S), NEW step,
         NEW T \in SUBSET S, NEW U \in SUBSET T,
         NEW g, Solves(g, T, V, base, pick, step),
         NEW h, Solves(h, U, V, base, pick, step)
  PROVE  \A s \in SUBSET U : g[s] = h[s]
<1> DEFINE Bad == {s \in SUBSET U : g[s] # h[s]}
<1>1. SUFFICES ASSUME Bad # {} PROVE FALSE
  OBVIOUS
<1>2. PICK s \in Bad : \A r \in Bad : r \subseteq s => r = s
  <2>1. IsFiniteSet(U)
    BY FS_Subset
  <2>2. Bad \in SUBSET SUBSET U
    OBVIOUS
  <2> HIDE DEF Bad
  <2> QED
    BY <1>1, <2>1, <2>2, SmallestSubset
<1>3. s # {}
  BY <1>2 DEF Solves
<1>4. pick[s] \in s
  BY <1>2, <1>3 DEF Picks
<1>5. g[s \ {pick[s]}] = h[s \ {pick[s]}]
  BY <1>2, <1>4
<1> QED
  BY <1>2, <1>3, <1>4, <1>5 DEF Solves

\* Every fold that stays within V is well-defined on a finite set.
LEMMA SolutionExists ==
  ASSUME NEW S, IsFiniteSet(S), NEW V, NEW base \in V, NEW pick, Picks(pick, S),
         NEW step \in [S \X V -> V]
  PROVE  \E g : Solves(g, S, V, base, pick, step)
<1> DEFINE Bad == {T \in SUBSET S : ~ \E g : Solves(g, T, V, base, pick, step)}
<1>1. SUFFICES ASSUME Bad # {} PROVE FALSE
  OBVIOUS
<1>2. PICK T \in Bad : \A U \in Bad : U \subseteq T => U = T
  <2>1. Bad \in SUBSET SUBSET S
    OBVIOUS
  <2> HIDE DEF Bad
  <2> QED
    BY <1>1, <2>1, SmallestSubset
<1>3. PICK of : \A U \in (SUBSET T) \ {T} : Solves(of[U], U, V, base, pick, step)
  <2> DEFINE o == [U \in (SUBSET T) \ {T} |-> CHOOSE h : Solves(h, U, V, base, pick, step)]
  <2>1. ASSUME NEW U \in (SUBSET T) \ {T} PROVE Solves(o[U], U, V, base, pick, step)
    <3>1. \E h : Solves(h, U, V, base, pick, step)
      BY <1>2
    <3> QED
      BY <3>1
  <2> QED
    BY <2>1
<1>4. PICK diag : \A s \in (SUBSET T) \ {T} : diag[s] = of[s][s]
  <2> WITNESS [s \in (SUBSET T) \ {T} |-> of[s][s]]
  <2> QED  OBVIOUS
<1>5. ASSUME NEW s \in (SUBSET T) \ {T}
      PROVE  /\ diag[s] \in V
             /\ diag[s] = IF s = {} THEN base ELSE step[<<pick[s], diag[s \ {pick[s]}]>>]
  <2>1. Solves(of[s], s, V, base, pick, step)
    BY <1>3
  <2>2. CASE s = {}
    BY <1>4, <2>1, <2>2 DEF Solves
  <2>3. CASE s # {}
    <3>1. PICK r : r = s \ {pick[s]}
      OBVIOUS
    <3>2. s \in SUBSET S /\ r \in SUBSET s /\ r \in (SUBSET T) \ {T}
      BY <1>2, <2>3, <3>1 DEF Picks
    <3>3. Solves(of[r], r, V, base, pick, step)
      BY <1>3, <3>2
    <3>4. \A q \in SUBSET r : of[s][q] = of[r][q]
      <4>1. PICK a, b : a = of[s] /\ b = of[r]
        OBVIOUS
      <4>2. Solves(a, s, V, base, pick, step) /\ Solves(b, r, V, base, pick, step)
        BY <2>1, <3>3, <4>1
      <4>3. \A q \in SUBSET r : a[q] = b[q]
        BY ONLY IsFiniteSet(S), Picks(pick, S), <3>2, <4>2, SolutionsAgree
      <4> QED
        BY <4>1, <4>3
    <3>5. of[s][r] = diag[r]
      BY <1>4, <3>2, <3>4
    <3> QED
      BY <1>4, <2>1, <2>3, <3>1, <3>5 DEF Solves
  <2> QED
    BY <2>2, <2>3
<1>6. CASE T = {}
  <2>1. Solves([s \in SUBSET T |-> base], T, V, base, pick, step)
    BY <1>6 DEF Solves
  <2> QED
    BY <1>2, <2>1
<1>7. CASE T # {}
  <2>1. PICK r : r = T \ {pick[T]}
    OBVIOUS
  <2>2. pick[T] \in T /\ pick[T] \in S /\ r \in (SUBSET T) \ {T}
    BY <1>2, <1>7, <2>1 DEF Picks
  <2>3. PICK v \in V : v = step[<<pick[T], diag[r]>>]
    BY <1>5, <2>2
  <2> DEFINE whole == [s \in SUBSET T |-> IF s = T THEN v ELSE diag[s]]
  <2>4. whole \in [SUBSET T -> V]
    BY <1>5
  <2>5. ASSUME NEW s \in SUBSET T
        PROVE  whole[s] = IF s = {} THEN base ELSE step[<<pick[s], whole[s \ {pick[s]}]>>]
    <3>1. CASE s = T
      BY <1>7, <2>1, <2>2, <2>3, <3>1
    <3>2. CASE s # T /\ s = {}
      BY <1>5, <3>2
    <3>3. CASE s # T /\ s # {}
      <4>1. s \ {pick[s]} \in (SUBSET T) \ {T}
        BY <3>3
      <4> QED
        BY <1>5, <3>3, <4>1
    <3> QED
      BY <3>1, <3>2, <3>3
  <2>6. Solves(whole, T, V, base, pick, step)
    <3> HIDE DEF whole
    <3> QED
      BY <2>4, <2>5 DEF Solves
  <2> QED
    BY <1>2, <2>6
<1> QED
  BY <1>6, <1>7

-----------------------------------------------------------------------------
(* Sums.                                                                   *)

Some(s) == CHOOSE x \in s : TRUE

SumOf(f, S, g) == g = [s \in SUBSET S |-> IF s = {} THEN 0 ELSE f[Some(s)] + g[s \ {Some(s)}]]

LEMMA SumExpanded ==
  ASSUME NEW f, NEW S
  PROVE  SumFunctionOnSet(f, S) = (CHOOSE g : SumOf(f, S, g))[S]
BY Zenon DEF SumFunctionOnSet, FoldFunctionOnSet, MapThenFoldSet, SumOf, Some

LEMMA SumDefined ==
  ASSUME NEW S, IsFiniteSet(S), NEW f, \A x \in S : f[x] \in Int
  PROVE  \E g : SumOf(f, S, g) /\ SumFunctionOnSet(f, S) = g[S]
<1> DEFINE pick == [s \in (SUBSET S) \ {{}} |-> Some(s)]
           step == [p \in S \X Int |-> f[p[1]] + p[2]]
<1>1. \A s \in (SUBSET S) \ {{}} : Some(s) \in s
  BY DEF Some
<1>2. Picks(pick, S)
  BY <1>1 DEF Picks
<1>3. step \in [S \X Int -> Int]
  OBVIOUS
<1>4. \E g : Solves(g, S, Int, 0, pick, step)
  <2>1. PICK V, b : V = Int /\ b = 0
    OBVIOUS
  <2> HIDE DEF pick, step
  <2>2. b \in V /\ step \in [S \X V -> V]
    BY <1>3, <2>1
  <2>3. \E g : Solves(g, S, V, b, pick, step)
    BY ONLY IsFiniteSet(S), <1>2, <2>2, SolutionExists
  <2> QED
    BY <2>1, <2>3
<1>5. PICK g : Solves(g, S, Int, 0, pick, step)
  BY <1>4
<1>6. g \in [SUBSET S -> Int]
  BY <1>5 DEF Solves
<1>7. ASSUME NEW s \in SUBSET S
      PROVE  g[s] = IF s = {} THEN 0 ELSE f[Some(s)] + g[s \ {Some(s)}]
  <2>1. CASE s = {}
    BY <1>5, <2>1 DEF Solves
  <2>2. CASE s # {}
    <3>1. g[s] = step[<<pick[s], g[s \ {pick[s]}]>>]
      BY <1>5, <2>2 DEF Solves
    <3>2. pick[s] = Some(s) /\ Some(s) \in S
      BY <1>1, <2>2
    <3>3. g[s \ {Some(s)}] \in Int
      BY <1>6
    <3> QED
      BY <2>2, <3>1, <3>2, <3>3
  <2> QED
    BY <2>1, <2>2
<1>8. SumOf(f, S, g)
  BY <1>6, <1>7 DEF SumOf
<1>9. SumOf(f, S, CHOOSE h : SumOf(f, S, h))
  BY <1>8
<1> QED
  BY <1>9, SumExpanded

\* The solution of a set gives the sums of its subsets.
LEMMA SumsOfSubsets ==
  ASSUME NEW S, IsFiniteSet(S), NEW f, \A x \in S : f[x] \in Int, NEW g, SumOf(f, S, g)
  PROVE  \A T \in SUBSET S : g[T] \in Int /\ g[T] = SumFunctionOnSet(f, T)
<1> SUFFICES ASSUME NEW T \in SUBSET S PROVE g[T] \in Int /\ g[T] = SumFunctionOnSet(f, T)
  OBVIOUS
<1>1. IsFiniteSet(T)
  BY FS_Subset
<1>2. PICK h : SumOf(f, T, h) /\ SumFunctionOnSet(f, T) = h[T]
  BY <1>1, SumDefined
<1> DEFINE Bad == {s \in SUBSET T : ~(g[s] \in Int /\ g[s] = h[s])}
<1>3. Bad = {}
  <2>1. SUFFICES ASSUME Bad # {} PROVE FALSE
    OBVIOUS
  <2>2. PICK s \in Bad : \A r \in Bad : r \subseteq s => r = s
    <3>1. Bad \in SUBSET SUBSET T
      OBVIOUS
    <3> HIDE DEF Bad
    <3> QED
      BY <1>1, <2>1, <3>1, SmallestSubset
  <2>3. s # {}
    BY <1>2, <2>2 DEF SumOf
  <2>4. Some(s) \in s
    BY <2>3 DEF Some
  <2>5. PICK r : r = s \ {Some(s)}
    OBVIOUS
  <2>6. r \in SUBSET T /\ r \notin Bad
    BY <2>2, <2>4, <2>5
  <2>7. g[r] \in Int /\ g[r] = h[r]
    BY <2>6
  <2>8. g[s] = f[Some(s)] + g[r] /\ h[s] = f[Some(s)] + h[r]
    BY <1>2, <2>2, <2>3, <2>5 DEF SumOf
  <2>9. f[Some(s)] \in Int
    BY <2>2, <2>4
  <2> QED
    BY <2>2, <2>7, <2>8, <2>9
<1> QED
  BY <1>2, <1>3

LEMMA SumEmpty == ASSUME NEW f PROVE SumFunctionOnSet(f, {}) = 0
<1>1. IsFiniteSet({})
  BY FS_EmptySet
<1>2. PICK g : SumOf(f, {}, g) /\ SumFunctionOnSet(f, {}) = g[{}]
  BY <1>1, SumDefined
<1> QED
  BY <1>2 DEF SumOf

LEMMA SumInt ==
  ASSUME NEW S, IsFiniteSet(S), NEW f, \A x \in S : f[x] \in Int
  PROVE  SumFunctionOnSet(f, S) \in Int
BY SumDefined, SumsOfSubsets

\* Any element may be taken out of a sum.
LEMMA SumWithout ==
  ASSUME NEW S, IsFiniteSet(S), NEW f, \A x \in S : f[x] \in Int, NEW x \in S
  PROVE  SumFunctionOnSet(f, S) = f[x] + SumFunctionOnSet(f, S \ {x})
<1>1. PICK g : SumOf(f, S, g)
  BY SumDefined
<1>2. \A T \in SUBSET S : g[T] \in Int /\ g[T] = SumFunctionOnSet(f, T)
  BY <1>1, SumsOfSubsets
<1> DEFINE Bad == {T \in SUBSET S : \E y \in T : g[T] # f[y] + g[T \ {y}]}
<1>3. Bad = {}
  <2>1. SUFFICES ASSUME Bad # {} PROVE FALSE
    OBVIOUS
  <2>2. PICK T \in Bad : \A U \in Bad : U \subseteq T => U = T
    <3>1. Bad \in SUBSET SUBSET S
      OBVIOUS
    <3> HIDE DEF Bad
    <3> QED
      BY <2>1, <3>1, SmallestSubset
  <2>3. PICK y \in T : g[T] # f[y] + g[T \ {y}]
    BY <2>2
  <2>4. PICK z \in T : z = Some(T)
    BY <2>3 DEF Some
  <2>5. g[T] = f[z] + g[T \ {z}]
    BY <1>1, <2>2, <2>3, <2>4 DEF SumOf
  <2>6. z # y
    BY <2>3, <2>5
  <2>7. ASSUME NEW U \in SUBSET T, U # T, NEW w \in U PROVE g[U] = f[w] + g[U \ {w}]
    <3>1. U \notin Bad /\ U \in SUBSET S
      BY <2>2, <2>7
    <3> QED
      BY <3>1
  <2>8. PICK u : u = T \ {y, z}
    OBVIOUS
  <2>9. T \ {z} # T /\ T \ {y} # T /\ (T \ {z}) \ {y} = u /\ (T \ {y}) \ {z} = u
    BY <2>8
  <2>10. g[T \ {z}] = f[y] + g[u] /\ g[T \ {y}] = f[z] + g[u]
    BY <2>6, <2>7, <2>9
  <2>11. f[y] \in Int /\ f[z] \in Int /\ g[u] \in Int
    BY <1>2, <2>2, <2>3, <2>4, <2>8
  <2>12. g[T] = f[z] + (f[y] + g[u])
    BY <2>5, <2>10
  <2>13. g[T] # f[y] + (f[z] + g[u])
    BY <2>3, <2>10
  <2> HIDE DEF Bad
  <2> QED
    BY ONLY <2>11, <2>12, <2>13
<1> QED
  BY <1>2, <1>3

LEMMA SumWith ==
  ASSUME NEW S, IsFiniteSet(S), NEW x, x \notin S, NEW f, \A y \in S \cup {x} : f[y] \in Int
  PROVE  SumFunctionOnSet(f, S \cup {x}) = f[x] + SumFunctionOnSet(f, S)
<1>1. IsFiniteSet(S \cup {x}) /\ (S \cup {x}) \ {x} = S
  BY FS_AddElement
<1> QED
  BY <1>1, SumWithout

LEMMA SumNat ==
  ASSUME NEW S, IsFiniteSet(S), NEW f, \A x \in S : f[x] \in Nat
  PROVE  SumFunctionOnSet(f, S) \in Nat
<1> DEFINE P == {T \in SUBSET S : SumFunctionOnSet(f, T) \in Nat}
<1>1. {} \in P
  BY SumEmpty
<1>2. ASSUME NEW T \in SUBSET S, NEW x \in S \ T, T \in P PROVE T \cup {x} \in P
  <2>1. IsFiniteSet(T) /\ SumFunctionOnSet(f, T) \in Nat
    BY <1>2, FS_Subset
  <2>2. \A y \in T \cup {x} : f[y] \in Int
    OBVIOUS
  <2>3. SumFunctionOnSet(f, T \cup {x}) = f[x] + SumFunctionOnSet(f, T)
    BY <2>1, <2>2, SumWith
  <2> QED
    BY <2>1, <2>3
<1>3. S \in P
  <2> HIDE DEF P
  <2> QED
    BY <1>1, <1>2, SetInduction
<1> QED
  BY <1>3

\* A smaller addend gives a smaller sum, the same addends the same sum.
LEMMA SumAtMost ==
  ASSUME NEW S, IsFiniteSet(S), NEW f, NEW g,
         \A x \in S : f[x] \in Int /\ g[x] \in Int /\ f[x] <= g[x]
  PROVE  SumFunctionOnSet(f, S) <= SumFunctionOnSet(g, S)
<1> DEFINE P == {T \in SUBSET S : SumFunctionOnSet(f, T) <= SumFunctionOnSet(g, T)}
<1>1. {} \in P
  BY SumEmpty
<1>2. ASSUME NEW T \in SUBSET S, NEW x \in S \ T, T \in P PROVE T \cup {x} \in P
  <2>1. IsFiniteSet(T)
    BY FS_Subset
  <2>2. SumFunctionOnSet(f, T) \in Int /\ SumFunctionOnSet(g, T) \in Int
    BY <2>1, SumInt
  <2>3. /\ SumFunctionOnSet(f, T \cup {x}) = f[x] + SumFunctionOnSet(f, T)
        /\ SumFunctionOnSet(g, T \cup {x}) = g[x] + SumFunctionOnSet(g, T)
    BY <2>1, SumWith
  <2> QED
    BY <1>2, <2>2, <2>3
<1>3. S \in P
  <2> HIDE DEF P
  <2> QED
    BY <1>1, <1>2, SetInduction
<1> QED
  BY <1>3

LEMMA SumSame ==
  ASSUME NEW S, IsFiniteSet(S), NEW f, NEW g, \A x \in S : f[x] \in Int /\ f[x] = g[x]
  PROVE  SumFunctionOnSet(f, S) = SumFunctionOnSet(g, S)
<1>1. SumFunctionOnSet(f, S) \in Int /\ SumFunctionOnSet(g, S) \in Int
  BY SumInt
<1>2. SumFunctionOnSet(f, S) <= SumFunctionOnSet(g, S) /\ SumFunctionOnSet(g, S) <= SumFunctionOnSet(f, S)
  BY SumAtMost
<1> QED
  BY <1>1, <1>2

\* Sums are linear.
LEMMA SumPlus ==
  ASSUME NEW S, IsFiniteSet(S), NEW f, NEW g, NEW h,
         \A x \in S : f[x] \in Int /\ g[x] \in Int /\ h[x] = f[x] + g[x]
  PROVE  SumFunctionOnSet(h, S) = SumFunctionOnSet(f, S) + SumFunctionOnSet(g, S)
<1> DEFINE P == {T \in SUBSET S :
                   SumFunctionOnSet(h, T) = SumFunctionOnSet(f, T) + SumFunctionOnSet(g, T)}
<1>1. {} \in P
  BY SumEmpty
<1>2. ASSUME NEW T \in SUBSET S, NEW x \in S \ T, T \in P PROVE T \cup {x} \in P
  <2>1. IsFiniteSet(T) /\ \A y \in T \cup {x} : h[y] \in Int
    BY FS_Subset
  <2>2. SumFunctionOnSet(f, T) \in Int /\ SumFunctionOnSet(g, T) \in Int
    BY <2>1, SumInt
  <2>3. /\ SumFunctionOnSet(f, T \cup {x}) = f[x] + SumFunctionOnSet(f, T)
        /\ SumFunctionOnSet(g, T \cup {x}) = g[x] + SumFunctionOnSet(g, T)
        /\ SumFunctionOnSet(h, T \cup {x}) = h[x] + SumFunctionOnSet(h, T)
    BY <2>1, SumWith
  <2> QED
    BY <1>2, <2>2, <2>3
<1>3. S \in P
  <2> HIDE DEF P
  <2> QED
    BY <1>1, <1>2, SetInduction
<1> QED
  BY <1>3

LEMMA SumTimes ==
  ASSUME NEW S, IsFiniteSet(S), NEW c \in Int, NEW f, NEW h,
         \A x \in S : f[x] \in Int /\ h[x] = c * f[x]
  PROVE  SumFunctionOnSet(h, S) = c * SumFunctionOnSet(f, S)
<1> DEFINE P == {T \in SUBSET S : SumFunctionOnSet(h, T) = c * SumFunctionOnSet(f, T)}
<1>1. {} \in P
  BY SumEmpty
<1>2. ASSUME NEW T \in SUBSET S, NEW x \in S \ T, T \in P PROVE T \cup {x} \in P
  <2>1. IsFiniteSet(T) /\ \A y \in T \cup {x} : h[y] \in Int
    BY FS_Subset
  <2>2. SumFunctionOnSet(f, T) \in Int
    BY <2>1, SumInt
  <2>3. /\ SumFunctionOnSet(f, T \cup {x}) = f[x] + SumFunctionOnSet(f, T)
        /\ SumFunctionOnSet(h, T \cup {x}) = h[x] + SumFunctionOnSet(h, T)
    BY <2>1, SumWith
  <2>4. \A a, b \in Int : c * (a + b) = c * a + c * b
    OBVIOUS
  <2> QED
    BY <1>2, <2>2, <2>3, <2>4
<1>3. S \in P
  <2> HIDE DEF P
  <2> QED
    BY <1>1, <1>2, SetInduction
<1> QED
  BY <1>3

\* Changing one summand changes the sum by as much.
LEMMA SumExcept ==
  ASSUME NEW S, IsFiniteSet(S), NEW x \in S, NEW f, NEW h,
         \A y \in S : f[y] \in Int /\ h[y] \in Int,
         \A y \in S \ {x} : h[y] = f[y]
  PROVE  SumFunctionOnSet(h, S) = SumFunctionOnSet(f, S) - f[x] + h[x]
<1>1. /\ SumFunctionOnSet(f, S) = f[x] + SumFunctionOnSet(f, S \ {x})
      /\ SumFunctionOnSet(h, S) = h[x] + SumFunctionOnSet(h, S \ {x})
  BY SumWithout
<1>2. IsFiniteSet(S \ {x}) /\ \A y \in S \ {x} : f[y] \in Int /\ f[y] = h[y]
  BY FS_Subset
<1>3. /\ SumFunctionOnSet(f, S \ {x}) = SumFunctionOnSet(h, S \ {x})
      /\ SumFunctionOnSet(f, S \ {x}) \in Int
  BY <1>2, SumSame, SumInt
<1> QED
  BY <1>1, <1>3

\* Addends of zero may be left out.
LEMMA SumNonzero ==
  ASSUME NEW S, IsFiniteSet(S), NEW T \in SUBSET S, NEW f, \A x \in S : f[x] \in Int,
         \A x \in S \ T : f[x] = 0
  PROVE  SumFunctionOnSet(f, S) = SumFunctionOnSet(f, T)
<1> DEFINE P == {U \in SUBSET (S \ T) : SumFunctionOnSet(f, T \cup U) = SumFunctionOnSet(f, T)}
<1>1. IsFiniteSet(T) /\ IsFiniteSet(S \ T)
  BY FS_Subset
<1>2. {} \in P
  OBVIOUS
<1>3. ASSUME NEW U \in SUBSET (S \ T), NEW x \in (S \ T) \ U, U \in P PROVE U \cup {x} \in P
  <2>1. PICK W : W = T \cup U
    OBVIOUS
  <2>2. W \in SUBSET S /\ x \notin W /\ x \in S /\ T \cup (U \cup {x}) = W \cup {x}
    BY <2>1
  <2>3. IsFiniteSet(W)
    BY <2>2, FS_Subset
  <2>4. SumFunctionOnSet(f, W \cup {x}) = f[x] + SumFunctionOnSet(f, W)
    BY <2>2, <2>3, SumWith
  <2>5. SumFunctionOnSet(f, W) \in Int /\ f[x] = 0
    BY <2>2, <2>3, SumInt
  <2>6. SumFunctionOnSet(f, W) = SumFunctionOnSet(f, T)
    BY <1>3, <2>1
  <2>7. SumFunctionOnSet(f, W \cup {x}) = SumFunctionOnSet(f, T)
    BY <2>4, <2>5, <2>6
  <2> QED
    BY <2>2, <2>7
<1>4. S \ T \in P
  <2> HIDE DEF P
  <2> QED
    BY <1>1, <1>2, <1>3, SetInduction
<1>5. T \cup (S \ T) = S
  OBVIOUS
<1> QED
  BY <1>4, <1>5

\* A sum over the values of an injective function.
LEMMA SumOverImage ==
  ASSUME NEW S, IsFiniteSet(S), NEW p, \A x, y \in S : p[x] = p[y] => x = y,
         NEW f, NEW h, \A x \in S : h[x] \in Int /\ h[x] = f[p[x]]
  PROVE  /\ IsFiniteSet({p[x] : x \in S})
         /\ SumFunctionOnSet(f, {p[x] : x \in S}) = SumFunctionOnSet(h, S)
<1> DEFINE Image(T) == {p[x] : x \in T}
           P == {T \in SUBSET S : /\ IsFiniteSet(Image(T))
                                  /\ SumFunctionOnSet(f, Image(T)) = SumFunctionOnSet(h, T)}
<1>1. {} \in P
  <2>1. Image({}) = {}
    OBVIOUS
  <2> QED
    BY <2>1, SumEmpty, FS_EmptySet
<1>2. ASSUME NEW T \in SUBSET S, NEW x \in S \ T, T \in P PROVE T \cup {x} \in P
  <2>1. Image(T \cup {x}) = Image(T) \cup {p[x]} /\ p[x] \notin Image(T)
    OBVIOUS
  <2>2. IsFiniteSet(T) /\ IsFiniteSet(Image(T))
    BY <1>2, FS_Subset
  <2>3. \A y \in Image(T) \cup {p[x]} : f[y] \in Int
    OBVIOUS
  <2>4. IsFiniteSet(Image(T) \cup {p[x]})
    BY <2>2, FS_AddElement
  <2>5. SumFunctionOnSet(f, Image(T) \cup {p[x]}) = f[p[x]] + SumFunctionOnSet(f, Image(T))
    <3> HIDE DEF Image
    <3> QED
      BY <2>1, <2>2, <2>3, SumWith
  <2>6. SumFunctionOnSet(h, T \cup {x}) = h[x] + SumFunctionOnSet(h, T)
    BY <2>2, SumWith
  <2> QED
    BY <1>2, <2>1, <2>4, <2>5, <2>6
<1>3. S \in P
  <2> HIDE DEF P
  <2> QED
    BY <1>1, <1>2, SetInduction
<1> QED
  BY <1>3

\* The order of two sums does not matter.
LEMMA SumSwap ==
  ASSUME NEW A, IsFiniteSet(A), NEW B, IsFiniteSet(B), NEW q,
         \A x \in A, y \in B : q[<<x, y>>] \in Int
  PROVE  SumFunctionOnSet([x \in A |-> SumFunctionOnSet([y \in B |-> q[<<x, y>>]], B)], A)
         = SumFunctionOnSet([y \in B |-> SumFunctionOnSet([x \in A |-> q[<<x, y>>]], A)], B)
<1> DEFINE Row(x)    == [y \in B |-> q[<<x, y>>]]
           Column(y) == [x \in A |-> q[<<x, y>>]]
           Left  == [x \in A |-> SumFunctionOnSet(Row(x), B)]
           Right(T) == [y \in B |-> SumFunctionOnSet(Column(y), T)]
           P == {T \in SUBSET A : SumFunctionOnSet(Left, T) = SumFunctionOnSet(Right(T), B)}
<1>1. {} \in P
  <2>1. \A y \in B : Right({})[y] \in Int /\ Right({})[y] = 0 /\ Right({})[y] = 0 * 0
    BY SumEmpty
  <2>2. SumFunctionOnSet(Right({}), B) = SumFunctionOnSet(Right({}), {})
    <3> HIDE DEF Right
    <3> QED
      BY <2>1, SumNonzero
  <2>3. SumFunctionOnSet(Left, {}) = 0 /\ SumFunctionOnSet(Right({}), {}) = 0
    <3> HIDE DEF Right, Left
    <3> QED
      BY SumEmpty
  <2> QED
    BY <2>2, <2>3
<1>2. ASSUME NEW T \in SUBSET A, NEW x \in A \ T, T \in P PROVE T \cup {x} \in P
  <2>1. IsFiniteSet(T)
    BY FS_Subset
  <2>2. \A z \in A : Left[z] \in Int
    <3>1. \A z \in A : \A y \in B : Row(z)[y] \in Int
      OBVIOUS
    <3>2. \A z \in A : SumFunctionOnSet(Row(z), B) \in Int
      <4> HIDE DEF Row
      <4> QED
        BY <3>1, SumInt
    <3> QED
      BY <3>2
  <2>3. SumFunctionOnSet(Left, T \cup {x}) = Left[x] + SumFunctionOnSet(Left, T)
    <3> HIDE DEF Left
    <3> QED
      BY <2>1, <2>2, SumWith
  <2>4. ASSUME NEW y \in B
        PROVE  /\ Row(x)[y] \in Int /\ Right(T)[y] \in Int
               /\ Right(T \cup {x})[y] = Row(x)[y] + Right(T)[y]
    <3>1. \A z \in A : Column(y)[z] \in Int
      OBVIOUS
    <3>2. Column(y)[x] = Row(x)[y]
      OBVIOUS
    <3>3. /\ SumFunctionOnSet(Column(y), T) \in Int
          /\ SumFunctionOnSet(Column(y), T \cup {x}) = Column(y)[x] + SumFunctionOnSet(Column(y), T)
      <4> HIDE DEF Column
      <4> QED
        BY <2>1, <3>1, SumWith, SumInt
    <3> QED
      BY <3>1, <3>2, <3>3
  <2>5. SumFunctionOnSet(Right(T \cup {x}), B) = SumFunctionOnSet(Row(x), B) + SumFunctionOnSet(Right(T), B)
    <3> HIDE DEF Right, Row
    <3> QED
      BY <2>4, SumPlus
  <2>6. Left[x] = SumFunctionOnSet(Row(x), B)
    OBVIOUS
  <2>7. SumFunctionOnSet(Left, T) = SumFunctionOnSet(Right(T), B)
    BY <1>2
  <2> HIDE DEF Left, Right, Row
  <2> QED
    BY <2>3, <2>5, <2>6, <2>7
<1>3. A \in P
  <2> HIDE DEF P
  <2> QED
    BY <1>1, <1>2, SetInduction
<1> QED
  BY <1>3

-----------------------------------------------------------------------------
(* Folds over sequences.                                                   *)

LEMMA MaxInSet ==
  ASSUME NEW S, IsFiniteSet(S), S # {}, \A x \in S : x \in Int
  PROVE  Max(S) \in S /\ \A y \in S : Max(S) >= y
<1>1. PICK Above : Above = {p \in S \X S : p[1] > p[2]}
  OBVIOUS
<1>2. \A x, y \in S : <<x, y>> \in Above <=> x > y
  BY <1>1
<1>3. \A x, y \in S : x # y => <<x, y>> \in Above \/ <<y, x>> \in Above
  BY <1>2
<1>4. \A x, y, z \in S : <<x, y>> \in Above /\ <<y, z>> \in Above => <<x, z>> \in Above
  BY <1>2
<1>5. PICK m \in S : \A x \in S \ {m} : <<m, x>> \in Above
  BY <1>3, <1>4, GreatestExists
<1>6. ASSUME NEW y \in S PROVE m >= y
  <2>1. m \in Int /\ y \in Int
    OBVIOUS
  <2>2. m # y => m > y
    BY <1>2, <1>5
  <2> QED
    BY <2>1, <2>2
<1> QED
  BY <1>6 DEF Max

\* FoldLeft is a function on the sets of positions, taken by their last one.
GoesThrough(g, S, V, base, step) ==
  /\ g \in [SUBSET S -> V]
  /\ \A s \in SUBSET S : g[s] = IF s = {} THEN base ELSE step[<<Max(s), g[s \ {Max(s)}]>>]

LEMMA SequenceFoldExists ==
  ASSUME NEW S, IsFiniteSet(S), \A x \in S : x \in Int,
         NEW V, NEW base \in V, NEW step \in [S \X V -> V]
  PROVE  \E g : GoesThrough(g, S, V, base, step)
<1>1. PICK last : last = [s \in (SUBSET S) \ {{}} |-> Max(s)]
  OBVIOUS
<1>2. ASSUME NEW s \in (SUBSET S) \ {{}} PROVE last[s] = Max(s) /\ last[s] \in s
  <2>1. IsFiniteSet(s) /\ s # {} /\ \A x \in s : x \in Int
    BY FS_Subset
  <2> QED
    BY <1>1, <2>1, MaxInSet
<1>3. Picks(last, S)
  BY <1>1, <1>2 DEF Picks
<1>4. PICK g : Solves(g, S, V, base, last, step)
  BY <1>3, SolutionExists
<1>5. g \in [SUBSET S -> V]
  BY <1>4 DEF Solves
<1>6. \A s \in SUBSET S : g[s] = IF s = {} THEN base ELSE step[<<Max(s), g[s \ {Max(s)}]>>]
  BY <1>2, <1>4 DEF Solves
<1> QED
  BY <1>5, <1>6 DEF GoesThrough

-----------------------------------------------------------------------------
(* Sets in order.                                                          *)

\* A function that tells the n elements of a set apart, with values below n,
\* takes each of these values.
LEMMA RanksTaken ==
  ASSUME NEW S, IsFiniteSet(S), NEW n, n = Cardinality(S), NEW rank,
         \A t \in S : rank[t] \in 0..(n - 1),
         \A t, u \in S : rank[t] = rank[u] => t = u
  PROVE  \A k \in 0..(n - 1) : \E t \in S : rank[t] = k
<1>1. n \in Nat
  BY FS_CardinalityType
<1>2. PICK N : N = 0..(n - 1)
  OBVIOUS
<1>3. IsFiniteSet(N) /\ Cardinality(N) = n
  <2>1. PICK a \in Int, b \in Int : a = 0 /\ b = n - 1
    BY <1>1
  <2>2. IsFiniteSet(a..b) /\ Cardinality(a..b) = IF a > b THEN 0 ELSE b - a + 1
    BY FS_Interval
  <2> QED
    BY <1>1, <1>2, <2>1, <2>2
<1>4. PICK f : f = [t \in S |-> rank[t]]
  OBVIOUS
<1>5. f \in Injection(S, N)
  BY <1>2, <1>4 DEF Injection, IsInjective
<1>6. f \in Surjection(S, N)
  BY <1>3, <1>5, FS_Injection
<1> QED
  BY <1>2, <1>4, <1>6 DEF Surjection

Ahead(S, less, t) == {u \in S : <<u, t>> \in less}

IsOrder(S, less) ==
  /\ \A t \in S : <<t, t>> \notin less
  /\ \A t, u \in S : t # u => <<t, u>> \in less \/ <<u, t>> \in less
  /\ \A t, u, v \in S : <<t, u>> \in less /\ <<u, v>> \in less => <<t, v>> \in less

LEMMA AheadCounted ==
  ASSUME NEW S, IsFiniteSet(S), NEW less, IsOrder(S, less)
  PROVE  /\ \A t \in S : Cardinality(Ahead(S, less, t)) \in 0..(Cardinality(S) - 1)
         /\ \A t, u \in S : <<t, u>> \in less =>
              Cardinality(Ahead(S, less, t)) < Cardinality(Ahead(S, less, u))
<1>1. \A t \in S : /\ IsFiniteSet(Ahead(S, less, t)) /\ Cardinality(Ahead(S, less, t)) \in Nat
                   /\ Cardinality(Ahead(S, less, t)) < Cardinality(S)
  <2> TAKE t \in S
  <2>1. PICK A : A = Ahead(S, less, t)
    OBVIOUS
  <2>2. A \subseteq S /\ A # S
    BY <2>1 DEF Ahead, IsOrder
  <2> QED
    BY <2>1, <2>2, FS_Subset, FS_CardinalityType
<1>2. Cardinality(S) \in Nat
  BY FS_CardinalityType
<1>3. ASSUME NEW t \in S, NEW u \in S, <<t, u>> \in less
      PROVE  Cardinality(Ahead(S, less, t)) < Cardinality(Ahead(S, less, u))
  <2>1. PICK A, B : A = Ahead(S, less, t) /\ B = Ahead(S, less, u)
    OBVIOUS
  <2>2. A \subseteq B /\ A # B
    BY <1>3, <2>1 DEF Ahead, IsOrder
  <2>3. IsFiniteSet(B)
    BY <1>1, <2>1
  <2>4. Cardinality(A) <= Cardinality(B) /\ Cardinality(A) # Cardinality(B)
    BY <2>2, <2>3, FS_Subset
  <2>5. Cardinality(A) \in Nat /\ Cardinality(B) \in Nat
    BY <1>1, <2>1
  <2> QED
    BY <2>1, <2>4, <2>5
<1> QED
  BY <1>1, <1>2, <1>3

\* A finite set in order: each element once, and the one ahead before the other.
LEMMA InOrderFacts ==
  ASSUME NEW S, IsFiniteSet(S), NEW less, IsOrder(S, less), NEW s, s = InOrder(S, less)
  PROVE  /\ s \in [1..Cardinality(S) -> S] /\ Cardinality(S) \in Nat
         /\ \A i, j \in 1..Cardinality(S) : i < j => <<s[i], s[j]>> \in less /\ s[i] # s[j]
         /\ \A t \in S : \E i \in 1..Cardinality(S) : s[i] = t
<1>1. PICK n : n = Cardinality(S) /\ n \in Nat
  BY FS_CardinalityType
<1>2. PICK rank : rank = [t \in S |-> Cardinality(Ahead(S, less, t))]
  OBVIOUS
<1>3. \A t \in S : rank[t] \in 0..(n - 1)
  BY <1>1, <1>2, AheadCounted
<1>4. \A t, u \in S : <<t, u>> \in less => rank[t] < rank[u]
  BY <1>2, AheadCounted
<1>5. \A t, u \in S : rank[t] = rank[u] => t = u
  <2> SUFFICES ASSUME NEW t \in S, NEW u \in S, t # u PROVE rank[t] # rank[u]
    OBVIOUS
  <2>1. <<t, u>> \in less \/ <<u, t>> \in less
    BY DEF IsOrder
  <2>2. rank[t] \in Int /\ rank[u] \in Int
    BY <1>3
  <2>3. rank[t] < rank[u] \/ rank[u] < rank[t]
    BY <1>4, <2>1
  <2> QED
    BY <2>2, <2>3
<1>6. \A k \in 0..(n - 1) : \E t \in S : rank[t] = k
  BY <1>1, <1>3, <1>5, RanksTaken
<1>7. s = [i \in 1..n |-> CHOOSE t \in S : rank[t] = i - 1]
  <2>1. s = [i \in 1..n |-> CHOOSE t \in S : Cardinality(Ahead(S, less, t)) = i - 1]
    BY <1>1 DEF InOrder, Ahead
  <2>2. \A i \in 1..n : (CHOOSE t \in S : Cardinality(Ahead(S, less, t)) = i - 1)
                        = (CHOOSE t \in S : rank[t] = i - 1)
    BY <1>2
  <2> QED
    BY <2>1, <2>2
<1>8. \A i \in 1..n : s[i] \in S /\ rank[s[i]] = i - 1
  <2> TAKE i \in 1..n
  <2>1. i - 1 \in 0..(n - 1)
    BY <1>1
  <2>2. \E t \in S : rank[t] = i - 1
    BY <1>6, <2>1
  <2> QED
    BY <1>7, <2>2
<1>9. s \in [1..n -> S]
  BY <1>7, <1>8
<1>10. ASSUME NEW i \in 1..n, NEW j \in 1..n, i < j PROVE <<s[i], s[j]>> \in less /\ s[i] # s[j]
  <2>1. PICK t, u : t = s[i] /\ u = s[j] /\ t \in S /\ u \in S /\ rank[t] = i - 1 /\ rank[u] = j - 1
    BY <1>8
  <2>2. i \in Int /\ j \in Int
    OBVIOUS
  <2>3. t # u
    BY <1>10, <2>1, <2>2
  <2>4. <<u, t>> \notin less
    BY <1>4, <1>10, <2>1, <2>2
  <2>5. <<t, u>> \in less
    BY <2>1, <2>3, <2>4 DEF IsOrder
  <2> QED
    BY <2>1, <2>3, <2>5
<1>11. ASSUME NEW t \in S PROVE \E i \in 1..n : s[i] = t
  <2>1. PICK k \in 0..(n - 1) : k = rank[t]
    BY <1>3
  <2>2. k + 1 \in 1..n /\ (k + 1) - 1 = k
    BY <1>1
  <2>3. rank[s[k + 1]] = rank[t] /\ s[k + 1] \in S
    BY <1>8, <2>1, <2>2
  <2> QED
    BY <1>5, <2>2, <2>3
<1> QED
  BY <1>1, <1>9, <1>10, <1>11

\* Numbers are in order by <.
LEMMA AscendingOrder ==
  ASSUME NEW I, \A x \in I : x \in Int
  PROVE  IsOrder(I, {p \in I \X I : p[1] < p[2]})
<1>1. PICK less : less = {p \in I \X I : p[1] < p[2]}
  OBVIOUS
<1>2. \A x, y \in I : <<x, y>> \in less <=> x < y
  BY <1>1
<1>3. IsOrder(I, less)
  BY <1>2 DEF IsOrder
<1> QED
  BY <1>1, <1>3

\* What is picked from a sequence are its elements at the places, and all of them.
LEMMA AtFacts ==
  ASSUME NEW I, IsFiniteSet(I), \A x \in I : x \in Int, NEW s, NEW r, r = AtPlaces(s, I),
         NEW n, n = Cardinality(I)
  PROVE  /\ n \in Nat /\ DOMAIN r = 1..n /\ r = [k \in 1..n |-> r[k]]
         /\ \A k \in 1..n : \E i \in I : r[k] = s[i]
         /\ \A i \in I : \E k \in 1..n : r[k] = s[i]
<1>1. PICK less : less = {p \in I \X I : p[1] < p[2]}
  OBVIOUS
<1>2. PICK places : places = InOrder(I, less)
  OBVIOUS
<1>3. IsOrder(I, less)
  BY <1>1, AscendingOrder
<1>4. n \in Nat /\ places \in [1..n -> I] /\ \A i \in I : \E k \in 1..n : places[k] = i
  BY <1>2, <1>3, InOrderFacts
<1>5. r = [k \in 1..n |-> s[places[k]]]
  BY <1>1, <1>2, <1>4 DEF AtPlaces
<1> QED
  BY <1>4, <1>5

-----------------------------------------------------------------------------
(* A fold over a sequence is the last of a chain of values, one an element. *)

LEMMA UpToParts ==
  ASSUME NEW n \in Nat, NEW k \in 1..n
  PROVE  /\ (1..k) \in SUBSET (1..n) /\ 1..k # {}
         /\ (1..k) \ {k} = 1..(k - 1)
         /\ k - 1 \in 0..n /\ k \in 0..n
<1>1. (1..k) \in SUBSET (1..n) /\ k \in 1..k /\ k - 1 \in 0..n /\ k \in 0..n
  OBVIOUS
<1>2. ASSUME NEW x PROVE x \in (1..k) \ {k} <=> x \in 1..(k - 1)
  OBVIOUS
<1> QED
  BY <1>1, <1>2

LEMMA MaxUpTo ==
  ASSUME NEW k \in Nat \ {0}
  PROVE  Max(1..k) = k
<1>1. k \in 1..k /\ \A y \in 1..k : k >= y
  OBVIOUS
<1>2. \A x \in 1..k : (\A y \in 1..k : x >= y) => x = k
  OBVIOUS
<1> QED
  BY <1>1, <1>2 DEF Max

LEMMA MaxWith ==
  ASSUME NEW k \in Nat, NEW s \in SUBSET (1..(k + 1)), k + 1 \in s
  PROVE  Max(s) = k + 1
<1>1. \A y \in s : k + 1 >= y
  OBVIOUS
<1>2. \A x \in s : (\A y \in s : x >= y) => x = k + 1
  OBVIOUS
<1> QED
  BY <1>1, <1>2 DEF Max

-----------------------------------------------------------------------------
(* Python's sorted, with whatever comparison.                              *)

\* Binary insertion, one element after the other.
InsertionSolves(g, n, base, seq, less) ==
  g = [s \in SUBSET (1..n) |->
         IF s = {} THEN base ELSE Inserted(g[s \ {Max(s)}], seq[Max(s)], less)]

LEMMA InsertionExpanded ==
  ASSUME NEW n, NEW seq, DOMAIN seq = 1..n, NEW base, NEW less
  PROVE  AllInserted(base, seq, less)
         = (CHOOSE g : InsertionSolves(g, n, base, seq, less))[1..n]
BY Zenon DEF AllInserted, FoldLeft, MapThenFoldSet, InsertionSolves

LEMMA InsertionExists ==
  ASSUME NEW n \in Nat, NEW seq, NEW base, NEW less
  PROVE  \E g : InsertionSolves(g, n, base, seq, less)
<1> DEFINE P == {k \in 0..n : \E g : InsertionSolves(g, k, base, seq, less)}
<1>1. 0 \in P
  <2>1. InsertionSolves([s \in SUBSET (1..0) |-> base], 0, base, seq, less)
    <3>1. \A s \in SUBSET (1..0) : s = {}
      OBVIOUS
    <3> QED
      BY <3>1 DEF InsertionSolves
  <2> QED
    BY <2>1
<1>2. ASSUME NEW k \in 0..(n - 1), k \in P PROVE k + 1 \in P
  <2>1. PICK g : InsertionSolves(g, k, base, seq, less)
    BY <1>2
  <2>2. PICK j, S, T : j = k + 1 /\ S = 1..k /\ T = 1..j
    OBVIOUS
  <2>3. PICK f : f = [s \in SUBSET T |-> IF j \in s THEN Inserted(g[s \ {j}], seq[j], less) ELSE g[s]]
    OBVIOUS
  <2>4. T = S \cup {j} /\ j \notin S
    BY <2>2
  <2>5. ASSUME NEW s \in SUBSET T
        PROVE  f[s] = IF s = {} THEN base ELSE Inserted(f[s \ {Max(s)}], seq[Max(s)], less)
    <3>1. CASE s = {}
      BY <2>1, <2>2, <2>3, <3>1 DEF InsertionSolves
    <3>2. CASE j \in s
      <4>1. Max(s) = j
        BY <2>2, <3>2, MaxWith
      <4>2. s \ {j} \in SUBSET S /\ s \ {j} \in SUBSET T /\ j \notin s \ {j}
        BY <2>4
      <4>3. f[s \ {j}] = g[s \ {j}]
        BY <2>3, <4>2
      <4> QED
        BY <2>3, <3>2, <4>1, <4>3
    <3>3. CASE j \notin s /\ s # {}
      <4>1. s \in SUBSET S /\ s \ {Max(s)} \in SUBSET S /\ s \ {Max(s)} \in SUBSET T /\ j \notin s \ {Max(s)}
        BY <2>4, <3>3
      <4>2. f[s] = g[s] /\ f[s \ {Max(s)}] = g[s \ {Max(s)}]
        BY <2>3, <3>3, <4>1
      <4>3. g[s] = Inserted(g[s \ {Max(s)}], seq[Max(s)], less)
        BY <2>1, <2>2, <3>3, <4>1 DEF InsertionSolves
      <4> QED
        BY <3>3, <4>2, <4>3
    <3> QED
      BY <3>1, <3>2, <3>3
  <2>6. InsertionSolves(f, j, base, seq, less)
    BY <2>2, <2>3, <2>5 DEF InsertionSolves
  <2>7. k + 1 \in 0..n
    OBVIOUS
  <2> QED
    BY <2>2, <2>6, <2>7
<1>3. \A k \in 0..n : k \in P
  <2> HIDE DEF P
  <2> QED
    BY <1>1, <1>2, UpToInduction
<1> QED
  BY <1>3

\* h starts with base, inserts an element at each step and ends with all in.
InsertionThrough(h, n, base, seq, less) ==
  /\ h[0] = base
  /\ \A k \in 1..n : h[k] = Inserted(h[k - 1], seq[k], less)
  /\ AllInserted(base, seq, less) = h[n]

LEMMA InsertionChain ==
  ASSUME NEW n \in Nat, NEW seq, DOMAIN seq = 1..n, NEW base, NEW less
  PROVE  \E h : InsertionThrough(h, n, base, seq, less)
<1>1. PICK g : g = CHOOSE f : InsertionSolves(f, n, base, seq, less)
  OBVIOUS
<1>2. InsertionSolves(g, n, base, seq, less)
  BY <1>1, InsertionExists
<1>3. PICK h : h = [k \in 0..n |-> g[1..k]]
  OBVIOUS
<1>4. h[0] = base
  <2>1. 1..0 = {} /\ {} \in SUBSET (1..n) /\ h[0] = g[1..0]
    BY <1>3
  <2> QED
    BY <1>2, <2>1 DEF InsertionSolves
<1>5. ASSUME NEW k \in 1..n PROVE h[k] = Inserted(h[k - 1], seq[k], less)
  <2>1. Max(1..k) = k
    BY MaxUpTo
  <2>2. PICK s, r : s = 1..k /\ r = 1..(k - 1)
    OBVIOUS
  <2>3. s \in SUBSET (1..n) /\ s # {} /\ s \ {k} = r /\ k - 1 \in 0..n /\ k \in 0..n
    BY <2>2, UpToParts
  <2>6. h[k] = g[s] /\ h[k - 1] = g[r]
    BY <1>3, <2>2, <2>3
  <2>4. h[k] = g[s] /\ h[k - 1] = g[s \ {k}]
    BY <2>3, <2>6
  <2>5. g[s] = Inserted(g[s \ {Max(s)}], seq[Max(s)], less)
    BY <1>2, <2>3 DEF InsertionSolves
  <2> QED
    BY <2>1, <2>2, <2>4, <2>5
<1>6. h[n] = g[1..n]
  BY <1>3
<1>7. AllInserted(base, seq, less) = h[n]
  BY <1>1, <1>6, InsertionExpanded
<1>8. InsertionThrough(h, n, base, seq, less)
  BY <1>4, <1>5, <1>7 DEF InsertionThrough
<1> QED
  BY <1>8

Half(q) == (q[1] + q[2]) \div 2

Searching(f, N, out, x, less) ==
  f = [q \in (0..N) \X (0..N) |->
         IF q[1] >= q[2] THEN q[1]
         ELSE IF <<x, out[Half(q) + 1]>> \in less THEN f[<<q[1], Half(q)>>]
              ELSE f[<<Half(q) + 1, q[2]>>]]

LEMMA PlaceExpanded ==
  ASSUME NEW N, NEW out, N = Len(out), NEW x, NEW less
  PROVE  PlaceFor(out, x, less) = (CHOOSE f : Searching(f, N, out, x, less))[<<0, N>>]
<1>1. PlaceFor(out, x, less) = (CHOOSE f : Searching(f, Len(out), out, x, less))[<<0, Len(out)>>]
  BY Zenon DEF PlaceFor, Searching, Half
<1> QED
  BY Zenon, <1>1

LEMMA Halves ==
  ASSUME NEW l \in Nat, NEW r \in Nat, l < r, NEW p, p = (l + r) \div 2
  PROVE  p \in Nat /\ l <= p /\ p < r
OBVIOUS

\* f answers as the search does for the spans up to d.
Answers(f, d, N, out, x, less) ==
  /\ f \in [(0..N) \X (0..N) -> 0..N]
  /\ \A l, r \in 0..N : l >= r => f[<<l, r>>] = l
  /\ \A l, r, p \in 0..N : l < r /\ r - l <= d /\ p = (l + r) \div 2 =>
       f[<<l, r>>] = IF <<x, out[p + 1]>> \in less THEN f[<<l, p>>] ELSE f[<<p + 1, r>>]

LEMMA AnswersExist ==
  ASSUME NEW N \in Nat, NEW out, NEW x, NEW less
  PROVE  \E f : Answers(f, N, N, out, x, less)
<1> DEFINE P == {d \in 0..N : \E f : Answers(f, d, N, out, x, less)}
<1>1. 0 \in P
  <2>1. PICK f : f = [q \in (0..N) \X (0..N) |-> q[1]]
    OBVIOUS
  <2>2. f \in [(0..N) \X (0..N) -> 0..N]
    BY <2>1
  <2>3. \A l, r \in 0..N : f[<<l, r>>] = l
    BY <2>1
  <2>4. Answers(f, 0, N, out, x, less)
    BY <2>2, <2>3 DEF Answers
  <2> QED
    BY <2>4
<1>2. ASSUME NEW d \in 0..(N - 1), d \in P PROVE d + 1 \in P
  <2>1. PICK f : Answers(f, d, N, out, x, less)
    BY <1>2
  <2>2. PICK half : half = [q \in (0..N) \X (0..N) |-> (q[1] + q[2]) \div 2]
    OBVIOUS
  <2>3. PICK g : g = [q \in (0..N) \X (0..N) |->
                        IF q[2] - q[1] <= d THEN f[q]
                        ELSE IF <<x, out[half[q] + 1]>> \in less THEN f[<<q[1], half[q]>>]
                             ELSE f[<<half[q] + 1, q[2]>>]]
    OBVIOUS
  <2>4. \A l, r \in 0..N : l < r => half[<<l, r>>] \in 0..N /\ half[<<l, r>>] + 1 \in 0..N
                                     /\ l <= half[<<l, r>>] /\ half[<<l, r>>] < r
    <3> SUFFICES ASSUME NEW l \in 0..N, NEW r \in 0..N, l < r
                 PROVE  /\ half[<<l, r>>] \in 0..N /\ half[<<l, r>>] + 1 \in 0..N
                        /\ l <= half[<<l, r>>] /\ half[<<l, r>>] < r
      OBVIOUS
    <3>1. PICK p : p = (l + r) \div 2
      OBVIOUS
    <3>2. half[<<l, r>>] = p
      BY <2>2, <3>1
    <3>3. p \in Nat /\ l <= p /\ p < r
      BY <3>1, Halves
    <3> QED
      BY <3>2, <3>3
  <2>5. \A l, r \in 0..N : r - l <= d => g[<<l, r>>] = f[<<l, r>>]
    BY <2>3
  <2>6. \A l, r \in 0..N : ~(r - l <= d) =>
           g[<<l, r>>] = IF <<x, out[half[<<l, r>>] + 1]>> \in less THEN f[<<l, half[<<l, r>>]>>]
                         ELSE f[<<half[<<l, r>>] + 1, r>>]
    BY <2>3
  <2>7. f \in [(0..N) \X (0..N) -> 0..N]
    BY <2>1 DEF Answers
  <2>8. g \in [(0..N) \X (0..N) -> 0..N]
    <3>1. \A l, r \in 0..N : g[<<l, r>>] \in 0..N
      <4> SUFFICES ASSUME NEW l \in 0..N, NEW r \in 0..N PROVE g[<<l, r>>] \in 0..N
        OBVIOUS
      <4>1. CASE r - l <= d
        BY <2>5, <2>7, <4>1
      <4>2. CASE ~(r - l <= d)
        <5>1. l < r
          BY <4>2
        <5> QED
          BY <2>4, <2>6, <2>7, <4>2, <5>1
      <4> QED
        BY <4>1, <4>2
    <3>2. ASSUME NEW q \in (0..N) \X (0..N) PROVE g[q] \in 0..N
      <4>1. PICK l \in 0..N, r \in 0..N : q = <<l, r>>
        OBVIOUS
      <4> QED
        BY <3>1, <4>1
    <3>3. DOMAIN g = (0..N) \X (0..N) /\ g = [q \in DOMAIN g |-> g[q]]
      BY <2>3
    <3> QED
      BY <3>2, <3>3
  <2>9. ASSUME NEW l \in 0..N, NEW r \in 0..N, l >= r PROVE g[<<l, r>>] = l
    <3>1. r - l <= d
      BY <2>9
    <3>2. g[<<l, r>>] = f[<<l, r>>]
      BY <2>5, <3>1
    <3>3. f[<<l, r>>] = l
      BY <2>1, <2>9 DEF Answers
    <3> QED
      BY <3>2, <3>3
  <2>10. ASSUME NEW l \in 0..N, NEW r \in 0..N, NEW p \in 0..N, l < r, r - l <= d + 1, p = (l + r) \div 2
         PROVE  g[<<l, r>>] = IF <<x, out[p + 1]>> \in less THEN g[<<l, p>>] ELSE g[<<p + 1, r>>]
    <3>1. p = half[<<l, r>>]
      BY <2>2, <2>10
    <3>2. p + 1 \in 0..N /\ l <= p /\ p < r
      BY <2>4, <2>10, <3>1
    <3>3. p - l <= d /\ r - (p + 1) <= d
      BY <2>10, <3>2
    <3>4. g[<<l, p>>] = f[<<l, p>>] /\ g[<<p + 1, r>>] = f[<<p + 1, r>>]
      BY <2>5, <3>2, <3>3
    <3>5. CASE r - l <= d
      BY <2>1, <2>5, <2>10, <3>4, <3>5 DEF Answers
    <3>6. CASE ~(r - l <= d)
      BY <2>6, <3>1, <3>4, <3>6
    <3> QED
      BY <3>5, <3>6
  <2>11. Answers(g, d + 1, N, out, x, less)
    BY <2>8, <2>9, <2>10 DEF Answers
  <2>12. d + 1 \in 0..N
    OBVIOUS
  <2> QED
    BY <2>11, <2>12
<1>3. \A d \in 0..N : d \in P
  <2> HIDE DEF P
  <2> QED
    BY <1>1, <1>2, UpToInduction
<1> QED
  BY <1>3

LEMMA SearchExists ==
  ASSUME NEW N \in Nat, NEW out, NEW x, NEW less
  PROVE  \E f : Searching(f, N, out, x, less)
<1>1. PICK f : Answers(f, N, N, out, x, less)
  BY AnswersExist
<1>2. ASSUME NEW q \in (0..N) \X (0..N)
      PROVE  f[q] = IF q[1] >= q[2] THEN q[1]
                    ELSE IF <<x, out[Half(q) + 1]>> \in less THEN f[<<q[1], Half(q)>>]
                         ELSE f[<<Half(q) + 1, q[2]>>]
  <2>1. PICK l \in 0..N, r \in 0..N : q = <<l, r>> /\ q[1] = l /\ q[2] = r
    OBVIOUS
  <2>2. CASE l >= r
    BY <1>1, <2>1, <2>2 DEF Answers
  <2>3. CASE l < r
    <3>1. PICK p : p = (l + r) \div 2
      OBVIOUS
    <3>2. p \in 0..N /\ Half(q) = p
      BY <2>1, <2>3, <3>1, Halves DEF Half
    <3>3. r - l <= N /\ ~(l >= r)
      BY <2>3
    <3>4. f[<<l, r>>] = IF <<x, out[p + 1]>> \in less THEN f[<<l, p>>] ELSE f[<<p + 1, r>>]
      BY <1>1, <2>3, <3>1, <3>2, <3>3 DEF Answers
    <3> QED
      BY <2>1, <3>2, <3>3, <3>4
  <2> QED
    BY <2>2, <2>3
<1>3. f = [q \in (0..N) \X (0..N) |-> f[q]]
  BY <1>1 DEF Answers
<1>4. Searching(f, N, out, x, less)
  BY <1>2, <1>3 DEF Searching
<1> QED
  BY <1>4

\* Where an element goes: at some place of the list; behind the first if it is
\* not less than that one; before all if it is less than each.
LEMMA PlaceFacts ==
  ASSUME NEW N \in Nat, NEW out, N = Len(out), NEW x, NEW less, NEW k, k = PlaceFor(out, x, less)
  PROVE  /\ k \in 0..N
         /\ N >= 1 /\ <<x, out[1]>> \notin less => k >= 1
         /\ (\A i \in 1..N : <<x, out[i]>> \in less) => k = 0
<1>1. PICK f : f = CHOOSE g : Searching(g, N, out, x, less)
  OBVIOUS
<1>2. Searching(f, N, out, x, less)
  BY <1>1, SearchExists
<1>3. k = f[<<0, N>>]
  BY <1>1, PlaceExpanded
<1>4. \A l, r \in 0..N : l >= r => f[<<l, r>>] = l
  <2> SUFFICES ASSUME NEW l \in 0..N, NEW r \in 0..N, l >= r PROVE f[<<l, r>>] = l
    OBVIOUS
  <2>0. PICK q : q = <<l, r>>
    OBVIOUS
  <2>1. q \in (0..N) \X (0..N) /\ q = <<l, r>> /\ q[1] = l /\ q[2] = r
    BY <2>0
  <2>2. f[q] = q[1]
    BY <1>2, <2>1 DEF Searching
  <2> QED
    BY <2>1, <2>2
<1>5. ASSUME NEW l \in 0..N, NEW r \in 0..N, l < r
      PROVE  \E p \in 0..N : /\ l <= p /\ p < r
                             /\ f[<<l, r>>] = IF <<x, out[p + 1]>> \in less THEN f[<<l, p>>]
                                              ELSE f[<<p + 1, r>>]
  <2>0. PICK q : q = <<l, r>>
    OBVIOUS
  <2>1. q \in (0..N) \X (0..N) /\ q = <<l, r>> /\ q[1] = l /\ q[2] = r
    BY <2>0
  <2>2. PICK p : p = Half(q)
    OBVIOUS
  <2>3. p \in 0..N /\ l <= p /\ p < r
    BY <1>5, <2>1, <2>2, Halves DEF Half
  <2>4. ~(q[1] >= q[2])
    BY <1>5, <2>1
  <2>5. f[q] = IF <<x, out[p + 1]>> \in less THEN f[<<q[1], p>>] ELSE f[<<p + 1, q[2]>>]
    BY <1>2, <2>1, <2>2, <2>4 DEF Searching
  <2> QED
    BY <2>1, <2>3, <2>5
<1> DEFINE P == {d \in 0..N : \A l, r \in 0..N : l <= r /\ r - l <= d =>
                   /\ f[<<l, r>>] \in 0..N
                   /\ r >= 1 /\ <<x, out[1]>> \notin less => f[<<l, r>>] >= 1
                   /\ l = 0 /\ (\A i \in 1..N : <<x, out[i]>> \in less) => f[<<l, r>>] = 0}
<1>6. 0 \in P
  <2>1. ASSUME NEW l \in 0..N, NEW r \in 0..N, l <= r, r - l <= 0 PROVE f[<<l, r>>] = l /\ l = r
    BY <1>4, <2>1
  <2> QED
    BY <2>1
<1>7. ASSUME NEW d \in 0..(N - 1), d \in P PROVE d + 1 \in P
  <2>1. ASSUME NEW l \in 0..N, NEW r \in 0..N, l <= r, r - l <= d + 1
        PROVE  /\ f[<<l, r>>] \in 0..N
               /\ r >= 1 /\ <<x, out[1]>> \notin less => f[<<l, r>>] >= 1
               /\ l = 0 /\ (\A i \in 1..N : <<x, out[i]>> \in less) => f[<<l, r>>] = 0
    <3>1. CASE r - l <= d
      BY <1>7, <2>1, <3>1
    <3>2. CASE ~(r - l <= d)
      <4>1. l < r
        BY <3>2
      <4>2. PICK p \in 0..N : /\ l <= p /\ p < r
                              /\ f[<<l, r>>] = IF <<x, out[p + 1]>> \in less THEN f[<<l, p>>]
                                               ELSE f[<<p + 1, r>>]
        BY <1>5, <4>1
      <4>3. p + 1 \in 0..N /\ p + 1 \in 1..N /\ p - l <= d /\ r - (p + 1) <= d /\ p + 1 <= r
        BY <2>1, <4>2
      <4>4. CASE <<x, out[p + 1]>> \in less
        <5>1. f[<<l, r>>] = f[<<l, p>>]
          BY <4>2, <4>4
        <5>2. <<x, out[1]>> \notin less => p >= 1
          BY <4>4
        <5>3. /\ f[<<l, p>>] \in 0..N
              /\ p >= 1 /\ <<x, out[1]>> \notin less => f[<<l, p>>] >= 1
              /\ l = 0 /\ (\A i \in 1..N : <<x, out[i]>> \in less) => f[<<l, p>>] = 0
          BY <1>7, <4>2, <4>3
        <5> QED
          BY <5>1, <5>2, <5>3
      <4>5. CASE <<x, out[p + 1]>> \notin less
        <5>1. f[<<l, r>>] = f[<<p + 1, r>>]
          BY <4>2, <4>5
        <5>2. /\ f[<<p + 1, r>>] \in 0..N
              /\ r >= 1 /\ <<x, out[1]>> \notin less => f[<<p + 1, r>>] >= 1
          BY <1>7, <4>2, <4>3
        <5> QED
          BY <4>3, <4>5, <5>1, <5>2
      <4> QED
        BY <4>4, <4>5
    <3> QED
      BY <3>1, <3>2
  <2>2. d + 1 \in 0..N
    OBVIOUS
  <2> QED
    BY <2>1, <2>2
<1>8. \A d \in 0..N : d \in P
  <2> HIDE DEF P
  <2> QED
    BY <1>6, <1>7, UpToInduction
<1>9. N \in P /\ 0 <= N /\ N - 0 <= N
  BY <1>8
<1> QED
  BY <1>3, <1>9

\* q is r with x put behind its p first.
PutIn(q, r, p, x) ==
  /\ Len(q) = Len(r) + 1
  /\ \A i \in 1..Len(r) : i <= p => q[i] = r[i]
  /\ \A i \in 1..Len(r) : i > p => q[i + 1] = r[i]
  /\ q[p + 1] = x

\* q is a and b behind it.
Joined(q, a, b) ==
  /\ Len(q) = Len(a) + Len(b)
  /\ \A i \in 1..Len(a) : q[i] = a[i]
  /\ \A i \in 1..Len(b) : q[Len(a) + i] = b[i]

LEMMA ConcatParts ==
  ASSUME NEW S, NEW a \in Seq(S), NEW b \in Seq(S), NEW q, q = a \o b
  PROVE  q \in Seq(S) /\ Joined(q, a, b)
<1>0. PICK m, n : m = Len(a) /\ n = Len(b)
  OBVIOUS
<1>1. m = Len(a) /\ n = Len(b) /\ m \in Nat /\ n \in Nat
  BY <1>0
<1>2. q \in Seq(S)
  OBVIOUS
<1>3. Len(q) = m + n
  BY <1>1
<1>4. \A i \in 1..m : q[i] = a[i]
  BY <1>1
<1>5. \A i \in 1..n : q[m + i] = b[i]
  BY <1>1
<1> QED
  BY <1>1, <1>2, <1>3, <1>4, <1>5 DEF Joined

LEMMA InsertParts ==
  ASSUME NEW S, NEW r \in Seq(S), NEW p \in Nat, p <= Len(r), NEW x \in S,
         NEW q, q = InsertAt(r, p + 1, x)
  PROVE  q \in Seq(S) /\ PutIn(q, r, p, x)
<1>1. PICK a, b, k : a = SubSeq(r, 1, p) /\ b = SubSeq(r, p + 1, k) /\ k = Len(r)
  OBVIOUS
<1>2. k \in Nat /\ p <= k
  BY <1>1
<1>3. a \in Seq(S) /\ Len(a) = p /\ \A i \in 1..p : a[i] = r[i]
  BY <1>1, <1>2
<1>4. b \in Seq(S) /\ Len(b) = k - p /\ \A i \in 1..(k - p) : b[i] = r[p + i]
  <2>1. CASE p = k
    BY <1>1, <2>1
  <2>2. CASE p < k
    BY <1>1, <1>2, <2>2
  <2> QED
    BY <1>2, <2>1, <2>2
<1>5. PICK c : c = a \o <<x>>
  OBVIOUS
<1>6. q = c \o b
  <2>1. (p + 1) - 1 = p
    OBVIOUS
  <2> QED
    BY <1>1, <1>5, <2>1 DEF InsertAt
<1>7. c \in Seq(S) /\ Len(c) = p + 1 /\ (\A i \in 1..p : c[i] = a[i]) /\ c[p + 1] = x
  <2>1. PICK e : e = <<x>>
    OBVIOUS
  <2>2. e \in Seq(S) /\ Len(e) = 1 /\ e[1] = x
    BY <2>1
  <2>3. c = a \o e
    BY <1>5, <2>1
  <2> QED
    <3>1. c \in Seq(S) /\ Joined(c, a, e)
      BY <1>3, <2>2, <2>3, ConcatParts
    <3> QED
      BY <1>3, <2>2, <3>1 DEF Joined
<1>8. /\ q \in Seq(S) /\ Len(q) = k + 1
      /\ \A i \in 1..(p + 1) : q[i] = c[i]
      /\ \A i \in 1..(k - p) : q[p + 1 + i] = b[i]
  <2>1. PICK m, n : m = p + 1 /\ n = k - p
    OBVIOUS
  <2>2. m = Len(c) /\ n = Len(b)
    BY <1>4, <1>7, <2>1
  <2>3. /\ q \in Seq(S) /\ Len(q) = m + n
        /\ \A i \in 1..m : q[i] = c[i]
        /\ \A i \in 1..n : q[m + i] = b[i]
    <3>1. q \in Seq(S) /\ Joined(q, c, b)
      BY <1>4, <1>6, <1>7, ConcatParts
    <3> QED
      BY <2>2, <3>1 DEF Joined
  <2>4. m + n = k + 1
    BY <1>2, <2>1
  <2> QED
    BY <2>1, <2>3, <2>4
<1>9. \A i \in 1..k : i <= p => q[i] = r[i]
  BY <1>2, <1>3, <1>7, <1>8
<1>10. \A i \in 1..k : i > p => q[i + 1] = r[i]
  <2> SUFFICES ASSUME NEW i \in 1..k, i > p PROVE q[i + 1] = r[i]
    OBVIOUS
  <2>1. i - p \in 1..(k - p) /\ p + (i - p) = i /\ p + 1 + (i - p) = i + 1
    BY <1>2
  <2>2. q[i + 1] = b[i - p]
    BY <1>2, <1>8, <2>1
  <2> QED
    BY <1>4, <2>1, <2>2
<1>11. q[p + 1] = x
  BY <1>2, <1>7, <1>8
<1> QED
  BY <1>1, <1>8, <1>9, <1>10, <1>11 DEF PutIn

\* r has the first k elements of s, each once.
Shuffled(r, s, k) ==
  /\ Len(r) = k
  /\ \A i \in 1..k : \E j \in 1..k : r[i] = s[j]
  /\ \A j \in 1..k : \E i \in 1..k : r[i] = s[j]
  /\ \A i, j \in 1..k : r[i] = r[j] => i = j

\* x is less than the first k of s.
LessThanAll(x, s, k, less) == \A i \in 1..k : <<x, s[i]>> \in less

Distinct(s) == \A i, j \in 1..Len(s) : s[i] = s[j] => i = j

LEMMA InsertedShuffled ==
  ASSUME NEW S, NEW s \in Seq(S), Distinct(s),
         NEW k \in Nat, k < Len(s), NEW r \in Seq(S), Shuffled(r, s, k), NEW less
  PROVE  /\ Inserted(r, s[k + 1], less) \in Seq(S)
         /\ Shuffled(Inserted(r, s[k + 1], less), s, k + 1)
         /\ k >= 1 /\ <<s[k + 1], r[1]>> \notin less => Inserted(r, s[k + 1], less)[1] = r[1]
         /\ LessThanAll(s[k + 1], s, k, less) => Inserted(r, s[k + 1], less)[1] = s[k + 1]
<1>1. PICK x : x = s[k + 1]
  OBVIOUS
<1>2. PICK p : p = PlaceFor(r, x, less)
  OBVIOUS
<1>3. k \in Nat /\ k = Len(r) /\ x \in S
  BY <1>1 DEF Shuffled
<1>4. /\ p \in 0..k
      /\ k >= 1 /\ <<x, r[1]>> \notin less => p >= 1
      /\ (\A i \in 1..k : <<x, r[i]>> \in less) => p = 0
  BY <1>2, <1>3, PlaceFacts
<1>5. PICK q : q = InsertAt(r, p + 1, x)
  OBVIOUS
<1>6. q = Inserted(r, x, less)
  BY <1>2, <1>5 DEF Inserted
<1>7. /\ q \in Seq(S) /\ Len(q) = k + 1
      /\ \A i \in 1..p : q[i] = r[i]
      /\ q[p + 1] = x
      /\ \A i \in (p + 1)..k : q[i + 1] = r[i]
  <2>1. p \in Nat /\ p <= Len(r)
    BY <1>3, <1>4
  <2>2. q \in Seq(S) /\ PutIn(q, r, p, x)
    BY <1>3, <1>5, <2>1, InsertParts
  <2> QED
    BY <1>3, <1>4, <2>2 DEF PutIn
<1>8. \A i \in 1..(k + 1) : i \in 1..p \/ i = p + 1 \/ (i - 1 \in (p + 1)..k /\ q[i] = r[i - 1])
  <2> SUFFICES ASSUME NEW i \in 1..(k + 1), i > p + 1 PROVE i - 1 \in (p + 1)..k /\ q[i] = r[i - 1]
    BY <1>4
  <2>1. i - 1 \in (p + 1)..k /\ (i - 1) + 1 = i
    BY <1>4
  <2> QED
    BY <1>7, <2>1
<1>9. \A i \in 1..k : r[i] # x
  <2> SUFFICES ASSUME NEW i \in 1..k, r[i] = x PROVE FALSE
    OBVIOUS
  <2>1. PICK j \in 1..k : r[i] = s[j]
    BY DEF Shuffled
  <2>2. j \in 1..Len(s) /\ k + 1 \in 1..Len(s) /\ j # k + 1
    BY <1>3
  <2> QED
    BY <1>1, <2>1, <2>2 DEF Distinct
<1>10. Shuffled(q, s, k + 1)
  <2>1. \A i \in 1..(k + 1) : \E j \in 1..(k + 1) : q[i] = s[j]
    <3> SUFFICES ASSUME NEW i \in 1..(k + 1) PROVE \E j \in 1..(k + 1) : q[i] = s[j]
      OBVIOUS
    <3>1. CASE i = p + 1
      BY <1>1, <1>4, <1>7, <3>1
    <3>2. CASE i \in 1..p
      <4>1. q[i] = r[i] /\ i \in 1..k
        BY <1>4, <1>7, <3>2
      <4>2. PICK j \in 1..k : r[i] = s[j]
        BY <4>1 DEF Shuffled
      <4> QED
        BY <1>3, <4>1, <4>2
    <3>3. CASE i - 1 \in (p + 1)..k /\ q[i] = r[i - 1]
      <4>1. i - 1 \in 1..k
        BY <1>4, <3>3
      <4>2. PICK j \in 1..k : r[i - 1] = s[j]
        BY <4>1 DEF Shuffled
      <4> QED
        BY <1>3, <3>3, <4>1, <4>2
    <3> QED
      BY <1>8, <3>1, <3>2, <3>3
  <2>2. \A j \in 1..(k + 1) : \E i \in 1..(k + 1) : q[i] = s[j]
    <3> SUFFICES ASSUME NEW j \in 1..(k + 1) PROVE \E i \in 1..(k + 1) : q[i] = s[j]
      OBVIOUS
    <3>1. CASE j = k + 1
      <4>1. p + 1 \in 1..(k + 1)
        BY <1>3, <1>4
      <4> QED
        BY <1>1, <1>7, <3>1, <4>1
    <3>2. CASE j \in 1..k
      <4>1. PICK i \in 1..k : r[i] = s[j]
        BY <3>2 DEF Shuffled
      <4>2. CASE i <= p
        BY <1>3, <1>4, <1>7, <4>1, <4>2
      <4>3. CASE i > p
        <5>1. i \in (p + 1)..k /\ i + 1 \in 1..(k + 1)
          BY <1>3, <1>4, <4>3
        <5>2. q[i + 1] = s[j]
          BY <1>7, <4>1, <5>1
        <5> QED
          BY <5>1, <5>2
      <4> QED
        BY <1>3, <1>4, <4>2, <4>3
    <3> QED
      BY <1>3, <3>1, <3>2
  <2>3. \A i, j \in 1..(k + 1) : q[i] = q[j] => i = j
    <3> SUFFICES ASSUME NEW i \in 1..(k + 1), NEW j \in 1..(k + 1), q[i] = q[j] PROVE i = j
      OBVIOUS
    <3>1. \/ i = p + 1
          \/ i \in 1..k /\ i <= p /\ q[i] = r[i]
          \/ i - 1 \in 1..k /\ i - 1 > p /\ q[i] = r[i - 1]
      BY <1>3, <1>4, <1>7, <1>8
    <3>2. \/ j = p + 1
          \/ j \in 1..k /\ j <= p /\ q[j] = r[j]
          \/ j - 1 \in 1..k /\ j - 1 > p /\ q[j] = r[j - 1]
      BY <1>3, <1>4, <1>7, <1>8
    <3>3. \A u, v \in 1..k : r[u] = r[v] => u = v
      BY DEF Shuffled
    <3> QED
      BY <1>3, <1>4, <1>7, <1>9, <3>1, <3>2, <3>3
  <2> QED
    BY <1>7, <2>1, <2>2, <2>3 DEF Shuffled
<1>11. k >= 1 /\ <<x, r[1]>> \notin less => q[1] = r[1]
  BY <1>3, <1>4, <1>7
<1>12. LessThanAll(x, s, k, less) => q[1] = x
  <2> SUFFICES ASSUME LessThanAll(x, s, k, less) PROVE q[1] = x
    OBVIOUS
  <2>1. \A i \in 1..k : <<x, r[i]>> \in less
    BY DEF Shuffled, LessThanAll
  <2> QED
    BY <1>4, <1>7, <2>1
<1> QED
  BY <1>1, <1>6, <1>7, <1>10, <1>11, <1>12


\* t is less than whatever else is in s, and nothing is less than t.
LeastOf(t, s, less) ==
  \A i \in 1..Len(s) : s[i] # t => <<t, s[i]>> \in less /\ <<s[i], t>> \notin less

\* The run at the front of s, ascending or falling, turned round if it falls:
\* its elements, and the least of all in front if it is among them.
LEMMA RunFacts ==
  ASSUME NEW S, NEW s \in Seq(S), Len(s) >= 1, Distinct(s), NEW less,
         NEW run, run = Max(Runs(s, less)), NEW start, start = Start(s, less, run)
  PROVE  /\ run \in 1..Len(s)
         /\ start \in Seq(S) /\ Shuffled(start, s, run)
         /\ \A j \in 1..run : LeastOf(s[j], s, less) => start[1] = s[j]
<1>1. PICK N : N = Len(s)
  OBVIOUS
<1>2. N \in Nat /\ N >= 1 /\ \A i \in 1..N : s[i] \in S
  BY <1>1
<1>3. PICK R : R = Runs(s, less)
  OBVIOUS
<1>4. R \subseteq Int /\ R # {} /\ IsFiniteSet(R) /\ 1 \in R
  <2>1. IsFiniteSet(0..N) /\ R \subseteq 0..N
    BY <1>1, <1>2, <1>3, FS_Interval DEF Runs
  <2>2. 1 \in R
    BY <1>1, <1>2, <1>3 DEF Runs
  <2>3. IsFiniteSet(R)
    BY <2>1, FS_Subset
  <2>4. R \subseteq Int
    BY <2>1
  <2> QED
    BY <2>2, <2>3, <2>4
<1>5. run \in R /\ \A n \in R : n <= run
  BY <1>1, <1>3, <1>4, MaxInSet
<1>6. run \in 1..N /\ \A i \in 2..run : <<s[i], s[i - 1]>> \in less <=> Falls(s, less)
  <2>1. run >= 1
    BY <1>4, <1>5
  <2>2. run \in 0..N /\ \A i \in 2..run : <<s[i], s[i - 1]>> \in less <=> Falls(s, less)
    BY <1>1, <1>3, <1>5 DEF Runs
  <2> QED
    BY <1>2, <2>1, <2>2
<1>11. run \in 1..N /\ run \in Nat
  BY <1>2, <1>6
<1>7. PICK front : front = SubSeq(s, 1, run)
  OBVIOUS
<1>8. front \in Seq(S) /\ Len(front) = run /\ \A i \in 1..run : front[i] = s[i]
  BY <1>1, <1>2, <1>7, <1>11
<1>9. CASE ~Falls(s, less)
  <2>1. start = front
    BY <1>7, <1>9 DEF Start
  <2>2. Shuffled(start, s, run)
    BY <1>1, <1>6, <1>8, <2>1 DEF Shuffled, Distinct
  <2>3. ASSUME NEW j \in 1..run, LeastOf(s[j], s, less), j # 1 PROVE FALSE
    <3>1. j \in 2..run /\ j - 1 \in 1..N /\ j \in 1..N /\ j - 1 # j
      BY <1>2, <1>11, <2>3
    <3>2. <<s[j], s[j - 1]>> \notin less
      BY <1>6, <1>9, <3>1
    <3> QED
      BY <1>1, <2>3, <3>1, <3>2 DEF LeastOf, Distinct
  <2>4. \A j \in 1..run : LeastOf(s[j], s, less) => start[1] = s[j]
    BY <1>6, <1>8, <2>1, <2>3
  <2> QED
    BY <1>1, <1>6, <1>8, <2>1, <2>2, <2>4
<1>10. CASE Falls(s, less)
  <2>1. start = Reverse(front)
    BY <1>7, <1>10 DEF Start
  <2>2. start \in Seq(S) /\ Len(start) = run /\ \A i \in 1..run : start[i] = front[run - i + 1]
    <3>1. start = [i \in 1..run |-> front[(run - i) + 1]]
      BY <1>8, <2>1 DEF Reverse
    <3>2. \A i \in 1..run : (run - i) + 1 \in 1..run /\ front[(run - i) + 1] \in S
      BY <1>8, <1>11
    <3>3. start \in [1..run -> S]
      BY <3>1, <3>2
    <3>4. start \in Seq(S) /\ Len(start) = run
      BY <1>11, <3>3
    <3>5. \A i \in 1..run : start[i] = front[run - i + 1]
      BY <3>1
    <3> QED
      BY <3>4, <3>5
  <2>3. \A i \in 1..run : run - i + 1 \in 1..run /\ run - (run - i + 1) + 1 = i /\ start[i] = s[run - i + 1]
    BY <1>8, <1>11, <2>2
  <2>4. Shuffled(start, s, run)
    <3>1. \A i \in 1..run : \E j \in 1..run : start[i] = s[j]
      BY <2>3
    <3>2. \A j \in 1..run : \E i \in 1..run : start[i] = s[j]
      BY <2>3
    <3>3. ASSUME NEW i \in 1..run, NEW j \in 1..run, start[i] = start[j] PROVE i = j
      <4>1. run - i + 1 \in 1..N /\ run - j + 1 \in 1..N
        BY <1>2, <1>11
      <4>2. s[run - i + 1] = s[run - j + 1]
        BY <2>3, <3>3
      <4>3. run - i + 1 = run - j + 1
        BY <1>1, <4>1, <4>2 DEF Distinct
      <4> QED
        BY <1>6, <4>3
    <3> QED
      BY <2>2, <3>1, <3>2, <3>3 DEF Shuffled
  <2>5. ASSUME NEW j \in 1..run, LeastOf(s[j], s, less), j # run PROVE FALSE
    <3>1. j + 1 \in 2..run /\ (j + 1) - 1 = j /\ j + 1 \in 1..N /\ j \in 1..N /\ j + 1 # j
      BY <1>2, <1>11, <2>5
    <3>2. <<s[j + 1], s[j]>> \in less
      BY <1>6, <1>10, <3>1
    <3> QED
      BY <1>1, <2>5, <3>1, <3>2 DEF LeastOf, Distinct
  <2>6. start[1] = s[run]
    <3>1. 1 \in 1..run /\ run - 1 + 1 = run
      BY <1>11
    <3> QED
      BY <2>3, <3>1
  <2>7. \A j \in 1..run : LeastOf(s[j], s, less) => start[1] = s[j]
    BY <2>5, <2>6
  <2> QED
    BY <1>1, <1>6, <2>2, <2>4, <2>7
<1> QED
  BY <1>9, <1>10


\* Python's sorted returns each element once, whatever the comparison; and one
\* that is less than any other, and none less than it, comes first, though the
\* comparison of the others be no order at all.
LEMMA SortedFacts ==
  ASSUME NEW S, NEW s \in Seq(S), Distinct(s), NEW less,
         NEW out, out = PythonSorted(s, less), Len(s) >= 1
  PROVE  /\ out \in Seq(S) /\ Shuffled(out, s, Len(s))
         /\ \A j \in 1..Len(s) : LeastOf(s[j], s, less) => out[1] = s[j]
<1>1. PICK run : run = Max(Runs(s, less))
  OBVIOUS
<1>2. PICK base : base = Start(s, less, run)
  OBVIOUS
<1>3. /\ run \in 1..Len(s)
      /\ base \in Seq(S) /\ Shuffled(base, s, run)
      /\ \A j \in 1..run : LeastOf(s[j], s, less) => base[1] = s[j]
  BY <1>1, <1>2, RunFacts
<1>4. PICK rest : rest = SubSeq(s, run + 1, Len(s))
  OBVIOUS
<1>5. PICK n : n = Len(s) - run
  OBVIOUS
<1>6. n \in Nat /\ Len(s) \in Nat /\ run \in Nat /\ run >= 1 /\ run + n = Len(s)
  BY <1>3, <1>5
<1>7. DOMAIN rest = 1..n /\ \A k \in 1..n : rest[k] = s[run + k]
  <2>1. CASE n = 0
    BY <1>4, <1>6, <2>1
  <2>2. CASE n > 0
    BY <1>4, <1>6, <2>2
  <2> QED
    BY <1>6, <2>1, <2>2
<1>14. PICK h : InsertionThrough(h, n, base, rest, less)
  BY <1>6, <1>7, InsertionChain
<1>8. /\ h[0] = base
      /\ \A k \in 1..n : h[k] = Inserted(h[k - 1], rest[k], less)
      /\ AllInserted(base, rest, less) = h[n]
  BY <1>14 DEF InsertionThrough
<1>9. out = h[n]
  BY <1>1, <1>2, <1>4, <1>8 DEF PythonSorted
<1> DEFINE P == {k \in 0..n : /\ h[k] \in Seq(S) /\ Shuffled(h[k], s, run + k)
                              /\ \A j \in 1..(run + k) : LeastOf(s[j], s, less) => h[k][1] = s[j]}
<1>10. 0 \in P
  <2>1. run + 0 = run /\ 0 \in 0..n
    BY <1>6
  <2> QED
    BY <1>3, <1>8, <2>1
<1>11. ASSUME NEW k \in 0..(n - 1), k \in P PROVE k + 1 \in P
  <2>1. PICK K, r, q : K = run + k /\ r = h[k] /\ q = h[k + 1]
    OBVIOUS
  <2>2. /\ K \in Nat /\ K < Len(s) /\ K >= 1 /\ run + (k + 1) = K + 1 /\ k + 1 \in 1..n /\ k + 1 \in 0..n
        /\ (k + 1) - 1 = k
    BY <1>6, <2>1
  <2>3. /\ r \in Seq(S) /\ Shuffled(r, s, K)
        /\ \A j \in 1..K : LeastOf(s[j], s, less) => r[1] = s[j]
    BY <1>11, <2>1
  <2>4. q = Inserted(r, s[K + 1], less)
    BY <1>7, <1>8, <2>1, <2>2
  <2>5. /\ q \in Seq(S) /\ Shuffled(q, s, K + 1)
        /\ K >= 1 /\ <<s[K + 1], r[1]>> \notin less => q[1] = r[1]
        /\ LessThanAll(s[K + 1], s, K, less) => q[1] = s[K + 1]
    BY <2>2, <2>3, <2>4, InsertedShuffled
  <2>6. ASSUME NEW j \in 1..(K + 1), LeastOf(s[j], s, less) PROVE q[1] = s[j]
    <3>1. CASE j = K + 1
      <4>1. ASSUME NEW i \in 1..K PROVE <<s[K + 1], s[i]>> \in less
        <5>1. i \in 1..Len(s) /\ j \in 1..Len(s) /\ i # j
          BY <2>2, <3>1
        <5>2. s[i] # s[j]
          BY <5>1 DEF Distinct
        <5> QED
          BY <2>6, <3>1, <5>1, <5>2 DEF LeastOf
      <4> QED
        BY <2>5, <3>1, <4>1 DEF LessThanAll
    <3>2. CASE j \in 1..K
      <4>1. r[1] = s[j]
        BY <2>3, <2>6, <3>2
      <4>2. K + 1 \in 1..Len(s) /\ j \in 1..Len(s) /\ j # K + 1
        BY <2>2, <3>2
      <4>3. s[K + 1] # s[j]
        BY <4>2 DEF Distinct
      <4>4. <<s[K + 1], s[j]>> \notin less
        BY <2>6, <4>2, <4>3 DEF LeastOf
      <4> QED
        BY <2>2, <2>5, <4>1, <4>4
    <3> QED
      BY <2>2, <3>1, <3>2
  <2> QED
    BY <2>1, <2>2, <2>5, <2>6
<1>12. \A k \in 0..n : k \in P
  <2> HIDE DEF P
  <2> QED
    BY <1>6, <1>10, <1>11, UpToInduction
<1>13. n \in P
  <2> HIDE DEF P
  <2> QED
    BY <1>6, <1>12
<1> QED
  BY <1>6, <1>9, <1>13

LEMMA MinOfTwo ==
  ASSUME NEW a \in Int, NEW b \in Int
  PROVE  Min({a, b}) = IF a <= b THEN a ELSE b
<1>1. \A x \in {a, b} : (\A y \in {a, b} : x <= y) <=> x = (IF a <= b THEN a ELSE b)
  OBVIOUS
<1>2. PICK m \in {a, b} : m = IF a <= b THEN a ELSE b
  OBVIOUS
<1>3. \A x \in {a, b} : (\A y \in {a, b} : x <= y) <=> x = m
  BY <1>1, <1>2
<1> QED
  BY <1>2, <1>3 DEF Min

LEMMA MaxOfTwo ==
  ASSUME NEW a \in Int, NEW b \in Int
  PROVE  Max({a, b}) = IF a >= b THEN a ELSE b
<1>1. \A x \in {a, b} : (\A y \in {a, b} : x >= y) <=> x = (IF a >= b THEN a ELSE b)
  OBVIOUS
<1>2. PICK m \in {a, b} : m = IF a >= b THEN a ELSE b
  OBVIOUS
<1>3. \A x \in {a, b} : (\A y \in {a, b} : x >= y) <=> x = m
  BY <1>1, <1>2
<1> QED
  BY <1>2, <1>3 DEF Max

LEMMA SortedEmpty ==
  ASSUME NEW s, s = <<>>, NEW less
  PROVE  PythonSorted(s, less) = <<>>
<1>1. Len(s) = 0
  OBVIOUS
<1>2. PICK run : run = Max(Runs(s, less))
  OBVIOUS
<1>3. Runs(s, less) = {0}
  <2>1. \A n \in 0..0 : \A i \in 2..n : <<s[i], s[i - 1]>> \in less <=> Falls(s, less)
    OBVIOUS
  <2>2. 0..0 = {0}
    OBVIOUS
  <2> QED
    BY <1>1, <2>1, <2>2 DEF Runs
<1>4. run = 0
  BY <1>2, <1>3 DEF Max
<1>5. PICK base : base = Start(s, less, run)
  OBVIOUS
<1>6. base = <<>>
  <2>1. ~Falls(s, less)
    BY <1>1 DEF Falls
  <2> QED
    BY <1>4, <1>5, <2>1 DEF Start
<1>7. PICK rest : rest = SubSeq(s, run + 1, Len(s))
  OBVIOUS
<1>8. DOMAIN rest = 1..0
  BY <1>1, <1>4, <1>7
<1>9. PICK n : n = 0
  OBVIOUS
<1>10. PICK h : InsertionThrough(h, n, base, rest, less)
  BY <1>8, <1>9, InsertionChain
<1>11. AllInserted(base, rest, less) = base
  BY <1>9, <1>10 DEF InsertionThrough
<1> QED
  BY <1>2, <1>5, <1>6, <1>7, <1>11 DEF PythonSorted

\* The last m of a sequence.
LastOf(s, m) == SubSeq(s, Max({0, Len(s) - m}) + 1, Len(s))

LEMMA LastOnes ==
  ASSUME NEW V, NEW s \in Seq(V), NEW m \in Nat, NEW r, r = LastOf(s, m)
  PROVE  r \in Seq(V) /\ Len(r) = IF Len(s) <= m THEN Len(s) ELSE m
<1>1. PICK n : n = Len(s)
  OBVIOUS
<1>2. n \in Nat
  BY <1>1
<1>3. PICK a : a = Max({0, n - m})
  OBVIOUS
<1>4. a = IF n <= m THEN 0 ELSE n - m
  BY <1>2, <1>3, MaxOfTwo
<1>5. r = SubSeq(s, a + 1, n)
  BY <1>1, <1>3 DEF LastOf
<1>6. CASE n = 0 \/ m = 0
  <2>1. r = <<>>
    BY <1>2, <1>4, <1>5, <1>6
  <2> QED
    BY <1>1, <1>2, <1>6, <2>1
<1>7. CASE n > 0 /\ m > 0
  <2>1. a + 1 \in 1..n /\ a \in Nat
    BY <1>2, <1>4, <1>7
  <2>2. r \in Seq(V) /\ Len(r) = n - a
    BY <1>1, <1>2, <1>5, <2>1
  <2> QED
    BY <1>1, <1>2, <1>4, <2>2
<1> QED
  BY <1>2, <1>6, <1>7

\* Two sequences have the same first n.
SameTo(p, q, n) == n <= Len(p) /\ n <= Len(q) /\ \A i \in 1..n : p[i] = q[i]

LEMMA SameParts ==
  ASSUME NEW S, NEW p \in Seq(S), NEW q \in Seq(S), NEW n \in Nat, SameTo(p, q, n), NEW a \in Nat, a >= 1
  PROVE  SubSeq(p, a, n) = SubSeq(q, a, n)
<1>1. PICK u, v : u = SubSeq(p, a, n) /\ v = SubSeq(q, a, n)
  OBVIOUS
<1>2. CASE a > n
  <2>1. u = <<>> /\ v = <<>>
    BY <1>1, <1>2
  <2> QED
    BY <1>1, <2>1
<1>3. CASE a <= n
  <2>1. n <= Len(p) /\ n <= Len(q) /\ \A i \in 1..n : p[i] = q[i]
    BY DEF SameTo
  <2>2. u \in Seq(S) /\ Len(u) = n - a + 1 /\ \A i \in 1..(n - a + 1) : u[i] = p[a + i - 1]
    BY <1>1, <1>3, <2>1
  <2>3. v \in Seq(S) /\ Len(v) = n - a + 1 /\ \A i \in 1..(n - a + 1) : v[i] = q[a + i - 1]
    BY <1>1, <1>3, <2>1
  <2>4. \A i \in 1..(n - a + 1) : a + i - 1 \in 1..n
    BY <1>3
  <2>5. \A i \in 1..(n - a + 1) : u[i] = v[i]
    BY <2>1, <2>2, <2>3, <2>4
  <2>6. u = v
    BY <2>2, <2>3, <2>5, SeqEqual
  <2> QED
    BY <1>1, <2>6
<1> QED
  BY <1>2, <1>3

LEMMA PrefixFacts ==
  ASSUME NEW S, NEW p \in Seq(S), NEW q \in Seq(S)
  PROVE  IsPrefix(p, q) <=> SameTo(p, q, Len(p))
<1>1. PICK n : n = Len(p)
  OBVIOUS
<1>2. n \in Nat
  BY <1>1
<1>3. ASSUME SameTo(p, q, n) PROVE IsPrefix(p, q)
  <2>1. SubSeq(p, 1, n) = SubSeq(q, 1, n)
    BY <1>2, <1>3, SameParts
  <2> QED
    BY <1>1, <1>3, <2>1 DEF IsPrefix, SameTo
<1>4. ASSUME IsPrefix(p, q) PROVE SameTo(p, q, n)
  <2>1. n <= Len(q) /\ SubSeq(p, 1, n) = SubSeq(q, 1, n)
    BY <1>1, <1>4 DEF IsPrefix
  <2>2. \A i \in 1..n : SubSeq(p, 1, n)[i] = p[i] /\ SubSeq(q, 1, n)[i] = q[i]
    BY <1>1, <1>2, <2>1
  <2> QED
    BY <1>1, <1>2, <2>1, <2>2 DEF SameTo
<1> QED
  BY <1>1, <1>3, <1>4

Lacks(s, x) == \A i \in 1..Len(s) : s[i] # x

\* r is s and x behind it.
Appended(r, s, x) == Len(r) = Len(s) + 1 /\ r[Len(s) + 1] = x /\ \A i \in 1..Len(s) : r[i] = s[i]

LEMMA AppendDistinct ==
  ASSUME NEW S, NEW s \in Seq(S), Distinct(s), NEW x \in S, Lacks(s, x), NEW r, r = Append(s, x)
  PROVE  r \in Seq(S) /\ Distinct(r) /\ Appended(r, s, x)
<1>1. PICK n : n = Len(s)
  OBVIOUS
<1>2. n \in Nat /\ \A i \in 1..(n + 1) : i \in 1..n \/ i = n + 1
  BY <1>1
<1>3. r \in Seq(S) /\ Len(r) = n + 1 /\ r[n + 1] = x /\ \A i \in 1..n : r[i] = s[i]
  BY <1>1
<1>4. \A i, j \in 1..n : s[i] = s[j] => i = j
  BY <1>1 DEF Distinct
<1>5. \A i \in 1..n : s[i] # x
  BY <1>1 DEF Lacks
<1>6. \A i, j \in 1..(n + 1) : r[i] = r[j] => i = j
  BY <1>2, <1>3, <1>4, <1>5
<1> QED
  BY <1>1, <1>3, <1>6 DEF Distinct, Appended

LEMMA JoinedDistinct ==
  ASSUME NEW S, NEW a \in Seq(S), NEW b \in Seq(S), Distinct(a), Distinct(b),
         \A i \in 1..Len(a) : \A j \in 1..Len(b) : a[i] # b[j], NEW q, q = a \o b
  PROVE  Distinct(q)
<1>1. PICK m, n : m = Len(a) /\ n = Len(b)
  OBVIOUS
<1>2. m \in Nat /\ n \in Nat
  BY <1>1
<1>3. q \in Seq(S) /\ Joined(q, a, b)
  BY ConcatParts
<1>4. /\ Len(q) = m + n
      /\ \A i \in 1..m : q[i] = a[i]
      /\ \A i \in 1..n : q[m + i] = b[i]
  BY <1>1, <1>3 DEF Joined
<1>5. \A i \in 1..(m + n) : i \in 1..m \/ (i - m \in 1..n /\ q[i] = b[i - m])
  <2>1. ASSUME NEW i \in 1..(m + n), i \notin 1..m PROVE i - m \in 1..n /\ q[i] = b[i - m]
    <3>1. i - m \in 1..n /\ m + (i - m) = i
      BY <1>2, <2>1
    <3> QED
      BY <1>4, <3>1
  <2> QED
    BY <2>1
<1>6. /\ \A i, j \in 1..m : a[i] = a[j] => i = j
      /\ \A i, j \in 1..n : b[i] = b[j] => i = j
      /\ \A i \in 1..m : \A j \in 1..n : a[i] # b[j]
  BY <1>1 DEF Distinct
<1>7. ASSUME NEW i \in 1..(m + n), NEW j \in 1..(m + n), q[i] = q[j] PROVE i = j
  <2>1. CASE i \in 1..m /\ j \in 1..m
    BY <1>4, <1>6, <1>7, <2>1
  <2>2. CASE i \in 1..m /\ j \notin 1..m
    BY <1>4, <1>5, <1>6, <1>7, <2>2
  <2>3. CASE i \notin 1..m /\ j \in 1..m
    <3>1. i - m \in 1..n /\ q[i] = b[i - m] /\ q[j] = a[j]
      BY <1>4, <1>5, <2>3
    <3>2. a[j] # b[i - m]
      BY <1>6, <2>3, <3>1
    <3> QED
      BY <1>7, <3>1, <3>2
  <2>4. CASE i \notin 1..m /\ j \notin 1..m
    <3>1. i - m = j - m
      BY <1>5, <1>6, <1>7, <2>4
    <3> QED
      BY <1>2, <3>1
  <2> QED
    BY <2>1, <2>2, <2>3, <2>4
<1> QED
  BY <1>4, <1>7 DEF Distinct

\* There are as many elements as places in a sequence that has none twice.
LEMMA DistinctCounted ==
  ASSUME NEW S, NEW s \in Seq(S), Distinct(s)
  PROVE  Cardinality(ToSet(s)) = Len(s)
<1>1. PICK n, I, T : n = Len(s) /\ I = 1..n /\ T = ToSet(s)
  OBVIOUS
<1>2. n \in Nat /\ DOMAIN s = I /\ s = [i \in I |-> s[i]]
  BY <1>1
<1>3. \A i \in I : s[i] \in T
  BY <1>1, <1>2 DEF ToSet
<1>4. \A x \in T : \E i \in I : s[i] = x
  BY <1>1, <1>2 DEF ToSet
<1>5. \A i, j \in I : s[i] = s[j] => i = j
  BY <1>1 DEF Distinct
<1>6. s \in Bijection(I, T)
  <2>1. s \in [I -> T]
    BY <1>2, <1>3
  <2>2. s \in Injection(I, T)
    BY <1>5, <2>1 DEF Injection, IsInjective
  <2>3. s \in Surjection(I, T)
    BY <1>4, <2>1 DEF Surjection
  <2> QED
    BY <2>2, <2>3 DEF Bijection
<1>7. IsFiniteSet(I) /\ Cardinality(I) = n
  <2>1. IsFiniteSet(1..n) /\ Cardinality(1..n) = IF 1 > n THEN 0 ELSE n - 1 + 1
    BY <1>2, FS_Interval
  <2> QED
    BY <1>1, <1>2, <2>1
<1>8. Cardinality(T) = Cardinality(I)
  <2>1. ExistsBijection(I, T)
    BY <1>6 DEF ExistsBijection
  <2> QED
    BY <1>7, <2>1, FS_Bijection
<1> QED
  BY <1>1, <1>7, <1>8

\* Two sequences have no element in common.
Disjoint(a, b) == \A i \in 1..Len(a) : \A j \in 1..Len(b) : a[i] # b[j]

\* The elements of a are among the first k of s.
Among(a, s, k) == \A i \in 1..Len(a) : \E j \in 1..k : a[i] = s[j]

\* a and b hold different elements of s, none but of its first k.
Split(a, b, S, s, k) ==
  /\ a \in Seq(S) /\ Distinct(a) /\ Among(a, s, k)
  /\ b \in Seq(S) /\ Distinct(b) /\ Among(b, s, k)
  /\ Disjoint(a, b)

LEMMA SplitTurned ==
  ASSUME NEW a, NEW b, NEW S, NEW s, NEW k, Split(a, b, S, s, k)
  PROVE  Split(b, a, S, s, k)
BY DEF Split, Disjoint

LEMMA SplitMore ==
  ASSUME NEW a, NEW b, NEW S, NEW s, NEW k \in Nat, Split(a, b, S, s, k)
  PROVE  Split(a, b, S, s, k + 1)
<1>1. \A j \in 1..k : j \in 1..(k + 1)
  OBVIOUS
<1>2. Among(a, s, k + 1) /\ Among(b, s, k + 1)
  BY <1>1 DEF Split, Among
<1> QED
  BY <1>2 DEF Split

\* x is the next of s behind its first k.
Following(x, S, s, k) == s \in Seq(S) /\ Distinct(s) /\ k \in Nat /\ k < Len(s) /\ x = s[k + 1]

LongerBy(r, a, m) == Len(r) = Len(a) + m

LEMMA OneMore ==
  ASSUME NEW S, NEW s, NEW k, NEW a, NEW b, Split(a, b, S, s, k),
         NEW x, Following(x, S, s, k), NEW r, r = Append(a, x)
  PROVE  Split(r, b, S, s, k + 1) /\ LongerBy(r, a, 1)
<1> s \in Seq(S) /\ Distinct(s) /\ k \in Nat /\ k < Len(s) /\ x = s[k + 1]
  BY DEF Following
<1>0. /\ a \in Seq(S) /\ Distinct(a) /\ Among(a, s, k)
      /\ b \in Seq(S) /\ Distinct(b) /\ Among(b, s, k)
      /\ Disjoint(a, b)
  BY DEF Split
<1>1. PICK m, n, l : m = Len(a) /\ n = Len(b) /\ l = k + 1
  OBVIOUS
<1>2. x \in S /\ m \in Nat /\ n \in Nat /\ l \in 1..Len(s) /\ (\A j \in 1..k : j \in 1..Len(s) /\ j # l /\ j \in 1..l)
  BY <1>0, <1>1
<1>3. \A j \in 1..k : s[j] # x
  BY <1>1, <1>2 DEF Distinct
<1>4. \A i \in 1..m : a[i] # x
  BY <1>0, <1>1, <1>3 DEF Among
<1>5. \A i \in 1..n : b[i] # x
  BY <1>0, <1>1, <1>3 DEF Among
<1>6. /\ r \in Seq(S) /\ Distinct(r) /\ Len(r) = m + 1 /\ r[m + 1] = x
      /\ \A i \in 1..m : r[i] = a[i]
  <2>1. x \in S /\ r = Append(a, x)
    BY <1>1, <1>2
  <2>2. Lacks(a, x)
    BY <1>1, <1>4 DEF Lacks
  <2>3. r \in Seq(S) /\ Distinct(r) /\ Appended(r, a, x)
    BY <1>0, <2>1, <2>2, AppendDistinct
  <2> QED
    BY <1>1, <2>3 DEF Appended
<1>7. \A i \in 1..(m + 1) : i \in 1..m \/ i = m + 1
  BY <1>2
<1>8. \A i \in 1..(m + 1) : \A j \in 1..n : r[i] # b[j]
  BY <1>0, <1>1, <1>5, <1>6, <1>7 DEF Disjoint
<1>9. \A i \in 1..(m + 1) : \E j \in 1..l : r[i] = s[j]
  <2> SUFFICES ASSUME NEW i \in 1..(m + 1) PROVE \E j \in 1..l : r[i] = s[j]
    OBVIOUS
  <2>1. CASE i \in 1..m
    BY <1>0, <1>1, <1>2, <1>6, <2>1 DEF Among
  <2>2. CASE i = m + 1
    <3>1. l \in 1..l
      BY <1>2
    <3> QED
      BY <1>1, <1>6, <2>2, <3>1
  <2> QED
    BY <1>7, <2>1, <2>2
<1>10. \A i \in 1..n : \E j \in 1..l : b[i] = s[j]
  BY <1>0, <1>1, <1>2 DEF Among
<1>11. Disjoint(r, b)
  BY <1>1, <1>6, <1>8 DEF Disjoint
<1>12. Among(r, s, k + 1) /\ Among(b, s, k + 1)
  BY <1>1, <1>6, <1>9, <1>10 DEF Among
<1>13. Split(r, b, S, s, k + 1)
  BY <1>0, <1>6, <1>11, <1>12 DEF Split
<1> QED
  BY <1>1, <1>6, <1>13 DEF LongerBy

LEMMA FilledUp ==
  ASSUME NEW S, NEW s, NEW k, NEW a, NEW b, Split(a, b, S, s, k),
         NEW m \in 0..Len(b), NEW r, r = a \o SubSeq(b, 1, m)
  PROVE  r \in Seq(S) /\ Distinct(r) /\ LongerBy(r, a, m)
<1>0. a \in Seq(S) /\ b \in Seq(S) /\ Distinct(a) /\ Distinct(b) /\ Disjoint(a, b) /\ m \in Nat /\ m <= Len(b)
  BY DEF Split
<1>1. PICK c : c = SubSeq(b, 1, m)
  OBVIOUS
<1>2. c \in Seq(S) /\ Len(c) = m /\ \A i \in 1..m : c[i] = b[i] /\ i \in 1..Len(b)
  BY <1>0, <1>1
<1>3. Distinct(c)
  BY <1>0, <1>2 DEF Distinct
<1>4. \A i \in 1..Len(a) : \A j \in 1..Len(c) : a[i] # c[j]
  BY <1>0, <1>2 DEF Disjoint
<1>5. r = a \o c
  BY <1>1
<1>6. Distinct(r)
  BY <1>0, <1>2, <1>3, <1>4, <1>5, JoinedDistinct
<1>7. r \in Seq(S) /\ Len(r) = Len(a) + m
  BY <1>0, <1>2, <1>5
<1> QED
  BY <1>6, <1>7 DEF LongerBy

=============================================================================
