---------------------------- MODULE SetInduction ----------------------------
(***************************************************************************)
(* Induction over numbers and finite sets, what recursive functions and    *)
(* folds are, and sums.  The induction is stated of sets, and so are the   *)
(* recursive definitions: they are cited with the set of all that have the *)
(* property, and with the step as a function.                              *)
(***************************************************************************)
EXTENDS Integers, FiniteSetsExt, FiniteSetTheorems, WellFoundedInduction, TLAPS

\* What the folds of the community modules take next.
AnyOf(d) == CHOOSE x \in d : TRUE

(***************************************************************************)
(* Induction.                                                              *)
(***************************************************************************)

\* Induction over the natural numbers.
LEMMA CountedUp ==
  ASSUME NEW A, 0 \in A, \A n \in Nat : n \in A => n + 1 \in A
  PROVE  Nat \subseteq A
<1> SUFFICES ASSUME NEW n0 \in Nat, n0 \notin A PROVE FALSE
  OBVIOUS
<1> DEFINE W == Nat \ A
           T == {0 .. n : n \in W}
<1>1. IsWellFoundedOn(StrictSubsetOrdering(Nat), FiniteSubsetsOf(Nat))
  BY FS_StrictSubsetOrderingWellFounded
<1>2. T \subseteq FiniteSubsetsOf(Nat)
  <2> SUFFICES ASSUME NEW n \in W PROVE 0 .. n \in FiniteSubsetsOf(Nat)
    OBVIOUS
  <2>1. IsFiniteSet(0 .. n)
    BY FS_Interval
  <2>2. 0 .. n \subseteq Nat
    OBVIOUS
  <2> QED BY <2>1, <2>2 DEF FiniteSubsetsOf
<1>3. T # {}
  OBVIOUS
<1> HIDE DEF T
<1>4. PICK x \in T : \A y \in T : <<y, x>> \notin StrictSubsetOrdering(Nat)
  BY <1>1, <1>2, <1>3, WFMin
<1>5. PICK m \in W : x = 0 .. m
  BY DEF T
<1>6. m # 0 /\ m - 1 \in Nat
  OBVIOUS
<1>7. CASE m - 1 \in A
  <2>1. (m - 1) + 1 = m
    OBVIOUS
  <2> QED BY <1>6, <1>7, <2>1
<1>8. CASE m - 1 \notin A
  <2>1. 0 .. (m - 1) \in T
    BY <1>6, <1>8 DEF T
  <2>2. 0 .. (m - 1) \subseteq 0 .. m /\ 0 .. (m - 1) # 0 .. m
    <3>1. m \in 0 .. m /\ m \notin 0 .. (m - 1)
      OBVIOUS
    <3> QED BY <3>1
  <2>3. 0 .. (m - 1) \in SUBSET Nat /\ 0 .. m \in SUBSET Nat
    OBVIOUS
  <2>4. <<0 .. (m - 1), 0 .. m>> \in StrictSubsetOrdering(Nat)
    BY <2>2, <2>3 DEF StrictSubsetOrdering
  <2> QED BY <1>4, <1>5, <2>1, <2>4
<1> QED BY <1>7, <1>8

\* Induction over the subsets of a finite set.
LEMMA Shrinking ==
  ASSUME NEW S, IsFiniteSet(S), NEW A,
         \A T \in SUBSET S : (\A U \in SUBSET T : U # T => U \in A) => T \in A
  PROVE  SUBSET S \subseteq A
<1> DEFINE W == (SUBSET S) \ A
<1> SUFFICES ASSUME W # {} PROVE FALSE
  OBVIOUS
<1>1. IsWellFoundedOn(StrictSubsetOrdering(S), FiniteSubsetsOf(S))
  BY FS_StrictSubsetOrderingWellFounded
<1>2. W \subseteq FiniteSubsetsOf(S)
  BY FS_FiniteSubsetsOfFinite
<1> HIDE DEF W
<1>3. PICK T \in W : \A U \in W : <<U, T>> \notin StrictSubsetOrdering(S)
  BY <1>1, <1>2, WFMin
<1>4. ASSUME NEW U \in SUBSET T, U # T PROVE U \in A
  <2>1. <<U, T>> \in StrictSubsetOrdering(S)
    BY <1>4 DEF StrictSubsetOrdering, W
  <2> QED BY <1>3, <2>1 DEF W
<1> QED BY <1>4 DEF W

\* A holds what is a subset of S, if it holds all that is smaller.
Shrinks(S, A) == \A T \in SUBSET S : (\A U \in SUBSET T : U # T => U \in A) => T \in A

LEMMA AllShrunk ==
  ASSUME NEW S, IsFiniteSet(S), NEW A, Shrinks(S, A)
  PROVE  S \in A
  BY Shrinking DEF Shrinks

(***************************************************************************)
(* Recursive functions.                                                    *)
(***************************************************************************)

\* g has the first n results of doing F over and over again, from x on.
Iterated(g, F, x, n) == g[0] = x /\ \A k \in 1 .. n : g[k] = F[g[k - 1]]

\* They exist.
LEMMA Iterates ==
  ASSUME NEW D, NEW F \in [D -> D], NEW x \in D, NEW n \in Nat
  PROVE  \E g \in [0 .. n -> D] : Iterated(g, F, x, n)
<1> DEFINE A == {m \in Nat : \E g \in [0 .. m -> D] : g[0] = x /\ \A k \in 1 .. m : g[k] = F[g[k - 1]]}
<1>1. 0 \in A
  <2>1. [i \in 0 .. 0 |-> x] \in [0 .. 0 -> D] /\ [i \in 0 .. 0 |-> x][0] = x
    OBVIOUS
  <2>2. 1 .. 0 = {}
    OBVIOUS
  <2> QED BY <2>1, <2>2
<1>2. ASSUME NEW m \in Nat, m \in A PROVE m + 1 \in A
  <2>1. PICK g \in [0 .. m -> D] : g[0] = x /\ \A k \in 1 .. m : g[k] = F[g[k - 1]]
    BY <1>2
  <2> DEFINE h == [i \in 0 .. (m + 1) |-> IF i = m + 1 THEN F[g[m]] ELSE g[i]]
  <2>2. h \in [0 .. (m + 1) -> D]
    <3>1. \A i \in 0 .. (m + 1) : i # m + 1 => i \in 0 .. m
      OBVIOUS
    <3> QED BY <3>1
  <2>3. h[0] = x
    BY <2>1
  <2>4. \A k \in 1 .. (m + 1) : h[k] = F[h[k - 1]]
    <3> SUFFICES ASSUME NEW k \in 1 .. (m + 1) PROVE h[k] = F[h[k - 1]]
      OBVIOUS
    <3>1. CASE k = m + 1
      BY <3>1
    <3>2. CASE k # m + 1
      <4>1. k \in 1 .. m /\ k \in 0 .. (m + 1) /\ k - 1 \in 0 .. (m + 1) /\ k - 1 # m + 1
        BY <3>2
      <4> QED BY <2>1, <3>2, <4>1
    <3> QED BY <3>1, <3>2
  <2> QED BY <2>2, <2>3, <2>4
<1> HIDE DEF A
<1>3. Nat \subseteq A
  BY <1>1, <1>2, CountedUp
<1> QED BY <1>3 DEF A, Iterated

\* g is the fold of the subsets of S with F, which takes C[d] of d.
FoldedBy(g, S, F, base, C) ==
  \A d \in SUBSET S : g[d] = IF d = {} THEN base ELSE F[<<C[d], g[d \ {C[d]}]>>]

\* A fold over a finite set exists, whatever is taken next.
LEMMA FoldByExists ==
  ASSUME NEW S, IsFiniteSet(S), NEW D, NEW F \in [S \X D -> D], NEW base \in D,
         NEW C, \A d \in SUBSET S : d # {} => C[d] \in d
  PROVE  \E g \in [SUBSET S -> D] : FoldedBy(g, S, F, base, C)
<1> DEFINE Right(g, d) == g[d] = IF d = {} THEN base ELSE F[<<C[d], g[d \ {C[d]}]>>]
           A == {n \in Nat : \E g \in [SUBSET S -> D] : \A d \in SUBSET S : Cardinality(d) <= n => Right(g, d)}
<1>1. \A d \in SUBSET S : IsFiniteSet(d) /\ Cardinality(d) \in Nat
  BY FS_Subset, FS_CardinalityType
<1>2. \A d \in SUBSET S : d # {} => C[d] \in d
  OBVIOUS
<1>3. \A d \in SUBSET S : d # {} => d \ {C[d]} \in SUBSET S /\ Cardinality(d \ {C[d]}) = Cardinality(d) - 1
  BY <1>1, <1>2, FS_RemoveElement
<1>4. 0 \in A
  <2> DEFINE g == [d \in SUBSET S |-> base]
  <2>1. \A d \in SUBSET S : Cardinality(d) <= 0 => d = {}
    BY <1>1, FS_EmptySet
  <2>2. g \in [SUBSET S -> D] /\ \A d \in SUBSET S : g[d] = base
    OBVIOUS
  <2> HIDE DEF g
  <2>3. \A d \in SUBSET S : Cardinality(d) <= 0 => Right(g, d)
    BY <2>1, <2>2
  <2> QED BY <2>2, <2>3
<1>5. ASSUME NEW n \in Nat, n \in A PROVE n + 1 \in A
  <2>1. PICK g \in [SUBSET S -> D] : \A d \in SUBSET S : Cardinality(d) <= n => Right(g, d)
    BY <1>5
  <2> DEFINE h == [d \in SUBSET S |-> IF d = {} THEN base ELSE F[<<C[d], g[d \ {C[d]}]>>]]
  <2>2. h \in [SUBSET S -> D]
    <3> SUFFICES ASSUME NEW d \in SUBSET S, d # {} PROVE F[<<C[d], g[d \ {C[d]}]>>] \in D
      OBVIOUS
    <3>1. C[d] \in S /\ g[d \ {C[d]}] \in D
      BY <1>2, <1>3
    <3> QED BY <3>1
  <2>3. \A d \in SUBSET S : h[d] = IF d = {} THEN base ELSE F[<<C[d], g[d \ {C[d]}]>>]
    OBVIOUS
  <2> HIDE DEF h
  <2>4. \A d \in SUBSET S : Cardinality(d) <= n => h[d] = g[d]
    BY <2>1, <2>3
  <2>5. ASSUME NEW d \in SUBSET S, Cardinality(d) <= n + 1 PROVE Right(h, d)
    <3>1. CASE d = {}
      BY <2>3, <3>1
    <3>2. CASE d # {}
      <4>1. h[d \ {C[d]}] = g[d \ {C[d]}]
        BY <1>1, <1>3, <2>4, <2>5, <3>2
      <4> QED BY <2>3, <3>2, <4>1
    <3> QED BY <3>1, <3>2
  <2> HIDE DEF Right
  <2>6. n + 1 \in Nat
    OBVIOUS
  <2> QED BY <2>2, <2>5, <2>6
<1> HIDE DEF A
<1>6. Cardinality(S) \in A
  <2>1. Cardinality(S) \in Nat /\ S \in SUBSET S
    BY FS_CardinalityType
  <2> QED BY <1>4, <1>5, <2>1, CountedUp
<1>7. \A d \in SUBSET S : Cardinality(d) <= Cardinality(S)
  BY FS_Subset
<1> QED BY <1>6, <1>7 DEF A, FoldedBy

\* As FoldSet() and FoldFunction() take it.
Folded(g, S, F, base) ==
  \A d \in SUBSET S : g[d] = IF d = {} THEN base ELSE F[<<AnyOf(d), g[d \ {AnyOf(d)}]>>]

\* A fold of anything that is left exists.
LEMMA FoldExists ==
  ASSUME NEW S, IsFiniteSet(S), NEW D, NEW F \in [S \X D -> D], NEW base \in D
  PROVE  \E g \in [SUBSET S -> D] : Folded(g, S, F, base)
<1> DEFINE C == [d \in SUBSET S |-> AnyOf(d)]
<1>1. \A d \in SUBSET S : C[d] = AnyOf(d) /\ (d # {} => C[d] \in d)
  BY DEF AnyOf
<1> HIDE DEF C
<1>2. PICK g \in [SUBSET S -> D] : FoldedBy(g, S, F, base, C)
  BY <1>1, FoldByExists
<1>3. Folded(g, S, F, base)
  BY <1>1, <1>2 DEF Folded, FoldedBy
<1> QED BY <1>3

\* The positions of a sequence have a last one.
LEMMA LastOf ==
  ASSUME NEW n \in Nat, NEW T \in SUBSET (1 .. n), T # {}
  PROVE  Max(T) \in T /\ \A y \in T : y <= Max(T)
<1> DEFINE S == 1 .. n
           A == {U \in SUBSET S : U # {} => \E m \in U : \A y \in U : m >= y}
<1>1. IsFiniteSet(S)
  BY FS_Interval
<1>2. \A W \in SUBSET S : (\A U \in SUBSET W : U # W => U \in A) => W \in A
  <2> SUFFICES ASSUME NEW W \in SUBSET S, \A U \in SUBSET W : U # W => U \in A, W # {}
               PROVE  \E m \in W : \A y \in W : m >= y
    OBVIOUS
  <2>1. PICK x \in W : TRUE
    OBVIOUS
  <2>2. CASE W = {x}
    BY <2>2
  <2>3. CASE W # {x}
    <3>1. W \ {x} \in A /\ W \ {x} # {}
      BY <2>1, <2>3
    <3>2. PICK m \in W \ {x} : \A y \in W \ {x} : m >= y
      BY <3>1
    <3>3. CASE m >= x
      BY <3>2, <3>3
    <3>4. CASE ~(m >= x)
      BY <3>2, <3>4
    <3> QED BY <3>3, <3>4
  <2> QED BY <2>2, <2>3
<1> HIDE DEF A, S
<1>3. SUBSET S \subseteq A
  BY <1>1, <1>2, Shrinking, Zenon
<1>4. PICK m \in T : \A y \in T : m >= y
  BY <1>3 DEF A, S
<1> QED BY <1>4 DEF Max

\* As FoldLeft() takes it, from the last position to the first.
FoldedLeft(g, S, F, base) ==
  \A d \in SUBSET S : g[d] = IF d = {} THEN base ELSE F[<<Max(d), g[d \ {Max(d)}]>>]

\* The fold of a sequence of n members exists.
LEMMA FoldLeftExists ==
  ASSUME NEW n \in Nat, NEW S, S = 1 .. n, NEW D, NEW F \in [S \X D -> D], NEW base \in D
  PROVE  \E g \in [SUBSET S -> D] : FoldedLeft(g, S, F, base)
<1> DEFINE C == [d \in SUBSET S |-> Max(d)]
<1>1. \A d \in SUBSET S : C[d] = Max(d) /\ (d # {} => C[d] \in d)
  BY LastOf
<1> HIDE DEF C
<1>2. IsFiniteSet(S)
  BY FS_Interval
<1>3. PICK g \in [SUBSET S -> D] : FoldedBy(g, S, F, base, C)
  BY <1>1, <1>2, FoldByExists
<1>4. FoldedLeft(g, S, F, base)
  BY <1>1, <1>3, Zenon DEF FoldedBy, FoldedLeft
<1> QED BY <1>4, Zenon

(***************************************************************************)
(* Sums.                                                                   *)
(***************************************************************************)

SumsOf(f, S) == CHOOSE it : it = [d \in SUBSET S |->
  IF d = {} THEN 0 ELSE f[AnyOf(d)] + it[d \ {AnyOf(d)}]]

\* it has the partial sums of f.
AreSums(it, f, S) ==
  /\ SumFunction(f) = it[S] /\ it \in [SUBSET S -> Int] /\ it[{}] = 0
  /\ \A d \in SUBSET S : \A x \in d : it[d] = f[x] + it[d \ {x}]

\* The partial sums do not depend on the order.
LEMMA SumsAdd ==
  ASSUME NEW S, IsFiniteSet(S), NEW f \in [S -> Int]
  PROVE  AreSums(SumsOf(f, S), f, S)
<1> DEFINE it == SumsOf(f, S)
           F == [p \in S \X Int |-> f[p[1]] + p[2]]
<1>1. SumFunction(f) = it[S]
  BY DEF SumFunction, SumFunctionOnSet, FoldFunctionOnSet, MapThenFoldSet, AnyOf, SumsOf
<1>2. \A d \in SUBSET S : d # {} => AnyOf(d) \in d /\ AnyOf(d) \in S /\ d \ {AnyOf(d)} \in SUBSET S
  BY DEF AnyOf
<1>3. it = [d \in SUBSET S |-> IF d = {} THEN 0 ELSE f[AnyOf(d)] + it[d \ {AnyOf(d)}]]
  <2>1. F \in [S \X Int -> Int] /\ \A x \in S, n \in Int : F[<<x, n>>] = f[x] + n
    OBVIOUS
  <2> HIDE DEF F
  <2>2. PICK g \in [SUBSET S -> Int] : Folded(g, S, F, 0)
    <3>1. 0 \in Int
      OBVIOUS
    <3> QED BY <2>1, <3>1, FoldExists, Zenon
  <2>3. \A d \in SUBSET S : g[d] = IF d = {} THEN 0 ELSE f[AnyOf(d)] + g[d \ {AnyOf(d)}]
    BY <1>2, <2>1, <2>2 DEF Folded
  <2>4. g = [d \in SUBSET S |-> IF d = {} THEN 0 ELSE f[AnyOf(d)] + g[d \ {AnyOf(d)}]]
    BY <2>3
  <2> QED BY <2>4 DEF SumsOf
<1> HIDE DEF it
<1>4. \A d \in SUBSET S : it[d] = IF d = {} THEN 0 ELSE f[AnyOf(d)] + it[d \ {AnyOf(d)}]
  BY <1>3
<1> DEFINE A == {d \in SUBSET S : it[d] \in Int}
<1>5. \A T \in SUBSET S : (\A U \in SUBSET T : U # T => U \in A) => T \in A
  <2> SUFFICES ASSUME NEW T \in SUBSET S, \A U \in SUBSET T : U # T => it[U] \in Int
               PROVE  it[T] \in Int
    OBVIOUS
  <2> HIDE DEF A
  <2>1. CASE T = {}
    <3>1. it[T] = 0
      BY <1>4, <2>1, Zenon
    <3> QED BY <3>1
  <2>2. CASE T # {}
    <3> DEFINE p == f[AnyOf(T)]
               q == it[T \ {AnyOf(T)}]
    <3>1. p \in Int /\ q \in Int
      BY <1>2, <2>2
    <3>2. it[T] = p + q
      BY <1>4, <2>2, Zenon
    <3> HIDE DEF p, q
    <3> QED BY <3>1, <3>2
  <2> QED BY <2>1, <2>2
<1> HIDE DEF A
<1>6. SUBSET S \subseteq A
  BY <1>5, Shrinking
<1>7. \A d \in SUBSET S : it[d] \in Int
  BY <1>6 DEF A
<1> DEFINE B == {d \in SUBSET S : \A x \in d : it[d] = f[x] + it[d \ {x}]}
<1>8. ASSUME NEW T \in SUBSET S, \A U \in SUBSET T : U # T => U \in B PROVE T \in B
  <2> SUFFICES ASSUME NEW x \in T, x # AnyOf(T) PROVE it[T] = f[x] + it[T \ {x}]
    BY <1>4
  <2> DEFINE a == AnyOf(T)
  <2>1. a \in T /\ it[T] = f[a] + it[T \ {a}]
    BY <1>2, <1>4
  <2> HIDE DEF a
  <2>2. x # a
    BY DEF a
  <2> DEFINE p == f[a]
             q == f[x]
             r == it[(T \ {a}) \ {x}]
  <2>3. it[T \ {a}] = q + r
    BY <1>8, <2>1, <2>2
  <2>4. it[T \ {x}] = p + r
    <3>1. (T \ {a}) \ {x} = (T \ {x}) \ {a}
      OBVIOUS
    <3>2. it[T \ {x}] = f[a] + it[(T \ {x}) \ {a}]
      BY <1>8, <2>1, <2>2
    <3> QED BY <3>1, <3>2
  <2>5. p \in Int /\ q \in Int /\ r \in Int /\ it[T] = p + it[T \ {a}] /\ q = f[x]
    BY <1>7, <2>1
  <2> HIDE DEF p, q, r
  <2>6. p + (q + r) = q + (p + r)
    BY <2>5
  <2> QED BY <2>3, <2>4, <2>5, <2>6, Zenon
<1> HIDE DEF B
<1>9. SUBSET S \subseteq B
  BY <1>8, Shrinking
<1>10. \A d \in SUBSET S : \A x \in d : it[d] = f[x] + it[d \ {x}]
  BY <1>9 DEF B
<1>11. it \in [SUBSET S -> Int]
  BY <1>3, <1>7
<1> QED BY <1>1, <1>4, <1>10, <1>11 DEF it, AreSums

LEMMA SumTyped ==
  ASSUME NEW S, IsFiniteSet(S), NEW f \in [S -> Int]
  PROVE  SumFunction(f) \in Int
<1> DEFINE sf == SumsOf(f, S)
<1>1. AreSums(sf, f, S)
  BY SumsAdd, Zenon
<1> HIDE DEF sf
<1> QED BY <1>1 DEF AreSums

\* A sum changes by what one of the summands does.
LEMMA SumChanges ==
  ASSUME NEW S, IsFiniteSet(S), NEW f \in [S -> Int], NEW x \in S, NEW n \in Int
  PROVE  /\ SumFunction(f) \in Int /\ SumFunction([f EXCEPT ![x] = n]) \in Int
         /\ SumFunction([f EXCEPT ![x] = n]) = SumFunction(f) + n - f[x]
<1> DEFINE g == [f EXCEPT ![x] = n]
           sf == SumsOf(f, S)
           sg == SumsOf(g, S)
<1>1. g \in [S -> Int] /\ g[x] = n /\ \A y \in S \ {x} : g[y] = f[y]
  OBVIOUS
<1> HIDE DEF g
<1>2. AreSums(sf, f, S)
  BY SumsAdd, Zenon
<1>3. AreSums(sg, g, S)
  BY <1>1, SumsAdd, Zenon
<1> HIDE DEF sf, sg
<1>4. \A d \in SUBSET S : \A y \in d : sf[d] = f[y] + sf[d \ {y}]
  BY <1>2 DEF AreSums
<1>5. \A d \in SUBSET S : \A y \in d : sg[d] = g[y] + sg[d \ {y}]
  BY <1>3 DEF AreSums
<1>6. sf[{}] = 0 /\ sg[{}] = 0 /\ sf \in [SUBSET S -> Int]
  BY <1>2, <1>3 DEF AreSums
<1> DEFINE A == {d \in SUBSET (S \ {x}) : sf[d] = sg[d]}
<1>7. ASSUME NEW T \in SUBSET (S \ {x}), \A U \in SUBSET T : U # T => U \in A PROVE T \in A
  <2> HIDE DEF A
  <2>1. CASE T = {}
    BY <1>6, <2>1 DEF A
  <2>2. CASE T # {}
    <3>1. PICK y : y \in T
      BY <2>2
    <3>2. sf[T \ {y}] = sg[T \ {y}]
      BY <1>7, <3>1 DEF A
    <3>3. T \in SUBSET S /\ f[y] = g[y]
      BY <1>1, <3>1
    <3>4. sf[T] = f[y] + sf[T \ {y}] /\ sg[T] = g[y] + sg[T \ {y}]
      BY <1>4, <1>5, <3>1, <3>3, Zenon
    <3>5. sf[T] = sg[T]
      BY <3>2, <3>3, <3>4, Zenon
    <3> QED BY <3>5 DEF A
  <2> QED BY <2>1, <2>2
<1> HIDE DEF A
<1>8. SUBSET (S \ {x}) \subseteq A
  <2> DEFINE R == S \ {x}
  <2>1. IsFiniteSet(R)
    BY FS_RemoveElement
  <2>2. \A T \in SUBSET R : (\A U \in SUBSET T : U # T => U \in A) => T \in A
    BY <1>7
  <2> HIDE DEF R
  <2>3. SUBSET R \subseteq A
    BY <2>1, <2>2, Shrinking
  <2> QED BY <2>3 DEF R
<1>9. sf[S \ {x}] = sg[S \ {x}]
  <2>1. S \ {x} \in A
    BY <1>8
  <2> QED BY <2>1 DEF A
<1> DEFINE q == sf[S \ {x}]
           p == f[x]
<1>10. SumFunction(f) = p + q /\ SumFunction(g) = n + q
  <2>1. S \in SUBSET S
    OBVIOUS
  <2>2. sf[S] = f[x] + sf[S \ {x}]
    BY <1>4, <2>1, Zenon
  <2>3. sg[S] = g[x] + sg[S \ {x}]
    BY <1>5, <2>1, Zenon
  <2>4. SumFunction(f) = sf[S] /\ SumFunction(g) = sg[S]
    BY <1>2, <1>3 DEF AreSums
  <2> QED BY <1>1, <1>9, <2>2, <2>3, <2>4, Zenon
<1>11. p \in Int /\ q \in Int
  BY <1>6
<1> HIDE DEF p, q
<1>12. /\ p + q \in Int /\ n + q \in Int
      /\ n + q = ((p + q) + n) - p
  BY <1>11
<1>13. SumFunction(f) \in Int /\ SumFunction(g) \in Int
  BY <1>10, <1>12, Zenon
<1>14. SumFunction(g) = (SumFunction(f) + n) - p
  BY <1>10, <1>12, Zenon
<1> QED BY <1>13, <1>14 DEF g, p

\* A sum without one of the summands.
LEMMA SumWithout ==
  ASSUME NEW S, IsFiniteSet(S), NEW f \in [S -> Int], NEW x \in S, NEW R, R = S \ {x},
         NEW g \in [R -> Int], \A y \in R : g[y] = f[y]
  PROVE  /\ SumFunction(f) \in Int /\ SumFunction(g) \in Int
         /\ SumFunction(f) = SumFunction(g) + f[x]
<1> DEFINE sf == SumsOf(f, S)
           sg == SumsOf(g, R)
           A == {d \in SUBSET R : sf[d] = sg[d]}
<1>1. IsFiniteSet(R) /\ R \subseteq S
  BY FS_RemoveElement
<1>2. AreSums(sf, f, S)
  BY SumsAdd, Zenon
<1>3. AreSums(sg, g, R)
  BY <1>1, SumsAdd, Zenon
<1> HIDE DEF sf, sg
<1>4. \A d \in SUBSET S : \A y \in d : sf[d] = f[y] + sf[d \ {y}]
  BY <1>2 DEF AreSums
<1>5. \A d \in SUBSET R : \A y \in d : sg[d] = g[y] + sg[d \ {y}]
  BY <1>3 DEF AreSums
<1>6. sf[{}] = 0 /\ sg[{}] = 0 /\ sf \in [SUBSET S -> Int] /\ sg \in [SUBSET R -> Int]
  BY <1>2, <1>3 DEF AreSums
<1>7. ASSUME NEW T \in SUBSET R, \A U \in SUBSET T : U # T => U \in A PROVE T \in A
  <2> HIDE DEF A
  <2>1. CASE T = {}
    BY <1>6, <2>1 DEF A
  <2>2. CASE T # {}
    <3>1. PICK y : y \in T
      BY <2>2
    <3>2. sf[T \ {y}] = sg[T \ {y}]
      BY <1>7, <3>1 DEF A
    <3>3. T \in SUBSET S /\ f[y] = g[y]
      BY <1>1, <3>1
    <3>4. sf[T] = f[y] + sf[T \ {y}] /\ sg[T] = g[y] + sg[T \ {y}]
      BY <1>4, <1>5, <3>1, <3>3, Zenon
    <3>5. sf[T] = sg[T]
      BY <3>2, <3>3, <3>4, Zenon
    <3> QED BY <3>5 DEF A
  <2> QED BY <2>1, <2>2
<1> HIDE DEF A
<1>8. R \in A
  <2>1. Shrinks(R, A)
    BY <1>7 DEF Shrinks
  <2>2. IsFiniteSet(R)
    BY <1>1
  <2> QED BY <2>1, <2>2, AllShrunk, Zenon
<1>9. sf[R] = sg[R]
  BY <1>8 DEF A
<1>10. sf[S] = f[x] + sf[R]
  BY <1>4
<1>11. SumFunction(f) = sf[S] /\ SumFunction(g) = sg[R]
  BY <1>2, <1>3 DEF AreSums
<1>12. f[x] \in Int /\ sg[R] \in Int /\ sf[S] \in Int
  BY <1>6
<1>13. sf[S] = sg[R] + f[x]
  <2>1. \A a, b \in Int : a + b = b + a
    OBVIOUS
  <2> QED BY <1>9, <1>10, <1>12, <2>1
<1> QED BY <1>11, <1>12, <1>13

\* Sums are subtracted summand by summand.
LEMMA SumsSubtract ==
  ASSUME NEW S, IsFiniteSet(S), NEW f \in [S -> Int], NEW g \in [S -> Int], NEW h \in [S -> Int],
         \A x \in S : h[x] = f[x] - g[x]
  PROVE  /\ SumFunction(f) \in Int /\ SumFunction(g) \in Int /\ SumFunction(h) \in Int
         /\ SumFunction(h) = SumFunction(f) - SumFunction(g)
<1> DEFINE sf == SumsOf(f, S)
           sg == SumsOf(g, S)
           sh == SumsOf(h, S)
           A == {d \in SUBSET S : sh[d] = sf[d] - sg[d]}
<1>1. AreSums(sf, f, S) /\ AreSums(sg, g, S) /\ AreSums(sh, h, S)
  BY SumsAdd, Zenon
<1> HIDE DEF sf, sg, sh
<1>2. ASSUME NEW T \in SUBSET S, \A U \in SUBSET T : U # T => U \in A PROVE T \in A
  <2>1. CASE T = {}
    <3>1. sf[T] = 0 /\ sg[T] = 0 /\ sh[T] = 0
      BY <1>1, <2>1 DEF AreSums
    <3> QED BY <3>1
  <2>2. CASE T # {}
    <3>1. PICK x : x \in T
      BY <2>2
    <3> DEFINE U == T \ {x}
               a == sf[U]
               b == sg[U]
               p == f[x]
               q == g[x]
    <3>2. U \in A /\ U \in SUBSET S
      BY <1>2, <3>1
    <3>3. a \in Int /\ b \in Int /\ p \in Int /\ q \in Int
      BY <1>1, <3>1, <3>2 DEF AreSums
    <3>4. sf[T] = p + a /\ sg[T] = q + b /\ sh[T] = h[x] + sh[U]
      BY <1>1, <3>1 DEF AreSums
    <3>5. sh[U] = a - b /\ h[x] = p - q
      BY <3>1, <3>2
    <3> HIDE DEF a, b, p, q, U
    <3>6. (p - q) + (a - b) = (p + a) - (q + b)
      BY <3>3
    <3> QED BY <3>4, <3>5, <3>6
  <2> QED BY <2>1, <2>2
<1> HIDE DEF A
<1>3. Shrinks(S, A)
  BY <1>2 DEF Shrinks
<1>4. S \in A
  BY <1>3, AllShrunk
<1>5. S \in SUBSET S
  OBVIOUS
<1> QED BY <1>1, <1>4, <1>5 DEF A, AreSums

\* A sum of natural numbers is none of them less.
LEMMA SumAtLeast ==
  ASSUME NEW S, IsFiniteSet(S), NEW f \in [S -> Nat]
  PROVE  SumFunction(f) \in Nat /\ \A x \in S : f[x] <= SumFunction(f)
<1> DEFINE sf == SumsOf(f, S)
           A == {d \in SUBSET S : sf[d] \in Nat}
<1>1. AreSums(sf, f, S)
  <2>1. f \in [S -> Int]
    OBVIOUS
  <2> QED BY <2>1, SumsAdd, Zenon
<1> HIDE DEF sf
<1>2. \A T \in SUBSET S : \A x \in T : sf[T] = f[x] + sf[T \ {x}]
  BY <1>1 DEF AreSums
<1>3. ASSUME NEW T \in SUBSET S, \A U \in SUBSET T : U # T => U \in A PROVE T \in A
  <2>1. CASE T = {}
    BY <1>1, <2>1 DEF AreSums
  <2>2. CASE T # {}
    <3>1. PICK x : x \in T
      BY <2>2
    <3>2. T \ {x} \in A
      BY <1>3, <3>1
    <3>3. sf[T \ {x}] \in Nat /\ f[x] \in Nat /\ sf[T] = f[x] + sf[T \ {x}]
      BY <1>2, <3>1, <3>2
    <3>4. sf[T] \in Nat
      BY <3>3
    <3> QED BY <3>4
  <2> QED BY <2>1, <2>2
<1> HIDE DEF A
<1>4. Shrinks(S, A)
  BY <1>3 DEF Shrinks
<1>5. IsFiniteSet(S) /\ S \in SUBSET S
  OBVIOUS
<1>6. S \in A
  BY <1>4, AllShrunk
<1>7. ASSUME NEW x \in S PROVE S \ {x} \in A
  <2>1. IsFiniteSet(S \ {x})
    BY FS_RemoveElement
  <2>2. Shrinks(S \ {x}, A)
    BY <1>4 DEF Shrinks
  <2> QED BY <2>1, <2>2, AllShrunk
<1>8. sf[S] \in Nat
  BY <1>6 DEF A
<1>9. ASSUME NEW x \in S PROVE f[x] <= sf[S]
  <2>1. sf[S \ {x}] \in Nat /\ f[x] \in Nat /\ sf[S] = f[x] + sf[S \ {x}]
    BY <1>2, <1>5, <1>7 DEF A
  <2> QED BY <2>1
<1> QED BY <1>1, <1>8, <1>9 DEF AreSums

LEMMA SumConstant ==
  ASSUME NEW S, IsFiniteSet(S), NEW n \in Int, NEW f, f = [x \in S |-> n]
  PROVE  SumFunction(f) = Cardinality(S) * n
<1> DEFINE sf == SumsOf(f, S)
           A == {d \in SUBSET S : sf[d] = Cardinality(d) * n}
<1>0. f \in [S -> Int] /\ \A x \in S : f[x] = n
  OBVIOUS
<1>1. AreSums(sf, f, S)
  BY <1>0, SumsAdd, Zenon
<1> HIDE DEF sf
<1>2. \A T \in SUBSET S : \A x \in T : sf[T] = n + sf[T \ {x}]
  BY <1>0, <1>1 DEF AreSums
<1>3. ASSUME NEW T \in SUBSET S, \A U \in SUBSET T : U # T => U \in A PROVE T \in A
  <2>1. CASE T = {}
    <3>1. sf[T] = 0 /\ Cardinality(T) = 0 /\ 0 * n = 0
      BY <1>1, <2>1, FS_EmptySet DEF AreSums
    <3> QED BY <3>1
  <2>2. CASE T # {}
    <3>1. PICK x : x \in T
      BY <2>2
    <3> DEFINE c == Cardinality(T)
    <3>2. IsFiniteSet(T) /\ c \in Nat /\ Cardinality(T \ {x}) = c - 1
      BY <3>1, FS_Subset, FS_RemoveElement, FS_CardinalityType
    <3>3. T \ {x} \in A
      BY <1>3, <3>1
    <3>4. sf[T] = n + sf[T \ {x}]
      BY <1>2, <3>1
    <3>5. sf[T \ {x}] = (c - 1) * n
      BY <3>2, <3>3
    <3> HIDE DEF c
    <3>6. n + (c - 1) * n = c * n
      BY <3>2
    <3>7. sf[T] = c * n
      BY <3>4, <3>5, <3>6
    <3> QED BY <3>7 DEF c
  <2> QED BY <2>1, <2>2
<1> HIDE DEF A
<1>4. Shrinks(S, A)
  BY <1>3 DEF Shrinks
<1>5. S \in A
  BY <1>4, AllShrunk
<1> QED BY <1>1, <1>5 DEF A, AreSums

(***************************************************************************)
(* Running sums.                                                           *)
(***************************************************************************)

\* What the folds over 1 .. i take next.
LEMMA Prefix ==
  ASSUME NEW i \in Nat \ {0}
  PROVE  1 .. i # {} /\ Max(1 .. i) = i /\ (1 .. i) \ {Max(1 .. i)} = 1 .. (i - 1)
<1>1. i \in 1 .. i /\ 1 .. i \in SUBSET (1 .. i)
  OBVIOUS
<1>2. Max(1 .. i) \in 1 .. i /\ \A y \in 1 .. i : y <= Max(1 .. i)
  BY <1>1, LastOf
<1>3. Max(1 .. i) = i
  BY <1>1, <1>2
<1>4. (1 .. i) \ {i} = 1 .. (i - 1)
  OBVIOUS
<1> QED BY <1>1, <1>3, <1>4

\* f[i] is the sum of the first i of n summands.
AddsUp(f, v, n) == f[0] = 0 /\ \A i \in 1 .. n : f[i] = f[i - 1] + v[i]

LEMMA AddsUpTyped ==
  ASSUME NEW n \in Nat, NEW v, \A i \in 1 .. n : v[i] \in Int, NEW f, AddsUp(f, v, n)
  PROVE  \A i \in 0 .. n : f[i] \in Int
<1> DEFINE A == {i \in Nat : i <= n => f[i] \in Int}
<1>1. 0 \in A
  BY DEF AddsUp
<1>2. ASSUME NEW i \in Nat, i \in A PROVE i + 1 \in A
  <2>1. SUFFICES ASSUME i + 1 <= n PROVE f[i + 1] \in Int
    OBVIOUS
  <2>2. i <= n /\ i + 1 \in 1 .. n /\ (i + 1) - 1 = i
    BY <2>1
  <2>3. f[i] \in Int /\ v[i + 1] \in Int
    BY <1>2, <2>2
  <2>4. f[i + 1] = f[i] + v[i + 1]
    BY <2>2 DEF AddsUp
  <2> QED BY <2>3, <2>4
<1> HIDE DEF A
<1>3. Nat \subseteq A
  BY <1>1, <1>2, CountedUp
<1> QED BY <1>3 DEF A

LEMMA AddsUpExists ==
  ASSUME NEW n \in Nat, NEW v, \A i \in 1 .. n : v[i] \in Int
  PROVE  \E f \in [0 .. n -> Int] : AddsUp(f, v, n)
<1> DEFINE S == 1 .. n
           F == [p \in S \X Int |-> p[2] + v[p[1]]]
<1>1. F \in [S \X Int -> Int] /\ \A i \in S, x \in Int : F[<<i, x>>] = x + v[i]
  OBVIOUS
<1> HIDE DEF F
<1>2. PICK g \in [SUBSET S -> Int] : FoldedLeft(g, S, F, 0)
  <2>1. 0 \in Int
    OBVIOUS
  <2> QED BY <1>1, <2>1, FoldLeftExists, Zenon
<1> DEFINE f == [i \in 0 .. n |-> g[1 .. i]]
<1>3. \A i \in 0 .. n : 1 .. i \in SUBSET S /\ f[i] = g[1 .. i] /\ f[i] \in Int
  OBVIOUS
<1>4. f \in [0 .. n -> Int]
  BY <1>3
<1>5. f[0] = 0
  <2>1. 1 .. 0 = {} /\ 0 \in 0 .. n
    OBVIOUS
  <2> QED BY <1>2, <1>3, <2>1 DEF FoldedLeft
<1>6. ASSUME NEW i \in 1 .. n PROVE f[i] = f[i - 1] + v[i]
  <2>1. i \in 0 .. n /\ i - 1 \in 0 .. n /\ i \in Nat \ {0} /\ i \in S
    OBVIOUS
  <2> DEFINE P == 1 .. i
             Q == 1 .. (i - 1)
  <2>2. P # {} /\ Max(P) = i /\ P \ {Max(P)} = Q
    BY <2>1, Prefix
  <2>3. P \in SUBSET S /\ f[i] = g[P] /\ f[i - 1] = g[Q] /\ f[i - 1] \in Int
    BY <1>3, <2>1
  <2> HIDE DEF P, Q, f
  <2>4. g[P] = F[<<i, g[Q]>>]
    BY <1>2, <2>2, <2>3 DEF FoldedLeft
  <2> QED BY <1>1, <2>1, <2>3, <2>4
<1> HIDE DEF f
<1> QED BY <1>4, <1>5, <1>6 DEF AddsUp

\* f adds up the first n of v, and they are numbers.
Adding(f, v, n) == n \in Nat /\ (\A i \in 1 .. n : v[i] \in Int) /\ AddsUp(f, v, n)

\* Up to k and l the second sum has e more; then they add the same.
Alike(f, v, n, k, g, w, m, l, e) ==
  /\ Adding(f, v, n) /\ Adding(g, w, m) /\ k \in 0 .. n /\ l \in 0 .. m /\ n - k = m - l
  /\ e \in Int /\ g[l] = f[k] + e
  /\ \A i \in 1 .. n - k : w[l + i] = v[k + i]

LEMMA AddsUpAway ==
  ASSUME NEW f, NEW v, NEW n, NEW k, NEW g, NEW w, NEW m, NEW l, NEW e, Alike(f, v, n, k, g, w, m, l, e)
  PROVE  g[m] = f[n] + e /\ f[n] \in Int /\ g[m] \in Int
<1> USE DEF Adding, Alike
<1> DEFINE d == n - k
<1> DEFINE A == {i \in Nat : i <= d => g[l + i] = f[k + i] + e}
<1>0. /\ \A i \in 0 .. n : f[i] \in Int
      /\ \A i \in 0 .. m : g[i] \in Int
  BY AddsUpTyped, Zenon
<1>1. 0 \in A
  <2>1. l + 0 = l /\ k + 0 = k
    OBVIOUS
  <2> QED BY <2>1
<1>2. ASSUME NEW i \in Nat, i \in A PROVE i + 1 \in A
  <2>1. SUFFICES ASSUME i + 1 <= d PROVE g[l + (i + 1)] = f[k + (i + 1)] + e
    OBVIOUS
  <2> DEFINE a == l + (i + 1)
             b == k + (i + 1)
  <2>2. /\ i <= d /\ i + 1 \in 1 .. d
        /\ a \in 1 .. m /\ a - 1 = l + i /\ b \in 1 .. n /\ b - 1 = k + i
        /\ l + i \in 0 .. m /\ k + i \in 0 .. n
    BY <2>1
  <2>3. w[a] = v[b]
    BY <2>2
  <2>4. g[l + i] = f[k + i] + e
    BY <1>2, <2>2
  <2> HIDE DEF a, b
  <2>5. g[a] = g[l + i] + w[a] /\ f[b] = f[k + i] + v[b]
    BY <2>2 DEF AddsUp
  <2> DEFINE x == f[k + i]
             y == v[b]
  <2>6. x \in Int /\ y \in Int
    BY <1>0, <2>2
  <2>7. g[a] = (x + e) + y /\ f[b] = x + y
    BY <2>3, <2>4, <2>5
  <2> HIDE DEF x, y
  <2>8. g[a] = f[b] + e
    BY <2>6, <2>7
  <2> QED BY <2>8 DEF a, b
<1> HIDE DEF A
<1>3. Nat \subseteq A
  BY <1>1, <1>2, CountedUp
<1>4. d \in A
  BY <1>3
<1>5. l + d = m /\ k + d = n
  OBVIOUS
<1>6. g[m] = f[n] + e
  BY <1>4, <1>5 DEF A
<1> QED BY <1>0, <1>6
=============================================================================
