------------------------------ MODULE Foundations ------------------------------
(****************************************************************************)
(* What the proofs about amounts and balances rest on: induction, stated    *)
(* with sets instead of predicates so that it can be cited, and the sum of  *)
(* a function over a finite set, defined by recursion.                      *)
(****************************************************************************)
EXTENDS FiniteSetTheorems, Functions, TLAPS

--------------------------------------------------------------------------------
(* Induction.                                                               *)

(* A set that has 0 and the successor of all that it has is Nat.            *)
LEMMA NatInductionSet ==
  ASSUME NEW P \in SUBSET Nat, 0 \in P, \A n \in P : n + 1 \in P
  PROVE  P = Nat
<1> DEFINE Smaller == OpToRel(<, Nat)
<1>1. IsWellFoundedOn(Smaller, Nat)
  BY NatLessThanWellFounded
<1>2. SUFFICES ASSUME Nat \ P # {} PROVE FALSE
  OBVIOUS
<1>3. PICK x \in Nat \ P : \A y \in Nat \ P : <<y, x>> \notin Smaller
  <2> HIDE DEF Smaller
  <2> QED BY <1>1, <1>2, WFMin
<1>4. \A y \in Nat \ P : ~ (y < x)
  BY <1>3 DEF OpToRel
<1>5. x # 0 /\ x - 1 \in P
  BY <1>4
<1> QED BY <1>5

(* A set of numbers that has each n with which it has all smaller ones.     *)
LEMMA StrongInductionSet ==
  ASSUME NEW P \in SUBSET Nat, \A n \in Nat : (\A m \in Nat : m < n => m \in P) => n \in P
  PROVE  P = Nat
<1> DEFINE Q == {n \in Nat : \A m \in Nat : m < n => m \in P}
<1>1. 0 \in Q
  OBVIOUS
<1>2. ASSUME NEW n \in Q PROVE n + 1 \in Q
  <2>1. n \in P
    OBVIOUS
  <2>2. ASSUME NEW m \in Nat, m < n + 1 PROVE m \in P
    <3>1. CASE m = n
      BY <2>1, <3>1
    <3>2. CASE m < n
      BY <3>2
    <3> QED BY <2>2, <3>1, <3>2
  <2> QED BY <2>2
<1>3. Q = Nat
  <2>1. Q \in SUBSET Nat
    OBVIOUS
  <2> HIDE DEF Q
  <2> QED BY <1>1, <1>2, <2>1, NatInductionSet
<1> QED BY <1>3

--------------------------------------------------------------------------------
(* Recursive functions.  f is known outright on B, and elsewhere from its   *)
(* value at an earlier argument: E leads there, and R counts downwards.     *)

Unrolls(f, x, B, A, E, F) == f[x] = IF x \in B THEN A[x] ELSE F[x][f[E[x]]]

(* f obeys the recursion for all arguments below n.                         *)
Before(D, R, n) == {x \in D : R[x] < n}
ObeysBefore(f, n, D, R, B, A, E, F) == \A x \in Before(D, R, n) : Unrolls(f, x, B, A, E, F)

AgreeBefore(f, g, n, D, R) == \A x \in Before(D, R, n) : f[x] = g[x]

Descends(D, R, B, E) == \A x \in D \ B : R[E[x]] < R[x]

(* Two functions that obey the recursion up to a rank are the same up to    *)
(* it.                                                                      *)
LEMMA RecursionAgrees ==
  ASSUME NEW D, NEW R \in [D -> Nat], NEW B, NEW A, NEW E \in [D -> D], NEW F,
         Descends(D, R, B, E), NEW n \in Nat, NEW m \in Nat, n <= m,
         NEW f, ObeysBefore(f, n, D, R, B, A, E, F),
         NEW g, ObeysBefore(g, m, D, R, B, A, E, F)
  PROVE  AgreeBefore(f, g, n, D, R)
<1> DEFINE P == {k \in Nat : \A x \in Before(D, R, n) : R[x] = k => f[x] = g[x]}
<1>1. ASSUME NEW k \in Nat, \A l \in Nat : l < k => l \in P PROVE k \in P
  <2>1. ASSUME NEW x \in Before(D, R, n), R[x] = k PROVE f[x] = g[x]
    <3>1. x \in Before(D, R, m) /\ x \in D
      BY DEF Before
    <3>2. Unrolls(f, x, B, A, E, F) /\ Unrolls(g, x, B, A, E, F)
      BY <3>1 DEF ObeysBefore
    <3>3. CASE x \in B
      BY <3>2, <3>3 DEF Unrolls
    <3>4. CASE x \notin B
      <4>1. E[x] \in D /\ R[E[x]] \in Nat /\ R[E[x]] < k
        BY <2>1, <3>1, <3>4 DEF Descends
      <4>2. E[x] \in Before(D, R, n)
        BY <2>1, <4>1 DEF Before
      <4>3. f[E[x]] = g[E[x]]
        BY <1>1, <4>1, <4>2
      <4> QED BY <3>2, <3>4, <4>3 DEF Unrolls
    <3> QED BY <3>3, <3>4
  <2> QED BY <2>1
<1>2. P = Nat
  <2>1. P \in SUBSET Nat
    OBVIOUS
  <2> HIDE DEF P
  <2> QED BY <1>1, <2>1, StrongInductionSet
<1> QED BY <1>2 DEF AgreeBefore, Before

(* There is a function that obeys the recursion up to any rank.             *)
LEMMA RecursionReaches ==
  ASSUME NEW D, NEW V, NEW R \in [D -> Nat], NEW B, NEW A \in [D -> V], NEW E \in [D -> D],
         NEW F \in [D -> [V -> V]], Descends(D, R, B, E), NEW n \in Nat
  PROVE  \E f \in [D -> V] : ObeysBefore(f, n, D, R, B, A, E, F)
<1> DEFINE P == {k \in Nat : \E f \in [D -> V] : ObeysBefore(f, k, D, R, B, A, E, F)}
<1>1. 0 \in P
  <2>1. Before(D, R, 0) = {}
    BY DEF Before
  <2> QED BY <2>1 DEF ObeysBefore
<1>2. ASSUME NEW k \in P PROVE k + 1 \in P
  <2>1. PICK f \in [D -> V] : ObeysBefore(f, k, D, R, B, A, E, F)
    OBVIOUS
  <2>2. PICK h : h = [x \in D |-> IF x \in B THEN A[x] ELSE F[x][f[E[x]]]]
    OBVIOUS
  <2>3. h \in [D -> V]
    BY <2>2
  <2>4. \A x \in Before(D, R, k) : h[x] = f[x]
    BY <2>1, <2>2 DEF ObeysBefore, Unrolls, Before
  <2>5. ASSUME NEW x \in Before(D, R, k + 1) PROVE Unrolls(h, x, B, A, E, F)
    <3>1. x \in D /\ R[x] <= k
      BY DEF Before
    <3>2. x \notin B => E[x] \in Before(D, R, k)
      BY <3>1 DEF Before, Descends
    <3>3. x \notin B => h[E[x]] = f[E[x]]
      BY <2>4, <3>2
    <3> QED BY <2>2, <3>1, <3>3 DEF Unrolls
  <2> QED BY <2>3, <2>5 DEF ObeysBefore
<1>3. P = Nat
  <2>1. P \in SUBSET Nat
    OBVIOUS
  <2> HIDE DEF P
  <2> QED BY <1>1, <1>2, <2>1, NatInductionSet
<1> QED BY <1>3

(* So there is one that obeys it everywhere.                                *)
LEMMA RecursionExists ==
  ASSUME NEW D, NEW V, NEW R \in [D -> Nat], NEW B, NEW A \in [D -> V], NEW E \in [D -> D],
         NEW F \in [D -> [V -> V]], Descends(D, R, B, E)
  PROVE  \E f \in [D -> V] : \A x \in D : Unrolls(f, x, B, A, E, F)
<1> DEFINE Good(f, n) == f \in [D -> V] /\ ObeysBefore(f, n, D, R, B, A, E, F)
           c == [n \in Nat |-> CHOOSE f : Good(f, n)]
           g == [x \in D |-> c[R[x] + 1][x]]
<1>1. \A n \in Nat : Good(c[n], n)
  <2>1. \A n \in Nat : \E f : Good(f, n)
    BY RecursionReaches
  <2> QED BY <2>1
<1>2. \A x \in D : R[x] \in Nat /\ R[x] + 1 \in Nat /\ x \in Before(D, R, R[x] + 1)
  BY DEF Before
<1>3. g \in [D -> V]
  BY <1>1, <1>2
<1>4. \A x \in D : g[x] = c[R[x] + 1][x]
  OBVIOUS
<1>5. ASSUME NEW x \in D PROVE Unrolls(g, x, B, A, E, F)
  <2>1. PICK n \in Nat : n = R[x] + 1
    BY <1>2
  <2>2. Good(c[n], n) /\ x \in Before(D, R, n)
    BY <1>1, <1>2, <2>1
  <2>3. Unrolls(c[n], x, B, A, E, F)
    BY <2>2 DEF ObeysBefore
  <2>4. CASE x \in B
    BY <1>4, <2>1, <2>3, <2>4 DEF Unrolls
  <2>5. CASE x \notin B
    <3>1. PICK y \in D : y = E[x]
      OBVIOUS
    <3>2. PICK m \in Nat : m = R[y] + 1
      BY <1>2
    <3>3. m <= n
      BY <1>2, <2>1, <2>5, <3>1, <3>2 DEF Descends
    <3>4. Good(c[m], m) /\ y \in Before(D, R, m)
      BY <1>1, <1>2, <3>2
    <3>5. c[m][y] = c[n][y]
      <4>1. PICK e : e = c[m] /\ ObeysBefore(e, m, D, R, B, A, E, F)
        BY <3>4
      <4>2. PICK f : f = c[n] /\ ObeysBefore(f, n, D, R, B, A, E, F)
        BY <2>2
      <4> HIDE DEF c
      <4>3. AgreeBefore(e, f, m, D, R)
        BY <3>3, <4>1, <4>2, RecursionAgrees
      <4> QED BY <3>4, <4>1, <4>2, <4>3 DEF AgreeBefore
    <3>6. g[E[x]] = c[n][E[x]] /\ g[x] = c[n][x]
      BY <1>4, <2>1, <3>1, <3>2, <3>5
    <3> HIDE DEF g, c
    <3> QED BY <2>3, <2>5, <3>6 DEF Unrolls
  <2> QED BY <2>4, <2>5
<1> HIDE DEF g
<1> QED BY <1>3, <1>5

--------------------------------------------------------------------------------
(* Sums.  Some element of a set is taken out at each step of the recursion: *)
(* any other would have led to the same sum.                                *)

Some(T)       == CHOOSE x \in T : TRUE
Adds(g, f, T) == IF T = {} THEN 0 ELSE f[Some(T)] + g[T \ {Some(T)}]

(* f can be summed over S; g does so for every part of S.                   *)
Summable(f, S)     == IsFiniteSet(S) /\ \A x \in S : f[x] \in Int
IsSum(g, f, S)     == g \in [SUBSET S -> Int] /\ \A T \in SUBSET S : g[T] = Adds(g, f, T)

(* Whichever element of T is taken out first.                               *)
AnyOrder(g, f, T) == \A x \in T : g[T] = f[x] + g[T \ {x}]

(* g sums f over all sets of at most n elements of S.                       *)
Small(S, n)     == {T \in SUBSET S : Cardinality(T) <= n}
SumsUpTo(g, f, S, n) ==
  g \in [Small(S, n) -> Int] /\ \A T \in Small(S, n) : g[T] = Adds(g, f, T)

(* A finite set without one of its elements.                                *)
LEMMA RemoveSome ==
  ASSUME NEW S, IsFiniteSet(S), NEW T \in SUBSET S, NEW x \in T
  PROVE  /\ T \ {x} \in SUBSET S /\ IsFiniteSet(T \ {x})
         /\ Cardinality(T) \in Nat /\ Cardinality(T \ {x}) = Cardinality(T) - 1
<1>1. IsFiniteSet(T)
  BY FS_Subset
<1> QED BY <1>1, FS_RemoveElement, FS_CardinalityType

(* There is a function that sums f over all subsets.                        *)
LEMMA SumsExist ==
  ASSUME NEW S, NEW f, Summable(f, S)
  PROVE  \E g : IsSum(g, f, S)
<1> DEFINE P == {n \in Nat : \E g : SumsUpTo(g, f, S, n)}
<1>0. \A T \in SUBSET S : IsFiniteSet(T) /\ Cardinality(T) \in Nat
                          /\ (T # {} => Some(T) \in T)
  BY FS_Subset, FS_CardinalityType DEF Summable, Some
<1>1. 0 \in P
  <2>1. \A T \in Small(S, 0) : T = {}
    BY <1>0, FS_EmptySet DEF Small
  <2> DEFINE g == [T \in Small(S, 0) |-> 0]
  <2>2. SumsUpTo(g, f, S, 0)
    BY <2>1 DEF SumsUpTo, Adds
  <2> QED BY <2>2
<1>2. ASSUME NEW n \in P PROVE n + 1 \in P
  <2>1. PICK g : SumsUpTo(g, f, S, n)
    OBVIOUS
  <2> DEFINE h == [T \in Small(S, n + 1) |-> Adds(g, f, T)]
  <2>2. \A T \in Small(S, n + 1) : T # {} =>
          Some(T) \in S /\ f[Some(T)] \in Int /\ T \ {Some(T)} \in Small(S, n)
    BY <1>0, RemoveSome DEF Small, Summable
  <2>3. \A T \in Small(S, n) : T \in Small(S, n + 1) /\ h[T] = g[T]
    BY <1>0, <2>1 DEF Small, SumsUpTo
  <2>4. h \in [Small(S, n + 1) -> Int]
    BY <2>1, <2>2 DEF SumsUpTo, Adds
  <2>5. \A T \in Small(S, n + 1) : h[T] = Adds(h, f, T)
    BY <2>2, <2>3 DEF Adds
  <2>6. SumsUpTo(h, f, S, n + 1)
    BY <2>4, <2>5 DEF SumsUpTo
  <2> QED BY <2>6
<1>3. P = Nat
  <2>1. P \in SUBSET Nat
    OBVIOUS
  <2> HIDE DEF P
  <2> QED BY <1>1, <1>2, <2>1, NatInductionSet
<1>4. Cardinality(S) \in Nat /\ SUBSET S = Small(S, Cardinality(S))
  BY <1>0, FS_Subset DEF Small, Summable
<1> QED BY <1>3, <1>4 DEF SumsUpTo, IsSum

(* The recursion determines its result, whatever else the functions are     *)
(* defined for.                                                             *)
LEMMA SumsUnique ==
  ASSUME NEW S, IsFiniteSet(S), NEW f, NEW e, \A x \in S : f[x] = e[x],
         NEW g, \A T \in SUBSET S : g[T] = Adds(g, f, T),
         NEW h, \A T \in SUBSET S : h[T] = Adds(h, e, T)
  PROVE  \A T \in SUBSET S : g[T] = h[T]
<1> DEFINE P == {n \in Nat : \A T \in SUBSET S : Cardinality(T) = n => g[T] = h[T]}
<1>0. \A T \in SUBSET S : IsFiniteSet(T) /\ Cardinality(T) \in Nat
                          /\ (Cardinality(T) = 0 <=> T = {}) /\ (T # {} => Some(T) \in T)
  BY FS_Subset, FS_CardinalityType, FS_EmptySet DEF Some
<1>1. 0 \in P
  BY <1>0 DEF Adds
<1>2. ASSUME NEW n \in P PROVE n + 1 \in P
  <2>1. ASSUME NEW T \in SUBSET S, Cardinality(T) = n + 1 PROVE g[T] = h[T]
    <3>1. PICK x \in T : x = Some(T)
      BY <1>0, <2>1
    <3>2. T \ {x} \in SUBSET S /\ Cardinality(T \ {x}) = Cardinality(T) - 1
      BY RemoveSome
    <3>3. g[T \ {x}] = h[T \ {x}]
      BY <2>1, <3>2
    <3> QED BY <3>1, <3>3 DEF Adds
  <2> QED BY <2>1
<1>3. P = Nat
  <2>1. P \in SUBSET Nat
    OBVIOUS
  <2> HIDE DEF P
  <2> QED BY <1>1, <1>2, <2>1, NatInductionSet
<1> QED BY <1>0, <1>3

(* The recursion of the library computes such a function.                   *)
LEMMA SumIsIteration ==
  ASSUME NEW S, NEW f, Summable(f, S)
  PROVE  \E g : IsSum(g, f, S) /\ SumFunctionOnSet(f, S) = g[S]
<1>1. PICK g : IsSum(g, f, S)
  BY SumsExist
<1> DEFINE Body(k) == [T \in SUBSET S |-> Adds(k, f, T)]
           h == CHOOSE k : k = Body(k)
<1>2. g = Body(g)
  BY <1>1 DEF IsSum
<1>3. h = Body(h)
  BY <1>2
<1>4. SumFunctionOnSet(f, S) = h[S]
  BY DEF SumFunctionOnSet, FoldFunctionOnSet, MapThenFoldSet, Adds, Some
<1>5. \A T \in SUBSET S : h[T] = Adds(h, f, T)
  BY <1>3
<1> HIDE DEF h
<1>6. \A T \in SUBSET S : g[T] = h[T]
  BY <1>1, <1>5, SumsUnique DEF IsSum, Summable
<1> QED BY <1>1, <1>4, <1>6

(* Sums only depend on the values that are summed.                          *)
LEMMA SumCongruence ==
  ASSUME NEW S, NEW f, NEW e, Summable(f, S), \A x \in S : f[x] = e[x]
  PROVE  SumFunctionOnSet(f, S) = SumFunctionOnSet(e, S)
<1>1. Summable(e, S)
  BY DEF Summable
<1>2. PICK g : IsSum(g, f, S) /\ SumFunctionOnSet(f, S) = g[S]
  BY SumIsIteration
<1>3. PICK h : IsSum(h, e, S) /\ SumFunctionOnSet(e, S) = h[S]
  BY <1>1, SumIsIteration
<1>4. \A T \in SUBSET S : g[T] = h[T]
  BY <1>2, <1>3, SumsUnique DEF IsSum, Summable
<1> QED BY <1>2, <1>3, <1>4

(* The sum over a subset is that of the same recursion.                     *)
LEMMA SumOfSubset ==
  ASSUME NEW S, NEW f, Summable(f, S), NEW g, IsSum(g, f, S), NEW U \in SUBSET S
  PROVE  SumFunctionOnSet(f, U) = g[U]
<1>1. Summable(f, U)
  BY FS_Subset DEF Summable
<1>2. PICK h : IsSum(h, f, U) /\ SumFunctionOnSet(f, U) = h[U]
  BY <1>1, SumIsIteration
<1>3. \A T \in SUBSET U : g[T] = Adds(g, f, T)
  BY DEF IsSum
<1>4. \A T \in SUBSET U : g[T] = h[T]
  BY <1>1, <1>2, <1>3, SumsUnique DEF IsSum, Summable
<1> QED BY <1>2, <1>4

(* Any element may be taken out first.                                      *)
LEMMA AnyFirst ==
  ASSUME NEW S, NEW f, Summable(f, S), NEW g, IsSum(g, f, S)
  PROVE  \A T \in SUBSET S : AnyOrder(g, f, T)
<1> DEFINE P == {n \in Nat : \A T \in SUBSET S : Cardinality(T) = n => AnyOrder(g, f, T)}
<1>0. \A T \in SUBSET S : IsFiniteSet(T) /\ Cardinality(T) \in Nat
                          /\ (Cardinality(T) = 0 <=> T = {}) /\ (T # {} => Some(T) \in T)
  BY FS_Subset, FS_CardinalityType, FS_EmptySet DEF Summable, Some
<1>1. 0 \in P
  BY <1>0 DEF AnyOrder
<1>2. ASSUME NEW n \in P PROVE n + 1 \in P
  <2>1. ASSUME NEW T \in SUBSET S, Cardinality(T) = n + 1, NEW x \in T
        PROVE  g[T] = f[x] + g[T \ {x}]
    <3>1. PICK y \in T : g[T] = f[y] + g[T \ {y}]
      BY <1>0 DEF Adds, IsSum
    <3>2. CASE x = y
      BY <3>1, <3>2
    <3>3. CASE x # y
      <4>1. /\ T \ {x} \in SUBSET S /\ Cardinality(T \ {x}) = n /\ y \in T \ {x}
            /\ T \ {y} \in SUBSET S /\ Cardinality(T \ {y}) = n /\ x \in T \ {y}
        <5>1. T \ {x} \in SUBSET S /\ Cardinality(T \ {x}) = Cardinality(T) - 1
          BY RemoveSome DEF Summable
        <5>2. T \ {y} \in SUBSET S /\ Cardinality(T \ {y}) = Cardinality(T) - 1
          BY RemoveSome DEF Summable
        <5> QED BY <2>1, <3>3, <5>1, <5>2
      <4>2. g[T \ {y}] = f[x] + g[(T \ {y}) \ {x}] /\ g[T \ {x}] = f[y] + g[(T \ {x}) \ {y}]
        BY <4>1 DEF AnyOrder
      <4>3. PICK V \in SUBSET S : V = (T \ {x}) \ {y} /\ V = (T \ {y}) \ {x}
        OBVIOUS
      <4>4. f[x] \in Int /\ f[y] \in Int /\ g[V] \in Int
        BY DEF Summable, IsSum
      <4>5. g[T \ {y}] = f[x] + g[V] /\ g[T \ {x}] = f[y] + g[V]
        BY <4>2, <4>3
      <4> QED BY <3>1, <4>4, <4>5
    <3> QED BY <3>2, <3>3
  <2>2. \A T \in SUBSET S : Cardinality(T) = n + 1 => AnyOrder(g, f, T)
    BY <2>1 DEF AnyOrder
  <2> QED BY <2>2
<1>3. P = Nat
  <2>1. P \in SUBSET Nat
    OBVIOUS
  <2> HIDE DEF P
  <2> QED BY <1>1, <1>2, <2>1, NatInductionSet
<1> QED BY <1>0, <1>3

(* No values sum up to 0.                                                   *)
LEMMA SumEmpty == ASSUME NEW f PROVE SumFunctionOnSet(f, {}) = 0
<1>1. Summable(f, {})
  BY FS_EmptySet DEF Summable
<1>2. PICK g : IsSum(g, f, {}) /\ SumFunctionOnSet(f, {}) = g[{}]
  BY <1>1, SumIsIteration
<1> QED BY <1>2 DEF IsSum, Adds

(* The sum of integers is an integer.                                       *)
LEMMA SumType ==
  ASSUME NEW S, NEW f, Summable(f, S)
  PROVE  SumFunctionOnSet(f, S) \in Int
<1>1. PICK g : IsSum(g, f, S) /\ SumFunctionOnSet(f, S) = g[S]
  BY SumIsIteration
<1> QED BY <1>1 DEF IsSum

(* One more element adds its value.                                         *)
LEMMA SumAdd ==
  ASSUME NEW S, NEW x, x \notin S, NEW f, Summable(f, S \cup {x})
  PROVE  SumFunctionOnSet(f, S \cup {x}) = SumFunctionOnSet(f, S) + f[x]
<1>1. PICK U : U = S \cup {x}
  OBVIOUS
<1>2. Summable(f, U) /\ x \in U /\ S \in SUBSET U /\ U \ {x} = S
  BY <1>1
<1>3. PICK g : IsSum(g, f, U) /\ SumFunctionOnSet(f, U) = g[U]
  BY <1>2, SumIsIteration
<1>4. \A T \in SUBSET U : AnyOrder(g, f, T)
  BY <1>2, <1>3, AnyFirst
<1>5. g[U] = f[x] + g[S]
  BY <1>2, <1>4 DEF AnyOrder
<1>6. SumFunctionOnSet(f, S) = g[S]
  BY <1>2, <1>3, SumOfSubset
<1>7. f[x] \in Int /\ g[S] \in Int
  BY <1>2, <1>3 DEF Summable, IsSum
<1> QED BY <1>1, <1>3, <1>5, <1>6, <1>7

(* The sum of a function that gets one more value.                          *)
LEMMA SumExtended ==
  ASSUME NEW f, NEW e, NEW x, x \notin DOMAIN f, DOMAIN e = DOMAIN f \cup {x},
         Summable(e, DOMAIN e), \A y \in DOMAIN f : f[y] = e[y]
  PROVE  SumFunction(e) = SumFunction(f) + e[x]
<1>1. Summable(f, DOMAIN f)
  BY FS_Subset DEF Summable
<1>2. SumFunctionOnSet(f, DOMAIN f) = SumFunctionOnSet(e, DOMAIN f)
  BY <1>1, SumCongruence
<1>3. SumFunctionOnSet(e, DOMAIN f \cup {x}) = SumFunctionOnSet(e, DOMAIN f) + e[x]
  BY SumAdd
<1> QED BY <1>2, <1>3 DEF SumFunction

(* The sums of two functions that differ at one place.                      *)
LEMMA SumChangedAt ==
  ASSUME NEW S, NEW f, NEW e, Summable(f, S), Summable(e, S), NEW x \in S,
         \A z \in S \ {x} : f[z] = e[z]
  PROVE  SumFunctionOnSet(e, S) = SumFunctionOnSet(f, S) - f[x] + e[x]
<1>1. PICK R : R = S \ {x}
  OBVIOUS
<1>2. x \notin R /\ R \cup {x} = S /\ \A z \in R : f[z] = e[z]
  BY <1>1
<1>3. Summable(f, R)
  BY <1>1, FS_Subset DEF Summable
<1>4. SumFunctionOnSet(f, R) = SumFunctionOnSet(e, R)
  BY <1>2, <1>3, SumCongruence
<1>5. SumFunctionOnSet(f, S) = SumFunctionOnSet(f, R) + f[x]
  BY <1>2, SumAdd
<1>6. SumFunctionOnSet(e, S) = SumFunctionOnSet(e, R) + e[x]
  BY <1>2, SumAdd
<1>7. SumFunctionOnSet(f, R) \in Int /\ f[x] \in Int /\ e[x] \in Int
  BY <1>3, SumType DEF Summable
<1> QED BY <1>4, <1>5, <1>6, <1>7

(* And at two.                                                              *)
LEMMA SumChangedAtTwo ==
  ASSUME NEW S, NEW f, NEW e, Summable(f, S), Summable(e, S),
         NEW x \in S, NEW y \in S, x # y, \A z \in S \ {x, y} : f[z] = e[z]
  PROVE  SumFunctionOnSet(e, S) = SumFunctionOnSet(f, S) - f[x] + e[x] - f[y] + e[y]
<1>1. PICK k : k = [z \in S |-> IF z = x THEN e[z] ELSE f[z]]
  OBVIOUS
<1>2. Summable(k, S) /\ k[x] = e[x] /\ k[y] = f[y]
  BY <1>1 DEF Summable
<1>3. (\A z \in S \ {x} : f[z] = k[z]) /\ (\A z \in S \ {y} : k[z] = e[z])
  BY <1>1
<1>4. SumFunctionOnSet(k, S) = SumFunctionOnSet(f, S) - f[x] + k[x]
  BY <1>2, <1>3, SumChangedAt
<1>5. SumFunctionOnSet(e, S) = SumFunctionOnSet(k, S) - k[y] + e[y]
  BY <1>2, <1>3, SumChangedAt
<1>6. SumFunctionOnSet(f, S) \in Int /\ \A z \in S : f[z] \in Int /\ e[z] \in Int
  BY SumType DEF Summable
<1> QED BY <1>2, <1>4, <1>5, <1>6
================================================================================
