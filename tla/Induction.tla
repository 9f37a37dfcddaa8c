----------------------------- MODULE Induction -----------------------------
(***************************************************************************)
(* Induction over the naturals in the form the provers can apply: every    *)
(* non-empty set of naturals has a least element.  A claim about all n is  *)
(* proved by looking at the least n for which it fails.                    *)
(***************************************************************************)
EXTENDS Integers, FiniteSetsExt, FiniteSetTheorems, WellFoundedInduction, TLAPS

\* A non-empty set of naturals has a least element (the order < on Nat is
\* well founded): the basis of every induction below.
THEOREM LeastNatural ==
  ASSUME NEW T \in SUBSET Nat, T # {}
  PROVE  \E n \in T : \A m \in T : n <= m
  <1> DEFINE R == {ss \in Nat \X Nat : ss[1] < ss[2]}
  <1>1. IsWellFoundedOn(R, Nat)
    BY NatLessThanWellFounded DEF OpToRel
  <1> HIDE DEF R
  <1>2. PICK x \in T : \A y \in T : <<y, x>> \notin R
    BY <1>1, WFMin, Zenon
  <1>3. ASSUME NEW y \in T PROVE x <= y
    <2>1. x \in Nat /\ y \in Nat
      OBVIOUS
    <2>2. y < x => <<y, x>> \in R
      BY <2>1 DEF R
    <2> QED
      BY <1>2, <2>1, <2>2
  <1> QED
    BY <1>3

\* A set that holds 0 and with every number the next one holds all naturals.
THEOREM NaturalsClosed ==
  ASSUME NEW P, 0 \in P, \A n \in Nat : n \in P => n + 1 \in P
  PROVE  Nat \subseteq P
  <1> DEFINE T == {n \in Nat : n \notin P}
  <1> SUFFICES ASSUME T # {} PROVE FALSE
    OBVIOUS
  <1>1. PICK n \in T : \A m \in T : n <= m
    BY LeastNatural
  <1>2. n \in Nat /\ n # 0 /\ n \notin P
    OBVIOUS
  <1>3. n - 1 \in Nat /\ n - 1 < n
    BY <1>2
  <1>4. n - 1 \in P
    BY <1>1, <1>3
  <1>5. (n - 1) + 1 \in P
    BY <1>3, <1>4
  <1> QED
    BY <1>2, <1>5

\* The greatest element of a non-empty set of numbers up to n is one of its
\* elements and an upper bound of it.
LEMMA MaxOfBounded ==
  ASSUME NEW n \in Nat, NEW s \in SUBSET (1..n), s # {}
  PROVE  Max(s) \in s /\ \A y \in s : Max(s) >= y
  <1> DEFINE T == {m \in Nat : \A y \in s : m >= y}
  <1>1. n \in T
    OBVIOUS
  <1>2. PICK m \in T : \A k \in T : m <= k
    <2>1. T \in SUBSET Nat /\ T # {}
      BY <1>1
    <2> HIDE DEF T
    <2> QED
      BY <2>1, LeastNatural
  <1>3. m \in Nat /\ \A y \in s : m >= y
    OBVIOUS
  <1>4. m \in s
    <2> SUFFICES ASSUME m \notin s PROVE FALSE
      OBVIOUS
    <2>1. PICK z \in s : TRUE
      OBVIOUS
    <2>2. m - 1 \in Nat
      BY <1>3, <2>1
    <2>3. \A y \in s : m - 1 >= y
      BY <1>3
    <2>4. m - 1 \in T
      BY <2>2, <2>3
    <2> QED
      BY <1>2, <1>3, <2>4
  <1>5. \E x \in s : \A y \in s : x >= y
    BY <1>3, <1>4
  <1> QED
    BY <1>5, Zenon DEF Max

\* Induction over the subsets of a finite set: a set of subsets that holds T as
\* soon as it holds all smaller ones holds them all.
LEMMA SubsetsClosed ==
  ASSUME NEW S, IsFiniteSet(S), NEW P,
         \A T \in SUBSET S :
            (\A U \in SUBSET S : Cardinality(U) < Cardinality(T) => U \in P) => T \in P
  PROVE  SUBSET S \subseteq P
  <1> DEFINE bad == {T \in SUBSET S : T \notin P}
             sizes == {Cardinality(T) : T \in bad}
  <1>1. \A T \in SUBSET S : IsFiniteSet(T) /\ Cardinality(T) \in Nat
    BY FS_Subset, FS_CardinalityType
  <1> SUFFICES ASSUME bad # {} PROVE FALSE
    OBVIOUS
  <1>2. sizes \in SUBSET Nat /\ sizes # {}
    BY <1>1
  <1>3. PICK n \in sizes : \A k \in sizes : n <= k
    <2> HIDE DEF sizes
    <2> QED
      BY <1>2, LeastNatural
  <1>4. PICK T \in bad : n = Cardinality(T)
    OBVIOUS
  <1>5. ASSUME NEW U \in SUBSET S, Cardinality(U) < Cardinality(T) PROVE U \in P
    <2> SUFFICES ASSUME U \in bad PROVE FALSE
      OBVIOUS
    <2>1. n <= Cardinality(U) /\ Cardinality(U) \in Nat /\ n \in Nat
      BY <1>1, <1>2, <1>3
    <2> QED
      BY <1>4, <1>5, <2>1
  <1> QED
    BY <1>4, <1>5

\* A set without one of its elements is smaller.
LEMMA SmallerWithout ==
  ASSUME NEW S, IsFiniteSet(S), NEW T \in SUBSET S, NEW x \in T
  PROVE  /\ IsFiniteSet(T) /\ Cardinality(T) \in Nat
         /\ T \ {x} \in SUBSET S /\ Cardinality(T \ {x}) = Cardinality(T) - 1
         /\ Cardinality(T \ {x}) < Cardinality(T)
  <1>1. IsFiniteSet(T) /\ Cardinality(T) \in Nat
    BY FS_Subset, FS_CardinalityType
  <1>2. Cardinality(T \ {x}) = Cardinality(T) - 1
    BY <1>1, FS_RemoveElement
  <1> QED
    BY <1>1, <1>2

----------------------------------------------------------------------------
(* Sums of functions over finite sets.                                     *)

Some(s) == CHOOSE x \in s : TRUE

(* The recursive function behind SumFunctionOnSet.                         *)
Sums(f, S, g) ==
    f = [s \in SUBSET S |-> IF s = {} THEN 0 ELSE g[Some(s)] + f[s \ {Some(s)}]]

\* It exists for a finite set.
LEMMA SumsExist ==
  ASSUME NEW S, IsFiniteSet(S), NEW g
  PROVE  \E f : Sums(f, S, g)
  <1> DEFINE Unrolled(f) == [s \in SUBSET S |->
                           IF s = {} THEN 0 ELSE g[Some(s)] + f[s \ {Some(s)}]]
             Upto(f, n) == \A s \in SUBSET S : Cardinality(s) <= n => f[s] = Unrolled(f)[s]
             P == {n \in Nat : \E f : f = [s \in SUBSET S |-> f[s]] /\ Upto(f, n)}
  <1>1. 0 \in P
    <2> DEFINE f == [s \in SUBSET S |-> 0]
    <2>1. ASSUME NEW s \in SUBSET S, Cardinality(s) <= 0 PROVE s = {}
      <3> SUFFICES ASSUME NEW x \in s PROVE FALSE
        OBVIOUS
      <3>1. /\ Cardinality(s) \in Nat /\ IsFiniteSet(s \ {x})
            /\ Cardinality(s \ {x}) = Cardinality(s) - 1
        BY SmallerWithout, FS_Subset
      <3>2. Cardinality(s \ {x}) \in Nat
        BY <3>1, FS_CardinalityType
      <3> QED
        BY <2>1, <3>1, <3>2
    <2>2. Upto(f, 0)
      BY <2>1
    <2>3. f = [s \in SUBSET S |-> f[s]]
      OBVIOUS
    <2> QED
      BY <2>2, <2>3
  <1>2. ASSUME NEW n \in Nat, n \in P PROVE n + 1 \in P
    <2>1. PICK f : f = [s \in SUBSET S |-> f[s]] /\ Upto(f, n)
      BY <1>2
    <2> DEFINE h == Unrolled(f)
    <2>2. ASSUME NEW s \in SUBSET S, Cardinality(s) <= n + 1
          PROVE  h[s] = Unrolled(h)[s]
      <3>1. CASE s = {}
        BY <3>1
      <3>2. CASE s # {}
        <4> DEFINE x == Some(s)
                   u == s \ {x}
        <4>1. x \in s
          BY <3>2 DEF Some
        <4> HIDE DEF x
        <4>2. u \in SUBSET S /\ Cardinality(u) <= n
          BY <2>2, <4>1, SmallerWithout
        <4>3. f[u] = h[u]
          BY <2>1, <4>2
        <4>4. h[s] = g[x] + f[u]
          BY <3>2 DEF x
        <4>5. Unrolled(h)[s] = g[x] + h[u]
          BY <3>2 DEF x
        <4> QED
          BY <4>3, <4>4, <4>5
      <3> QED
        BY <3>1, <3>2
    <2>3. h = [s \in SUBSET S |-> h[s]]
      OBVIOUS
    <2> HIDE DEF h
    <2>4. Upto(h, n + 1)
      BY <2>2
    <2> HIDE DEF Upto
    <2> QED
      BY <2>3, <2>4
  <1>3. Cardinality(S) \in P
    <2> HIDE DEF P
    <2>1. Nat \subseteq P
      BY <1>1, <1>2, NaturalsClosed
    <2> QED
      BY <2>1, FS_CardinalityType
  <1>4. PICK f : f = [s \in SUBSET S |-> f[s]] /\ Upto(f, Cardinality(S))
    BY <1>3
  <1>5. \A s \in SUBSET S : Cardinality(s) <= Cardinality(S)
    BY FS_Subset
  <1>6. \A s \in SUBSET S : f[s] = Unrolled(f)[s]
    BY <1>4, <1>5
  <1>7. f = Unrolled(f)
    BY <1>4, <1>6
  <1> QED
    BY <1>7 DEF Sums

\* SumFunctionOnSet is its value at the whole set.
LEMMA SumUnfolds ==
  ASSUME NEW T, IsFiniteSet(T), NEW g
  PROVE  \E f : Sums(f, T, g) /\ SumFunctionOnSet(g, T) = f[T]
  <1> DEFINE F == CHOOSE f : Sums(f, T, g)
  <1>1. Sums(F, T, g)
    BY SumsExist, Zenon
  <1>2. SumFunctionOnSet(g, T) = F[T]
    BY DEF SumFunctionOnSet, FoldFunctionOnSet, MapThenFoldSet, Sums, Some
  <1> QED
    BY <1>1, <1>2

\* The order in which the elements are added does not matter, and a solution
\* on a larger set agrees with one on a smaller.
LEMMA SumsAnyOrder ==
  ASSUME NEW S, IsFiniteSet(S), NEW g \in [S -> Nat], NEW f, Sums(f, S, g)
  PROVE  \A T \in SUBSET S : f[T] \in Nat /\ \A x \in T : f[T] = g[x] + f[T \ {x}]
  <1> DEFINE P == {T \in SUBSET S : f[T] \in Nat /\ \A x \in T : f[T] = g[x] + f[T \ {x}]}
  <1>1. ASSUME NEW T \in SUBSET S,
               \A U \in SUBSET S : Cardinality(U) < Cardinality(T) => U \in P
        PROVE  T \in P
    <2>1. CASE T = {}
      <3>1. f[T] = 0
        BY <2>1 DEF Sums
      <3> QED
        BY <2>1, <3>1
    <2>2. CASE T # {}
      <3> DEFINE y == Some(T)
      <3>1. y \in T
        BY <2>2 DEF Some
      <3>2. f[T] = g[y] + f[T \ {y}]
        BY <2>2 DEF Sums
      <3> HIDE DEF y
      <3>3. T \ {y} \in P /\ f[T \ {y}] \in Nat /\ g[y] \in Nat
        BY <1>1, <3>1, SmallerWithout
      <3>4. f[T] \in Nat
        BY <3>2, <3>3
      <3>5. ASSUME NEW x \in T, x # y PROVE f[T] = g[x] + f[T \ {x}]
        <4>1. T \ {x} \in P /\ g[x] \in Nat
          BY <1>1, SmallerWithout
        <4>2. f[T \ {y}] = g[x] + f[(T \ {y}) \ {x}]
          BY <3>3, <3>5
        <4>3. f[T \ {x}] = g[y] + f[(T \ {x}) \ {y}]
          BY <3>1, <3>5, <4>1
        <4>4. (T \ {y}) \ {x} = (T \ {x}) \ {y}
          OBVIOUS
        <4> DEFINE U == (T \ {x}) \ {y}
        <4>5. f[U] \in Nat
          <5>1. /\ U \in SUBSET S /\ Cardinality(U) < Cardinality(T \ {x})
                /\ Cardinality(T \ {x}) < Cardinality(T)
                /\ Cardinality(T) \in Nat /\ Cardinality(T \ {x}) \in Nat
            <6>1. y \in T \ {x} /\ T \ {x} \in SUBSET S
              BY <3>1, <3>5
            <6> QED
              BY <6>1, SmallerWithout
          <5>2. Cardinality(U) \in Nat
            BY <5>1, FS_Subset, FS_CardinalityType
          <5>3. Cardinality(U) < Cardinality(T)
            <6> HIDE DEF U
            <6> QED
              BY <5>1, <5>2
          <5> QED
            BY <1>1, <5>1, <5>3
        <4>6. f[T \ {y}] = g[x] + f[U] /\ f[T \ {x}] = g[y] + f[U]
          BY <4>2, <4>3, <4>4
        <4> HIDE DEF U
        <4> QED
          BY <3>2, <3>3, <4>1, <4>5, <4>6
      <3> QED
        BY <3>2, <3>4, <3>5
    <2> QED
      BY <2>1, <2>2
  <1>2. SUBSET S \subseteq P
    <2> HIDE DEF P
    <2> QED
      BY <1>1, SubsetsClosed
  <1> QED
    BY <1>2

\* The sum over no element, and over one element more.
LEMMA SumSteps ==
  ASSUME NEW S, IsFiniteSet(S), NEW g \in [S -> Nat]
  PROVE  /\ SumFunctionOnSet(g, {}) = 0
         /\ \A T \in SUBSET S :
              /\ SumFunctionOnSet(g, T) \in Nat
              /\ \A x \in T : SumFunctionOnSet(g, T) = g[x] + SumFunctionOnSet(g, T \ {x})
  <1>1. PICK F : Sums(F, S, g)
    BY SumsExist
  <1>2. \A T \in SUBSET S : F[T] \in Nat /\ \A x \in T : F[T] = g[x] + F[T \ {x}]
    BY <1>1, SumsAnyOrder
  <1>3. F[{}] = 0
    BY <1>1 DEF Sums
  <1>4. ASSUME NEW T \in SUBSET S PROVE SumFunctionOnSet(g, T) = F[T]
    <2>1. IsFiniteSet(T)
      BY FS_Subset
    <2>2. PICK f : Sums(f, T, g) /\ SumFunctionOnSet(g, T) = f[T]
      BY <2>1, SumUnfolds
    <2> DEFINE P == {U \in SUBSET T : f[U] = F[U]}
    <2>3. ASSUME NEW U \in SUBSET T,
                 \A V \in SUBSET T : Cardinality(V) < Cardinality(U) => V \in P
          PROVE  U \in P
      <3>1. CASE U = {}
        BY <1>3, <2>2, <3>1 DEF Sums
      <3>2. CASE U # {}
        <4> DEFINE y == Some(U)
        <4>1. y \in U
          BY <3>2 DEF Some
        <4>2. f[U] = g[y] + f[U \ {y}]
          BY <2>2, <3>2 DEF Sums
        <4> HIDE DEF y
        <4>3. U \ {y} \in P
          BY <2>1, <2>3, <4>1, SmallerWithout
        <4>4. F[U] = g[y] + F[U \ {y}]
          BY <1>2, <4>1
        <4> QED
          BY <4>2, <4>3, <4>4
      <3> QED
        BY <3>1, <3>2
    <2>4. SUBSET T \subseteq P
      <3> HIDE DEF P
      <3> QED
        BY <2>1, <2>3, SubsetsClosed
    <2> QED
      BY <2>2, <2>4
  <1> HIDE DEF SumFunctionOnSet
  <1>5. SumFunctionOnSet(g, {}) = 0
    BY <1>3, <1>4
  <1>6. ASSUME NEW T \in SUBSET S
        PROVE  /\ SumFunctionOnSet(g, T) \in Nat
               /\ \A x \in T : SumFunctionOnSet(g, T) = g[x] + SumFunctionOnSet(g, T \ {x})
    BY <1>2, <1>4
  <1> QED
    BY <1>5, <1>6

\* A sum over more elements is no smaller.
LEMMA SumGrows ==
  ASSUME NEW S, IsFiniteSet(S), NEW g \in [S -> Nat], NEW T \in SUBSET S, NEW V \in SUBSET T
  PROVE  SumFunctionOnSet(g, V) <= SumFunctionOnSet(g, T)
  <1> DEFINE P == {U \in SUBSET T : SumFunctionOnSet(g, V \cap U) <= SumFunctionOnSet(g, U)}
  <1>1. /\ SumFunctionOnSet(g, {}) = 0
        /\ \A U \in SUBSET S :
              /\ SumFunctionOnSet(g, U) \in Nat
              /\ \A x \in U : SumFunctionOnSet(g, U) = g[x] + SumFunctionOnSet(g, U \ {x})
    BY SumSteps
  <1>2. IsFiniteSet(T)
    BY FS_Subset
  <1>3. ASSUME NEW U \in SUBSET T,
               \A W \in SUBSET T : Cardinality(W) < Cardinality(U) => W \in P
        PROVE  U \in P
    <2>1. CASE U = {}
      <3>1. V \cap U = {}
        BY <2>1
      <3> QED
        BY <1>1, <2>1, <3>1
    <2>2. CASE U # {}
      <3>1. PICK x \in U : TRUE
        BY <2>2
      <3>2. U \ {x} \in P
        BY <1>2, <1>3, SmallerWithout
      <3>3. /\ SumFunctionOnSet(g, U) = g[x] + SumFunctionOnSet(g, U \ {x})
            /\ SumFunctionOnSet(g, U \ {x}) \in Nat /\ g[x] \in Nat
            /\ SumFunctionOnSet(g, V \cap (U \ {x})) \in Nat
        BY <1>1
      <3>4. SumFunctionOnSet(g, V \cap (U \ {x})) <= SumFunctionOnSet(g, U \ {x})
        BY <3>2
      <3>5. CASE x \in V
        <4>1. (V \cap U) \ {x} = V \cap (U \ {x}) /\ x \in V \cap U
          BY <3>5
        <4>2. SumFunctionOnSet(g, V \cap U) = g[x] + SumFunctionOnSet(g, V \cap (U \ {x}))
          BY <1>1, <4>1
        <4> QED
          BY <3>3, <3>4, <4>2
      <3>6. CASE x \notin V
        <4>1. V \cap U = V \cap (U \ {x})
          BY <3>6
        <4>2. SumFunctionOnSet(g, V \cap U) = SumFunctionOnSet(g, V \cap (U \ {x}))
          BY <4>1
        <4>3. SumFunctionOnSet(g, V \cap U) <= SumFunctionOnSet(g, U)
          BY <3>3, <3>4, <4>2
        <4> QED
          BY <4>3
      <3> QED
        BY <3>5, <3>6
    <2> QED
      BY <2>1, <2>2
  <1>4. SUBSET T \subseteq P
    <2> HIDE DEF P
    <2> QED
      BY <1>2, <1>3, SubsetsClosed
  <1>5. T \in P /\ V \cap T = V
    BY <1>4
  <1> QED
    BY <1>5

\* The sum over two sets together is at most the two sums.
LEMMA SumTogether ==
  ASSUME NEW S, IsFiniteSet(S), NEW g \in [S -> Nat], NEW T \in SUBSET S, NEW V \in SUBSET S
  PROVE  SumFunctionOnSet(g, T \cup V) <= SumFunctionOnSet(g, T) + SumFunctionOnSet(g, V)
  <1> DEFINE P == {U \in SUBSET T :
                     SumFunctionOnSet(g, U \cup V)
                        <= SumFunctionOnSet(g, U) + SumFunctionOnSet(g, V)}
  <1>1. /\ SumFunctionOnSet(g, {}) = 0
        /\ \A U \in SUBSET S :
              /\ SumFunctionOnSet(g, U) \in Nat
              /\ \A x \in U : SumFunctionOnSet(g, U) = g[x] + SumFunctionOnSet(g, U \ {x})
    BY SumSteps
  <1>2. IsFiniteSet(T)
    BY FS_Subset
  <1>3. ASSUME NEW U \in SUBSET T,
               \A W \in SUBSET T : Cardinality(W) < Cardinality(U) => W \in P
        PROVE  U \in P
    <2>1. CASE U = {}
      <3>1. U \cup V = V /\ SumFunctionOnSet(g, U) = 0
        BY <1>1, <2>1
      <3>2. SumFunctionOnSet(g, V) \in Nat
        BY <1>1
      <3>3. SumFunctionOnSet(g, U \cup V) = SumFunctionOnSet(g, V)
        BY <3>1
      <3> QED
        BY <3>1, <3>2, <3>3
    <2>2. CASE U # {}
      <3>1. PICK x \in U : TRUE
        BY <2>2
      <3> DEFINE W == U \ {x}
      <3>2. W \in P
        BY <1>2, <1>3, SmallerWithout
      <3>3. W \in SUBSET S /\ W \cup V \in SUBSET S /\ U \cup V \in SUBSET S /\ x \in U \cup V
        OBVIOUS
      <3>4. /\ SumFunctionOnSet(g, U) = g[x] + SumFunctionOnSet(g, W)
            /\ SumFunctionOnSet(g, W) \in Nat /\ g[x] \in Nat
            /\ SumFunctionOnSet(g, W \cup V) \in Nat /\ SumFunctionOnSet(g, V) \in Nat
            /\ SumFunctionOnSet(g, U \cup V) \in Nat
        BY <1>1, <3>3
      <3>5. SumFunctionOnSet(g, W \cup V) <= SumFunctionOnSet(g, W) + SumFunctionOnSet(g, V)
        BY <3>2
      <3>6. SumFunctionOnSet(g, U \cup V) <= g[x] + SumFunctionOnSet(g, W \cup V)
        <4>1. CASE x \in V
          <5>1. U \cup V = W \cup V
            BY <4>1
          <5>2. SumFunctionOnSet(g, U \cup V) = SumFunctionOnSet(g, W \cup V)
            BY <5>1
          <5> HIDE DEF W
          <5> QED
            BY <3>4, <5>2
        <4>2. CASE x \notin V
          <5>1. (U \cup V) \ {x} = W \cup V
            BY <4>2
          <5>2. SumFunctionOnSet(g, U \cup V) = g[x] + SumFunctionOnSet(g, W \cup V)
            BY <1>1, <3>3, <5>1
          <5> HIDE DEF W
          <5> QED
            BY <3>4, <5>2
        <4> QED
          BY <4>1, <4>2
      <3> HIDE DEF W
      <3>7. SumFunctionOnSet(g, U \cup V) <= SumFunctionOnSet(g, U) + SumFunctionOnSet(g, V)
        BY <3>4, <3>5, <3>6
      <3> QED
        BY <3>7
    <2> QED
      BY <2>1, <2>2
  <1>4. SUBSET T \subseteq P
    <2> HIDE DEF P
    <2> QED
      BY <1>2, <1>3, SubsetsClosed
  <1>5. T \in P
    BY <1>4
  <1> QED
    BY <1>5

\* A sum of zeros.
LEMMA SumOfZeros ==
  ASSUME NEW S, IsFiniteSet(S), NEW g \in [S -> Nat], NEW T \in SUBSET S,
         \A x \in T : g[x] = 0
  PROVE  SumFunctionOnSet(g, T) = 0
  <1> DEFINE P == {U \in SUBSET T : SumFunctionOnSet(g, U) = 0}
  <1>1. /\ SumFunctionOnSet(g, {}) = 0
        /\ \A U \in SUBSET S : \A x \in U :
              SumFunctionOnSet(g, U) = g[x] + SumFunctionOnSet(g, U \ {x})
    BY SumSteps
  <1>2. IsFiniteSet(T)
    BY FS_Subset
  <1>3. ASSUME NEW U \in SUBSET T,
               \A W \in SUBSET T : Cardinality(W) < Cardinality(U) => W \in P
        PROVE  U \in P
    <2>1. CASE U = {}
      BY <1>1, <2>1
    <2>2. CASE U # {}
      <3>1. PICK x \in U : TRUE
        BY <2>2
      <3>2. U \ {x} \in P
        BY <1>2, <1>3, SmallerWithout
      <3>3. SumFunctionOnSet(g, U) = g[x] + SumFunctionOnSet(g, U \ {x}) /\ g[x] = 0
        BY <1>1
      <3> QED
        BY <3>2, <3>3
    <2> QED
      BY <2>1, <2>2
  <1>4. SUBSET T \subseteq P
    <2> HIDE DEF P
    <2> QED
      BY <1>2, <1>3, SubsetsClosed
  <1> QED
    BY <1>4

\* The sum depends on the values in the set alone, not on the rest of the
\* domain.
LEMMA SumOfSame ==
  ASSUME NEW S, IsFiniteSet(S), NEW g \in [S -> Nat],
         NEW R, IsFiniteSet(R), NEW h \in [R -> Nat],
         NEW T \in SUBSET (S \cap R), \A x \in T : h[x] = g[x]
  PROVE  SumFunctionOnSet(h, T) = SumFunctionOnSet(g, T)
  <1> DEFINE P == {U \in SUBSET T : SumFunctionOnSet(h, U) = SumFunctionOnSet(g, U)}
  <1>1. /\ SumFunctionOnSet(g, {}) = 0 /\ SumFunctionOnSet(h, {}) = 0
        /\ \A U \in SUBSET T : \A x \in U :
              /\ SumFunctionOnSet(g, U) = g[x] + SumFunctionOnSet(g, U \ {x})
              /\ SumFunctionOnSet(h, U) = h[x] + SumFunctionOnSet(h, U \ {x})
    BY SumSteps
  <1>2. IsFiniteSet(T)
    BY FS_Subset
  <1>3. ASSUME NEW U \in SUBSET T,
               \A W \in SUBSET T : Cardinality(W) < Cardinality(U) => W \in P
        PROVE  U \in P
    <2>1. CASE U = {}
      BY <1>1, <2>1
    <2>2. CASE U # {}
      <3>1. PICK x \in U : TRUE
        BY <2>2
      <3>2. U \ {x} \in P
        BY <1>2, <1>3, SmallerWithout
      <3>3. /\ SumFunctionOnSet(g, U) = g[x] + SumFunctionOnSet(g, U \ {x})
            /\ SumFunctionOnSet(h, U) = h[x] + SumFunctionOnSet(h, U \ {x})
            /\ h[x] = g[x]
        BY <1>1
      <3> QED
        BY <3>2, <3>3
    <2> QED
      BY <2>1, <2>2
  <1>4. SUBSET T \subseteq P
    <2> HIDE DEF P
    <2> QED
      BY <1>2, <1>3, SubsetsClosed
  <1> QED
    BY <1>4

\* One more at x adds one to the sums over sets that hold x.
LEMMA SumOneMore ==
  ASSUME NEW S, IsFiniteSet(S), NEW g \in [S -> Nat], NEW x \in S, NEW T \in SUBSET S
  PROVE  LET h == [g EXCEPT ![x] = @ + 1]
         IN  SumFunctionOnSet(h, T) = SumFunctionOnSet(g, T) + (IF x \in T THEN 1 ELSE 0)
  <1> DEFINE h == [g EXCEPT ![x] = @ + 1]
  <1>1. h \in [S -> Nat] /\ h[x] = g[x] + 1 /\ \A y \in S : y # x => h[y] = g[y]
    OBVIOUS
  <1> HIDE DEF h
  <1>2. CASE x \notin T
    <2>1. SumFunctionOnSet(h, T) = SumFunctionOnSet(g, T)
      BY <1>1, <1>2, SumOfSame
    <2>2. SumFunctionOnSet(g, T) \in Nat
      BY SumSteps
    <2> QED
      BY <1>2, <2>1, <2>2 DEF h
  <1>3. CASE x \in T
    <2>1. T \ {x} \in SUBSET S /\ \A y \in T \ {x} : h[y] = g[y]
      BY <1>1
    <2>2. SumFunctionOnSet(h, T \ {x}) = SumFunctionOnSet(g, T \ {x})
      BY <1>1, <2>1, SumOfSame
    <2>3. /\ SumFunctionOnSet(h, T) = h[x] + SumFunctionOnSet(h, T \ {x})
          /\ SumFunctionOnSet(g, T) = g[x] + SumFunctionOnSet(g, T \ {x})
          /\ SumFunctionOnSet(g, T \ {x}) \in Nat /\ g[x] \in Nat
      BY <1>1, <1>3, <2>1, SumSteps
    <2>4. SumFunctionOnSet(h, T) = SumFunctionOnSet(g, T) + 1
      BY <1>1, <2>2, <2>3
    <2> QED
      BY <1>3, <2>4 DEF h
  <1> QED
    BY <1>2, <1>3
=============================================================================
