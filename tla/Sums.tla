-------------------------------- MODULE Sums --------------------------------
(***************************************************************************)
(* Facts about sums and bounds over finite sets, for the counters of       *)
(* IncrementStorageUsed (repository/user.go) in Drive and in Uploads.      *)
(* Induction is stated with a set P of subsets in the place of a property. *)
(***************************************************************************)
EXTENDS Integers, FiniteSets, Functions, FiniteSetsExt,
        FiniteSetTheorems, WellFoundedInduction, TLAPS

LEMMA LeastExists ==
  ASSUME NEW S \in SUBSET Nat, S # {}
  PROVE  \E x \in S : \A y \in S : x <= y
<1>1. PICK x \in S : \A y \in S : <<y, x>> \notin OpToRel(<, Nat)
  BY WFMin, NatLessThanWellFounded
<1>2. \A y \in S : ~(y < x)
  BY <1>1 DEF OpToRel
<1> QED BY <1>2

LEMMA NatSetInduction ==
  ASSUME NEW P, 0 \in P, \A n \in Nat : n \in P => n + 1 \in P
  PROVE  Nat \subseteq P
<1> DEFINE bad == Nat \ P
<1> SUFFICES ASSUME bad # {} PROVE FALSE
  OBVIOUS
<1>1. PICK n \in bad : \A m \in bad : n <= m
  BY LeastExists
<1>2. n # 0 /\ n - 1 \in Nat /\ n - 1 \notin bad
  BY <1>1
<1> QED BY <1>1, <1>2

\* A family of subsets of a finite set that contains each subset all of whose
\* reducts by one element it contains has the set itself, and all its subsets.
LEMMA RemovalInduction ==
  ASSUME NEW S, IsFiniteSet(S), NEW P,
         \A T \in SUBSET S : (\A x \in T : T \ {x} \in P) => T \in P
  PROVE  \A T \in SUBSET S : T \in P
<1> DEFINE bad == {n \in Nat : \E T \in SUBSET S : Cardinality(T) = n /\ T \notin P}
<1> SUFFICES ASSUME NEW T0 \in SUBSET S, T0 \notin P PROVE FALSE
  OBVIOUS
<1>1. Cardinality(T0) \in bad
  BY FS_Subset, FS_CardinalityType
<1>2. PICK n \in bad : \A m \in bad : n <= m
  BY <1>1, LeastExists
<1>3. PICK T \in SUBSET S : Cardinality(T) = n /\ T \notin P
  OBVIOUS
<1>4. PICK x \in T : T \ {x} \notin P
  BY <1>3
<1>5. IsFiniteSet(T) /\ n \in Nat
  BY FS_Subset
<1>6. Cardinality(T \ {x}) = n - 1
  BY <1>3, <1>5, FS_RemoveElement
<1>7. n - 1 \in Nat
  <2>1. IsFiniteSet(T \ {x})
    BY <1>5, FS_RemoveElement
  <2> QED BY <1>6, <2>1, FS_CardinalityType
<1>8. n - 1 \in bad
  BY <1>4, <1>6, <1>7
<1> QED BY <1>2, <1>5, <1>8

-----------------------------------------------------------------------------
(* SumFunctionOnSet(f, S) is well defined and takes elements in any order.   *)

\* The defining equation of the fold, for a set and its subsets.
Adds(f, g, T) == IF T = {} THEN 0
                 ELSE f[CHOOSE x \in T : TRUE] + g[T \ {CHOOSE x \in T : TRUE}]

Folds(f, S, g) == g = [T \in SUBSET S |-> Adds(f, g, T)]

LEMMA SumUnfolds ==
  ASSUME NEW f, NEW S
  PROVE  SumFunctionOnSet(f, S) = (CHOOSE g : Folds(f, S, g))[S]
BY DEF SumFunctionOnSet, FoldFunctionOnSet, MapThenFoldSet, Folds, Adds

LEMMA FoldExists ==
  ASSUME NEW f, NEW S, IsFiniteSet(S)
  PROVE  \E g : Folds(f, S, g)
<1> DEFINE Sub(n) == {T \in SUBSET S : Cardinality(T) <= n}
           P == {n \in Nat : \E g : g = [T \in Sub(n) |-> Adds(f, g, T)]}
<1>0. \A T \in SUBSET S : IsFiniteSet(T) /\ Cardinality(T) \in Nat
  BY FS_Subset, FS_CardinalityType
<1>1. 0 \in P
  <2> DEFINE g == [T \in Sub(0) |-> 0]
  <2>1. \A T \in Sub(0) : T = {}
    BY <1>0, FS_EmptySet
  <2>2. g = [T \in Sub(0) |-> Adds(f, g, T)]
    BY <2>1 DEF Adds
  <2> HIDE DEF g
  <2> QED BY <2>2
<1>2. ASSUME NEW n \in P PROVE n + 1 \in P
  <2>1. PICK g : g = [T \in Sub(n) |-> Adds(f, g, T)]
    OBVIOUS
  <2> DEFINE h == [T \in Sub(n + 1) |-> IF T \in Sub(n) THEN g[T] ELSE Adds(f, g, T)]
  <2>2. ASSUME NEW T \in Sub(n + 1) PROVE h[T] = Adds(f, h, T)
    <3> DEFINE c == CHOOSE x \in T : TRUE
    <3>1. h[T] = Adds(f, g, T)
      <4>1. T \in Sub(n) => g[T] = Adds(f, g, T)
        BY <2>1
      <4> QED BY <4>1
    <3>2. CASE T = {}
      BY <3>1, <3>2 DEF Adds
    <3>3. CASE T # {}
      <4>1. c \in T
        BY <3>3
      <4>2. Cardinality(T \ {c}) = Cardinality(T) - 1
        BY <1>0, <4>1, FS_RemoveElement
      <4>3. T \ {c} \in Sub(n) /\ T \ {c} \in Sub(n + 1)
        BY <1>0, <4>2
      <4>4. h[T \ {c}] = g[T \ {c}]
        BY <4>3
      <4> HIDE DEF h
      <4> QED BY <3>1, <3>3, <4>4 DEF Adds
    <3> QED BY <3>2, <3>3
  <2>3. h = [T \in Sub(n + 1) |-> Adds(f, h, T)]
    BY <2>2
  <2>4. n + 1 \in Nat
    OBVIOUS
  <2> HIDE DEF h
  <2> QED BY <2>3, <2>4
<1>3. Cardinality(S) \in P
  <2>1. Cardinality(S) \in Nat
    BY FS_CardinalityType
  <2> HIDE DEF P
  <2>2. \A n \in Nat : n \in P => n + 1 \in P
    BY <1>2
  <2> QED BY <1>1, <2>1, <2>2, NatSetInduction
<1>4. Sub(Cardinality(S)) = SUBSET S
  BY <1>0, FS_Subset
<1> QED BY <1>3, <1>4 DEF Folds

\* The least fixed point of the equation is the only one, on each subset.
LEMMA FoldUnique ==
  ASSUME NEW f, NEW S, IsFiniteSet(S), NEW T \in SUBSET S,
         NEW g, Folds(f, S, g), NEW h, Folds(f, T, h)
  PROVE  g[T] = h[T]
<1> DEFINE P == {U \in SUBSET T : g[U] = h[U]}
<1>1. ASSUME NEW U \in SUBSET T, \A x \in U : U \ {x} \in P
      PROVE  U \in P
  <2>1. g[U] = Adds(f, g, U) /\ h[U] = Adds(f, h, U)
    BY DEF Folds
  <2> QED BY <1>1, <2>1 DEF Adds
<1>2. IsFiniteSet(T)
  BY FS_Subset
<1> HIDE DEF P
<1>3. T \in P
  BY <1>1, <1>2, RemovalInduction
<1> QED BY <1>3 DEF P

LEMMA SumOfNone == ASSUME NEW f PROVE SumFunctionOnSet(f, {}) = 0
<1> DEFINE g == CHOOSE g : Folds(f, {}, g)
<1>1. Folds(f, {}, g)
  BY FoldExists, FS_EmptySet
<1>2. g[{}] = 0
  BY <1>1 DEF Folds, Adds
<1> QED BY <1>2, SumUnfolds

LEMMA SumOfSome ==
  ASSUME NEW f, NEW S, IsFiniteSet(S), S # {}
  PROVE  \E c \in S : SumFunctionOnSet(f, S) = f[c] + SumFunctionOnSet(f, S \ {c})
<1> DEFINE c == CHOOSE x \in S : TRUE
           g == CHOOSE g : Folds(f, S, g)
           h == CHOOSE h : Folds(f, S \ {c}, h)
<1>1. c \in S /\ IsFiniteSet(S \ {c})
  BY FS_RemoveElement
<1>2. Folds(f, S, g) /\ Folds(f, S \ {c}, h)
  BY <1>1, FoldExists
<1>3. g[S \ {c}] = h[S \ {c}]
  <2> HIDE DEF g, h, c
  <2> QED BY <1>2, FoldUnique
<1>4. g[S] = f[c] + g[S \ {c}]
  <2>1. g = [T \in SUBSET S |-> Adds(f, g, T)]
    BY <1>2 DEF Folds
  <2>2. g[S] = Adds(f, g, S)
    <3> HIDE DEF g
    <3> QED BY <2>1
  <2> QED BY <2>2 DEF Adds
<1>5. SumFunctionOnSet(f, S) = g[S] /\ SumFunctionOnSet(f, S \ {c}) = h[S \ {c}]
  BY SumUnfolds
<1> QED BY <1>1, <1>3, <1>4, <1>5

LEMMA SumIsInt ==
  ASSUME NEW f, NEW S, IsFiniteSet(S), \A x \in S : f[x] \in Int
  PROVE  SumFunctionOnSet(f, S) \in Int
<1> DEFINE P == {T \in SUBSET S : SumFunctionOnSet(f, T) \in Int}
<1>1. ASSUME NEW T \in SUBSET S, \A x \in T : T \ {x} \in P
      PROVE  T \in P
  <2>1. CASE T = {}
    BY <2>1, SumOfNone
  <2>2. CASE T # {}
    <3>1. PICK c \in T : SumFunctionOnSet(f, T) = f[c] + SumFunctionOnSet(f, T \ {c})
      BY <2>2, SumOfSome, FS_Subset
    <3> QED BY <1>1, <3>1
  <2> QED BY <2>1, <2>2
<1> HIDE DEF P
<1>2. \A T \in SUBSET S : (\A x \in T : T \ {x} \in P) => T \in P
  BY <1>1
<1>3. \A T \in SUBSET S : T \in P
  BY <1>2, RemovalInduction
<1>4. S \in P
  BY <1>3
<1> QED BY <1>4 DEF P

\* Any element may be taken out first.
LEMMA SumSplits ==
  ASSUME NEW f, NEW S, IsFiniteSet(S), \A x \in S : f[x] \in Int, NEW a \in S
  PROVE  SumFunctionOnSet(f, S) = f[a] + SumFunctionOnSet(f, S \ {a})
<1> DEFINE Sum(T) == SumFunctionOnSet(f, T)
           P == {T \in SUBSET S : \A x \in T : Sum(T) = f[x] + Sum(T \ {x})}
<1>0. \A T \in SUBSET S : IsFiniteSet(T) /\ Sum(T) \in Int
  BY SumIsInt, FS_Subset
<1>1. ASSUME NEW T \in SUBSET S, \A x \in T : T \ {x} \in P
      PROVE  T \in P
  <2> SUFFICES ASSUME NEW x \in T PROVE Sum(T) = f[x] + Sum(T \ {x})
    OBVIOUS
  <2> HIDE DEF Sum, P
  <2>1. PICK c \in T : Sum(T) = f[c] + Sum(T \ {c})
    BY <1>0, SumOfSome DEF Sum
  <2>2. CASE x = c
    BY <2>1, <2>2
  <2>3. CASE x # c
    <3>1. Sum(T \ {c}) = f[x] + Sum((T \ {c}) \ {x})
      BY <1>1, <2>3 DEF P
    <3>2. Sum(T \ {x}) = f[c] + Sum((T \ {x}) \ {c})
      BY <1>1, <2>3 DEF P
    <3>3. (T \ {c}) \ {x} = (T \ {x}) \ {c}
      OBVIOUS
    <3>4. Sum((T \ {c}) \ {x}) \in Int /\ f[x] \in Int /\ f[c] \in Int
      BY <1>0
    <3>5. \A i, j, k \in Int : i + (j + k) = j + (i + k)
      OBVIOUS
    <3>6. Sum(T) = f[c] + (f[x] + Sum((T \ {c}) \ {x}))
      BY <2>1, <3>1
    <3>7. Sum(T \ {x}) = f[c] + Sum((T \ {c}) \ {x})
      BY <3>2, <3>3
    <3> QED BY <3>4, <3>5, <3>6, <3>7
  <2> QED BY <2>2, <2>3
<1> HIDE DEF P
<1>2. \A T \in SUBSET S : (\A x \in T : T \ {x} \in P) => T \in P
  BY <1>1
<1>3. \A T \in SUBSET S : T \in P
  BY <1>2, RemovalInduction
<1>4. S \in P
  BY <1>3
<1> QED BY <1>4 DEF P

LEMMA SumAdd ==
  ASSUME NEW f, NEW S, IsFiniteSet(S), NEW a, a \notin S, \A x \in S \cup {a} : f[x] \in Int
  PROVE  SumFunctionOnSet(f, S \cup {a}) = f[a] + SumFunctionOnSet(f, S)
<1>1. IsFiniteSet(S \cup {a}) /\ (S \cup {a}) \ {a} = S
  BY FS_AddElement
<1>2. a \in S \cup {a}
  OBVIOUS
<1> QED BY <1>1, <1>2, SumSplits

\* The sum depends on the values at the elements only.
LEMMA SumSame ==
  ASSUME NEW f, NEW g, NEW S, IsFiniteSet(S), \A x \in S : f[x] \in Int /\ f[x] = g[x]
  PROVE  SumFunctionOnSet(f, S) = SumFunctionOnSet(g, S)
<1> DEFINE P == {T \in SUBSET S : SumFunctionOnSet(f, T) = SumFunctionOnSet(g, T)}
<1>0. \A T \in SUBSET S : IsFiniteSet(T)
  BY FS_Subset
<1>1. ASSUME NEW T \in SUBSET S, \A x \in T : T \ {x} \in P
      PROVE  T \in P
  <2>1. CASE T = {}
    BY <2>1, SumOfNone
  <2>2. CASE T # {}
    <3>1. PICK c \in T : SumFunctionOnSet(f, T) = f[c] + SumFunctionOnSet(f, T \ {c})
      BY <1>0, <2>2, SumOfSome
    <3>2. SumFunctionOnSet(g, T) = g[c] + SumFunctionOnSet(g, T \ {c})
      <4>1. IsFiniteSet(T) /\ \A x \in T : g[x] \in Int
        BY <1>0
      <4> QED BY <4>1, SumSplits
    <3>3. SumFunctionOnSet(f, T \ {c}) = SumFunctionOnSet(g, T \ {c}) /\ f[c] = g[c]
      BY <1>1
    <3> QED BY <3>1, <3>2, <3>3
  <2> QED BY <2>1, <2>2
<1> HIDE DEF P
<1>2. \A T \in SUBSET S : (\A x \in T : T \ {x} \in P) => T \in P
  BY <1>1
<1>3. \A T \in SUBSET S : T \in P
  BY <1>2, RemovalInduction
<1>4. S \in P
  BY <1>3
<1> QED BY <1>4 DEF P

\* A part of the set may be summed on its own.
LEMMA SumParts ==
  ASSUME NEW f, NEW S, IsFiniteSet(S), \A x \in S : f[x] \in Int, NEW T \in SUBSET S
  PROVE  SumFunctionOnSet(f, S) = SumFunctionOnSet(f, S \ T) + SumFunctionOnSet(f, T)
<1> DEFINE Sum(U) == SumFunctionOnSet(f, U)
           P == {U \in SUBSET T : Sum((S \ T) \cup U) = Sum(S \ T) + Sum(U)}
<1>0. \A U \in SUBSET S : IsFiniteSet(U) /\ Sum(U) \in Int
  BY SumIsInt, FS_Subset
<1>1. ASSUME NEW U \in SUBSET T, \A x \in U : U \ {x} \in P
      PROVE  U \in P
  <2> SUFFICES Sum((S \ T) \cup U) = Sum(S \ T) + Sum(U)
    OBVIOUS
  <2>1. CASE U = {}
    <3>1. Sum(U) = 0 /\ (S \ T) \cup U = S \ T /\ Sum(S \ T) \in Int
      BY <1>0, <2>1, SumOfNone
    <3> HIDE DEF Sum
    <3>2. Sum(S \ T) = Sum(S \ T) + 0
      BY <3>1
    <3> QED BY <3>1, <3>2
  <2>2. ASSUME NEW c \in U PROVE Sum((S \ T) \cup U) = Sum(S \ T) + Sum(U)
    <3> DEFINE V == (S \ T) \cup U
    <3>1. /\ IsFiniteSet(V) /\ IsFiniteSet(U) /\ c \in V
          /\ \A x \in V : f[x] \in Int
          /\ \A x \in U : f[x] \in Int
      BY <1>0, <2>2
    <3>2. Sum(V) = f[c] + Sum(V \ {c}) /\ Sum(U) = f[c] + Sum(U \ {c})
      BY <3>1, <2>2, SumSplits
    <3>3. V \ {c} = (S \ T) \cup (U \ {c})
      BY <2>2
    <3>4. Sum(V \ {c}) = Sum(S \ T) + Sum(U \ {c})
      BY <1>1, <2>2, <3>3
    <3>5. Sum(S \ T) \in Int /\ Sum(U \ {c}) \in Int /\ f[c] \in Int
      BY <1>0, <2>2
    <3> HIDE DEF Sum
    <3> QED BY <3>2, <3>4, <3>5
  <2> QED BY <2>1, <2>2
<1>2. IsFiniteSet(T) /\ (S \ T) \cup T = S
  BY <1>0
<1> HIDE DEF P
<1>3. \A U \in SUBSET T : (\A x \in U : U \ {x} \in P) => U \in P
  BY <1>1
<1>4. \A U \in SUBSET T : U \in P
  BY <1>2, <1>3, RemovalInduction
<1>5. T \in P
  BY <1>4
<1> QED BY <1>2, <1>5 DEF P

LEMMA ImageFinite ==
  ASSUME NEW S, IsFiniteSet(S), NEW new
  PROVE  IsFiniteSet({new[x] : x \in S})
<1> DEFINE T == {new[x] : x \in S}
           h == [x \in S |-> new[x]]
<1>1. h \in Surjection(S, T)
  BY DEF Surjection
<1> QED BY <1>1, FS_Surjection

\* Summing the values of g over the distinct images of the elements of S is
\* summing f over S.
LEMMA SumOfImages ==
  ASSUME NEW f, NEW S, IsFiniteSet(S), \A x \in S : f[x] \in Int,
         NEW new, \A x, y \in S : new[x] = new[y] => x = y,
         NEW g, \A x \in S : g[new[x]] = f[x]
  PROVE  SumFunctionOnSet(g, {new[x] : x \in S}) = SumFunctionOnSet(f, S)
<1> DEFINE Image(T) == {new[x] : x \in T}
           P == {T \in SUBSET S : SumFunctionOnSet(g, Image(T)) = SumFunctionOnSet(f, T)}
<1>0. ASSUME NEW T \in SUBSET S PROVE IsFiniteSet(T) /\ IsFiniteSet(Image(T))
  <2>1. IsFiniteSet(T)
    BY FS_Subset
  <2> QED BY <2>1, ImageFinite
<1>1. ASSUME NEW T \in SUBSET S, \A x \in T : T \ {x} \in P
      PROVE  T \in P
  <2>1. CASE T = {}
    BY <2>1, SumOfNone
  <2>2. ASSUME NEW c \in T PROVE T \in P
    <3>1. SumFunctionOnSet(f, T) = f[c] + SumFunctionOnSet(f, T \ {c})
      <4>1. IsFiniteSet(T) /\ \A x \in T : f[x] \in Int
        BY <1>0
      <4> QED BY <2>2, <4>1, SumSplits
    <3>2. IsFiniteSet(Image(T)) /\ new[c] \in Image(T) /\ \A y \in Image(T) : g[y] \in Int
      BY <1>0, <2>2
    <3>3. SumFunctionOnSet(g, Image(T))
            = g[new[c]] + SumFunctionOnSet(g, Image(T) \ {new[c]})
      BY <3>2, SumSplits
    <3>4. Image(T) \ {new[c]} = Image(T \ {c})
      BY <2>2
    <3>5. SumFunctionOnSet(g, Image(T \ {c})) = SumFunctionOnSet(f, T \ {c})
      BY <1>1, <2>2
    <3> QED BY <3>1, <3>3, <3>4, <3>5, <2>2
  <2> QED BY <2>1, <2>2
<1> HIDE DEF P
<1>2. \A T \in SUBSET S : (\A x \in T : T \ {x} \in P) => T \in P
  BY <1>1
<1>3. \A T \in SUBSET S : T \in P
  BY <1>2, RemovalInduction
<1>4. S \in P
  BY <1>3
<1> QED BY <1>4 DEF P

\* A sum of values of at most M each way is at most M times as many.
LEMMA SumBounded ==
  ASSUME NEW f, NEW S, IsFiniteSet(S), NEW M \in Nat,
         \A x \in S : f[x] \in Int /\ -M <= f[x] /\ f[x] <= M
  PROVE  /\ SumFunctionOnSet(f, S) <= Cardinality(S) * M
         /\ -(Cardinality(S) * M) <= SumFunctionOnSet(f, S)
<1> DEFINE Sum(U) == SumFunctionOnSet(f, U)
           P == {T \in SUBSET S : /\ Sum(T) <= Cardinality(T) * M
                                  /\ -(Cardinality(T) * M) <= Sum(T)}
<1>0. \A T \in SUBSET S : IsFiniteSet(T) /\ Cardinality(T) \in Nat /\ Sum(T) \in Int
  BY SumIsInt, FS_Subset, FS_CardinalityType
<1>1. ASSUME NEW T \in SUBSET S, \A x \in T : T \ {x} \in P
      PROVE  T \in P
  <2>1. CASE T = {}
    BY <2>1, SumOfNone, FS_EmptySet
  <2>2. CASE T # {}
    <3>1. PICK c \in T : Sum(T) = f[c] + Sum(T \ {c})
      BY <1>0, <2>2, SumOfSome
    <3> DEFINE m == Cardinality(T \ {c})
    <3>2. Cardinality(T) = m + 1 /\ m \in Nat
      BY <1>0, FS_RemoveElement
    <3>3. Sum(T \ {c}) <= m * M /\ -(m * M) <= Sum(T \ {c})
      BY <1>1
    <3>4. (m + 1) * M = m * M + M /\ m * M \in Int
      BY <3>2
    <3>5. /\ f[c] \in Int /\ -M <= f[c] /\ f[c] <= M
          /\ Sum(T) \in Int /\ Sum(T \ {c}) \in Int
      BY <1>0
    <3> HIDE DEF m, Sum, P
    <3>6. /\ Sum(T) <= Cardinality(T) * M
          /\ -(Cardinality(T) * M) <= Sum(T)
      BY <3>1, <3>2, <3>3, <3>4, <3>5
    <3> QED BY <3>6 DEF P
  <2> QED BY <2>1, <2>2
<1> HIDE DEF P
<1>2. \A T \in SUBSET S : (\A x \in T : T \ {x} \in P) => T \in P
  BY <1>1
<1>3. \A T \in SUBSET S : T \in P
  BY ONLY IsFiniteSet(S), <1>2, RemovalInduction
<1>4. S \in P
  BY <1>3
<1> QED BY <1>4 DEF P

\* More of what is not negative is not less.
LEMMA TimesGrows ==
  ASSUME NEW m \in Int, NEW n \in Int, m <= n, NEW M \in Nat
  PROVE  /\ m * M \in Int /\ n * M \in Int /\ m * M <= n * M
         /\ (n + 1) * M = n * M + M
<1>1. (n - m) \in Nat
  OBVIOUS
<1>2. (n - m) * M \in Nat
  BY <1>1
<1> QED BY <1>2
=============================================================================
