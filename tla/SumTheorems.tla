------------------------------ MODULE SumTheorems ------------------------------
(***************************************************************************)
(* What a sum over a finite set does when its summands change.  The sum of *)
(* the community modules is a recursive function over the subsets of its   *)
(* set; that there is one, and what it returns, is shown by looking at a   *)
(* smallest subset for which it would not be so.  And, in the same way,    *)
(* what the first n numbers of a finite set are, and what is put together  *)
(* step by step.                                                           *)
(***************************************************************************)
EXTENDS Integers, FiniteSets, FiniteSetsExt, FiniteSetTheorems, TLAPS

SumOf(f, S) == MapThenSumSet(LAMBDA x : f[x], S)

Pick(s) == CHOOSE x \in s : TRUE

\* What the library's definition of a sum chooses.
IsFold(g, f, S) ==
  g = [s \in SUBSET S |-> IF s = {} THEN 0 ELSE f[Pick(s)] + g[s \ {Pick(s)}]]

LEMMA SumOfIs ==
  ASSUME NEW f, NEW S
  PROVE  SumOf(f, S) = (CHOOSE g : IsFold(g, f, S))[S]
BY DEF SumOf, MapThenSumSet, MapThenFoldSet, IsFold, Pick

LEMMA PickIs == ASSUME NEW s, s # {} PROVE Pick(s) \in s
BY DEF Pick

LEMMA FoldIs ==
  ASSUME NEW g, NEW f, NEW S, IsFold(g, f, S), NEW s \in SUBSET S
  PROVE  g[s] = IF s = {} THEN 0 ELSE f[Pick(s)] + g[s \ {Pick(s)}]
BY DEF IsFold

\* Among sets of subsets of a finite set there is a smallest one.
LEMMA Smallest ==
  ASSUME NEW S, IsFiniteSet(S), NEW B, B \subseteq SUBSET S, B # {}
  PROVE  \E T \in B : \A U \in B : U \subseteq T => U = T
<1>1. FiniteSubsetsOf(S) = SUBSET S BY FS_FiniteSubsetsOfFinite
<1>2. IsWellFoundedOn(StrictSubsetOrdering(S), SUBSET S)
  BY <1>1, FS_StrictSubsetOrderingWellFounded
<1>3. PICK T \in B : \A U \in B : ~(<<U, T>> \in StrictSubsetOrdering(S))
  BY <1>2, WFMin
<1>4. ASSUME NEW U \in B, U \subseteq T PROVE U = T
  BY <1>3, <1>4 DEF StrictSubsetOrdering
<1> QED BY <1>4

LEMMA FoldUnique ==
  ASSUME NEW f, NEW S, NEW U, IsFiniteSet(S), NEW g, NEW h,
         IsFold(g, f, S), IsFold(h, f, U), NEW T, T \subseteq S, T \subseteq U
  PROVE  g[T] = h[T]
<1> DEFINE B == {V \in SUBSET S : V \subseteq U /\ g[V] # h[V]}
<1> SUFFICES ASSUME B # {} PROVE FALSE
  OBVIOUS
<1>1. PICK V \in B : \A W \in B : W \subseteq V => W = V
  <2>1. B \subseteq SUBSET S OBVIOUS
  <2> HIDE DEF B
  <2> QED BY <2>1, Smallest
<1>2. g[V] # h[V] /\ V \subseteq S /\ V \subseteq U BY <1>1
<1>3. V # {} BY <1>2, FoldIs
<1>4. Pick(V) \in V BY <1>3, PickIs
<1>5. g[V \ {Pick(V)}] = h[V \ {Pick(V)}] BY <1>1, <1>2, <1>4
<1>6. g[V] = f[Pick(V)] + g[V \ {Pick(V)}] BY <1>2, <1>3, FoldIs
<1>7. h[V] = f[Pick(V)] + h[V \ {Pick(V)}] BY <1>2, <1>3, FoldIs
<1> QED BY <1>2, <1>5, <1>6, <1>7

LEMMA FoldExists ==
  ASSUME NEW f, NEW S, IsFiniteSet(S)
  PROVE  \E g : IsFold(g, f, S)
<1> DEFINE B == {T \in SUBSET S : ~ \E g : IsFold(g, f, T)}
<1> SUFFICES ASSUME B # {} PROVE FALSE
  OBVIOUS
<1>1. PICK T \in B : \A W \in B : W \subseteq T => W = T
  <2>1. B \subseteq SUBSET S OBVIOUS
  <2> HIDE DEF B
  <2> QED BY <2>1, Smallest
<1> DEFINE H(U) == CHOOSE h : IsFold(h, f, U)
           Rest(s) == s \ {Pick(s)}
           G == [s \in SUBSET T |-> IF s = {} THEN 0 ELSE f[Pick(s)] + H(Rest(s))[Rest(s)]]
<1>2. ASSUME NEW U \in SUBSET T, U # T PROVE IsFold(H(U), f, U)
  <2>1. \E h : IsFold(h, f, U) BY <1>1, <1>2
  <2> QED BY <2>1
<1>3. ASSUME NEW s \in SUBSET T, s # {} PROVE G[Rest(s)] = H(Rest(s))[Rest(s)]
  <2> DEFINE U == Rest(s)
  <2>1. U \in SUBSET T /\ U # T BY <1>3, PickIs
  <2>2. IsFold(H(U), f, U) BY <1>2, <2>1
  <2>3. CASE U = {}
    <3>1. H(U)[U] = 0 BY <2>2, <2>3, FoldIs
    <3>2. G[U] = 0 BY <2>1, <2>3
    <3> QED BY <3>1, <3>2
  <2>4. CASE U # {}
    <3> DEFINE W == Rest(U)
    <3>1. W \subseteq U /\ W # T /\ W \in SUBSET T BY <2>1
    <3>2. IsFold(H(W), f, W) BY <1>2, <3>1
    <3>3. H(U)[U] = f[Pick(U)] + H(U)[W]
      <4>1. U \in SUBSET U OBVIOUS
      <4> HIDE DEF H, U
      <4> QED BY <2>2, <2>4, <4>1, FoldIs
    <3>4. G[U] = f[Pick(U)] + H(W)[W] BY <2>1, <2>4
    <3>5. IsFiniteSet(U) BY <1>1, <2>1, FS_Subset
    <3>6. H(U)[W] = H(W)[W]
      <4>1. W \subseteq W OBVIOUS
      <4> HIDE DEF H, U, W
      <4> QED BY <2>2, <3>1, <3>2, <3>5, <4>1, FoldUnique
    <3> QED BY <3>3, <3>4, <3>6
  <2> QED BY <2>3, <2>4
<1>4. G = [s \in SUBSET T |-> IF s = {} THEN 0 ELSE f[Pick(s)] + G[s \ {Pick(s)}]]
  <2>1. ASSUME NEW s \in SUBSET T
        PROVE  (IF s = {} THEN 0 ELSE f[Pick(s)] + H(Rest(s))[Rest(s)])
                 = IF s = {} THEN 0 ELSE f[Pick(s)] + G[Rest(s)]
    <3> HIDE DEF G, H, Rest
    <3> QED BY <1>3
  <2> HIDE DEF H
  <2> QED BY <2>1
<1>5. IsFold(G, f, T) BY <1>4 DEF IsFold
<1> QED BY <1>1, <1>5

-----------------------------------------------------------------------------
LEMMA SumStep ==
  ASSUME NEW f, NEW S, IsFiniteSet(S)
  PROVE  /\ S = {} => SumOf(f, S) = 0
         /\ S # {} => SumOf(f, S) = f[Pick(S)] + SumOf(f, S \ {Pick(S)})
<1> DEFINE g == CHOOSE g : IsFold(g, f, S)
           R == S \ {Pick(S)}
           h == CHOOSE h : IsFold(h, f, R)
<1>1. IsFold(g, f, S) BY FoldExists
<1>2. IsFiniteSet(R) /\ R \subseteq S BY FS_Subset
<1>3. IsFold(h, f, R) BY <1>2, FoldExists
<1>4. SumOf(f, S) = g[S] /\ SumOf(f, R) = h[R] BY SumOfIs
<1>5. g[S] = IF S = {} THEN 0 ELSE f[Pick(S)] + g[R]
  <2> HIDE DEF g
  <2> QED BY <1>1, FoldIs
<1>6. g[R] = h[R]
  <2> HIDE DEF g, h, R
  <2> QED BY <1>1, <1>2, <1>3, FoldUnique
<1> QED BY <1>4, <1>5, <1>6

LEMMA SumEmpty == ASSUME NEW f PROVE SumOf(f, {}) = 0
BY SumStep, FS_EmptySet

\* Summands that are the same have the same sum.
LEMMA SumSame ==
  ASSUME NEW f, NEW g, NEW S, IsFiniteSet(S), \A x \in S : f[x] = g[x]
  PROVE  SumOf(f, S) = SumOf(g, S)
<1> DEFINE B == {T \in SUBSET S : SumOf(f, T) # SumOf(g, T)}
<1> SUFFICES ASSUME B # {} PROVE FALSE
  OBVIOUS
<1>1. PICK T \in B : \A W \in B : W \subseteq T => W = T
  <2>1. B \subseteq SUBSET S OBVIOUS
  <2> HIDE DEF B
  <2> QED BY <2>1, Smallest
<1>2. IsFiniteSet(T) BY FS_Subset
<1>3. T # {} BY <1>1, <1>2, SumStep
<1>4. Pick(T) \in T BY <1>3, PickIs
<1>5. SumOf(f, T \ {Pick(T)}) = SumOf(g, T \ {Pick(T)}) BY <1>1, <1>4
<1>6. f[Pick(T)] = g[Pick(T)] BY <1>4
<1> QED BY <1>1, <1>2, <1>3, <1>5, <1>6, SumStep

LEMMA SumType ==
  ASSUME NEW f, NEW S, IsFiniteSet(S), \A x \in S : f[x] \in Int
  PROVE  SumOf(f, S) \in Int
<1> DEFINE B == {T \in SUBSET S : SumOf(f, T) \notin Int}
<1> SUFFICES ASSUME B # {} PROVE FALSE
  OBVIOUS
<1>1. PICK T \in B : \A W \in B : W \subseteq T => W = T
  <2>1. B \subseteq SUBSET S OBVIOUS
  <2> HIDE DEF B
  <2> QED BY <2>1, Smallest
<1>2. IsFiniteSet(T) BY FS_Subset
<1>3. T # {}
  <2> SUFFICES ASSUME T = {} PROVE FALSE
    OBVIOUS
  <2>1. SumOf(f, T) = 0 BY SumEmpty
  <2> QED BY <1>1, <2>1
<1>4. Pick(T) \in T BY <1>3, PickIs
<1>5. SumOf(f, T \ {Pick(T)}) \in Int BY <1>1, <1>4
<1>6. f[Pick(T)] \in Int BY <1>4
<1> QED BY <1>1, <1>2, <1>3, <1>5, <1>6, SumStep

\* The sum of sums.
LEMMA SumPlus ==
  ASSUME NEW f, NEW g, NEW h, NEW S, IsFiniteSet(S),
         \A x \in S : f[x] \in Int /\ g[x] \in Int /\ h[x] = f[x] + g[x]
  PROVE  SumOf(h, S) = SumOf(f, S) + SumOf(g, S)
<1> DEFINE B == {T \in SUBSET S : SumOf(h, T) # SumOf(f, T) + SumOf(g, T)}
<1> SUFFICES ASSUME B # {} PROVE FALSE
  OBVIOUS
<1>1. PICK T \in B : \A W \in B : W \subseteq T => W = T
  <2>1. B \subseteq SUBSET S OBVIOUS
  <2> HIDE DEF B
  <2> QED BY <2>1, Smallest
<1>2. IsFiniteSet(T) BY FS_Subset
<1>3. T # {}
  <2> SUFFICES ASSUME T = {} PROVE FALSE
    OBVIOUS
  <2>1. SumOf(f, T) = 0 /\ SumOf(g, T) = 0 /\ SumOf(h, T) = 0 BY SumEmpty
  <2> QED BY <1>1, <2>1
<1> DEFINE x == Pick(T)
           R == T \ {x}
<1>4. x \in T /\ x \in S BY <1>3, PickIs
<1>5. IsFiniteSet(R) /\ \A y \in R : f[y] \in Int /\ g[y] \in Int BY <1>2, FS_Subset
<1>6. SumOf(f, R) \in Int /\ SumOf(g, R) \in Int BY <1>5, SumType
<1>7. SumOf(h, R) = SumOf(f, R) + SumOf(g, R) BY <1>1, <1>4
<1>8. f[x] \in Int /\ g[x] \in Int /\ h[x] = f[x] + g[x] BY <1>4
<1>9. /\ SumOf(f, T) = f[x] + SumOf(f, R) /\ SumOf(g, T) = g[x] + SumOf(g, R)
      /\ SumOf(h, T) = h[x] + SumOf(h, R)
  BY <1>2, <1>3, SumStep
<1> HIDE DEF x, R
<1> QED BY <1>1, <1>6, <1>7, <1>8, <1>9

\* A sum with one summand that is not zero.
LEMMA SumSingle ==
  ASSUME NEW f, NEW S, IsFiniteSet(S), NEW x \in S, NEW d \in Int,
         \A y \in S : f[y] = IF y = x THEN d ELSE 0
  PROVE  SumOf(f, S) = d
<1> DEFINE B == {T \in SUBSET S : SumOf(f, T) # IF x \in T THEN d ELSE 0}
<1>0. S \in SUBSET S OBVIOUS
<1> SUFFICES ASSUME B # {} PROVE FALSE
  BY <1>0
<1>1. PICK T \in B : \A W \in B : W \subseteq T => W = T
  <2>1. B \subseteq SUBSET S OBVIOUS
  <2> HIDE DEF B
  <2> QED BY <2>1, Smallest
<1>2. IsFiniteSet(T) BY FS_Subset
<1>3. T # {} BY <1>1, SumEmpty
<1> DEFINE y == Pick(T)
           R == T \ {y}
<1>4. y \in T /\ y \in S BY <1>3, PickIs
<1>5. SumOf(f, R) = IF x \in R THEN d ELSE 0 BY <1>1, <1>4
<1>6. f[y] = IF y = x THEN d ELSE 0 BY <1>4
<1>7. SumOf(f, T) = f[y] + SumOf(f, R) BY <1>2, <1>3, SumStep
<1>8. SumOf(f, T) = IF x \in T THEN d ELSE 0
  <2>1. CASE y = x BY <1>4, <1>5, <1>6, <1>7, <2>1
  <2>2. CASE y # x BY <1>4, <1>5, <1>6, <1>7, <2>2
  <2> QED BY <2>1, <2>2
<1> QED BY <1>1, <1>8

\* One summand changes: so does the sum.
LEMMA SumChange ==
  ASSUME NEW f, NEW g, NEW S, IsFiniteSet(S), NEW x \in S, NEW d \in Int,
         \A y \in S : f[y] \in Int,
         \A y \in S : g[y] = IF y = x THEN f[x] + d ELSE f[y]
  PROVE  SumOf(g, S) = SumOf(f, S) + d
<1> DEFINE e == [y \in S |-> IF y = x THEN d ELSE 0]
<1>1. SumOf(e, S) = d BY SumSingle
<1>2. \A y \in S : f[y] \in Int /\ e[y] \in Int /\ g[y] = f[y] + e[y] OBVIOUS
<1>3. SumOf(g, S) = SumOf(f, S) + SumOf(e, S) BY <1>2, SumPlus
<1> QED BY <1>1, <1>3

\* Smaller summands have a smaller sum.
LEMMA SumLeq ==
  ASSUME NEW f, NEW g, NEW S, IsFiniteSet(S),
         \A x \in S : f[x] \in Int /\ g[x] \in Int /\ f[x] <= g[x]
  PROVE  SumOf(f, S) <= SumOf(g, S)
<1> DEFINE B == {T \in SUBSET S : ~(SumOf(f, T) <= SumOf(g, T))}
<1> SUFFICES ASSUME B # {} PROVE FALSE
  OBVIOUS
<1>1. PICK T \in B : \A W \in B : W \subseteq T => W = T
  <2>1. B \subseteq SUBSET S OBVIOUS
  <2> HIDE DEF B
  <2> QED BY <2>1, Smallest
<1>2. IsFiniteSet(T) BY FS_Subset
<1>3. T # {}
  <2> SUFFICES ASSUME T = {} PROVE FALSE
    OBVIOUS
  <2>1. SumOf(f, T) = 0 /\ SumOf(g, T) = 0 BY SumEmpty
  <2> QED BY <1>1, <2>1
<1> DEFINE x == Pick(T)
           R == T \ {x}
<1>4. x \in T /\ x \in S BY <1>3, PickIs
<1>5. IsFiniteSet(R) /\ \A y \in R : f[y] \in Int /\ g[y] \in Int BY <1>2, FS_Subset
<1>6. SumOf(f, R) \in Int /\ SumOf(g, R) \in Int BY <1>5, SumType
<1>7. SumOf(f, R) <= SumOf(g, R) BY <1>1, <1>4
<1>8. f[x] \in Int /\ g[x] \in Int /\ f[x] <= g[x] BY <1>4
<1>9. /\ SumOf(f, T) = f[x] + SumOf(f, R) /\ SumOf(g, T) = g[x] + SumOf(g, R)
  BY <1>2, <1>3, SumStep
<1> HIDE DEF x, R
<1> QED BY <1>1, <1>6, <1>7, <1>8, <1>9

LEMMA SumZero ==
  ASSUME NEW f, NEW S, IsFiniteSet(S), \A x \in S : f[x] = 0
  PROVE  SumOf(f, S) = 0
<1>1. CASE S = {} BY <1>1, SumEmpty
<1>2. CASE S # {}
  <2>1. PICK x : x \in S BY <1>2
  <2> QED BY <2>1, SumSingle
<1> QED BY <1>1, <1>2

\* A sum of equal summands.
LEMMA SumConstant ==
  ASSUME NEW f, NEW S, IsFiniteSet(S), NEW c \in Int, \A x \in S : f[x] = c
  PROVE  SumOf(f, S) = Cardinality(S) * c
<1> DEFINE B == {T \in SUBSET S : SumOf(f, T) # Cardinality(T) * c}
<1> SUFFICES ASSUME B # {} PROVE FALSE
  OBVIOUS
<1>1. PICK T \in B : \A W \in B : W \subseteq T => W = T
  <2>1. B \subseteq SUBSET S OBVIOUS
  <2> HIDE DEF B
  <2> QED BY <2>1, Smallest
<1>2. IsFiniteSet(T) BY FS_Subset
<1>3. T # {}
  <2>1. 0 * c = 0 OBVIOUS
  <2> QED BY <1>1, <2>1, SumEmpty, FS_EmptySet
<1> DEFINE x == Pick(T)
           R == T \ {x}
<1>4. x \in T /\ x \in S BY <1>3, PickIs
<1>5. SumOf(f, R) = Cardinality(R) * c BY <1>1, <1>4
<1>6. f[x] = c BY <1>4
<1>7. Cardinality(R) = Cardinality(T) - 1 /\ Cardinality(T) \in Nat
  BY <1>2, <1>4, FS_RemoveElement, FS_CardinalityType
<1>8. SumOf(f, T) = f[x] + SumOf(f, R) BY <1>2, <1>3, SumStep
<1> HIDE DEF x, R
<1>9. (Cardinality(T) - 1) * c = Cardinality(T) * c - c /\ Cardinality(T) * c \in Int
  BY <1>7
<1> QED BY <1>1, <1>5, <1>6, <1>7, <1>8, <1>9

-----------------------------------------------------------------------------
\* Numbers of a set up to one of them, and sets that have, with a number, all up to it.
Upto(D, j) == {i \in D : i <= j}
Initial(D, T) == \A j \in T : Upto(D, j) \subseteq T

LEMMA GreatestOrder ==
  ASSUME NEW T, IsFiniteSet(T), T # {}
  PROVE  \E x \in T : \A y \in T : {z \in T : y <= z} \subseteq {z \in T : x <= z}
                                     => {z \in T : y <= z} = {z \in T : x <= z}
<1> DEFINE From(x) == {z \in T : x <= z}
           B == {From(x) : x \in T}
<1>1. PICK U \in B : \A V \in B : V \subseteq U => V = U
  <2>1. B \subseteq SUBSET T OBVIOUS
  <2>2. B # {} OBVIOUS
  <2> HIDE DEF B
  <2> QED BY <2>1, <2>2, Smallest
<1>2. PICK x \in T : U = From(x) BY <1>1
<1>3. \A y \in T : From(y) \in B OBVIOUS
<1>4. \A y \in T : From(y) \subseteq From(x) => From(y) = From(x) BY <1>1, <1>2, <1>3
<1> QED BY <1>4

\* A finite set of numbers has a greatest one.
LEMMA Greatest ==
  ASSUME NEW T, IsFiniteSet(T), T \subseteq Nat, T # {}
  PROVE  \E x \in T : \A y \in T : y <= x
<1> DEFINE From(x) == {z \in T : x <= z}
<1>1. PICK x \in T : \A y \in T : From(y) \subseteq From(x) => From(y) = From(x)
  BY GreatestOrder
<1>2. ASSUME NEW y \in T, ~(y <= x) PROVE FALSE
  <2>1. x \in Nat /\ y \in Nat /\ x < y BY <1>2
  <2>2. \A z \in T : y <= z => x <= z
    <3> SUFFICES ASSUME NEW z \in T, y <= z PROVE x <= z
      OBVIOUS
    <3>1. z \in Nat OBVIOUS
    <3> QED BY <2>1, <3>1
  <2>3. From(y) = From(x) BY <1>1, <2>2
  <2>4. x \in From(x) /\ x \notin From(y) BY <2>1
  <2> QED BY <2>3, <2>4
<1> QED BY <1>2

LEMMA LeastOrder ==
  ASSUME NEW T, IsFiniteSet(T), T # {}
  PROVE  \E x \in T : \A y \in T : Upto(T, y) \subseteq Upto(T, x) => Upto(T, y) = Upto(T, x)
<1> DEFINE B == {Upto(T, x) : x \in T}
<1>1. PICK U \in B : \A V \in B : V \subseteq U => V = U
  <2>1. B \subseteq SUBSET T BY DEF Upto
  <2>2. B # {} OBVIOUS
  <2> HIDE DEF B
  <2> QED BY <2>1, <2>2, Smallest
<1>2. PICK x \in T : U = Upto(T, x) BY <1>1
<1>3. \A y \in T : Upto(T, y) \in B OBVIOUS
<1> QED BY <1>1, <1>2, <1>3

\* ... and a least one.
LEMMA Least ==
  ASSUME NEW T, IsFiniteSet(T), T \subseteq Nat, T # {}
  PROVE  \E x \in T : \A y \in T : x <= y
<1>1. PICK x \in T : \A y \in T : Upto(T, y) \subseteq Upto(T, x) => Upto(T, y) = Upto(T, x)
  BY LeastOrder
<1>2. ASSUME NEW y \in T, ~(x <= y) PROVE FALSE
  <2>1. x \in Nat /\ y \in Nat /\ y < x BY <1>2
  <2>2. Upto(T, y) \subseteq Upto(T, x)
    <3> SUFFICES ASSUME NEW z \in T, z <= y PROVE z <= x
      BY DEF Upto
    <3>1. z \in Nat OBVIOUS
    <3> QED BY <2>1, <3>1
  <2>3. Upto(T, y) = Upto(T, x) BY <1>1, <2>2
  <2>4. x \in Upto(T, x) /\ x \notin Upto(T, y) BY <2>1 DEF Upto
  <2> QED BY <2>3, <2>4
<1> QED BY <1>2

LEMMA SmallestInitial ==
  ASSUME NEW D, IsFiniteSet(D), NEW n, n <= Cardinality(D)
  PROVE  \E T \in SUBSET D :
           /\ Initial(D, T) /\ n <= Cardinality(T)
           /\ \A V \in SUBSET T : Initial(D, V) /\ n <= Cardinality(V) => V = T
<1> DEFINE B == {T \in SUBSET D : Initial(D, T) /\ n <= Cardinality(T)}
<1>1. PICK T \in B : \A V \in B : V \subseteq T => V = T
  <2>1. B \subseteq SUBSET D OBVIOUS
  <2>2. D \in B BY DEF Initial, Upto
  <2>3. B # {} BY <2>2
  <2> HIDE DEF B
  <2> QED BY <2>1, <2>3, Smallest
<1> QED BY <1>1

\* Of the numbers of a set, those with at most n up to them are all, or n.
LEMMA FirstOnes ==
  ASSUME NEW D, IsFiniteSet(D), D \subseteq Nat, NEW n \in Nat,
         NEW I, I = {j \in D : Cardinality(Upto(D, j)) <= n}
  PROVE  I = D \/ n <= Cardinality(I)
<1> SUFFICES ASSUME I # D PROVE n <= Cardinality(I)
  OBVIOUS
<1>1. \A T \in SUBSET D : IsFiniteSet(T) /\ Cardinality(T) \in Nat
  BY FS_Subset, FS_CardinalityType
<1>2. n <= Cardinality(D)
  <2>1. PICK k \in D : ~(Cardinality(Upto(D, k)) <= n) OBVIOUS
  <2>2. Upto(D, k) \in SUBSET D BY DEF Upto
  <2>3. Cardinality(Upto(D, k)) <= Cardinality(D) BY <2>2, FS_Subset
  <2>4. Cardinality(Upto(D, k)) \in Nat /\ Cardinality(D) \in Nat BY <1>1, <2>2
  <2> QED BY <2>1, <2>3, <2>4
<1>3. PICK T \in SUBSET D :
        /\ Initial(D, T) /\ n <= Cardinality(T)
        /\ \A V \in SUBSET T : Initial(D, V) /\ n <= Cardinality(V) => V = T
  BY <1>2, SmallestInitial
<1>4. IsFiniteSet(T) /\ Cardinality(T) \in Nat BY <1>1
<1>5. Cardinality(T) <= n
  <2> SUFFICES ASSUME ~(Cardinality(T) <= n) PROVE FALSE
    OBVIOUS
  <2>1. T # {} BY <1>4, FS_EmptySet
  <2>2. PICK x \in T : \A y \in T : y <= x BY <1>4, <2>1, Greatest
  <2>3. Cardinality(T \ {x}) = Cardinality(T) - 1 BY <1>4, <2>2, FS_RemoveElement
  <2>4. n <= Cardinality(T \ {x}) BY <1>4, <2>3
  <2>5. Initial(D, T \ {x})
    <3> SUFFICES ASSUME NEW j \in T \ {x}, NEW i \in Upto(D, j) PROVE i \in T \ {x}
      BY DEF Initial
    <3>1. j \in Nat /\ x \in Nat /\ j <= x /\ j # x /\ i \in Nat /\ i <= j
      BY <2>2 DEF Upto
    <3>2. i # x BY <3>1
    <3>3. i \in T BY <1>3 DEF Initial
    <3> QED BY <3>2, <3>3
  <2> QED BY <1>3, <2>2, <2>4, <2>5
<1>6. T \subseteq I
  <2> SUFFICES ASSUME NEW j \in T PROVE j \in I
    OBVIOUS
  <2>1. Upto(D, j) \in SUBSET T BY <1>3 DEF Initial
  <2>2. Cardinality(Upto(D, j)) <= Cardinality(T) BY <1>4, <2>1, FS_Subset
  <2>3. Cardinality(Upto(D, j)) \in Nat BY <1>1, <2>1
  <2>4. Cardinality(Upto(D, j)) <= n BY <1>4, <1>5, <2>2, <2>3
  <2> QED BY <2>4
<1>7. I \in SUBSET D OBVIOUS
<1>8. IsFiniteSet(I) /\ Cardinality(I) \in Nat BY <1>1, <1>7
<1>9. Cardinality(T) <= Cardinality(I) BY <1>6, <1>8, FS_Subset
<1> QED BY <1>3, <1>4, <1>8, <1>9

\* A sum without one of its summands.
LEMMA SumRemove ==
  ASSUME NEW f, NEW S, IsFiniteSet(S), \A x \in S : f[x] \in Int, NEW y \in S
  PROVE  SumOf(f, S) = f[y] + SumOf(f, S \ {y})
<1> DEFINE B == {T \in SUBSET S : \E z \in T : SumOf(f, T) # f[z] + SumOf(f, T \ {z})}
<1> SUFFICES ASSUME B # {} PROVE FALSE
  OBVIOUS
<1>1. PICK T \in B : \A U \in B : U \subseteq T => U = T
  <2>1. B \subseteq SUBSET S OBVIOUS
  <2> HIDE DEF B
  <2> QED BY <2>1, Smallest
<1>2. PICK z \in T : SumOf(f, T) # f[z] + SumOf(f, T \ {z})
  BY <1>1
<1> DEFINE p == Pick(T)
<1>3. IsFiniteSet(T) /\ p \in T
  BY <1>1, <1>2, FS_Subset, PickIs
<1> HIDE DEF p
<1>4. SumOf(f, T) = f[p] + SumOf(f, T \ {p})
  BY <1>2, <1>3, SumStep DEF p
<1>5. p # z
  BY <1>2, <1>4
<1>6. T \ {p} \notin B /\ T \ {z} \notin B
  BY <1>1, <1>2, <1>3
<1>7. SumOf(f, T \ {p}) = f[z] + SumOf(f, (T \ {p}) \ {z})
  BY <1>1, <1>2, <1>5, <1>6
<1>8. SumOf(f, T \ {z}) = f[p] + SumOf(f, (T \ {z}) \ {p})
  BY <1>1, <1>3, <1>5, <1>6
<1>9. (T \ {p}) \ {z} = (T \ {z}) \ {p} /\ IsFiniteSet((T \ {z}) \ {p})
  BY <1>3, FS_Subset
<1>10. SumOf(f, (T \ {z}) \ {p}) \in Int /\ f[z] \in Int /\ f[p] \in Int
  BY <1>1, <1>2, <1>3, <1>9, SumType
<1> DEFINE c == SumOf(f, (T \ {z}) \ {p})
           a == SumOf(f, T)
           b == SumOf(f, T \ {z})
<1>11. c \in Int /\ a = f[p] + (f[z] + c) /\ b = f[p] + c /\ a # f[z] + b
  BY <1>2, <1>4, <1>7, <1>8, <1>9, <1>10
<1> HIDE DEF a, b, c
<1> QED BY <1>10, <1>11

-----------------------------------------------------------------------------
\* Induction over 0 .. n, with a set in the place of a predicate.
LEMMA NumbersUpTo ==
  ASSUME NEW n \in Nat, NEW T, 0 \in T,
         \A k \in 0 .. n : k < n /\ k \in T => k + 1 \in T
  PROVE  0 .. n \subseteq T
<1> DEFINE B == (0 .. n) \ T
<1> SUFFICES ASSUME B # {} PROVE FALSE
  OBVIOUS
<1>1. IsFiniteSet(B) /\ B \subseteq Nat
  <2>1. IsFiniteSet(0 .. n)
    BY FS_Interval
  <2>2. B \in SUBSET (0 .. n) /\ B \subseteq Nat
    OBVIOUS
  <2> QED BY <2>1, <2>2, FS_Subset
<1>2. PICK k \in B : \A j \in B : k <= j
  BY <1>1, Least
<1>3. k # 0 /\ k - 1 \in 0 .. n /\ k - 1 < n
  BY <1>2
<1>4. k - 1 \in T
  BY <1>2, <1>3
<1>5. (k - 1) + 1 \in T
  BY <1>3, <1>4
<1> QED BY <1>2, <1>5

\* What is put together step by step.
StepByStep(f, n, X, a, g) ==
  f \in [0 .. n -> X] /\ f[0] = a /\ \A k \in 1 .. n : f[k] = g[<<k, f[k - 1]>>]

LEMMA Recursion ==
  ASSUME NEW n \in Nat, NEW X, NEW a \in X, NEW g \in [(1 .. n) \X X -> X]
  PROVE  \E f : StepByStep(f, n, X, a, g)
<1> DEFINE Is(f, m) == f[0] = a /\ \A k \in 1 .. m : f[k] = g[<<k, f[k - 1]>>]
           T == {m \in 0 .. n : \E f \in [0 .. m -> X] : Is(f, m)}
<1>1. 0 \in T
  <2> DEFINE f == [k \in 0 .. 0 |-> a]
  <2>1. f \in [0 .. 0 -> X] /\ Is(f, 0)
    OBVIOUS
  <2>2. \E h \in [0 .. 0 -> X] : Is(h, 0)
    BY <2>1
  <2> HIDE DEF Is
  <2> QED BY <2>2
<1>2. ASSUME NEW m \in 0 .. n, m < n, m \in T PROVE m + 1 \in T
  <2>1. PICK f \in [0 .. m -> X] : Is(f, m)
    BY <1>2
  <2> DEFINE x == g[<<m + 1, f[m]>>]
             h == [k \in 0 .. m + 1 |-> IF k = m + 1 THEN x ELSE f[k]]
  <2>2. x \in X
    BY <1>2
  <2>3. h \in [0 .. m + 1 -> X] /\ h[0] = a
    BY <1>2, <2>1, <2>2
  <2>4. ASSUME NEW k \in 1 .. m + 1 PROVE h[k] = g[<<k, h[k - 1]>>]
    <3>1. CASE k = m + 1
      <4>1. h[k] = x /\ k - 1 = m /\ m \in 0 .. m + 1 /\ m # m + 1
        BY <1>2, <3>1
      <4>2. h[m] = f[m]
        BY <4>1
      <4> HIDE DEF h
      <4> QED BY <3>1, <4>1, <4>2
    <3>2. CASE k \in 1 .. m
      <4>1. h[k] = f[k] /\ h[k - 1] = f[k - 1] /\ f[k] = g[<<k, f[k - 1]>>]
        BY <1>2, <2>1, <3>2
      <4> QED BY <4>1
    <3> QED BY <1>2, <3>1, <3>2
  <2> HIDE DEF h
  <2> QED BY <1>2, <2>3, <2>4
<1>3. n \in T
  <2> HIDE DEF T
  <2>1. 0 .. n \subseteq T
    BY <1>1, <1>2, NumbersUpTo
  <2> QED BY <2>1
<1> QED BY <1>3 DEF StepByStep
=============================================================================
