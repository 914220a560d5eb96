--------------------------- MODULE IntervalInduction ---------------------------
(***************************************************************************)
(* Induction over the naturals and over intervals, for sets: what the      *)
(* proofs use wherever the code has a loop with a counter.                 *)
(***************************************************************************)
EXTENDS Integers, FiniteSetsExt, FiniteSetTheorems, WellFoundedInduction, TLAPS

\* A set of naturals has a least element: of its initial parts, which are
\* finite, one has no strict part among them.
LEMMA LeastOfNat ==
  ASSUME NEW S, S \subseteq Nat, S # {}
  PROVE  \E m \in S : \A x \in S : m <= x
<1> DEFINE Upto(m) == S \cap 0..m
<1>1. PICK n \in S : TRUE
  OBVIOUS
<1> DEFINE Family == {Upto(m) : m \in Upto(n)}
           R == StrictSubsetOrdering(0..n)
           F == FiniteSubsetsOf(0..n)
<1>2. IsWellFoundedOn(R, F)
  BY FS_StrictSubsetOrderingWellFounded
<1>3. Family \subseteq F /\ Family # {}
  <2>1. IsFiniteSet(0..n)
    <3>1. n \in Int /\ 0 \in Int
      OBVIOUS
    <3> QED BY <3>1, FS_Interval
  <2>2. F = SUBSET (0..n)
    BY <2>1, FS_FiniteSubsetsOfFinite
  <2>3. n \in Upto(n)
    OBVIOUS
  <2>4. \A m \in Upto(n) : Upto(m) \in SUBSET (0..n)
    OBVIOUS
  <2> HIDE DEF F
  <2> QED BY <2>2, <2>3, <2>4
<1>4. PICK T \in Family : \A U \in Family : <<U, T>> \notin R
  <2> HIDE DEF R, F, Family
  <2> QED BY <1>2, <1>3, WFMin
<1>5. PICK m \in Upto(n) : T = Upto(m)
  OBVIOUS
<1>6. \A x \in S : m <= x
  <2> SUFFICES ASSUME NEW x \in S, x < m PROVE FALSE
    OBVIOUS
  <2>1. x \in Upto(n) /\ Upto(x) \in Family
    OBVIOUS
  <2>2. /\ Upto(x) \subseteq Upto(m) /\ m \in Upto(m) /\ m \notin Upto(x)
        /\ Upto(m) \in SUBSET (0..n) /\ Upto(x) \in SUBSET (0..n)
    OBVIOUS
  <2>3. <<Upto(x), T>> \in R
    BY <1>5, <2>2 DEF StrictSubsetOrdering
  <2> QED BY <1>4, <2>1, <2>3
<1> QED BY <1>6, m \in S

\* Min is that element.
LEMMA MinOfNat ==
  ASSUME NEW S, S \subseteq Nat, S # {}
  PROVE  Min(S) \in S
BY LeastOfNat DEF Min

LEMMA MinLeast ==
  ASSUME NEW S, S \subseteq Nat, S # {}
  PROVE  \A x \in S : Min(S) <= x
BY LeastOfNat DEF Min

\* A set that holds the first number of an interval, and the next of each it
\* holds, holds the interval.
LEMMA Upwards ==
  ASSUME NEW n \in Nat, NEW S, 0 \in S,
         \A k \in 0..n : k \in S /\ k < n => k + 1 \in S
  PROVE  0..n \subseteq S
<1> DEFINE Missing == {k \in 0..n : k \notin S}
<1> SUFFICES ASSUME Missing # {} PROVE FALSE
  OBVIOUS
<1>1. PICK m \in Missing : \A k \in Missing : m <= k
  BY LeastOfNat, Missing \subseteq Nat
<1>2. m \in 0..n /\ m \notin S /\ m # 0
  BY <1>1
<1>3. m - 1 \in 0..n /\ m - 1 < n /\ m - 1 < m /\ (m - 1) + 1 = m
  BY <1>2
<1>4. m - 1 \in S
  BY <1>1, <1>3
<1> QED
  BY <1>2, <1>3, <1>4

\* A set holds a whole domain if it holds each number whose predecessors, those
\* of a smaller rank, it holds.
LEMMA ByRank ==
  ASSUME NEW D, NEW rank \in [D -> Nat], NEW S,
         \A j \in D : (\A k \in D : rank[k] < rank[j] => k \in S) => j \in S
  PROVE  D \subseteq S
<1> DEFINE Missing == {rank[j] : j \in D \ S}
<1> SUFFICES ASSUME Missing # {} PROVE FALSE
  OBVIOUS
<1>1. PICK m \in Missing : \A x \in Missing : m <= x
  BY LeastOfNat, Missing \subseteq Nat
<1>2. PICK j \in D \ S : m = rank[j]
  OBVIOUS
<1>3. ASSUME NEW k \in D, rank[k] < rank[j], k \notin S
      PROVE  FALSE
  <2>1. rank[k] \in Missing
    BY <1>3
  <2>2. m <= rank[k] /\ rank[k] \in Nat /\ rank[j] \in Nat
    BY <1>1, <2>1
  <2> QED BY <1>2, <1>3, <2>2
<1> QED BY <1>2, <1>3

\* G computes the value at j from the values of a smaller rank alone.
LooksBack(G, D, rank, V) ==
  \A j \in D : \A f, g \in [D -> V] :
    (\A k \in D : rank[k] < rank[j] => f[k] = g[k]) => G[j][f] = G[j][g]

\* f is what G computes, at least where the rank is below n.
Computes(G, D, f) == \A j \in D : f[j] = G[j][f]
ComputesBelow(G, D, rank, n, f) == \A j \in D : rank[j] < n => f[j] = G[j][f]

\* There is a function that is what G computes below n ...
LEMMA RecursionBelow ==
  ASSUME NEW D, NEW rank \in [D -> Nat], NEW n \in Nat,
         NEW V, NEW some \in V, NEW G \in [D -> [[D -> V] -> V]], LooksBack(G, D, rank, V)
  PROVE  \E f \in [D -> V] : ComputesBelow(G, D, rank, n, f)
<1> DEFINE Upto(f, m) == \A j \in D : rank[j] < m => f[j] = G[j][f]
           S == {m \in 0..n : \E f \in [D -> V] : Upto(f, m)}
<1>1. 0 \in S
  <2> DEFINE h == [j \in D |-> some]
  <2>1. h \in [D -> V] /\ \A j \in D : ~(rank[j] < 0)
    OBVIOUS
  <2>2. Upto(h, 0)
    BY <2>1
  <2> HIDE DEF h
  <2> QED BY <2>1, <2>2
<1>2. ASSUME NEW m \in 0..n, m \in S, m < n
      PROVE  m + 1 \in S
  <2>1. PICK f \in [D -> V] : Upto(f, m)
    BY <1>2
  <2> DEFINE h == [j \in D |-> IF rank[j] = m THEN G[j][f] ELSE f[j]]
  <2>2. h \in [D -> V]
    <3> HIDE DEF Upto, S
    <3> QED OBVIOUS
  <2>3. ASSUME NEW j \in D, rank[j] < m + 1
        PROVE  h[j] = G[j][h]
    <3>1. \A k \in D : rank[k] < rank[j] => h[k] = f[k]
      BY <2>3
    <3> HIDE DEF h
    <3>2. G[j][h] = G[j][f]
      <4> HIDE DEF Upto, S
      <4> QED BY <2>2, <3>1 DEF LooksBack
    <3>3. rank[j] = m \/ rank[j] < m
      <4> DEFINE q == rank[j]
      <4>1. q \in Nat /\ m \in Nat /\ q < m + 1
        BY <2>3
      <4> HIDE DEF q
      <4>2. q = m \/ q < m
        BY <4>1
      <4> QED BY <4>2 DEF q
    <3> QED BY <2>1, <3>2, <3>3 DEF h
  <2>4. m + 1 \in 0..n
    BY <1>2
  <2> HIDE DEF h
  <2> QED BY <2>2, <2>3, <2>4
<1>3. 0..n \subseteq S
  <2> HIDE DEF S
  <2> QED BY <1>1, <1>2, Upwards
<1>4. \E f \in [D -> V] : Upto(f, n)
  <2>1. n \in 0..n
    OBVIOUS
  <2> HIDE DEF Upto
  <2> QED BY <1>3, <2>1
<1> QED BY <1>4 DEF ComputesBelow

\* ... and two of them agree there, so that a recursive function exists.
LEMMA RecursionHasValue ==
  ASSUME NEW D, NEW rank \in [D -> Nat],
         NEW V, NEW some \in V, NEW G \in [D -> [[D -> V] -> V]], LooksBack(G, D, rank, V)
  PROVE  \E f \in [D -> V] : Computes(G, D, f)
<1> DEFINE Below(n) == CHOOSE f \in [D -> V] : ComputesBelow(G, D, rank, n, f)
           h == [j \in D |-> Below(rank[j] + 1)[j]]
<1>0. ASSUME NEW n \in Nat, NEW f \in [D -> V], NEW g \in [D -> V],
             ComputesBelow(G, D, rank, n, f), ComputesBelow(G, D, rank, n, g)
      PROVE  \A j \in D : rank[j] < n => g[j] = f[j]
  <2> DEFINE S == {j \in D : rank[j] < n => g[j] = f[j]}
  <2> HIDE DEF Below, h
  <2>1. ASSUME NEW j \in D, \A k \in D : rank[k] < rank[j] => k \in S, rank[j] < n
        PROVE  g[j] = f[j]
    <3>1. \A x, y \in Nat : x < y /\ y < n => x < n
      OBVIOUS
    <3>2. \A k \in D : rank[k] < rank[j] => g[k] = f[k]
      BY <2>1, <3>1
    <3>3. G[j][g] = G[j][f]
      BY <3>2 DEF LooksBack
    <3> QED BY <1>0, <2>1, <3>3 DEF ComputesBelow
  <2>2. \A j \in D : (\A k \in D : rank[k] < rank[j] => k \in S) => j \in S
    BY <2>1
  <2>3. D \subseteq S
    <3> HIDE DEF S
    <3> QED BY <2>2, ByRank
  <2> QED BY <2>3
<1>1. ASSUME NEW n \in Nat
      PROVE  Below(n) \in [D -> V] /\ ComputesBelow(G, D, rank, n, Below(n))
  BY RecursionBelow
<1> HIDE DEF Below
<1>2. \A j \in D : rank[j] \in Nat /\ rank[j] + 1 \in Nat
  OBVIOUS
<1>3. h \in [D -> V]
  BY <1>1, <1>2
<1>4. ASSUME NEW j \in D
      PROVE  h[j] = G[j][h]
  <2> DEFINE n == rank[j] + 1
             f == Below(n)
  <2>1. n \in Nat /\ f \in [D -> V] /\ ComputesBelow(G, D, rank, n, f)
    BY <1>1, <1>2
  <2>2. ASSUME NEW k \in D, rank[k] < n
        PROVE  h[k] = f[k]
    <3> DEFINE m == rank[k] + 1
               g == Below(m)
    <3>1. m \in Nat /\ g \in [D -> V] /\ ComputesBelow(G, D, rank, m, g)
      BY <1>1, <1>2
    <3>2. \A x \in Nat : x < m => x < n
      BY <1>2, <2>2
    <3>3. ComputesBelow(G, D, rank, m, f)
      <4>1. \A x \in D : rank[x] < m => rank[x] < n
        BY <1>2, <3>2
      <4> HIDE DEF m, n, f
      <4> QED BY <2>1, <4>1 DEF ComputesBelow
    <3>4. rank[k] < m
      BY <1>2
    <3>5. g[k] = f[k]
      <4> HIDE DEF m, n, f, g, h
      <4> QED BY <1>0, <2>1, <3>1, <3>3, <3>4
    <3> QED BY <3>5
  <2>3. rank[j] < n /\ \A k \in D : rank[k] < rank[j] => rank[k] < n
    BY <1>2
  <2>4. h[j] = f[j] /\ f[j] = G[j][f]
    <3> HIDE DEF n
    <3> QED BY <2>1, <2>2, <2>3 DEF ComputesBelow
  <2>5. G[j][h] = G[j][f]
    <3> HIDE DEF n, f, h
    <3> QED BY <1>3, <2>1, <2>2, <2>3 DEF LooksBack
  <2> QED BY <2>4, <2>5
<1> QED BY <1>3, <1>4 DEF Computes

=============================================================================
