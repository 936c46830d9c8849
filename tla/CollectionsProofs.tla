------------------------- MODULE CollectionsProofs -------------------------
(***************************************************************************)
(* What the shared computations yield.  The dependency closure is, for     *)
(* every finite catalog, the smallest set that holds the given components  *)
(* and all that its members need.  The entries that are retained from a    *)
(* sequence are those at the given positions, once each and in their       *)
(* order.  The induction behind both is that of the natural numbers, in    *)
(* the form of a statement about sets.                                     *)
(***************************************************************************)
EXTENDS Collections, FiniteSetTheorems, WellFoundedInduction, TLAPS

\* The order of the natural numbers as a set of pairs.
Less == {ss \in Nat \X Nat : ss[1] < ss[2]}

\* That order is well founded.
LEMMA LessWellFounded == IsWellFoundedOn(Less, Nat)
<1>1. OpToRel(<, Nat) = Less
  BY DEF OpToRel, Less
<1>2. QED
  BY <1>1, NatLessThanWellFounded

\* Every set of numbers that is not empty has a least element.
LEMMA LeastNumber ==
    ASSUME NEW T \in SUBSET Nat, T # {}
    PROVE  \E n \in T : \A m \in T : n <= m
<1>1. PICK n \in T : \A m \in T : <<m, n>> \notin Less
  BY LessWellFounded, WFMin
<1>2. ASSUME NEW m \in T PROVE n <= m
  <2>1. m \in Nat /\ n \in Nat
    OBVIOUS
  <2>2. <<m, n>> \notin {ss \in Nat \X Nat : ss[1] < ss[2]}
    BY <1>1 DEF Less
  <2>3. ~(m < n)
    BY <2>1, <2>2
  <2>4. QED BY <2>1, <2>3
<1>3. QED BY <1>2

\* Induction up to N, over a set of numbers.
LEMMA IntervalInduction ==
    ASSUME NEW N \in Nat, NEW G, 0 \in G,
           \A k \in 0 .. N : k < N /\ k \in G => k + 1 \in G
    PROVE  0 .. N \subseteq G
<1> DEFINE T == {n \in 0 .. N : n \notin G}
<1>1. SUFFICES ASSUME T # {} PROVE FALSE
  OBVIOUS
<1>2. PICK n \in T : \A m \in T : n <= m
  <2>1. T \in SUBSET Nat
    OBVIOUS
  <2> HIDE DEF T
  <2>2. QED BY <1>1, <2>1, LeastNumber
<1>3. n # 0 /\ n \in 0 .. N
  OBVIOUS
<1>4. n - 1 \in 0 .. N /\ n - 1 < N /\ n - 1 \notin T
  BY <1>2, <1>3
<1>5. QED
  BY <1>4

-----------------------------------------------------------------------------
\* The steps of the closure.
IsGrowth(f, N, succ, S) ==
    f = [k \in 0 .. N |-> IF k = 0 THEN S ELSE Grow(succ, f[k - 1])]

\* The recursive definition has a solution.
LEMMA GrowthExists ==
    ASSUME NEW N \in Nat, NEW succ, NEW S
    PROVE  \E f : IsGrowth(f, N, succ, S)
<1> DEFINE G == {n \in 0 .. N : \E f : IsGrowth(f, n, succ, S)}
<1>1. 0 \in G
  <2>1. IsGrowth([k \in 0 .. 0 |-> S], 0, succ, S)
    BY DEF IsGrowth
  <2>2. QED BY <2>1
<1>2. ASSUME NEW n \in 0 .. N, n < N, n \in G PROVE n + 1 \in G
  <2>1. PICK f : IsGrowth(f, n, succ, S)
    BY <1>2
  <2> DEFINE g == [k \in 0 .. n + 1 |-> IF k = n + 1 THEN Grow(succ, f[n]) ELSE f[k]]
  <2>2. ASSUME NEW k \in 0 .. n + 1
        PROVE  g[k] = IF k = 0 THEN S ELSE Grow(succ, g[k - 1])
    <3>1. CASE k = 0
      <4>1. g[0] = f[0] /\ f[0] = S
        BY <2>1 DEF IsGrowth
      <4>2. QED BY <3>1, <4>1
    <3>2. CASE k = n + 1
      <4>1. k # 0 /\ k - 1 = n /\ n \in 0 .. n + 1 /\ n # n + 1
        BY <3>2
      <4>2. g[k] = Grow(succ, f[n]) /\ g[k - 1] = f[n]
        BY <3>2, <4>1
      <4>3. QED BY <4>1, <4>2
    <3>3. CASE k \in 1 .. n
      <4>1. k # 0 /\ k # n + 1 /\ k - 1 # n + 1 /\ k - 1 \in 0 .. n + 1 /\ k \in 0 .. n
        BY <3>3
      <4>2. g[k] = f[k] /\ g[k - 1] = f[k - 1]
        BY <4>1
      <4>3. f[k] = Grow(succ, f[k - 1])
        BY <2>1, <4>1 DEF IsGrowth
      <4>4. QED BY <4>1, <4>2, <4>3
    <3>4. QED BY <3>1, <3>2, <3>3
  <2>3. IsGrowth(g, n + 1, succ, S)
    BY <2>2 DEF IsGrowth
  <2>4. QED BY <1>2, <2>3
<1>3. 0 .. N \subseteq G
  BY <1>1, <1>2, IntervalInduction
<1>4. QED
  BY <1>3

\* The closure is the last step of such a sequence of steps.
LEMMA ReachableIsGrowth ==
    ASSUME NEW nodes, IsFiniteSet(nodes), NEW succ, NEW S
    PROVE  \E f : /\ IsGrowth(f, Cardinality(nodes), succ, S)
                  /\ Reachable(nodes, succ, S) = f[Cardinality(nodes)]
<1> DEFINE N == Cardinality(nodes)
           g == CHOOSE f : f = [k \in 0 .. N |-> IF k = 0 THEN S ELSE Grow(succ, f[k - 1])]
<1>1. N \in Nat
  BY FS_CardinalityType
<1>2. Reachable(nodes, succ, S) = g[N]
  BY DEF Reachable
<1>3. \E f : f = [k \in 0 .. N |-> IF k = 0 THEN S ELSE Grow(succ, f[k - 1])]
  <2>1. \E f : IsGrowth(f, N, succ, S)
    BY <1>1, GrowthExists
  <2>2. QED BY <2>1 DEF IsGrowth
<1>4. g = [k \in 0 .. N |-> IF k = 0 THEN S ELSE Grow(succ, g[k - 1])]
  BY <1>3
<1>5. IsGrowth(g, N, succ, S)
  BY <1>4 DEF IsGrowth
<1>6. QED
  BY <1>2, <1>5

\* A set that needs nothing outside itself.
Closed(succ, T) == \A c \in T : succ[c] \subseteq T

\* The steps of a growth stay in the catalog and never lose a component.
GrowthIn(nodes, f, N, succ, S) ==
    /\ f[0] = S
    /\ \A k \in 0 .. N : k < N => f[k + 1] = Grow(succ, f[k])
    /\ \A k \in 0 .. N : S \subseteq f[k] /\ f[k] \subseteq nodes

\* Every stage of the growth is a set of nodes that contains S.
LEMMA GrowthType ==
    ASSUME NEW nodes, NEW succ, \A c \in nodes : succ[c] \subseteq nodes,
           NEW S \in SUBSET nodes, NEW N \in Nat, NEW f, IsGrowth(f, N, succ, S)
    PROVE  GrowthIn(nodes, f, N, succ, S)
<1>1. f[0] = S
  BY DEF IsGrowth
<1>2. ASSUME NEW k \in 0 .. N, k < N PROVE f[k + 1] = Grow(succ, f[k])
  <2>1. k + 1 \in 0 .. N /\ k + 1 # 0 /\ (k + 1) - 1 = k
    BY <1>2
  <2>2. QED BY <2>1 DEF IsGrowth
<1> DEFINE G == {k \in 0 .. N : S \subseteq f[k] /\ f[k] \subseteq nodes}
<1>3. 0 \in G
  BY <1>1
<1>4. ASSUME NEW k \in 0 .. N, k < N, k \in G PROVE k + 1 \in G
  BY <1>2, <1>4 DEF Grow
<1>5. 0 .. N \subseteq G
  <2> HIDE DEF G
  <2>1. QED BY <1>3, <1>4, IntervalInduction
<1>6. QED
  BY <1>1, <1>2, <1>5 DEF GrowthIn

\* The dependency closure of a catalog's components holds them, stays in the
\* catalog, and whatever one of its members needs is a member: the number of
\* steps, that of the components, is enough for every chain of dependencies.
\* Nothing is in it that some other closed set leaves out.
THEOREM ReachableClosed ==
    ASSUME NEW nodes, IsFiniteSet(nodes), NEW succ,
           \A c \in nodes : succ[c] \subseteq nodes,
           NEW S \in SUBSET nodes
    PROVE  /\ S \subseteq Reachable(nodes, succ, S)
           /\ Reachable(nodes, succ, S) \subseteq nodes
           /\ Closed(succ, Reachable(nodes, succ, S))
           /\ \A T : S \subseteq T /\ Closed(succ, T) => Reachable(nodes, succ, S) \subseteq T
<1> DEFINE N == Cardinality(nodes)
<1>1. N \in Nat
  BY FS_CardinalityType
<1>2. PICK f : IsGrowth(f, N, succ, S) /\ Reachable(nodes, succ, S) = f[N]
  BY ReachableIsGrowth
<1> HIDE DEF N
<1>3. /\ f[0] = S
      /\ \A k \in 0 .. N : k < N => f[k + 1] = Grow(succ, f[k])
      /\ \A k \in 0 .. N : S \subseteq f[k] /\ f[k] \subseteq nodes
  <2>1. GrowthIn(nodes, f, N, succ, S)
    BY <1>1, <1>2, GrowthType
  <2>2. QED BY <2>1 DEF GrowthIn
<1>4. Closed(succ, f[N])
  <2>1. SUFFICES ASSUME ~Closed(succ, f[N]) PROVE FALSE
    OBVIOUS
  \* A step that adds nothing would be followed by none that does.
  <2>2. ASSUME NEW k \in 0 .. N PROVE ~Closed(succ, f[k])
    <3>1. SUFFICES ASSUME Closed(succ, f[k]) PROVE FALSE
      OBVIOUS
    <3> DEFINE G == {j \in 0 .. N : j >= k => f[j] = f[k]}
    <3>2. 0 \in G
      BY <1>1
    <3>3. ASSUME NEW j \in 0 .. N, j < N, j \in G PROVE j + 1 \in G
      <4>0. j + 1 \in 0 .. N
        BY <1>1, <3>3
      <4>1. CASE j >= k
        <5>1. f[j] = f[k] /\ f[j + 1] = Grow(succ, f[j])
          BY <1>3, <3>3, <4>1
        <5>2. Grow(succ, f[k]) = f[k]
          BY <3>1 DEF Grow, Closed
        <5>3. QED BY <4>0, <5>1, <5>2
      <4>2. CASE j + 1 = k
        BY <4>0, <4>2
      <4>3. CASE j + 1 < k
        BY <1>1, <4>0, <4>3
      <4>4. QED BY <1>1, <4>1, <4>2, <4>3
    <3>4. 0 .. N \subseteq G
      <4> HIDE DEF G
      <4>1. QED BY <1>1, <3>2, <3>3, IntervalInduction
    <3>5. f[N] = f[k]
      BY <1>1, <3>4
    <3>6. QED BY <2>1, <3>1, <3>5
  <2>3. ASSUME NEW k \in 0 .. N
        PROVE  IsFiniteSet(f[k]) /\ Cardinality(f[k]) \in Nat
    BY <1>3, FS_Subset, FS_CardinalityType
  <2> DEFINE G == {k \in 0 .. N : Cardinality(f[k]) >= k + 1}
  <2>4. 0 \in G
    <3>1. f[0] # {}
      BY <1>1, <2>2 DEF Closed
    <3>2. 0 \in 0 .. N
      BY <1>1
    <3>3. Cardinality(f[0]) # 0
      BY <2>3, <3>1, <3>2, FS_EmptySet
    <3>4. QED BY <2>3, <3>2, <3>3
  <2>5. ASSUME NEW k \in 0 .. N, k < N, k \in G PROVE k + 1 \in G
    <3>1. k + 1 \in 0 .. N
      BY <1>1, <2>5
    <3>2. f[k] \subseteq f[k + 1] /\ f[k] # f[k + 1]
      BY <1>3, <2>2, <2>5 DEF Grow, Closed
    <3>3. Cardinality(f[k]) < Cardinality(f[k + 1])
      BY <2>3, <3>1, <3>2, FS_Subset
    <3>4. QED BY <2>3, <2>5, <3>1, <3>3
  <2>6. 0 .. N \subseteq G
    <3> HIDE DEF G
    <3>1. QED BY <1>1, <2>4, <2>5, IntervalInduction
  <2>7. Cardinality(f[N]) >= N + 1
    BY <1>1, <2>6
  <2>8. Cardinality(f[N]) <= N
    BY <1>1, <1>3, FS_Subset DEF N
  <2>9. QED BY <1>1, <2>3, <2>7, <2>8
<1>5. ASSUME NEW T, S \subseteq T, Closed(succ, T) PROVE f[N] \subseteq T
  <2> DEFINE G == {k \in 0 .. N : f[k] \subseteq T}
  <2>1. 0 \in G
    BY <1>1, <1>3, <1>5
  <2>2. ASSUME NEW k \in 0 .. N, k < N, k \in G PROVE k + 1 \in G
    <3>1. k + 1 \in 0 .. N
      BY <1>1, <2>2
    <3>2. f[k + 1] = Grow(succ, f[k]) /\ f[k] \subseteq T
      BY <1>3, <2>2
    <3>3. QED BY <1>5, <3>1, <3>2 DEF Grow, Closed
  <2>3. 0 .. N \subseteq G
    <3> HIDE DEF G
    <3>1. QED BY <1>1, <2>1, <2>2, IntervalInduction
  <2>4. QED BY <1>1, <2>3
<1>6. QED
  BY <1>1, <1>2, <1>3, <1>4, <1>5

-----------------------------------------------------------------------------
(* Retained entries *)

\* A finite set of positions can be named in ascending order.
LEMMA AscendingExists ==
    ASSUME NEW N \in Nat, NEW I \in SUBSET (1 .. N)
    PROVE  \E g \in [1 .. Cardinality(I) -> I] : Ascending(g, I)
<1> DEFINE G == {k \in 0 .. N : \A J \in SUBSET (1 .. k) :
                    \E g \in [1 .. Cardinality(J) -> J] : Ascending(g, J)}
<1>1. 0 \in G
  <2>1. ASSUME NEW J \in SUBSET (1 .. 0)
        PROVE  \E g \in [1 .. Cardinality(J) -> J] : Ascending(g, J)
    <3>1. J = {}
      OBVIOUS
    <3>2. Cardinality(J) = 0
      BY <3>1, FS_EmptySet
    <3>3. [j \in 1 .. 0 |-> 0] \in [1 .. Cardinality(J) -> J]
      BY <3>1, <3>2
    <3>4. Ascending([j \in 1 .. 0 |-> 0], J)
      BY <3>1, <3>2, <3>3 DEF Ascending
    <3>5. QED
      BY <3>3, <3>4
  <2>2. QED
    BY <2>1
<1>2. ASSUME NEW k \in 0 .. N, k < N, k \in G PROVE k + 1 \in G
  <2>1. ASSUME NEW J \in SUBSET (1 .. (k + 1))
        PROVE  \E g \in [1 .. Cardinality(J) -> J] : Ascending(g, J)
    <3>1. CASE k + 1 \notin J
      <4>1. J \in SUBSET (1 .. k)
        BY <3>1
      <4>2. QED
        BY <1>2, <4>1
    <3>2. CASE k + 1 \in J
      <4> DEFINE H == J \ {k + 1}
      <4>1. H \in SUBSET (1 .. k) /\ J = H \cup {k + 1} /\ k + 1 \notin H
        BY <3>2
      <4> HIDE DEF H
      <4>2. IsFiniteSet(H)
        <5>1. IsFiniteSet(1 .. k)
          BY FS_Interval
        <5>2. QED
          BY <4>1, <5>1, FS_Subset
      <4>3. Cardinality(H) \in Nat /\ Cardinality(J) = Cardinality(H) + 1
        BY <4>1, <4>2, FS_AddElement, FS_CardinalityType
      <4> DEFINE c == Cardinality(H)
      <4> HIDE DEF c
      <4>4. c \in Nat /\ Cardinality(J) = c + 1 /\ c = Cardinality(H)
        BY <4>3 DEF c
      <4>5. PICK h \in [1 .. c -> H] : Ascending(h, H)
        BY <1>2, <4>1, <4>4
      <4> DEFINE g == [j \in 1 .. (c + 1) |-> IF j = c + 1 THEN k + 1 ELSE h[j]]
      <4>6. g \in [1 .. (c + 1) -> J]
        BY <4>1, <4>4, <4>5
      <4>7. ASSUME NEW j \in 1 .. (c + 1), NEW m \in 1 .. (c + 1), j < m PROVE g[j] < g[m]
        <5>0. j \in 1 .. c
          BY <4>4, <4>7
        <5>1. j \in 1 .. c /\ h[j] \in 1 .. k
          BY <4>1, <4>5, <5>0
        <5>2. CASE m = c + 1
          BY <4>4, <5>1, <5>2
        <5>3. CASE m # c + 1
          <6>1. m \in 1 .. c
            BY <4>4, <5>3
          <6>2. h[j] < h[m]
            BY <4>5, <4>7, <5>1, <6>1 DEF Ascending
          <6>3. QED
            BY <4>4, <4>7, <5>1, <6>1, <6>2
        <5>4. QED
          BY <5>2, <5>3
      <4>8. ASSUME NEW i \in J PROVE \E j \in 1 .. (c + 1) : g[j] = i
        <5>1. CASE i = k + 1
          BY <4>4, <5>1
        <5>2. CASE i # k + 1
          <6>1. i \in H
            BY <4>1, <5>2
          <6>2. PICK j \in 1 .. c : h[j] = i
            BY <4>5, <6>1 DEF Ascending
          <6>3. QED
            BY <4>4, <6>2
        <5>3. QED
          BY <5>1, <5>2
      <4>9. Ascending(g, J)
        BY <4>4, <4>6, <4>7, <4>8 DEF Ascending
      <4>10. QED
        BY <4>4, <4>6, <4>9
    <3>3. QED
      BY <3>1, <3>2
  <2>2. k + 1 \in 0 .. N
    BY <1>2
  <2>3. QED
    BY <2>1, <2>2
<1> HIDE DEF G
<1>3. 0 .. N \subseteq G
  BY <1>1, <1>2, IntervalInduction
<1>4. N \in G
  BY <1>3
<1>5. QED
  BY <1>4 DEF G

\* The retained entries of s are those at the positions I, in their order: g
\* tells where each comes from.
THEOREM RetainedInOrder ==
    ASSUME NEW S, NEW s \in Seq(S), NEW I \in SUBSET (DOMAIN s)
    PROVE  \E g : /\ Ascending(g, I)
                  /\ DOMAIN g = 1 .. Len(Retained(s, I))
                  /\ Retained(s, I) \in Seq(S)
                  /\ \A j \in DOMAIN g : Retained(s, I)[j] = s[g[j]]
<1> DEFINE c == Cardinality(I)
           g == CHOOSE x \in [1 .. c -> I] : Ascending(x, I)
           r == Retained(s, I)
<1>1. I \in SUBSET (1 .. Len(s)) /\ Len(s) \in Nat
  OBVIOUS
<1>2. g \in [1 .. c -> I] /\ Ascending(g, I)
  BY <1>1, AscendingExists
<1>3. c \in Nat
  <2>1. IsFiniteSet(1 .. Len(s))
    BY <1>1, FS_Interval
  <2>2. IsFiniteSet(I)
    BY <1>1, <2>1, FS_Subset
  <2>3. QED
    BY <2>2, FS_CardinalityType
<1>4. r = [j \in 1 .. c |-> s[g[j]]]
  BY DEF Retained
<1> HIDE DEF c, g, r
<1>5. \A j \in 1 .. c : s[g[j]] \in S
  BY <1>2
<1>6. r \in Seq(S) /\ Len(r) = c
  BY <1>3, <1>4, <1>5
<1>7. QED
  BY <1>2, <1>4, <1>6 DEF r
=============================================================================
