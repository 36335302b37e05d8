---------------------------- MODULE CompareProofs ----------------------------
(***************************************************************************)
(* Proofs about the two comparisons (TargetDiff, TgbDiff) and about the    *)
(* shadow comparison that runs one beside the other, for all graphs,       *)
(* limits and orders in which maps are gone through.  Distances that are   *)
(* right edge by edge are those of the shortest paths; a breadth-first     *)
(* search gives such distances; the loops before it classify as the        *)
(* reference does.  tgbdiff walks all targets of the later graph and       *)
(* targetdiff only the changed ones: both are searches, over two sets, and *)
(* what the oracle may hold against an answer is how these differ.         *)
(***************************************************************************)
EXTENDS ShadowCompare, FiniteSetTheorems, WellFoundedInduction, TLAPS


-----------------------------------------------------------------------------
(* Shortest paths: Within and Shortest of DiffGraphs.                       *)

\* Every set of numbers has a least one: induction, for a property given as a set.
LEMMA LeastNumber ==
    ASSUME NEW T \in SUBSET Nat, T # {}
    PROVE  \E m \in T : \A k \in T : m <= k
<1> DEFINE R == {ss \in Nat \X Nat : ss[1] < ss[2]}
<1>1. IsWellFoundedOn(R, Nat)
  BY NatLessThanWellFounded, Zenon DEF OpToRel
<1>2. PICK m \in T : \A y \in T : <<y, m>> \notin R
  <2> HIDE DEF R
  <2> QED
    BY <1>1, WFMin
<1>3. \A y \in T : ~(y < m)
  BY <1>2
<1> QED
  BY <1>3

\* One round of Within.
Spread(g, S, w) == w \cup {n \in S \cap DOMAIN g : g[n].deps \cap w # {}}

Rounds(g, S, roots, k, f) ==
    f = [i \in 0..k |-> IF i = 0 THEN roots ELSE Spread(g, S, f[i - 1])]

\* The recursion of Within has a solution over any interval.
LEMMA RoundsExist ==
    ASSUME NEW g, NEW S, NEW roots, NEW N \in Nat
    PROVE  \E f : Rounds(g, S, roots, N, f)
<1> DEFINE T == {k \in Nat : ~\E f : Rounds(g, S, roots, k, f)}
<1> SUFFICES ASSUME T # {} PROVE FALSE
  OBVIOUS
<1>1. PICK k \in T : \A j \in T : k <= j
  <2>1. T \in SUBSET Nat
    OBVIOUS
  <2> HIDE DEF T
  <2> QED
    BY <2>1, LeastNumber
<1>2. CASE k = 0
  <2> DEFINE f == [i \in 0..0 |-> roots]
  <2>1. f = [i \in 0..0 |-> IF i = 0 THEN roots ELSE Spread(g, S, f[i - 1])]
    OBVIOUS
  <2> QED
    BY <2>1, <1>1, <1>2 DEF Rounds
<1>3. CASE k # 0
  <2>1. k \in Nat /\ k - 1 \in Nat /\ k - 1 \notin T
    BY <1>1, <1>3
  <2>2. PICK f : Rounds(g, S, roots, k - 1, f)
    BY <2>1
  <2>3. /\ f = [i \in 0..k - 1 |-> IF i = 0 THEN roots ELSE Spread(g, S, f[i - 1])]
    BY <2>2 DEF Rounds
  <2> DEFINE h == [i \in 0..k |-> IF i = k THEN Spread(g, S, f[k - 1]) ELSE f[i]]
  <2>4. \A i \in 0..k - 1 : h[i] = f[i]
    BY <2>1
  <2>5. \A i \in 0..k : h[i] = IF i = 0 THEN roots ELSE Spread(g, S, h[i - 1])
    <3> SUFFICES ASSUME NEW i \in 0..k PROVE h[i] = IF i = 0 THEN roots ELSE Spread(g, S, h[i - 1])
      OBVIOUS
    <3> HIDE DEF h
    <3>1. CASE i = k
      <4>1. h[i] = Spread(g, S, f[k - 1])
        BY <3>1 DEF h
      <4>2. h[k - 1] = f[k - 1]
        BY <2>1, <2>4
      <4> QED
        BY <4>1, <4>2, <3>1, <1>3
    <3>2. CASE i # k
      <4>1. i \in 0..k - 1 /\ h[i] = f[i]
        BY <3>2, <2>1, <2>4
      <4>2. f[i] = IF i = 0 THEN roots ELSE Spread(g, S, f[i - 1])
        BY <4>1, <2>3
      <4>3. i # 0 => h[i - 1] = f[i - 1]
        BY <4>1, <2>1, <2>4
      <4> QED
        BY <4>1, <4>2, <4>3
    <3> QED
      BY <3>1, <3>2
  <2>6. h = [i \in 0..k |-> h[i]]
    OBVIOUS
  <2>7. h = [i \in 0..k |-> IF i = 0 THEN roots ELSE Spread(g, S, h[i - 1])]
    <3> HIDE DEF h
    <3> QED
      BY <2>5, <2>6
  <2>8. \E e : Rounds(g, S, roots, k, e)
    <3> HIDE DEF h
    <3> QED
      BY <2>7 DEF Rounds
  <2> QED
    BY <2>8, <1>1
<1> QED
  BY <1>2, <1>3

\* What that solution satisfies.
IsWithin(g, S, roots, N, W) ==
    /\ W[0] = roots
    /\ \A k \in 1..N : W[k] = Spread(g, S, W[k - 1])

LEMMA NamesCount == Cardinality(Names) \in Nat
BY NamesAssumption, FS_CardinalityType

LEMMA WithinUnfolds ==
    ASSUME NEW g, NEW S, NEW roots
    PROVE  IsWithin(g, S, roots, Cardinality(Names), Within(g, S, roots))
<1> DEFINE N == Cardinality(Names)
           W == Within(g, S, roots)
<1>1. W = CHOOSE f : Rounds(g, S, roots, N, f)
  BY DEF Within, Rounds, Spread
<1> HIDE DEF W, N
<1>2. N \in Nat
  BY NamesCount DEF N
<1>3. Rounds(g, S, roots, N, W)
  BY <1>1, <1>2, RoundsExist
<1>4. W = [i \in 0..N |-> IF i = 0 THEN roots ELSE Spread(g, S, W[i - 1])]
  BY <1>3 DEF Rounds
<1>5. W[0] = roots
  BY <1>4, <1>2
<1>6. \A k \in 1..N : W[k] = Spread(g, S, W[k - 1])
  BY <1>4, <1>2
<1> QED
  BY <1>5, <1>6 DEF W, N, IsWithin

-----------------------------------------------------------------------------

Allowed(limit, d) == limit < 0 \/ d <= limit

\* Distances that are right where one edge can tell.
Tight(g, S, roots, limit, dist) ==
    /\ dist = [n \in S |-> dist[n]]
    /\ \A n \in S : dist[n] \in Int /\ dist[n] >= -1 /\ (dist[n] = 0 <=> n \in roots)
    /\ \A n \in S : dist[n] > 0 =>
         /\ Allowed(limit, dist[n])
         /\ \E m \in S : n \in Dependents(g, m) /\ dist[n] = dist[m] + 1
    /\ \A m \in S : \A n \in Dependents(g, m) :
         n \in S /\ dist[m] >= 0 /\ Allowed(limit, dist[m] + 1) => dist[n] \in 0..(dist[m] + 1)

\* The rounds grow and stay in S.
LEMMA RoundsGrow ==
    ASSUME NEW g, NEW S, NEW roots \in SUBSET S, NEW W, NEW N \in Nat,
           IsWithin(g, S, roots, N, W)
    PROVE  \A k \in 0..N : W[k] \subseteq S /\ \A j \in 0..k : W[j] \subseteq W[k]
<1> DEFINE T == {k \in Nat : k <= N /\ ~(W[k] \subseteq S /\ \A j \in 0..k : W[j] \subseteq W[k])}
<1>1. CASE T = {}
  BY <1>1
<1>2. CASE T # {}
  <2>1. PICK k \in T : \A j \in T : k <= j
    <3>1. T \in SUBSET Nat
      OBVIOUS
    <3> HIDE DEF T
    <3> QED
      BY <3>1, <1>2, LeastNumber
  <2>2. k # 0
    BY <2>1 DEF IsWithin
  <2>3. k \in 1..N /\ k - 1 \in Nat /\ k - 1 <= N /\ k - 1 \notin T
    BY <2>1, <2>2
  <2>4. W[k - 1] \subseteq S /\ \A j \in 0..k - 1 : W[j] \subseteq W[k - 1]
    BY <2>3
  <2>5. W[k] = Spread(g, S, W[k - 1])
    BY <2>3 DEF IsWithin
  <2>6. W[k - 1] \subseteq W[k] /\ W[k] \subseteq S
    BY <2>4, <2>5 DEF Spread
  <2>7. \A j \in 0..k : W[j] \subseteq W[k]
    BY <2>3, <2>4, <2>6
  <2> QED
    BY <2>1, <2>6, <2>7
<1> QED
  BY <1>1, <1>2

\* What a path of k dependencies reaches has a distance of at most k.
LEMMA TightBelow ==
    ASSUME NEW g, NEW S, NEW roots \in SUBSET S, NEW limit \in Int, NEW dist,
           Tight(g, S, roots, limit, dist), NEW W, NEW N \in Nat,
           IsWithin(g, S, roots, N, W)
    PROVE  \A k \in 0..N : Allowed(limit, k) => \A n \in W[k] : dist[n] \in 0..k
<1>0. \A k \in 0..N : W[k] \subseteq S /\ \A j \in 0..k : W[j] \subseteq W[k]
  BY RoundsGrow
<1> DEFINE T == {k \in Nat : k <= N /\ Allowed(limit, k) /\ ~\A n \in W[k] : dist[n] \in 0..k}
<1>1. CASE T = {}
  BY <1>1
<1>2. CASE T # {}
  <2>1. PICK k \in T : \A j \in T : k <= j
    <3>1. T \in SUBSET Nat
      OBVIOUS
    <3> HIDE DEF T
    <3> QED
      BY <3>1, <1>2, LeastNumber
  <2>2. k # 0
    BY <2>1 DEF Tight, IsWithin
  <2>3. k \in 1..N /\ k - 1 \in Nat /\ k - 1 <= N /\ k - 1 \notin T /\ Allowed(limit, k)
    BY <2>1, <2>2
  <2>4. \A n \in W[k - 1] : dist[n] \in 0..(k - 1)
    BY <2>3 DEF Allowed
  <2>5. PICK n \in W[k] : ~(dist[n] \in 0..k)
    BY <2>1
  <2>6. W[k] = Spread(g, S, W[k - 1])
    BY <2>3 DEF IsWithin
  <2>7. n \notin W[k - 1]
    BY <2>3, <2>4, <2>5
  <2>8. PICK m \in W[k - 1] : n \in S /\ n \in Dependents(g, m)
    BY <2>5, <2>6, <2>7 DEF Spread, Dependents
  <2>9. m \in S
    BY <1>0, <2>3, <2>8
  <2>10. dist[m] \in 0..(k - 1) /\ Allowed(limit, dist[m] + 1)
    BY <2>3, <2>4 DEF Allowed
  <2>11. dist[n] \in 0..(dist[m] + 1)
    BY <2>8, <2>9, <2>10 DEF Tight
  <2> QED
    BY <2>3, <2>5, <2>10, <2>11
<1> QED
  BY <1>1, <1>2

\* What has distance k is reached by a path of k dependencies.
LEMMA TightAbove ==
    ASSUME NEW g, NEW S, NEW roots \in SUBSET S, NEW limit \in Int, NEW dist,
           Tight(g, S, roots, limit, dist), NEW W, NEW N \in Nat,
           IsWithin(g, S, roots, N, W)
    PROVE  \A n \in S : dist[n] \in 0..N => n \in W[dist[n]]
<1> DEFINE T == {k \in Nat : k <= N /\ ~\A n \in S : dist[n] = k => n \in W[k]}
<1>1. CASE T = {}
  BY <1>1
<1>2. CASE T # {}
  <2>1. PICK k \in T : \A j \in T : k <= j
    <3>1. T \in SUBSET Nat
      OBVIOUS
    <3> HIDE DEF T
    <3> QED
      BY <3>1, <1>2, LeastNumber
  <2>2. k # 0
    BY <2>1 DEF Tight, IsWithin
  <2>3. k \in 1..N /\ k - 1 \in Nat /\ k - 1 <= N /\ k - 1 \notin T
    BY <2>1, <2>2
  <2>4. PICK n \in S : dist[n] = k /\ n \notin W[k]
    BY <2>1
  <2>5. PICK m \in S : n \in Dependents(g, m) /\ dist[n] = dist[m] + 1
    BY <2>3, <2>4 DEF Tight
  <2>6. dist[m] = k - 1
    BY <2>3, <2>4, <2>5 DEF Tight
  <2>7. m \in W[k - 1]
    BY <2>3, <2>6
  <2>8. n \in Spread(g, S, W[k - 1])
    BY <2>5, <2>7 DEF Spread, Dependents
  <2> QED
    BY <2>3, <2>4, <2>8 DEF IsWithin
<1> QED
  BY <1>1, <1>2

\* A distance counts targets on a path, so that there are more targets than it.
LEMMA TightBounded ==
    ASSUME NEW g, NEW S \in SUBSET Names, NEW roots, NEW limit \in Int, NEW dist,
           Tight(g, S, roots, limit, dist)
    PROVE  \A n \in S : dist[n] <= Cardinality(Names)
<1> SUFFICES ASSUME NEW n \in S, ~(dist[n] <= Cardinality(Names)) PROVE FALSE
  OBVIOUS
<1> DEFINE d == dist[n]
           T == {k \in Nat : k <= d /\ ~\E m \in S : dist[m] = d - k}
<1>1. d \in Int /\ d > Cardinality(Names) /\ Cardinality(Names) \in Nat
  BY NamesCount DEF Tight
<1>2. T = {}
  <2> SUFFICES ASSUME T # {} PROVE FALSE
    OBVIOUS
  <2>1. PICK k \in T : \A j \in T : k <= j
    <3>1. T \in SUBSET Nat
      OBVIOUS
    <3> HIDE DEF T
    <3> QED
      BY <3>1, LeastNumber
  <2>2. k # 0
    BY <1>1, <2>1
  <2>3. k - 1 \in Nat /\ k - 1 <= d /\ k - 1 \notin T /\ k <= d /\ k \in Nat
    BY <1>1, <2>1, <2>2
  <2>4. PICK m \in S : dist[m] = d - (k - 1)
    BY <2>3
  <2>5. dist[m] > 0
    BY <1>1, <2>3, <2>4
  <2>6. PICK l \in S : dist[m] = dist[l] + 1
    BY <2>5 DEF Tight
  <2>7. dist[l] = d - k
    BY <1>1, <2>3, <2>4, <2>6 DEF Tight
  <2> QED
    BY <2>1, <2>7
<1>3. \A i \in 1..d : \E m \in S : dist[m] = i
  <2> SUFFICES ASSUME NEW i \in 1..d PROVE \E m \in S : dist[m] = i
    OBVIOUS
  <2>1. d - i \in Nat /\ d - i <= d /\ d - i \notin T
    BY <1>1, <1>2
  <2>2. d - (d - i) = i
    BY <1>1
  <2> QED
    BY <2>1, <2>2
<1>4. PICK f : f = [i \in 1..d |-> CHOOSE m \in S : dist[m] = i]
  OBVIOUS
<1>5. \A i \in 1..d : f[i] \in S /\ dist[f[i]] = i
  BY <1>3, <1>4
<1>6. f \in [1..d -> Names]
  BY <1>4, <1>5
<1>7. IsFiniteSet(1..d) /\ Cardinality(1..d) = d
  <2>1. ~(1 > d) /\ d - 1 + 1 = d
    BY <1>1
  <2> HIDE DEF d
  <2> QED
    BY <1>1, <2>1, FS_Interval
<1>8. \E i, j \in 1..d : i # j /\ f[i] = f[j]
  <2> HIDE DEF d
  <2> QED
    BY <1>1, <1>6, <1>7, NamesAssumption, FS_PigeonHole
<1> QED
  BY <1>5, <1>8

\* So there is one such assignment: that of the shortest paths.
LEMMA TightIsShortest ==
    ASSUME NEW g, NEW S \in SUBSET Names, NEW roots \in SUBSET S, NEW limit \in Int, NEW dist,
           Tight(g, S, roots, limit, dist)
    PROVE  dist = Shortest(g, S, roots, limit)
<1> DEFINE far == Cardinality(Names)
           W == Within(g, S, roots)
           Nearest(n) == CHOOSE k \in 0..far : n \in W[k] /\ \A j \in 0..(k - 1) : n \notin W[j]
<1>1. far \in Nat
  BY NamesCount
<1>2. IsWithin(g, S, roots, far, W)
  BY WithinUnfolds
<1>3. Shortest(g, S, roots, limit) =
        [n \in S |-> IF n \notin W[far] THEN -1
                     ELSE IF limit >= 0 /\ Nearest(n) > limit THEN -1 ELSE Nearest(n)]
  BY DEF Shortest
<1> HIDE DEF W, far
<1>4. \A k \in 0..far : W[k] \subseteq S /\ \A j \in 0..k : W[j] \subseteq W[k]
  BY <1>1, <1>2, RoundsGrow
<1>5. \A k \in 0..far : Allowed(limit, k) => \A n \in W[k] : dist[n] \in 0..k
  BY <1>1, <1>2, TightBelow
<1>6. \A n \in S : dist[n] \in 0..far => n \in W[dist[n]]
  BY <1>1, <1>2, TightAbove
<1>7. \A n \in S : dist[n] \in Int /\ dist[n] >= -1 /\ dist[n] <= far
  BY TightBounded DEF Tight, far
<1>8. \A n \in W[far] : Nearest(n) \in 0..far /\ n \in W[Nearest(n)] /\ \A j \in 0..(Nearest(n) - 1) : n \notin W[j]
  <2> SUFFICES ASSUME NEW n \in W[far]
               PROVE  \E k \in 0..far : n \in W[k] /\ \A j \in 0..(k - 1) : n \notin W[j]
    OBVIOUS
  <2> DEFINE T == {k \in Nat : k <= far /\ n \in W[k]}
  <2>1. T \in SUBSET Nat /\ T # {}
    BY <1>1
  <2>2. PICK k \in T : \A j \in T : k <= j
    <3> HIDE DEF T
    <3> QED
      BY <2>1, LeastNumber
  <2>3. k \in 0..far /\ n \in W[k]
    BY <1>1, <2>2
  <2>4. \A j \in 0..(k - 1) : n \notin W[j]
    BY <1>1, <2>2, <2>3
  <2> QED
    BY <2>3, <2>4
<1> HIDE DEF Nearest
<1>9. ASSUME NEW n \in S
      PROVE  dist[n] = IF n \notin W[far] THEN -1
                       ELSE IF limit >= 0 /\ Nearest(n) > limit THEN -1 ELSE Nearest(n)
  <2>1. CASE dist[n] >= 0
    <3>1. dist[n] \in 0..far /\ n \in W[dist[n]]
      BY <1>1, <1>6, <1>7, <2>1
    <3>2. n \in W[far]
      BY <1>1, <1>4, <3>1
    <3>3. Nearest(n) <= dist[n]
      <4> SUFFICES ASSUME ~(Nearest(n) <= dist[n]) PROVE FALSE
        OBVIOUS
      <4>1. dist[n] \in 0..(Nearest(n) - 1)
        BY <1>1, <1>8, <3>1, <3>2
      <4> QED
        BY <4>1, <1>8, <3>1, <3>2
    <3>4. Allowed(limit, dist[n])
      BY <2>1, <1>7 DEF Tight, Allowed
    <3>5. Allowed(limit, Nearest(n))
      BY <3>1, <3>2, <3>3, <3>4, <1>1, <1>8 DEF Allowed
    <3>6. dist[n] \in 0..Nearest(n)
      BY <1>5, <1>8, <3>2, <3>5
    <3>7. dist[n] = Nearest(n)
      BY <1>1, <1>8, <3>1, <3>2, <3>3, <3>6
    <3> QED
      BY <3>1, <3>2, <3>4, <3>7, <1>1 DEF Allowed
  <2>2. CASE ~(dist[n] >= 0)
    <3>1. dist[n] = -1
      BY <1>7, <2>2
    <3>2. ASSUME n \in W[far], ~(limit >= 0 /\ Nearest(n) > limit) PROVE FALSE
      <4>1. Allowed(limit, Nearest(n))
        BY <3>2, <1>1, <1>8 DEF Allowed
      <4> QED
        BY <4>1, <3>1, <3>2, <1>1, <1>5, <1>8
    <3> QED
      BY <3>1, <3>2
  <2> QED
    BY <2>1, <2>2, <1>7
<1> QED
  BY <1>3, <1>9 DEF Tight

-----------------------------------------------------------------------------
(* Breadth-first search over the members of S from the roots: q is the      *)
(* queue, dist the distances, seen the members that have been enqueued.     *)

\* Distances are given to exactly the members seen.
DistancesGiven(S, roots, dist, seen) ==
    /\ dist = [n \in S |-> dist[n]]
    /\ seen \subseteq S
    /\ roots \subseteq seen
    /\ \A n \in S :
         /\ dist[n] \in Int
         /\ n \in seen => dist[n] >= 0
         /\ n \notin seen => dist[n] = -1
         /\ dist[n] = 0 <=> n \in roots

\* The queue is ordered, and its head is at most one step behind.
QueueOrdered(dist, q, seen) ==
    /\ q \in Seq(seen)
    /\ \A i, j \in 1..Len(q) : i < j => dist[q[i]] <= dist[q[j]]
    /\ Len(q) > 0 => \A n \in seen : dist[n] <= dist[q[1]] + 1

\* A distance is one more than that of a dependency.
Justified(g, S, limit, dist) ==
    \A n \in S : dist[n] > 0 =>
      /\ Allowed(limit, dist[n])
      /\ \E m \in S : n \in Dependents(g, m) /\ dist[n] = dist[m] + 1

Queued(q, n) == \E i \in 1..Len(q) : q[i] = n

\* What has left the queue has seen to its dependents.
Relaxed(g, S, limit, dist, q, seen) ==
    \A m \in seen : ~Queued(q, m) =>
      \A n \in Dependents(g, m) :
        n \in S /\ Allowed(limit, dist[m] + 1) => n \in seen /\ dist[n] <= dist[m] + 1

\* The invariant of the search.
Search(g, S, roots, limit, dist, q, seen) ==
    /\ DistancesGiven(S, roots, dist, seen)
    /\ QueueOrdered(dist, q, seen)
    /\ Justified(g, S, limit, dist)
    /\ Relaxed(g, S, limit, dist, q, seen)

LEMMA ListingsOfFinite ==
    ASSUME NEW S, IsFiniteSet(S), NEW s \in Listings(S)
    PROVE  /\ s \in Seq(S)
           /\ \A x \in S : \E i \in 1..Len(s) : s[i] = x
<1>1. Cardinality(S) \in Nat
  BY FS_CardinalityType
<1>2. s \in Seq(S)
  BY <1>1 DEF Listings
<1>3. DOMAIN s = 1..Len(s)
  BY <1>2
<1>4. \A x \in S : \E i \in DOMAIN s : s[i] = x
  BY DEF Listings
<1> QED
  BY <1>2, <1>3, <1>4

\* The roots in the queue start a search.
LEMMA SearchStarts ==
    ASSUME NEW g, NEW S \in SUBSET Names, NEW roots \in SUBSET S, NEW limit \in Int,
           NEW q \in Listings(roots)
    PROVE  Search(g, S, roots, limit, [n \in S |-> IF n \in roots THEN 0 ELSE -1], q, roots)
<1> DEFINE dist == [n \in S |-> IF n \in roots THEN 0 ELSE -1]
<1>1. IsFiniteSet(roots)
  BY NamesAssumption, FS_Subset
<1>2. q \in Seq(roots) /\ \A x \in roots : \E i \in 1..Len(q) : q[i] = x
  BY <1>1, ListingsOfFinite
<1>3. DistancesGiven(S, roots, dist, roots)
  BY DEF DistancesGiven
<1>4. \A i \in 1..Len(q) : q[i] \in roots /\ dist[q[i]] = 0
  BY <1>2
<1>5. Len(q) > 0 => 1 \in 1..Len(q)
  BY <1>2
<1>6. QueueOrdered(dist, q, roots)
  <2>1. \A n \in roots : dist[n] = 0
    OBVIOUS
  <2> HIDE DEF dist
  <2>2. \A i, j \in 1..Len(q) : i < j => dist[q[i]] <= dist[q[j]]
    BY <1>4
  <2>3. Len(q) > 0 => \A n \in roots : dist[n] <= dist[q[1]] + 1
    BY <2>1, <1>4, <1>5
  <2> QED
    BY <2>2, <2>3, <1>2 DEF QueueOrdered
<1>7. Justified(g, S, limit, dist)
  BY DEF Justified
<1>8. Relaxed(g, S, limit, dist, q, roots)
  BY <1>2 DEF Relaxed, Queued
<1> QED
  BY <1>3, <1>6, <1>7, <1>8 DEF Search

\* When the queue is empty the distances are right.
LEMMA SearchEnds ==
    ASSUME NEW g, NEW S, NEW roots, NEW limit, NEW dist, NEW seen,
           Search(g, S, roots, limit, dist, << >>, seen)
    PROVE  Tight(g, S, roots, limit, dist)
<1>1. DistancesGiven(S, roots, dist, seen) /\ Justified(g, S, limit, dist)
  BY DEF Search
<1>2. \A m \in seen : \A n \in Dependents(g, m) :
        n \in S /\ Allowed(limit, dist[m] + 1) => n \in seen /\ dist[n] <= dist[m] + 1
  BY DEF Search, Relaxed, Queued
<1>3. \A m \in S : \A n \in Dependents(g, m) :
        n \in S /\ dist[m] >= 0 /\ Allowed(limit, dist[m] + 1) => dist[n] \in 0..(dist[m] + 1)
  BY <1>1, <1>2 DEF DistancesGiven
<1> QED
  BY <1>1, <1>3 DEF Tight, DistancesGiven, Justified

\* A step of the search: the head leaves the queue and its new dependents join it.
Explores(g, S, limit, dist, q, seen, found, s, dist2, q2) ==
    /\ q # << >>
    /\ found = {n \in Dependents(g, Head(q)) :
                  n \in S /\ n \notin seen /\ Allowed(limit, dist[Head(q)] + 1)}
    /\ s \in Listings(found)
    /\ q2 = Tail(q) \o s
    /\ dist2 = [n \in S |-> IF n \in found THEN dist[Head(q)] + 1 ELSE dist[n]]

\* It keeps the invariant of the search.
LEMMA SearchSteps ==
    ASSUME NEW g, NEW S \in SUBSET Names, NEW roots, NEW limit \in Int,
           NEW dist, NEW q, NEW seen, Search(g, S, roots, limit, dist, q, seen),
           NEW found, NEW s, NEW dist2, NEW q2,
           Explores(g, S, limit, dist, q, seen, found, s, dist2, q2)
    PROVE  Search(g, S, roots, limit, dist2, q2, seen \cup found)
<1> DEFINE h == Head(q)
           d == dist[h] + 1
           seen2 == seen \cup found
<1>0. /\ DistancesGiven(S, roots, dist, seen) /\ QueueOrdered(dist, q, seen)
      /\ Justified(g, S, limit, dist) /\ Relaxed(g, S, limit, dist, q, seen)
  BY DEF Search
<1>1. Len(q) > 0 /\ Len(q) \in Nat /\ h = q[1] /\ h \in seen /\ q \in Seq(seen)
  BY <1>0 DEF QueueOrdered, Explores
<1>2. h \in S /\ dist[h] \in Int /\ dist[h] >= 0 /\ d \in Int /\ d > 0
  BY <1>0, <1>1 DEF DistancesGiven
<1>3. found \subseteq S /\ found \cap seen = {} /\ found \subseteq Dependents(g, h)
  BY DEF Explores
<1>4. \A n \in found : Allowed(limit, d)
  BY DEF Explores
<1>5. IsFiniteSet(found)
  BY <1>3, NamesAssumption, FS_Subset
<1>6. s \in Seq(found) /\ Len(s) \in Nat /\ \A x \in found : \E i \in 1..Len(s) : s[i] = x
  <2>1. s \in Listings(found)
    BY DEF Explores
  <2>2. s \in Seq(found) /\ \A x \in found : \E i \in 1..Len(s) : s[i] = x
    BY <2>1, <1>5, ListingsOfFinite
  <2> QED
    BY <2>2
<1>7. \A n \in Dependents(g, h) : n \in S /\ Allowed(limit, d) => n \in seen2
  BY DEF Explores
<1>8. dist2 = [n \in S |-> IF n \in found THEN d ELSE dist[n]]
  BY DEF Explores
<1> HIDE DEF h, d, seen2
<1>9. /\ \A n \in found : dist2[n] = d
      /\ \A n \in S : n \notin found => dist2[n] = dist[n]
      /\ \A n \in seen : n \in S /\ dist2[n] = dist[n]
  BY <1>0, <1>3, <1>8 DEF DistancesGiven
<1>10. /\ q2 \in Seq(seen2)
       /\ Len(q2) = Len(q) - 1 + Len(s)
       /\ \A i \in 1..Len(q) - 1 : q2[i] = q[i + 1]
       /\ \A i \in 1..Len(s) : q2[Len(q) - 1 + i] = s[i]
  <2>1. q \in Seq(seen2) /\ s \in Seq(seen2)
    BY <1>1, <1>6 DEF seen2
  <2>2. Tail(q) \in Seq(seen2) /\ Len(Tail(q)) = Len(q) - 1
    BY <2>1, <1>1
  <2>3. \A i \in 1..Len(q) - 1 : Tail(q)[i] = q[i + 1]
    BY <2>1, <1>1
  <2> QED
    BY <2>1, <2>2, <2>3 DEF Explores
<1>11. \A i \in 1..Len(q) : q[i] \in seen
  BY <1>1
<1>12. \A i \in 1..Len(s) : s[i] \in found
  BY <1>6
<1>14. DistancesGiven(S, roots, dist2, seen2)
  <2>1. dist2 = [n \in S |-> dist2[n]]
    BY <1>8
  <2> QED
    BY <2>1, <1>0, <1>2, <1>3, <1>9 DEF DistancesGiven, seen2
<1>15. \A n \in seen : dist[n] \in Int /\ dist[n] <= d
  BY <1>0, <1>1, <1>9 DEF DistancesGiven, QueueOrdered, d
<1>16. \A i \in 1..Len(q2) :
         \/ i \in 1..Len(q) - 1 /\ q2[i] = q[i + 1] /\ q[i + 1] \in seen
         \/ \E k \in 1..Len(s) : i = Len(q) - 1 + k /\ q2[i] = s[k] /\ s[k] \in found
  <2> SUFFICES ASSUME NEW i \in 1..Len(q2)
               PROVE  \/ i \in 1..Len(q) - 1 /\ q2[i] = q[i + 1] /\ q[i + 1] \in seen
                      \/ \E k \in 1..Len(s) : i = Len(q) - 1 + k /\ q2[i] = s[k] /\ s[k] \in found
    OBVIOUS
  <2>1. CASE i \in 1..Len(q) - 1
    BY <2>1, <1>1, <1>10, <1>11
  <2>2. CASE i \notin 1..Len(q) - 1
    <3>1. i - (Len(q) - 1) \in 1..Len(s) /\ i = Len(q) - 1 + (i - (Len(q) - 1))
      BY <2>2, <1>1, <1>6, <1>10
    <3> QED
      BY <3>1, <1>10, <1>12
  <2> QED
    BY <2>1, <2>2
<1>17. \A i, j \in 1..Len(q2) : i < j => dist2[q2[i]] <= dist2[q2[j]]
  <2> SUFFICES ASSUME NEW i \in 1..Len(q2), NEW j \in 1..Len(q2), i < j
               PROVE  dist2[q2[i]] <= dist2[q2[j]]
    OBVIOUS
  <2>1. CASE \E k \in 1..Len(s) : j = Len(q) - 1 + k /\ q2[j] = s[k] /\ s[k] \in found
    <3>1. dist2[q2[j]] = d
      BY <2>1, <1>9
    <3>2. q2[i] \in seen \/ q2[i] \in found
      BY <1>16
    <3>3. dist2[q2[i]] <= d
      BY <3>2, <1>9, <1>15, <1>2
    <3> QED
      BY <3>1, <3>3
  <2>2. CASE j \in 1..Len(q) - 1 /\ q2[j] = q[j + 1] /\ q[j + 1] \in seen
    <3>1. i \in 1..Len(q) - 1 /\ q2[i] = q[i + 1] /\ q[i + 1] \in seen
      BY <2>2, <1>1, <1>10, <1>11
    <3>2. i + 1 \in 1..Len(q) /\ j + 1 \in 1..Len(q) /\ i + 1 < j + 1
      BY <3>1, <2>2, <1>1
    <3>3. dist[q[i + 1]] <= dist[q[j + 1]]
      BY <3>2, <1>0 DEF QueueOrdered
    <3> QED
      BY <3>1, <3>3, <2>2, <1>9
  <2> QED
    BY <2>1, <2>2, <1>16
<1>18. Len(q2) > 0 => \A n \in seen2 : dist2[n] <= dist2[q2[1]] + 1
  <2> SUFFICES ASSUME Len(q2) > 0, NEW n \in seen2
               PROVE  dist2[n] <= dist2[q2[1]] + 1
    OBVIOUS
  <2>1. dist2[n] \in Int /\ dist2[n] <= d
    BY <1>9, <1>15, <1>2 DEF seen2
  <2>2. dist2[q2[1]] \in Int /\ dist2[q2[1]] >= dist[h]
    <3>1. 1 \in 1..Len(q2)
      BY <1>10
    <3>2. CASE \E k \in 1..Len(s) : q2[1] = s[k] /\ s[k] \in found
      <4>1. dist2[q2[1]] = d
        BY <3>2, <1>9
      <4> QED
        BY <4>1, <1>2 DEF d
    <3>3. CASE 1 \in 1..Len(q) - 1 /\ q2[1] = q[2] /\ q[2] \in seen
      <4>1. dist[q[1]] <= dist[q[2]]
        BY <3>3, <1>0, <1>1 DEF QueueOrdered
      <4> QED
        BY <4>1, <3>3, <1>1, <1>9, <1>15
    <3> QED
      BY <3>1, <3>2, <3>3, <1>16
  <2> QED
    BY <2>1, <2>2, <1>2 DEF d
<1>19. QueueOrdered(dist2, q2, seen2)
  BY <1>10, <1>17, <1>18 DEF QueueOrdered
<1>20. Justified(g, S, limit, dist2)
  <2> SUFFICES ASSUME NEW n \in S, dist2[n] > 0
               PROVE  /\ Allowed(limit, dist2[n])
                      /\ \E m \in S : n \in Dependents(g, m) /\ dist2[n] = dist2[m] + 1
    BY DEF Justified
  <2>1. CASE n \in found
    BY <2>1, <1>1, <1>2, <1>3, <1>4, <1>9 DEF d
  <2>2. CASE n \notin found
    <3>1. dist[n] > 0 /\ dist2[n] = dist[n] /\ dist[n] \in Int
      BY <2>2, <1>0, <1>9 DEF DistancesGiven
    <3>2. PICK m \in S : n \in Dependents(g, m) /\ dist[n] = dist[m] + 1
      BY <3>1, <1>0 DEF Justified
    <3>3. m \in seen
      BY <3>1, <3>2, <1>0 DEF DistancesGiven
    <3> QED
      BY <3>1, <3>2, <3>3, <1>0, <1>9 DEF Justified
  <2> QED
    BY <2>1, <2>2
<1>21. \A m \in seen2 : ~Queued(q2, m) => m = h \/ (m \in seen /\ ~Queued(q, m))
  <2> SUFFICES ASSUME NEW m \in seen2, ~Queued(q2, m), m # h
               PROVE  m \in seen /\ ~Queued(q, m)
    OBVIOUS
  <2>1. m \notin found
    <3> SUFFICES ASSUME m \in found PROVE FALSE
      OBVIOUS
    <3>1. PICK k \in 1..Len(s) : s[k] = m
      BY <1>6
    <3>2. q2[Len(q) - 1 + k] = m
      BY <3>1, <1>10
    <3>3. Len(q2) = Len(q) - 1 + Len(s) /\ Len(s) \in Nat
      BY <1>6, <1>10
    <3>4. Len(q) - 1 + k \in 1..Len(q2)
      BY <3>3, <1>1
    <3> QED
      BY <3>2, <3>4 DEF Queued
  <2>2. ~Queued(q, m)
    <3> SUFFICES ASSUME NEW k \in 1..Len(q), q[k] = m PROVE FALSE
      BY DEF Queued
    <3>1. k # 1
      BY <1>1
    <3>2. k - 1 \in 1..Len(q) - 1 /\ k - 1 \in 1..Len(q2) /\ (k - 1) + 1 = k
      BY <3>1, <1>1, <1>6, <1>10
    <3>3. q2[k - 1] = q[k]
      BY <3>2, <1>10
    <3> QED
      BY <3>2, <3>3 DEF Queued
  <2> QED
    BY <2>1, <2>2 DEF seen2
<1>22. Relaxed(g, S, limit, dist2, q2, seen2)
  <2> SUFFICES ASSUME NEW m \in seen2, ~Queued(q2, m), NEW n \in Dependents(g, m),
                      n \in S, Allowed(limit, dist2[m] + 1)
               PROVE  n \in seen2 /\ dist2[n] <= dist2[m] + 1
    BY DEF Relaxed
  <2>1. CASE m = h
    <3>1. dist2[m] + 1 = d
      BY <2>1, <1>1, <1>9 DEF d
    <3>2. n \in seen2
      BY <2>1, <3>1, <1>7
    <3>3. n \in seen \/ n \in found
      BY <3>2 DEF seen2
    <3> QED
      BY <3>1, <3>2, <3>3, <1>2, <1>9, <1>15
  <2>2. CASE m \in seen /\ ~Queued(q, m)
    <3>1. dist2[m] = dist[m]
      BY <2>2, <1>9
    <3>2. n \in seen /\ dist[n] <= dist[m] + 1
      BY <2>2, <3>1, <1>0 DEF Relaxed
    <3> QED
      BY <3>1, <3>2, <1>9 DEF seen2
  <2> QED
    BY <2>1, <2>2, <1>21
<1> QED
  BY <1>14, <1>19, <1>20, <1>22 DEF Search, seen2

-----------------------------------------------------------------------------
(* The phases of Compare. *)

\* What the loops establish from the first on.
Classified ==
    /\ IsGraph(before) /\ IsGraph(after) /\ request.maxDistance \in Int
    /\ DOMAIN changed \subseteq Names
    /\ seeds \subseteq DOMAIN changed

\* The inductive invariant: the walk is a search over the changed targets.
IndInv ==
    /\ Classified
    /\ phase \in {"walk", "done"} =>
         Search(after, DOMAIN changed, seeds, request.maxDistance, distance, queue, visited)
    /\ phase = "done" => queue = << >>

LEMMA InitInd == Init => IndInv
<1> SUFFICES ASSUME Init PROVE IndInv
  OBVIOUS
<1>1. Classified
  BY RequestAssumption DEF Init, Classified, before, after
<1> QED
  BY <1>1 DEF Init, IndInv

\* The loops before the walk name only targets of the two graphs.
LEMMA LoopsInd == ASSUME IndInv, ScanAfter \/ ClassifySeeds \/ ScanBefore PROVE IndInv'
<1>1. CASE ScanAfter
  <2>1. Classified'
    BY <1>1 DEF IndInv, Classified, ScanAfter, before, after, IsGraph
  <2> QED
    BY <2>1, <1>1 DEF IndInv, ScanAfter
<1>2. CASE ClassifySeeds
  <2>1. Classified'
    BY <1>2 DEF IndInv, Classified, ClassifySeeds, before, after
  <2> QED
    BY <2>1, <1>2 DEF IndInv, ClassifySeeds
<1>3. CASE ScanBefore
  <2>1. Classified'
    BY <1>3 DEF IndInv, Classified, ScanBefore, before, after, IsGraph
  <2> QED
    BY <2>1, <1>3 DEF IndInv, ScanBefore
<1> QED
  BY <1>1, <1>2, <1>3

LEMMA EnqueueInd == ASSUME IndInv, Enqueue PROVE IndInv'
<1>1. Classified'
  BY DEF IndInv, Classified, Enqueue, before, after
<1>2. DOMAIN changed \in SUBSET Names /\ seeds \in SUBSET DOMAIN changed /\ request.maxDistance \in Int
  BY DEF IndInv, Classified
<1>3. Search(after, DOMAIN changed, seeds, request.maxDistance, distance', queue', visited')
  BY <1>2, SearchStarts DEF Enqueue
<1> QED
  BY <1>1, <1>3 DEF IndInv, Enqueue, after

LEMMA WalkInd == ASSUME IndInv, Walk PROVE IndInv'
<1>1. /\ Classified
      /\ Search(after, DOMAIN changed, seeds, request.maxDistance, distance, queue, visited)
  BY DEF IndInv, Walk
<1>2. DOMAIN changed \in SUBSET Names /\ request.maxDistance \in Int
  BY <1>1 DEF Classified
<1>3. PICK found : found = Found(Head(queue))
  OBVIOUS
<1>4. found = {n \in Dependents(after, Head(queue)) :
                 n \in DOMAIN changed /\ n \notin visited /\ Allowed(request.maxDistance, distance[Head(queue)] + 1)}
  BY <1>3 DEF Found, Reachable, Allowed
<1>5. PICK s \in Listings(found) : queue' = Tail(queue) \o s
  BY <1>3 DEF Walk
<1>6. DOMAIN distance = DOMAIN changed
  BY <1>1 DEF Search, DistancesGiven
<1>7. distance' = [n \in DOMAIN changed |-> IF n \in found THEN distance[Head(queue)] + 1 ELSE distance[n]]
  BY <1>3, <1>6 DEF Walk
<1>8. visited' = visited \cup found /\ queue # << >>
  BY <1>3 DEF Walk
<1>9. Explores(after, DOMAIN changed, request.maxDistance, distance, queue, visited, found, s, distance', queue')
  BY <1>4, <1>5, <1>7, <1>8 DEF Explores
<1>10. Search(after, DOMAIN changed, seeds, request.maxDistance, distance', queue', visited')
  BY <1>1, <1>2, <1>8, <1>9, SearchSteps
<1>11. Classified'
  BY <1>1 DEF Walk, Classified, before, after
<1> QED
  BY <1>10, <1>11 DEF IndInv, Walk, after

LEMMA RestInd ==
    ASSUME IndInv, Finish \/ Cancelled \/ Returned \/ UNCHANGED vars
    PROVE  IndInv'
<1>1. UNCHANGED <<request, changed, seeds, distance, queue, visited>>
  BY DEF Finish, Cancelled, Returned, vars
<1>2. Classified'
  BY <1>1 DEF IndInv, Classified, before, after
<1>3. phase' \in {"walk", "done"} => phase \in {"walk", "done"}
  BY DEF Finish, Cancelled, Returned, vars
<1>4. phase' = "done" => queue' = << >>
  BY <1>1 DEF IndInv, Finish, Cancelled, Returned, vars
<1> QED
  BY <1>1, <1>2, <1>3, <1>4 DEF IndInv, after

\* The invariant of the search holds in every reachable state.
THEOREM IndInvHolds == Spec => []IndInv
<1>1. IndInv /\ [Next]_vars => IndInv'
  BY LoopsInd, EnqueueInd, WalkInd, RestInd DEF Next, Compare
<1> QED
  BY <1>1, InitInd, PTL DEF Spec

\* What Compare returns is right edge by edge.
LEMMA DoneIsTight ==
    ASSUME IndInv, phase = "done"
    PROVE  Tight(after, DOMAIN changed, seeds, request.maxDistance, distance)
BY SearchEnds DEF IndInv

\* compare.go:284-306: when Compare returns, every seed has distance 0, every
\* other distance is one more than that of a changed dependency, and no changed
\* dependent within the limit is left out or could have been nearer.
THEOREM DistancesAreTight == Spec => []DistancesTight
<1>1. IndInv => DistancesTight
  BY DoneIsTight DEF Tight, DistancesTight, Reachable, Allowed
<1> QED
  BY <1>1, IndInvHolds, PTL

-----------------------------------------------------------------------------
(* The classification. *)

Kind(n) ==
    IF n \notin DOMAIN before THEN "new" ELSE IF n \notin DOMAIN after THEN "deleted" ELSE "changed"

ClassifiedAs(S, R) ==
    /\ DOMAIN changed = S
    /\ seeds = R
    /\ \A n \in S : changed[n] = Kind(n)

\* What each phase has classified: the deleted targets come last, and whether a
\* modified target is a seed is decided without them.
ClassInv ==
    /\ phase = "classify" =>
         ClassifiedAs(NewIn(before, after) \cup ModifiedIn(before, after),
                      NewIn(before, after) \cup {n \in ModifiedIn(before, after) : after[n].source})
    /\ phase = "before" =>
         ClassifiedAs(NewIn(before, after) \cup ModifiedIn(before, after),
                      NewIn(before, after) \cup {n \in ModifiedIn(before, after) : OwnChange(before, after, n)})
    /\ phase \in {"enqueue", "walk", "done"} =>
         ClassifiedAs(ChangedIn(before, after), SeedsIn(before, after))

\* Comparing the numbers of dependencies and looking for each earlier one finds
\* out whether the two sets differ.
LEMMA CountAndSubset ==
    ASSUME NEW D \in SUBSET Names, NEW E \in SUBSET Names
    PROVE  D # E <=> (Cardinality(D) # Cardinality(E) \/ \E d \in D : d \notin E)
<1>1. IsFiniteSet(E)
  BY NamesAssumption, FS_Subset
<1>2. D \subseteq E /\ Cardinality(D) = Cardinality(E) => D = E
  BY <1>1, FS_Subset
<1> QED
  BY <1>2

LEMMA ScanAfterClass == ASSUME IndInv, ScanAfter PROVE ClassInv'
<1>1. before' = before /\ after' = after
  BY DEF ScanAfter, before, after
<1>2. ClassifiedAs(NewIn(before, after) \cup ModifiedIn(before, after),
                   NewIn(before, after) \cup {n \in ModifiedIn(before, after) : after[n].source})'
  BY <1>1 DEF ScanAfter, ClassifiedAs, NewIn, ModifiedIn, Kind
<1> QED
  BY <1>2 DEF ScanAfter, ClassInv

LEMMA ClassifySeedsClass == ASSUME IndInv, ClassInv, ClassifySeeds PROVE ClassInv'
<1>1. before' = before /\ after' = after /\ changed' = changed
  BY DEF ClassifySeeds, before, after
<1>2. IsGraph(before) /\ IsGraph(after)
  BY DEF IndInv, Classified
<1> DEFINE new == NewIn(before, after)
           modified == ModifiedIn(before, after)
<1>3. ClassifiedAs(new \cup modified, new \cup {n \in modified : after[n].source})
  BY DEF ClassInv, ClassifySeeds
<1>4. \A n \in modified : /\ after[n].deps \subseteq DOMAIN after /\ after[n].deps \in SUBSET Names
                          /\ before[n].deps \in SUBSET Names
  BY <1>2 DEF ModifiedIn, IsGraph, Targets
<1>5. ASSUME NEW n \in modified
      PROVE  OwnChange(before, after, n) <=> after[n].source \/ BecomesSeed(n)
  <2>1. AnyChanged(n) <=> after[n].deps \cap modified # {}
    BY <1>3 DEF AnyChanged, ClassifiedAs, Kind, NewIn, ModifiedIn
  <2>2. DependenciesChanged(n) <=> after[n].deps # before[n].deps
    BY <1>4, CountAndSubset DEF DependenciesChanged
  <2>3. HasChangedSourceFileDependency(n) <=> \E d \in after[n].deps \cap ChangedIn(before, after) : after[d].source
    BY <1>3, <1>4 DEF HasChangedSourceFileDependency, ClassifiedAs, ChangedIn, DeletedIn
  <2> QED
    BY <2>1, <2>2, <2>3 DEF OwnChange, BecomesSeed, AttributesChanged
<1>6. seeds' = new \cup {n \in modified : OwnChange(before, after, n)}
  <2>1. \A n \in new \cup modified : changed[n] = "changed" <=> n \in modified
    BY <1>3 DEF ClassifiedAs, Kind, NewIn, ModifiedIn
  <2>2. new \cap modified = {}
    BY DEF NewIn, ModifiedIn
  <2> QED
    BY <2>1, <2>2, <1>3, <1>5 DEF ClassifySeeds, ClassifiedAs
<1>7. ClassifiedAs(new \cup modified, new \cup {n \in modified : OwnChange(before, after, n)})'
  BY <1>1, <1>3, <1>6 DEF ClassifiedAs, Kind
<1> QED
  BY <1>7 DEF ClassifySeeds, ClassInv

LEMMA ScanBeforeClass == ASSUME IndInv, ClassInv, ScanBefore PROVE ClassInv'
<1>1. before' = before /\ after' = after
  BY DEF ScanBefore, before, after
<1>2. ClassifiedAs(ChangedIn(before, after), SeedsIn(before, after))'
  BY <1>1 DEF ScanBefore, ClassInv, ClassifiedAs, ChangedIn, SeedsIn, NewIn, ModifiedIn, DeletedIn, Kind
<1> QED
  BY <1>2 DEF ScanBefore, ClassInv

\* The other steps only go on to phases that know as much.
LEMMA RestClass ==
    ASSUME ClassInv, Enqueue \/ Walk \/ Finish \/ Cancelled \/ Returned \/ UNCHANGED vars
    PROVE  ClassInv'
<1>1. before' = before /\ after' = after /\ changed' = changed /\ seeds' = seeds
  BY DEF Enqueue, Walk, Finish, Cancelled, Returned, vars, before, after
<1>2. \A S, R : ClassifiedAs(S, R) => ClassifiedAs(S, R)'
  BY <1>1 DEF ClassifiedAs, Kind
<1>3. \/ phase' = phase \/ phase' = "cancelled"
      \/ phase \in {"enqueue", "walk", "done"} /\ phase' \in {"enqueue", "walk", "done"}
  BY DEF Enqueue, Walk, Finish, Cancelled, Returned, vars
<1> QED
  BY <1>1, <1>2, <1>3 DEF ClassInv

\* Every phase has classified what it should.
THEOREM ClassInvHolds == Spec => []ClassInv
<1>1. Init => ClassInv
  BY DEF Init, ClassInv
<1>2. IndInv /\ ClassInv /\ [Next]_vars => ClassInv'
  BY ScanAfterClass, ClassifySeedsClass, ScanBeforeClass, RestClass DEF Next, Compare
<1> QED
  BY <1>1, <1>2, IndInvHolds, PTL DEF Spec

\* compare.go:87-88: for all graphs, limits and orders of iteration, what Compare
\* returns is the reference: the changes, the seeds, and the lengths of the shortest
\* paths to them.
THEOREM ResultsAreReference == Spec => []ResultIsReference
<1>1. IndInv /\ ClassInv => ResultIsReference
  <2> SUFFICES ASSUME IndInv, ClassInv, phase = "done"
               PROVE  /\ DOMAIN changed = ChangedIn(before, after)
                      /\ seeds = SeedsIn(before, after)
                      /\ distance = Shortest(after, ChangedIn(before, after), SeedsIn(before, after), request.maxDistance)
    BY DEF ResultIsReference
  <2>1. DOMAIN changed = ChangedIn(before, after) /\ seeds = SeedsIn(before, after)
    BY DEF ClassInv, ClassifiedAs
  <2>2. Classified
    BY DEF IndInv
  <2> QED
    BY <2>1, <2>2, DoneIsTight, TightIsShortest DEF Classified
<1> QED
  BY <1>1, IndInvHolds, ClassInvHolds, PTL


-----------------------------------------------------------------------------
(* Distances over two sets of targets. *)

\* A search over more targets leaves no target farther away.
LEMMA WiderIsNearer ==
    ASSUME NEW g, NEW S, NEW U, S \subseteq U, NEW roots, NEW limit \in Int,
           NEW dist, Tight(g, S, roots, limit, dist), NEW wide, Tight(g, U, roots, limit, wide)
    PROVE  \A n \in S : dist[n] >= 0 => wide[n] \in 0..dist[n]
<1> DEFINE T == {k \in Nat : \E n \in S : dist[n] = k /\ ~(wide[n] \in 0..k)}
<1>1. CASE T = {}
  BY <1>1 DEF Tight
<1>2. CASE T # {}
  <2>1. PICK k \in T : \A j \in T : k <= j
    <3>1. T \in SUBSET Nat
      OBVIOUS
    <3> HIDE DEF T
    <3> QED
      BY <3>1, <1>2, LeastNumber
  <2>2. PICK n \in S : dist[n] = k /\ ~(wide[n] \in 0..k)
    BY <2>1
  <2>3. k # 0
    BY <2>2 DEF Tight
  <2>4. k \in Nat /\ k - 1 \in Nat /\ k - 1 \notin T /\ dist[n] > 0
    BY <2>1, <2>2, <2>3
  <2>5. PICK m \in S : n \in Dependents(g, m) /\ dist[n] = dist[m] + 1
    BY <2>4 DEF Tight
  <2>6. dist[m] = k - 1
    BY <2>2, <2>4, <2>5 DEF Tight
  <2>7. wide[m] \in 0..(k - 1)
    BY <2>4, <2>6
  <2>8. Allowed(limit, k)
    BY <2>2, <2>4 DEF Tight
  <2>9. wide[m] >= 0 /\ Allowed(limit, wide[m] + 1)
    BY <2>4, <2>7, <2>8 DEF Allowed
  <2>10. wide[n] \in 0..(wide[m] + 1)
    BY <2>5, <2>9 DEF Tight
  <2> QED
    BY <2>2, <2>4, <2>7, <2>10
<1> QED
  BY <1>1, <1>2

\* Where the wider search finds no other target, it is the narrower one.
LEMMA TightRestricts ==
    ASSUME NEW g, NEW S, NEW U, S \subseteq U, NEW roots, NEW limit,
           NEW wide, Tight(g, U, roots, limit, wide), \A n \in U : wide[n] >= 0 => n \in S
    PROVE  Tight(g, S, roots, limit, [n \in S |-> wide[n]])
<1> DEFINE dist == [n \in S |-> wide[n]]
<1>1. \A n \in S : dist[n] = wide[n] /\ n \in U
  OBVIOUS
<1>2. dist = [n \in S |-> dist[n]]
  OBVIOUS
<1> HIDE DEF dist
<1>3. \A n \in S : dist[n] \in Int /\ dist[n] >= -1 /\ (dist[n] = 0 <=> n \in roots)
  BY <1>1 DEF Tight
<1>4. ASSUME NEW n \in S, dist[n] > 0
      PROVE  Allowed(limit, dist[n]) /\ \E m \in S : n \in Dependents(g, m) /\ dist[n] = dist[m] + 1
  <2>1. PICK m \in U : n \in Dependents(g, m) /\ wide[n] = wide[m] + 1
    BY <1>1, <1>4 DEF Tight
  <2>2. wide[m] >= 0
    BY <2>1, <1>1, <1>4 DEF Tight
  <2>3. m \in S
    BY <2>1, <2>2
  <2> QED
    BY <2>1, <2>3, <1>1, <1>4 DEF Tight
<1>5. \A m \in S : \A n \in Dependents(g, m) :
        n \in S /\ dist[m] >= 0 /\ Allowed(limit, dist[m] + 1) => dist[n] \in 0..(dist[m] + 1)
  BY <1>1 DEF Tight
<1> QED
  BY <1>2, <1>3, <1>4, <1>5 DEF Tight, dist

-----------------------------------------------------------------------------
(* tgbdiff.Compare. *)

\* The instance of TgbDiff means the same by these operators.
LEMMA SameOperators ==
    /\ \A S : Tgb!Cardinality(S) = Cardinality(S)
    /\ \A S : Tgb!Listings(S) = Listings(S)
    /\ \A g, n : Tgb!Dependents(g, n) = Dependents(g, n)
    /\ \A b, a : Tgb!ChangedIn(b, a) = ChangedIn(b, a) /\ Tgb!SeedsIn(b, a) = SeedsIn(b, a)
    /\ \A g, S, roots, limit : Tgb!Shortest(g, S, roots, limit) = Shortest(g, S, roots, limit)
<1>1. ASSUME NEW S PROVE Tgb!Cardinality(S) = Cardinality(S)
  BY DEF Tgb!Cardinality, Cardinality
<1>2. ASSUME NEW S PROVE Tgb!Listings(S) = Listings(S)
  BY <1>1 DEF Tgb!Listings, Listings
<1>3. ASSUME NEW g, NEW S, NEW roots, NEW limit
      PROVE  Tgb!Shortest(g, S, roots, limit) = Shortest(g, S, roots, limit)
  BY DEF Tgb!Shortest, Shortest, Tgb!Within, Within, Tgb!Cardinality, Cardinality
<1>4. ASSUME NEW b, NEW a
      PROVE  /\ Tgb!ChangedIn(b, a) = ChangedIn(b, a)
             /\ Tgb!SeedsIn(b, a) = SeedsIn(b, a)
  BY DEF Tgb!ChangedIn, ChangedIn, Tgb!NewIn, NewIn, Tgb!DeletedIn, DeletedIn,
         Tgb!ModifiedIn, ModifiedIn, Tgb!SeedsIn, SeedsIn, Tgb!OwnChange, OwnChange
<1> QED
  BY <1>1, <1>2, <1>3, <1>4 DEF Tgb!Dependents, Dependents

TgbClassified ==
    /\ DOMAIN tchanged = ChangedIn(before, after)
    /\ \A n \in ChangedIn(before, after) : tchanged[n] = Kind(n)

TgbWalking ==
    /\ Search(after, DOMAIN after, tseeds \cap DOMAIN after, request.maxDistance, tdistArr, tqueue, tvisited)
    /\ tdistance = [n \in DOMAIN tchanged |-> IF n \in DOMAIN after THEN tdistArr[n] ELSE 0]

\* Where hashes cover what is below them, the walk finds changed targets only.
StaysInChanged == HashesCover(before, after) => tvisited \subseteq ChangedIn(before, after)

\* The inductive invariant of tgbdiff: the walk is a search over the later graph.
TgbInv ==
    /\ tphase \in {"classify", "enqueue", "walk", "done"} => TgbClassified
    /\ tphase \in {"enqueue", "walk", "done"} => tseeds = SeedsIn(before, after)
    /\ tphase \in {"walk", "done"} => TgbWalking /\ StaysInChanged
    /\ tphase = "done" => tqueue = << >>

Graphs == IsGraph(before) /\ IsGraph(after) /\ request.maxDistance \in Int

\* The column and its bitset tell all hashes apart, the empty and the zero one too.
LEMMA HashDiffersExact == ASSUME NEW n PROVE Tgb!HashDiffers(n) <=> before[n].hash # after[n].hash
BY DEF Tgb!HashDiffers, Tgb!HashColumn, Tgb!EmptyBit, Tgb!ZeroHash, Tgb!before, Tgb!after, before, after

LEMMA HashDiffInv == ASSUME Graphs, Tgb!HashDiff PROVE TgbInv'
<1>1. before' = before /\ after' = after /\ tphase' = "classify"
  BY DEF Tgb!HashDiff, before, after
<1> DEFINE gone == DOMAIN before \ DOMAIN after
           new == DOMAIN after \ DOMAIN before
           differ == {n \in DOMAIN before \cap DOMAIN after : before[n].hash # after[n].hash}
<1>2. tchanged' = [n \in gone \cup new \cup differ |->
                     IF n \in gone THEN "deleted" ELSE IF n \in new THEN "new" ELSE "changed"]
  BY HashDiffersExact DEF Tgb!HashDiff, Tgb!before, Tgb!after, before, after
<1>3. gone \cup new \cup differ = ChangedIn(before, after)
  BY DEF ChangedIn, NewIn, DeletedIn, ModifiedIn
<1>4. \A n \in ChangedIn(before, after) : tchanged'[n] = Kind(n)
  BY <1>2, <1>3 DEF Kind
<1>5. DOMAIN tchanged' = ChangedIn(before, after)
  BY <1>2, <1>3
<1>6. TgbClassified'
  BY <1>1, <1>4, <1>5 DEF TgbClassified, Kind
<1> QED
  BY <1>1, <1>6 DEF TgbInv

\* A dependency whose label is gone counts as changed.
LEMMA DepsChangedExact ==
    ASSUME Graphs, NEW n \in ModifiedIn(before, after)
    PROVE  Tgb!DepsChanged(n) <=> after[n].deps # before[n].deps
<1>1. /\ after[n].deps \in SUBSET Names /\ after[n].deps \subseteq DOMAIN after
      /\ before[n].deps \in SUBSET Names
  BY DEF Graphs, ModifiedIn, IsGraph, Targets
<1>2. \A d \in before[n].deps :
        Tgb!BeforeToAfter(d) = Gone \/ Tgb!BeforeToAfter(d) \notin after[n].deps <=> d \notin after[n].deps
  BY <1>1, MarkAssumption DEF Tgb!BeforeToAfter, Tgb!after, after
<1>3. PICK D \in SUBSET Names, E \in SUBSET Names : D = before[n].deps /\ E = after[n].deps
  BY <1>1
<1>4. Tgb!DepsChanged(n) <=> Cardinality(D) # Cardinality(E) \/ \E d \in D : d \notin E
  BY <1>2, <1>3, SameOperators DEF Tgb!DepsChanged, Tgb!before, Tgb!after, before, after
<1> QED
  BY <1>3, <1>4, CountAndSubset

LEMMA SeedClassifyInv == ASSUME Graphs, TgbInv, Tgb!SeedClassify PROVE TgbInv'
<1>1. before' = before /\ after' = after /\ tchanged' = tchanged /\ tphase' = "enqueue"
  BY DEF Tgb!SeedClassify, before, after
<1>2. TgbClassified
  BY DEF TgbInv, Tgb!SeedClassify
<1>3. TgbClassified'
  BY <1>1, <1>2 DEF TgbClassified, Kind
<1>4. \A n \in ChangedIn(before, after) :
        /\ tchanged[n] \in {"new", "deleted"} <=> n \in NewIn(before, after) \cup DeletedIn(before, after)
        /\ tchanged[n] = "changed" <=> n \in ModifiedIn(before, after)
  BY <1>2 DEF TgbClassified, Kind, ChangedIn, NewIn, DeletedIn, ModifiedIn
<1>5. ASSUME NEW n \in ModifiedIn(before, after)
      PROVE  OwnChange(before, after, n) <=>
               \/ after[n].source
               \/ ~Tgb!AnyChanged(n) \/ Tgb!DepsChanged(n)
               \/ Tgb!HasChangedSrcFileDep(n)
               \/ Tgb!AttrsChanged(n)
  <2>1. Tgb!AnyChanged(n) <=> after[n].deps \cap ModifiedIn(before, after) # {}
    BY <1>2, <1>4 DEF Tgb!AnyChanged, TgbClassified, Tgb!after, after, ChangedIn
  <2>2. Tgb!HasChangedSrcFileDep(n) <=> \E d \in after[n].deps \cap ChangedIn(before, after) : after[d].source
    BY <1>2 DEF Tgb!HasChangedSrcFileDep, TgbClassified, Tgb!after, after
  <2> QED
    BY <2>1, <2>2, DepsChangedExact DEF OwnChange, Tgb!AttrsChanged, Tgb!before, Tgb!after, before, after
<1>6. tseeds' = SeedsIn(before, after)
  <2>1. tseeds' = {n \in ChangedIn(before, after) :
                     \/ tchanged[n] \in {"new", "deleted"}
                     \/ after[n].source
                     \/ ~Tgb!AnyChanged(n) \/ Tgb!DepsChanged(n)
                     \/ Tgb!HasChangedSrcFileDep(n)
                     \/ Tgb!AttrsChanged(n)}
    BY <1>2 DEF Tgb!SeedClassify, TgbClassified, Tgb!after, after
  <2> QED
    BY <2>1, <1>4, <1>5 DEF SeedsIn, ChangedIn
<1> QED
  BY <1>1, <1>3, <1>6 DEF TgbInv

LEMMA TgbEnqueueInv == ASSUME Graphs, TgbInv, Tgb!Enqueue PROVE TgbInv'
<1> DEFINE roots == tseeds \cap DOMAIN after
<1>1. before' = before /\ after' = after /\ tchanged' = tchanged /\ tseeds' = tseeds /\ request' = request /\ tphase' = "walk"
  BY DEF Tgb!Enqueue, before, after
<1>2. TgbClassified /\ tseeds = SeedsIn(before, after)
  BY DEF TgbInv, Tgb!Enqueue
<1>3. /\ tdistArr' = [n \in DOMAIN after |-> IF n \in roots THEN 0 ELSE -1]
      /\ tdistance' = [n \in DOMAIN tchanged |-> IF n \in tseeds THEN 0 ELSE -1]
      /\ tqueue' \in Listings(roots) /\ tvisited' = roots
  BY SameOperators DEF Tgb!Enqueue, Tgb!after, after
<1>4. DOMAIN after \in SUBSET Names /\ roots \in SUBSET DOMAIN after /\ request.maxDistance \in Int
  BY DEF Graphs, IsGraph
<1>5. Search(after, DOMAIN after, roots, request.maxDistance, tdistArr', tqueue', tvisited')
  <2> HIDE DEF roots
  <2> QED
    BY <1>3, <1>4, SearchStarts
<1>6. tdistance' = [n \in DOMAIN tchanged |-> IF n \in DOMAIN after THEN tdistArr'[n] ELSE 0]
  <2>1. \A n \in DOMAIN tchanged : n \notin DOMAIN after => n \in tseeds
    BY <1>2 DEF TgbClassified, ChangedIn, SeedsIn, NewIn, DeletedIn, ModifiedIn
  <2> QED
    BY <2>1, <1>3
<1>7. tvisited' \subseteq ChangedIn(before, after)
  BY <1>2, <1>3 DEF SeedsIn, ChangedIn
<1>8. TgbWalking' /\ StaysInChanged' /\ TgbClassified'
  BY <1>1, <1>2, <1>5, <1>6, <1>7 DEF TgbWalking, StaysInChanged, TgbClassified, Kind
<1> QED
  BY <1>1, <1>2, <1>8 DEF TgbInv

LEMMA TgbWalkInv == ASSUME Graphs, TgbInv, Tgb!Walk PROVE TgbInv'
<1>1. before' = before /\ after' = after /\ tchanged' = tchanged /\ tseeds' = tseeds /\ request' = request
      /\ tphase' = "walk" /\ tqueue # << >>
  BY DEF Tgb!Walk, before, after
<1>2. TgbClassified /\ tseeds = SeedsIn(before, after) /\ TgbWalking /\ StaysInChanged
  BY DEF TgbInv, Tgb!Walk
<1>3. PICK d, found :
        /\ d = tdistArr[Head(tqueue)] + 1
        /\ found = {n \in Dependents(after, Head(tqueue)) : n \notin tvisited /\ Allowed(request.maxDistance, d)}
  OBVIOUS
<1>4. /\ tvisited' = tvisited \cup found
      /\ \E s \in Listings(found) : tqueue' = Tail(tqueue) \o s
      /\ tdistArr' = [n \in DOMAIN after |-> IF n \in found THEN d ELSE tdistArr[n]]
      /\ tdistance' = [n \in DOMAIN tchanged |-> IF n \in found THEN d ELSE tdistance[n]]
  BY <1>3, SameOperators DEF Tgb!Walk, Tgb!WithinLimit, Allowed, Tgb!after, after
<1>5. PICK s \in Listings(found) : tqueue' = Tail(tqueue) \o s
  BY <1>4
<1>6. found \subseteq DOMAIN after
  BY <1>3 DEF Dependents
<1>7. Explores(after, DOMAIN after, request.maxDistance, tdistArr, tqueue, tvisited, found, s, tdistArr', tqueue')
  BY <1>1, <1>3, <1>4, <1>5, <1>6 DEF Explores, Dependents
<1>8. Search(after, DOMAIN after, tseeds \cap DOMAIN after, request.maxDistance, tdistArr', tqueue', tvisited')
  BY <1>2, <1>4, <1>7, SearchSteps DEF Graphs, IsGraph, TgbWalking
<1>9. tdistance' = [n \in DOMAIN tchanged |-> IF n \in DOMAIN after THEN tdistArr'[n] ELSE 0]
  BY <1>2, <1>4, <1>6 DEF TgbWalking
<1>10. ASSUME HashesCover(before, after) PROVE tvisited' \subseteq ChangedIn(before, after)
  <2>1. Head(tqueue) \in tvisited
    BY <1>1, <1>2 DEF TgbWalking, Search, QueueOrdered
  <2>2. Head(tqueue) \in ChangedIn(before, after)
    BY <2>1, <1>2, <1>10 DEF StaysInChanged
  <2>3. \A n \in found : n \in DOMAIN after /\ Head(tqueue) \in after[n].deps
    BY <1>3 DEF Dependents
  <2>4. found \subseteq ChangedIn(before, after)
    BY <2>2, <2>3, <1>10 DEF HashesCover, ChangedIn, NewIn, ModifiedIn
  <2> QED
    BY <2>4, <1>2, <1>4, <1>10 DEF StaysInChanged
<1>11. TgbWalking' /\ StaysInChanged' /\ TgbClassified'
  BY <1>1, <1>2, <1>8, <1>9, <1>10 DEF TgbWalking, StaysInChanged, TgbClassified, Kind
<1> QED
  BY <1>1, <1>2, <1>11 DEF TgbInv

\* The other steps change nothing that the invariant speaks of but the phase.
LEMMA TgbRestInv ==
    ASSUME TgbInv, Tgb!Finish \/ Tgb!Cancelled \/ UNCHANGED <<request, tgbVars>>
    PROVE  TgbInv'
<1>1. UNCHANGED <<request, tchanged, tseeds, tdistance, tdistArr, tqueue, tvisited>>
  BY DEF Tgb!Finish, Tgb!Cancelled, tgbVars
<1>2. /\ TgbClassified => TgbClassified'
      /\ TgbWalking /\ StaysInChanged => TgbWalking' /\ StaysInChanged'
      /\ before' = before /\ after' = after
  BY <1>1 DEF TgbClassified, TgbWalking, StaysInChanged, Kind, before, after
<1>3. \/ tphase' = tphase \/ tphase' = "cancelled"
      \/ tphase = "walk" /\ tphase' = "done" /\ tqueue = << >>
  BY DEF Tgb!Finish, Tgb!Cancelled, tgbVars
<1> QED
  BY <1>1, <1>2, <1>3 DEF TgbInv

-----------------------------------------------------------------------------
(* The two comparisons together. *)

\* What the goroutine does is targetdiff.Compare, whatever runs beside it.
THEOREM OracleIsCompare == ShadowSpec => Spec
<1>1. ShadowInit => Init
  BY DEF ShadowInit
<1>2. [ShadowNext]_allVars => [Next]_vars
  <2> SUFFICES ASSUME [ShadowNext]_allVars PROVE [Next]_vars
    OBVIOUS
  <2>1. CASE TgbCompare
    BY <2>1 DEF TgbCompare, oracleVars, vars, Tgb!HashDiff, Tgb!SeedClassify, Tgb!Enqueue, Tgb!Walk,
                Tgb!Finish, Tgb!Cancelled
  <2>2. CASE Answer \/ Judge
    BY <2>2 DEF Answer, Judge, oracleVars, vars
  <2>3. CASE Oracle
    BY <2>3 DEF Oracle, Next
  <2>4. CASE Over \/ UNCHANGED allVars
    BY <2>4 DEF Over, allVars, vars
  <2> QED
    BY <2>1, <2>2, <2>3, <2>4 DEF ShadowNext
<1> QED
  BY <1>1, <1>2, PTL DEF ShadowSpec, Spec

LEMMA GraphsHold == ShadowSpec => []Graphs
<1>1. IndInv => Graphs
  BY DEF IndInv, Classified, Graphs
<1> QED
  BY <1>1, OracleIsCompare, IndInvHolds, PTL

\* The invariant of tgbdiff holds in every reachable state.
THEOREM TgbInvHolds == ShadowSpec => []TgbInv
<1>1. ShadowInit => TgbInv
  BY DEF ShadowInit, TgbInv
<1>2. Graphs /\ TgbInv /\ [ShadowNext]_allVars => TgbInv'
  <2> SUFFICES ASSUME Graphs, TgbInv, [ShadowNext]_allVars PROVE TgbInv'
    OBVIOUS
  <2>1. CASE TgbCompare
    BY <2>1, HashDiffInv, SeedClassifyInv, TgbEnqueueInv, TgbWalkInv, TgbRestInv DEF TgbCompare
  <2>2. ASSUME Answer \/ Oracle \/ Judge \/ Over \/ UNCHANGED allVars
        PROVE  UNCHANGED <<request, tgbVars>>
    BY <2>2 DEF Answer, Oracle, Judge, Over, allVars, vars, Compare, ScanAfter, ClassifySeeds, ScanBefore,
                Enqueue, Walk, Finish, Cancelled
  <2> QED
    BY <2>1, <2>2, TgbRestInv DEF ShadowNext
<1> QED
  BY <1>1, <1>2, GraphsHold, PTL DEF ShadowSpec

\* The distances of the walk, with those of the deleted targets, which it leaves out.
OverGraph == [n \in DOMAIN before \cup DOMAIN after |-> IF n \in DOMAIN after THEN tdistArr[n] ELSE 0]

\* They are right edge by edge, over all targets of both graphs.
LEMMA OverGraphTight ==
    ASSUME Graphs, TgbInv, tphase = "done"
    PROVE  Tight(after, DOMAIN before \cup DOMAIN after, SeedsIn(before, after), request.maxDistance, OverGraph)
<1> DEFINE U == DOMAIN before \cup DOMAIN after
           roots == SeedsIn(before, after)
           limit == request.maxDistance
<1>1. Tight(after, DOMAIN after, roots \cap DOMAIN after, limit, tdistArr)
  BY SearchEnds DEF TgbInv, TgbWalking
<1>2. \A n \in DOMAIN before : n \notin DOMAIN after => n \in roots
  BY DEF SeedsIn, DeletedIn
<1>3. \A n \in DOMAIN after : OverGraph[n] = tdistArr[n] /\ n \in U
  BY DEF OverGraph
<1>4. \A n \in U : n \notin DOMAIN after => OverGraph[n] = 0 /\ n \in roots
  BY <1>2 DEF OverGraph
<1>5. \A m, n : n \in Dependents(after, m) => m \in DOMAIN after /\ n \in DOMAIN after
  BY DEF Dependents, Graphs, IsGraph
<1>6. OverGraph = [n \in U |-> OverGraph[n]]
  BY DEF OverGraph
<1> HIDE DEF U, roots, limit
<1>7. \A n \in U : OverGraph[n] \in Int /\ OverGraph[n] >= -1 /\ (OverGraph[n] = 0 <=> n \in roots)
  BY <1>1, <1>3, <1>4 DEF Tight
<1>8. ASSUME NEW n \in U, OverGraph[n] > 0
      PROVE  /\ Allowed(limit, OverGraph[n])
             /\ \E m \in U : n \in Dependents(after, m) /\ OverGraph[n] = OverGraph[m] + 1
  <2>1. n \in DOMAIN after /\ tdistArr[n] = OverGraph[n]
    BY <1>3, <1>4, <1>8
  <2>2. PICK m \in DOMAIN after : n \in Dependents(after, m) /\ tdistArr[n] = tdistArr[m] + 1
    BY <2>1, <1>1, <1>8 DEF Tight
  <2>3. Allowed(limit, OverGraph[n])
    BY <2>1, <1>1, <1>8 DEF Tight
  <2> QED
    BY <2>1, <2>2, <2>3, <1>3
<1>9. \A m \in U : \A n \in Dependents(after, m) :
        n \in U /\ OverGraph[m] >= 0 /\ Allowed(limit, OverGraph[m] + 1) => OverGraph[n] \in 0..(OverGraph[m] + 1)
  BY <1>1, <1>3, <1>5 DEF Tight
<1> QED
  BY <1>6, <1>7, <1>8, <1>9 DEF Tight, U, roots, limit

\* tgbdiff/compare.go:395-447: for all graphs, what is served has the changes and seeds
\* of the reference, at the distance of the shortest path over all targets of the later
\* graph, changed or not.
THEOREM AnswersOverGraph == ShadowSpec => []DistancesOverGraph
<1>1. Graphs /\ TgbInv => DistancesOverGraph
  <2> SUFFICES ASSUME Graphs, TgbInv, tphase = "done" PROVE DistancesOverGraph
    BY DEF DistancesOverGraph, Tgb!SameClassification, Tgb!DistancesOverGraph
  <2>1. TgbClassified /\ tseeds = SeedsIn(before, after) /\ TgbWalking
    BY DEF TgbInv
  <2>2. Tgb!SameClassification
    BY <2>1, SameOperators DEF Tgb!SameClassification, TgbClassified, Kind, Tgb!before, Tgb!after, before, after
  <2> DEFINE all == Shortest(after, DOMAIN before \cup DOMAIN after, SeedsIn(before, after), request.maxDistance)
  <2>3. DOMAIN before \cup DOMAIN after \in SUBSET Names
        /\ SeedsIn(before, after) \in SUBSET (DOMAIN before \cup DOMAIN after) /\ request.maxDistance \in Int
    BY DEF Graphs, IsGraph, SeedsIn, NewIn, DeletedIn, ModifiedIn
  <2>4. all = OverGraph
    BY <2>3, OverGraphTight, TightIsShortest
  <2> HIDE DEF all
  <2>5. DOMAIN tchanged \subseteq DOMAIN before \cup DOMAIN after
    BY <2>1 DEF TgbClassified, ChangedIn, NewIn, DeletedIn, ModifiedIn
  <2>6. tdistance = [n \in DOMAIN tchanged |-> all[n]]
    BY <2>1, <2>4, <2>5 DEF TgbWalking, OverGraph
  <2>7. Tgb!DistancesOverGraph
    BY <2>6, SameOperators DEF Tgb!DistancesOverGraph, all, Tgb!before, Tgb!after, before, after
  <2> QED
    BY <2>2, <2>7 DEF DistancesOverGraph
<1> QED
  BY <1>1, GraphsHold, TgbInvHolds, PTL

\* What is known once the answer is out, and once the oracle has judged it.
JudgedInv ==
    /\ shadow # "none" => tphase = "done" /\ answer = Materialize
    /\ shadow = "mismatch" => phase = "done" /\ ~ResultsEquivalent(answer, OracleResult)

\* They stay true: nothing moves any more when there is a verdict.
THEOREM JudgedInvHolds == ShadowSpec => []JudgedInv
<1>1. ShadowInit => JudgedInv
  BY DEF ShadowInit, JudgedInv
<1>2. JudgedInv /\ [ShadowNext]_allVars => JudgedInv'
  <2> SUFFICES ASSUME JudgedInv, [ShadowNext]_allVars PROVE JudgedInv'
    OBVIOUS
  <2>1. CASE TgbCompare
    BY <2>1 DEF TgbCompare, JudgedInv, Tgb!HashDiff, Tgb!SeedClassify, Tgb!Enqueue, Tgb!Walk,
                Tgb!Finish, Tgb!Cancelled
  <2>2. CASE Answer
    BY <2>2 DEF Answer, JudgedInv, Materialize, Entry, tgbVars, before, after
  <2>3. CASE Oracle
    <3>1. UNCHANGED <<request, tgbVars, answer, shadow>> /\ shadow = "running"
      BY <2>3 DEF Oracle, Compare, ScanAfter, ClassifySeeds, ScanBefore, Enqueue, Walk, Finish, Cancelled
    <3> QED
      BY <3>1 DEF JudgedInv, Materialize, Entry, tgbVars, before, after
  <2>4. CASE Judge
    BY <2>4 DEF Judge, JudgedInv, Materialize, OracleResult, ResultsEquivalent, Entry, tgbVars, oracleVars, before, after
  <2>5. CASE Over \/ UNCHANGED allVars
    <3>1. UNCHANGED <<phase, request, changed, distance, tphase, tchanged, tdistance, answer, shadow>>
      BY <2>5 DEF Over, allVars, vars, tgbVars
    <3>2. Materialize' = Materialize /\ OracleResult' = OracleResult
      BY <3>1 DEF Materialize, OracleResult, Entry, before, after
    <3> QED
      BY <3>1, <3>2 DEF JudgedInv, ResultsEquivalent
  <2> QED
    BY <2>1, <2>2, <2>3, <2>4, <2>5 DEF ShadowNext
<1> QED
  BY <1>1, <1>2, PTL DEF ShadowSpec

\* getchangedtargets.go:452-457: for all graphs, the oracle holds against an answer only
\* distances, only where a target keeps its hash above a changed one, and then the answer
\* has the shorter one.
THEOREM MismatchesAreExplained == ShadowSpec => []MismatchExplained
<1>1. IndInv /\ ClassInv /\ Graphs /\ TgbInv /\ JudgedInv => MismatchExplained
  <2> SUFFICES ASSUME IndInv, ClassInv, Graphs, TgbInv, JudgedInv, shadow = "mismatch"
               PROVE  /\ ~HashesCover(before, after)
                      /\ DOMAIN answer = DOMAIN OracleResult
                      /\ \A n \in DOMAIN answer :
                           /\ answer[n].changeType = OracleResult[n].changeType
                           /\ OracleResult[n].distance >= 0 => answer[n].distance \in 0..OracleResult[n].distance
    BY DEF MismatchExplained
  <2> DEFINE C == ChangedIn(before, after)
             U == DOMAIN before \cup DOMAIN after
             roots == SeedsIn(before, after)
             limit == request.maxDistance
  <2>1. phase = "done" /\ tphase = "done" /\ answer = Materialize /\ ~ResultsEquivalent(answer, OracleResult)
    BY DEF JudgedInv
  <2>2. /\ DOMAIN changed = C /\ seeds = roots /\ DOMAIN tchanged = C
        /\ \A n \in C : changed[n] = Kind(n) /\ tchanged[n] = Kind(n)
    BY <2>1 DEF ClassInv, ClassifiedAs, TgbInv, TgbClassified
  <2>3. Tight(after, C, roots, limit, distance)
    BY <2>1, <2>2, DoneIsTight
  <2>4. Tight(after, U, roots, limit, OverGraph)
    BY <2>1, OverGraphTight
  <2>5. C \subseteq U /\ U \subseteq Names /\ roots \subseteq C /\ limit \in Int
    BY DEF Graphs, IsGraph, SeedsIn, ChangedIn, NewIn, DeletedIn, ModifiedIn
  <2>6. \A n \in C : tdistance[n] = OverGraph[n]
    BY <2>1, <2>2, <2>5 DEF TgbInv, TgbWalking, OverGraph
  <2>7. \A n \in C : distance[n] >= 0 => tdistance[n] \in 0..distance[n]
    <3> HIDE DEF C, U, roots, limit
    <3> QED
      BY <2>3, <2>4, <2>5, <2>6, WiderIsNearer
  <2>8. /\ DOMAIN answer = C /\ DOMAIN OracleResult = C
        /\ \A n \in C : /\ answer[n] = Entry(tchanged[n], tdistance[n], n)
                        /\ OracleResult[n] = Entry(changed[n], distance[n], n)
    BY <2>1, <2>2 DEF Materialize, OracleResult
  <2>9. ~HashesCover(before, after)
    <3> SUFFICES ASSUME HashesCover(before, after) PROVE FALSE
      OBVIOUS
    <3>1. DistancesGiven(DOMAIN after, roots \cap DOMAIN after, tdistArr, tvisited) /\ tvisited \subseteq C
      BY <2>1 DEF TgbInv, TgbWalking, StaysInChanged, Search
    <3>2. \A n \in U : OverGraph[n] >= 0 => n \in C
      <4> SUFFICES ASSUME NEW n \in U, OverGraph[n] >= 0, n \notin C PROVE FALSE
        OBVIOUS
      <4>1. n \in DOMAIN after
        BY DEF ChangedIn, DeletedIn
      <4>2. OverGraph[n] = tdistArr[n]
        BY <4>1 DEF OverGraph
      <4> QED
        BY <4>1, <4>2, <3>1 DEF DistancesGiven
    <3> DEFINE narrow == [n \in C |-> OverGraph[n]]
    <3>3. Tight(after, C, roots, limit, narrow)
      <4> HIDE DEF C, U, roots, limit
      <4> QED
        BY <3>2, <2>4, <2>5, TightRestricts
    <3>4. distance = narrow
      <4> HIDE DEF C, U, roots, limit, narrow
      <4>1. C \in SUBSET Names /\ roots \in SUBSET C
        BY <2>5
      <4>2. distance = Shortest(after, C, roots, limit)
        BY <4>1, <2>3, <2>5, TightIsShortest
      <4>3. narrow = Shortest(after, C, roots, limit)
        BY <4>1, <3>3, <2>5, TightIsShortest
      <4> QED
        BY <4>2, <4>3
    <3>5. \A n \in C : distance[n] = tdistance[n]
      BY <3>4, <2>6
    <3>6. \A n \in C : answer[n] = OracleResult[n]
      BY <3>5, <2>2, <2>8
    <3> QED
      BY <3>6, <2>1, <2>8 DEF ResultsEquivalent
  <2> HIDE DEF C
  <2>10. \A n \in C : /\ answer[n].changeType = tchanged[n] /\ answer[n].distance = tdistance[n]
                      /\ OracleResult[n].changeType = changed[n] /\ OracleResult[n].distance = distance[n]
    BY <2>8 DEF Entry
  <2> QED
    BY <2>2, <2>7, <2>8, <2>9, <2>10
<1> QED
  BY <1>1, OracleIsCompare, IndInvHolds, ClassInvHolds, GraphsHold, TgbInvHolds, JudgedInvHolds, PTL

\* The oracle and the answer agree on all pairs of graphs whose hashes cover what
\* their targets depend on (shadowCompareTGB, ResultsEquivalent).
THEOREM CoveredPairsAgree == ShadowSpec => []ShadowAgrees
<1>1. MismatchExplained => ShadowAgrees
  BY DEF MismatchExplained, ShadowAgrees
<1> QED
  BY <1>1, MismatchesAreExplained, PTL
=============================================================================
