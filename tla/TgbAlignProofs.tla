---------------------------- MODULE TgbAlignProofs ----------------------------
(***************************************************************************)
(* Proofs about TgbAlign, for all sets of labels and all ways to cut       *)
(* blocks.  Both graphs are sorted, so that what stands before a pair in   *)
(* one graph can only have its partner before that pair in the other: the  *)
(* cursors of the merge-join, and the blocks it jumps over, cut both       *)
(* graphs at the same place of the order.                                  *)
(***************************************************************************)
EXTENDS TgbAlign, FiniteSetTheorems, SequenceTheorems, WellFoundedInduction, TLAPS

-----------------------------------------------------------------------------
(* Sorted sequences. *)

\* Every set of numbers has a least one: induction, for a property given as a set.
LEMMA LeastNumber ==
    ASSUME NEW T \in SUBSET Nat, T # {}
    PROVE  \E m \in T : \A k \in T : m <= k
<1> DEFINE R == {ss \in Nat \X Nat : ss[1] < ss[2]}
<1>1. IsWellFoundedOn(R, Nat)
  BY NatLessThanWellFounded, Zenon DEF OpToRel
<1>2. PICK m \in T : \A y \in T : <<y, m>> \notin R
  <2> HIDE DEF R
  <2> QED
    BY <1>1, WFMin
<1>3. \A y \in T : ~(y < m)
  BY <1>2
<1> QED
  BY <1>3

\* The number of members below x.
Rank(S, x) == Cardinality({y \in S : y < x})

\* Ranks are numbers that grow with the members, by one from each to the next.
LEMMA RankProperties ==
    ASSUME NEW S \in SUBSET Nat, IsFiniteSet(S)
    PROVE  /\ \A x : Rank(S, x) \in Nat
           /\ \A x \in S, z \in Nat : x < z /\ (\A y \in S : y < z => y <= x) => Rank(S, z) = Rank(S, x) + 1
           /\ \A x, z \in S : x < z => Rank(S, x) < Rank(S, z)
<1>0. \A y \in S : y \in Nat
  OBVIOUS
<1>1. ASSUME NEW x PROVE Rank(S, x) \in Nat /\ IsFiniteSet({y \in S : y < x})
  <2>1. {y \in S : y < x} \in SUBSET S
    OBVIOUS
  <2>2. IsFiniteSet({y \in S : y < x})
    BY <2>1, FS_Subset
  <2> QED
    BY <2>2, FS_CardinalityType DEF Rank
<1>2. ASSUME NEW x \in S, NEW z \in Nat, x < z, \A y \in S : y < z => y <= x
      PROVE  Rank(S, z) = Rank(S, x) + 1
  <2>1. {y \in S : y < z} = {y \in S : y < x} \cup {x}
    <3>1. \A y \in S : y < z <=> y < x \/ y = x
      BY <1>0, <1>2
    <3> QED
      BY <3>1, Zenon
  <2>2. x \notin {y \in S : y < x}
    OBVIOUS
  <2>3. Cardinality({y \in S : y < x} \cup {x}) = Cardinality({y \in S : y < x}) + 1
    BY <2>2, <1>1, FS_AddElement
  <2> QED
    BY <2>1, <2>3 DEF Rank
<1>3. ASSUME NEW x \in S, NEW z \in S, x < z PROVE Rank(S, x) < Rank(S, z)
  <2> DEFINE X == {y \in S : y < x}
             Z == {y \in S : y < z}
  <2>1. X \in SUBSET Z /\ X # Z
    <3>1. \A y \in S : y < x => y < z
      BY <1>0, <1>3
    <3>2. x \in Z /\ x \notin X
      BY <1>0, <1>3
    <3> QED
      BY <3>1, <3>2, Zenon
  <2>2. IsFiniteSet(Z) /\ IsFiniteSet(X)
    BY <1>1
  <2>3. Cardinality(X) \in Nat /\ Cardinality(Z) \in Nat
    BY <2>2, FS_CardinalityType
  <2>4. Cardinality(X) <= Cardinality(Z) /\ Cardinality(X) # Cardinality(Z)
    <3> HIDE DEF X, Z
    <3> QED
      BY <2>1, <2>2, FS_Subset
  <2> QED
    BY <2>3, <2>4 DEF Rank
<1> QED
  BY <1>1, <1>2, <1>3

\* Every rank below the size of the set is somebody's.
LEMMA RankOnto ==
    ASSUME NEW S \in SUBSET Nat, IsFiniteSet(S), NEW r \in Nat, r < Cardinality(S)
    PROVE  \E x \in S : Rank(S, x) = r
<1> DEFINE T == {k \in Nat : k < Cardinality(S) /\ ~\E x \in S : Rank(S, x) = k}
<1> SUFFICES ASSUME T # {} PROVE FALSE
  OBVIOUS
<1>a. \A y \in S : y \in Nat
  OBVIOUS
<1>0. Cardinality(S) \in Nat
  BY FS_CardinalityType
<1>1. PICK k \in T : \A j \in T : k <= j
  <2>1. T \in SUBSET Nat
    OBVIOUS
  <2> HIDE DEF T
  <2> QED
    BY <2>1, LeastNumber
<1>2. CASE k = 0
  <2>1. S # {}
    BY <1>0, <1>1, <1>2, FS_EmptySet
  <2>2. PICK x \in S : \A y \in S : x <= y
    BY <2>1, LeastNumber
  <2>3. {y \in S : y < x} = {}
    <3>1. \A y \in S : ~(y < x)
      BY <1>a, <2>2
    <3> QED
      BY <3>1, Zenon
  <2>4. Rank(S, x) = 0
    BY <2>3, FS_EmptySet DEF Rank
  <2> QED
    BY <2>4, <1>1, <1>2
<1>3. CASE k # 0
  <2>1. k - 1 \in Nat /\ k - 1 \notin T /\ k < Cardinality(S)
    BY <1>0, <1>1, <1>3
  <2>2. PICK x \in S : Rank(S, x) = k - 1
    BY <2>1, <1>0, <1>1
  <2> DEFINE A == {y \in S : y > x}
  <2>3. A # {}
    <3> SUFFICES ASSUME A = {} PROVE FALSE
      OBVIOUS
    <3>0. \A y \in S : ~(y > x)
      BY Zenon
    <3>1. \A y \in S : y < x + 1 /\ y <= x
      BY <1>a, <3>0
    <3>2. {y \in S : y < x + 1} = S
      BY <3>1, Zenon
    <3>3. x + 1 \in Nat /\ x < x + 1
      BY <1>a
    <3>4. Rank(S, x + 1) = Rank(S, x) + 1
      BY <3>1, <3>3, RankProperties
    <3>5. Cardinality(S) = Rank(S, x) + 1
      BY <3>2, <3>4 DEF Rank
    <3> QED
      BY <3>5, <2>1, <2>2, <1>0
  <2>4. PICK z \in A : \A y \in A : z <= y
    BY <2>3, LeastNumber
  <2>5. z \in S /\ x < z /\ \A y \in S : y < z => y <= x
    BY <2>4
  <2>6. Rank(S, z) = Rank(S, x) + 1
    BY <2>5, RankProperties
  <2>7. Rank(S, z) = k
    BY <2>6, <2>2, <1>1
  <2> QED
    BY <2>5, <2>7, <1>1
<1> QED
  BY <1>2, <1>3

Increasing(s) == \A i, j \in 1..Len(s) : i < j => s[i] < s[j]

\* A sequence of labels as the graphs hold it.
Ascending(s) == s \in Seq(Nat) /\ Increasing(s)

\* Sorted lists the members of a set in ascending order.
LEMMA SortedProperties ==
    ASSUME NEW S \in SUBSET Nat, IsFiniteSet(S)
    PROVE  /\ Sorted(S) \in Seq(S) /\ Len(Sorted(S)) = Cardinality(S)
           /\ Increasing(Sorted(S))
           /\ \A x \in S : \E i \in 1..Len(Sorted(S)) : Sorted(S)[i] = x
<1> DEFINE N == Cardinality(S)
           s == Sorted(S)
<1>a. \A y \in S : y \in Nat
  OBVIOUS
<1>1. N \in Nat
  BY FS_CardinalityType
<1>2. s = [i \in 1..N |-> CHOOSE x \in S : Rank(S, x) = i - 1]
  BY DEF Sorted, Rank
<1> HIDE DEF s
<1>3. ASSUME NEW i \in 1..N PROVE s[i] \in S /\ Rank(S, s[i]) = i - 1
  <2>1. i - 1 \in Nat /\ i - 1 < N
    BY <1>1
  <2>2. \E x \in S : Rank(S, x) = i - 1
    BY <2>1, RankOnto
  <2> QED
    BY <2>2, <1>2
<1>4. s \in Seq(S) /\ Len(s) = N
  BY <1>1, <1>2, <1>3
<1>5. Increasing(s)
  <2> SUFFICES ASSUME NEW i \in 1..N, NEW j \in 1..N, i < j PROVE s[i] < s[j]
    BY <1>4 DEF Increasing
  <2>1. Rank(S, s[i]) < Rank(S, s[j]) /\ s[i] \in S /\ s[j] \in S
    BY <1>1, <1>3
  <2>2. ~(s[j] < s[i]) /\ s[i] # s[j]
    <3>1. Rank(S, s[i]) \in Nat /\ Rank(S, s[j]) \in Nat
      BY RankProperties
    <3>2. s[j] < s[i] => Rank(S, s[j]) < Rank(S, s[i])
      BY <2>1, RankProperties
    <3> QED
      BY <2>1, <3>1, <3>2
  <2> QED
    <3>1. s[i] \in Nat /\ s[j] \in Nat
      BY <1>a, <2>1
    <3> QED
      BY <3>1, <2>2
<1>6. ASSUME NEW x \in S PROVE \E i \in 1..N : s[i] = x
  <2>1. Rank(S, x) \in Nat /\ Rank(S, x) < N
    <3>1. {y \in S : y < x} \in SUBSET S /\ {y \in S : y < x} # S
      OBVIOUS
    <3>2. Rank(S, x) \in Nat
      BY RankProperties
    <3> QED
      BY <3>1, <3>2, <1>1, FS_Subset DEF Rank
  <2>2. PICK i \in 1..N : i - 1 = Rank(S, x)
    <3>1. Rank(S, x) + 1 \in 1..N /\ Rank(S, x) + 1 - 1 = Rank(S, x)
      BY <1>1, <2>1
    <3> QED
      BY <3>1, <2>1, <1>1
  <2>3. s[i] \in S /\ Rank(S, s[i]) = Rank(S, x)
    BY <1>3, <2>2
  <2>4. ~(s[i] < x) /\ ~(x < s[i])
    <3>1. ASSUME NEW y \in S, Rank(S, y) = Rank(S, x) PROVE ~(y < x) /\ ~(x < y)
      <4>1. (y < x => Rank(S, y) < Rank(S, x)) /\ (x < y => Rank(S, x) < Rank(S, y))
        BY RankProperties
      <4> QED
        BY <4>1, <3>1, <2>1
    <3> QED
      BY <3>1, <2>3
  <2> QED
    <3>1. s[i] \in Nat /\ x \in Nat
      BY <1>a, <2>3
    <3> QED
      BY <3>1, <2>4
<1> QED
  BY <1>4, <1>5, <1>6 DEF s

-----------------------------------------------------------------------------
(* Ranges and cursors: what holds of two sorted sequences B and A. *)

Ranges == [b : Nat, a : Nat, n : Nat]

\* p pairs position i of the earlier graph with position j of the later one.
Covers(p, i, j) == p.b <= i /\ i < p.b + p.n /\ j - i = p.a - p.b

\* A range within both graphs along which the labels agree.
Valid(B, A, p) ==
    /\ p \in Ranges
    /\ 1 <= p.b /\ 1 <= p.a /\ 1 <= p.n
    /\ p.b + p.n <= Len(B) + 1 /\ p.a + p.n <= Len(A) + 1
    /\ \A i \in 1..Len(B), j \in 1..Len(A) : Covers(p, i, j) => B[i] = A[j]

\* No two ranges overlap.
Apart(ps) == \A p, q \in ps : p # q => p.b + p.n <= q.b \/ q.b + q.n <= p.b

\* The ranges of a sequence follow each other on both sides.
InOrder(ps) ==
    \A k, l \in 1..Len(ps) : k < l => ps[k].b + ps[k].n <= ps[l].b /\ ps[k].a + ps[k].n <= ps[l].a

\* The positions b and a cut the two sequences at the same place of the order.
Frontier(B, A, b, a) ==
    \A i \in 1..Len(B), j \in 1..Len(A) :
        /\ i < b /\ a <= j => B[i] < A[j]
        /\ b <= i /\ j < a => A[j] < B[i]

\* The positions below b whose label the other sequence does not have.
Lone(B, A, b) == {i \in 1..Len(B) : i < b /\ \A j \in 1..Len(A) : B[i] # A[j]}

\* Below b, all that can be paired is paired.
Joined(B, A, ps, b) ==
    \A i \in 1..Len(B), j \in 1..Len(A) :
        i < b /\ B[i] = A[j] => \E p \in ps : Covers(p, i, j)

\* A valid range covers a partner for each of its positions, on either side.
LEMMA Partners ==
    ASSUME NEW B, NEW A, Ascending(B), Ascending(A), NEW p, Valid(B, A, p)
    PROVE  /\ p.b \in Nat /\ p.a \in Nat /\ p.n \in Nat
           /\ \A i \in 1..Len(B) : p.b <= i /\ i < p.b + p.n =>
                \E j \in 1..Len(A) : p.a <= j /\ j < p.a + p.n /\ Covers(p, i, j) /\ B[i] = A[j]
           /\ \A j \in 1..Len(A) : p.a <= j /\ j < p.a + p.n =>
                \E i \in 1..Len(B) : p.b <= i /\ i < p.b + p.n /\ Covers(p, i, j) /\ B[i] = A[j]
<1>1. p.b \in Nat /\ p.a \in Nat /\ p.n \in Nat
  BY DEF Valid, Ranges
<1>2. Len(A) \in Nat /\ Len(B) \in Nat
  BY DEF Ascending
<1>3. /\ 1 <= p.b /\ 1 <= p.a /\ 1 <= p.n
      /\ p.b + p.n <= Len(B) + 1 /\ p.a + p.n <= Len(A) + 1
  BY DEF Valid
<1>4. \A i \in 1..Len(B), j \in 1..Len(A) : Covers(p, i, j) => B[i] = A[j]
  BY DEF Valid
<1>5. ASSUME NEW i \in 1..Len(B), p.b <= i, i < p.b + p.n
      PROVE  \E j \in 1..Len(A) : p.a <= j /\ j < p.a + p.n /\ Covers(p, i, j) /\ B[i] = A[j]
  <2>1. PICK j \in 1..Len(A) : j = i + p.a - p.b
    <3>1. i + p.a - p.b \in 1..Len(A)
      BY <1>1, <1>2, <1>3, <1>5
    <3> QED
      BY <3>1
  <2>2. p.a <= j /\ j < p.a + p.n /\ Covers(p, i, j)
    BY <1>1, <1>2, <1>5, <2>1 DEF Covers
  <2> QED
    BY <2>2, <1>4
<1>6. ASSUME NEW j \in 1..Len(A), p.a <= j, j < p.a + p.n
      PROVE  \E i \in 1..Len(B) : p.b <= i /\ i < p.b + p.n /\ Covers(p, i, j) /\ B[i] = A[j]
  <2>1. PICK i \in 1..Len(B) : i = j + p.b - p.a
    <3>1. j + p.b - p.a \in 1..Len(B)
      BY <1>1, <1>2, <1>3, <1>6
    <3> QED
      BY <3>1
  <2>2. p.b <= i /\ i < p.b + p.n /\ Covers(p, i, j)
    BY <1>1, <1>2, <1>6, <2>1 DEF Covers
  <2> QED
    BY <2>2, <1>4
<1> QED
  BY <1>1, <1>5, <1>6

\* In an increasing sequence positions are ordered as their labels are.
LEMMA SameOrder ==
    ASSUME NEW s, Ascending(s), NEW i \in 1..Len(s), NEW j \in 1..Len(s)
    PROVE  /\ i < j <=> s[i] < s[j]
           /\ i = j <=> s[i] = s[j]
           /\ i <= j <=> s[i] <= s[j]
<1>1. s[i] \in Nat /\ s[j] \in Nat /\ i \in Nat /\ j \in Nat
  BY DEF Ascending
<1>2. (i < j => s[i] < s[j]) /\ (j < i => s[j] < s[i])
  BY DEF Ascending, Increasing
<1> QED
  BY <1>1, <1>2

\* A range that comes after another in one graph does so in the other.
LEMMA OrderBothSides ==
    ASSUME NEW B, NEW A, Ascending(B), Ascending(A),
           NEW p, Valid(B, A, p), NEW q, Valid(B, A, q), p.b + p.n <= q.b
    PROVE  p.a + p.n <= q.a
<1>1. p.b \in Nat /\ p.a \in Nat /\ p.n \in Nat /\ q.b \in Nat /\ q.a \in Nat /\ q.n \in Nat
  BY DEF Valid, Ranges
<1>2. Len(A) \in Nat /\ Len(B) \in Nat
  BY DEF Ascending
<1>3. /\ 1 <= p.b /\ 1 <= p.a /\ 1 <= p.n /\ 1 <= q.b /\ 1 <= q.a /\ 1 <= q.n
      /\ p.b + p.n <= Len(B) + 1 /\ p.a + p.n <= Len(A) + 1
      /\ q.b + q.n <= Len(B) + 1 /\ q.a + q.n <= Len(A) + 1
  BY DEF Valid
<1>4. PICK j \in 1..Len(A) : j = p.a + p.n - 1
  <2>1. p.a + p.n - 1 \in 1..Len(A)
    BY <1>1, <1>2, <1>3
  <2> QED
    BY <2>1
<1>5. p.a <= j /\ j < p.a + p.n /\ (j < q.a => p.a + p.n <= q.a)
  BY <1>1, <1>3, <1>4
<1>6. PICK i \in 1..Len(B) : i < p.b + p.n /\ B[i] = A[j]
  BY <1>5, Partners
<1>7. q.a \in 1..Len(A) /\ q.a <= q.a /\ q.a < q.a + q.n
  <2>1. q.a \in 1..Len(A)
    BY <1>1, <1>2, <1>3
  <2>2. q.a <= q.a /\ q.a < q.a + q.n
    BY <1>1, <1>3
  <2> QED
    BY <2>1, <2>2
<1>8. PICK k \in 1..Len(B) : q.b <= k /\ B[k] = A[q.a]
  BY <1>7, Partners
<1>9. i < k
  BY <1>1, <1>6, <1>8
<1>10. A[j] < A[q.a]
  BY <1>6, <1>8, <1>9, SameOrder
<1>11. j < q.a
  BY <1>7, <1>10, SameOrder
<1> QED
  BY <1>5, <1>11

\* The cursor goes over a position whose label is less than all that is left
\* of the other sequence.
LEMMA StepOver ==
    ASSUME NEW B, NEW A, Ascending(B), Ascending(A),
           NEW b \in 1..Len(B), NEW a \in Nat, Frontier(B, A, b, a),
           \A j \in 1..Len(A) : a <= j => B[b] < A[j]
    PROVE  /\ Frontier(B, A, b + 1, a)
           /\ Frontier(A, B, a, b + 1)
           /\ Lone(B, A, b + 1) = Lone(B, A, b) \cup {b}
           /\ \A ps : Joined(B, A, ps, b) => Joined(B, A, ps, b + 1)
<1>0. b \in Nat /\ \A i \in 1..Len(B) : i \in Nat /\ B[i] \in Nat
  BY DEF Ascending
<1>1. \A j \in 1..Len(A) : j \in Nat /\ A[j] \in Nat
  BY DEF Ascending
<1>2. \A i \in 1..Len(B) : i < b + 1 <=> i < b \/ i = b
  BY <1>0
<1>3. \A j \in 1..Len(A) : j < a => A[j] < B[b]
  <2>1. b <= b
    BY <1>0
  <2> QED
    BY <2>1 DEF Frontier
<1>4. \A j \in 1..Len(A) : B[b] # A[j]
  <2> SUFFICES ASSUME NEW j \in 1..Len(A) PROVE B[b] # A[j]
    OBVIOUS
  <2>1. A[j] < B[b] \/ B[b] < A[j]
    BY <1>1, <1>3
  <2> QED
    BY <2>1, <1>0, <1>1
<1>5. Frontier(B, A, b + 1, a)
  <2> SUFFICES ASSUME NEW i \in 1..Len(B), NEW j \in 1..Len(A)
               PROVE  /\ i < b + 1 /\ a <= j => B[i] < A[j]
                      /\ b + 1 <= i /\ j < a => A[j] < B[i]
    BY DEF Frontier
  <2>1. b + 1 <= i => b <= i
    BY <1>0
  <2>2. (i < b /\ a <= j => B[i] < A[j]) /\ (b <= i /\ j < a => A[j] < B[i])
    BY DEF Frontier
  <2> QED
    BY <1>2, <2>1, <2>2
<1>6. Frontier(A, B, a, b + 1)
  <2> SUFFICES ASSUME NEW i \in 1..Len(B), NEW j \in 1..Len(A)
               PROVE  /\ j < a /\ b + 1 <= i => A[j] < B[i]
                      /\ a <= j /\ i < b + 1 => B[i] < A[j]
    BY DEF Frontier
  <2> QED
    BY <1>5 DEF Frontier
<1>7. Lone(B, A, b + 1) = Lone(B, A, b) \cup {b}
  <2>1. \A i \in 1..Len(B) : i \in Lone(B, A, b + 1) <=> i \in Lone(B, A, b) \/ i = b
    BY <1>2, <1>4 DEF Lone
  <2>2. Lone(B, A, b + 1) \in SUBSET (1..Len(B)) /\ Lone(B, A, b) \in SUBSET (1..Len(B))
    BY DEF Lone
  <2> QED
    BY <2>1, <2>2, Zenon
<1>8. ASSUME NEW ps, Joined(B, A, ps, b) PROVE Joined(B, A, ps, b + 1)
  BY <1>2, <1>4, <1>8 DEF Joined
<1> QED
  BY <1>5, <1>6, <1>7, <1>8

\* The cursors go over a range that begins at them.
LEMMA StepPair ==
    ASSUME NEW B, NEW A, Ascending(B), Ascending(A),
           NEW p, Valid(B, A, p), Frontier(B, A, p.b, p.a)
    PROVE  /\ Frontier(B, A, p.b + p.n, p.a + p.n)
           /\ Lone(B, A, p.b + p.n) = Lone(B, A, p.b)
           /\ Lone(A, B, p.a + p.n) = Lone(A, B, p.a)
           /\ \A ps : Joined(B, A, ps, p.b) /\ p \in ps => Joined(B, A, ps, p.b + p.n)
<1>0. p.b \in Nat /\ p.a \in Nat /\ p.n \in Nat
  BY DEF Valid, Ranges
<1>1. \A i \in 1..Len(B) : i \in Nat /\ B[i] \in Nat
  BY DEF Ascending
<1>2. \A j \in 1..Len(A) : j \in Nat /\ A[j] \in Nat
  BY DEF Ascending
<1>3. \A i \in 1..Len(B) : p.b <= i /\ i < p.b + p.n =>
        \E j \in 1..Len(A) : p.a <= j /\ j < p.a + p.n /\ Covers(p, i, j) /\ B[i] = A[j]
  BY Partners
<1>4. \A j \in 1..Len(A) : p.a <= j /\ j < p.a + p.n =>
        \E i \in 1..Len(B) : p.b <= i /\ i < p.b + p.n /\ Covers(p, i, j) /\ B[i] = A[j]
  BY Partners
<1>5. \A i \in 1..Len(B) : i < p.b + p.n <=> i < p.b \/ (p.b <= i /\ i < p.b + p.n)
  BY <1>0, <1>1
<1>6. \A j \in 1..Len(A) : j < p.a + p.n <=> j < p.a \/ (p.a <= j /\ j < p.a + p.n)
  BY <1>0, <1>2
<1>7. Frontier(B, A, p.b + p.n, p.a + p.n)
  <2> SUFFICES ASSUME NEW i \in 1..Len(B), NEW j \in 1..Len(A)
               PROVE  /\ i < p.b + p.n /\ p.a + p.n <= j => B[i] < A[j]
                      /\ p.b + p.n <= i /\ j < p.a + p.n => A[j] < B[i]
    BY DEF Frontier
  <2>1. (i < p.b /\ p.a <= j => B[i] < A[j]) /\ (p.b <= i /\ j < p.a => A[j] < B[i])
    BY DEF Frontier
  <2>2. (p.a + p.n <= j => p.a <= j) /\ (p.b + p.n <= i => p.b <= i)
    BY <1>0, <1>1, <1>2
  <2>3. ASSUME p.b <= i, i < p.b + p.n, p.a + p.n <= j PROVE B[i] < A[j]
    <3>1. PICK k \in 1..Len(A) : k < p.a + p.n /\ B[i] = A[k]
      BY <1>3, <2>3
    <3>2. k < j
      BY <3>1, <2>3, <1>0, <1>2
    <3> QED
      BY <3>1, <3>2, SameOrder
  <2>4. ASSUME p.a <= j, j < p.a + p.n, p.b + p.n <= i PROVE A[j] < B[i]
    <3>1. PICK k \in 1..Len(B) : k < p.b + p.n /\ B[k] = A[j]
      BY <1>4, <2>4
    <3>2. k < i
      BY <3>1, <2>4, <1>0, <1>1
    <3> QED
      BY <3>1, <3>2, SameOrder
  <2> QED
    BY <1>5, <1>6, <2>1, <2>2, <2>3, <2>4
<1>8. Lone(B, A, p.b + p.n) = Lone(B, A, p.b)
  <2>1. \A i \in 1..Len(B) : i \in Lone(B, A, p.b + p.n) <=> i \in Lone(B, A, p.b)
    BY <1>3, <1>5 DEF Lone
  <2>2. Lone(B, A, p.b + p.n) \in SUBSET (1..Len(B)) /\ Lone(B, A, p.b) \in SUBSET (1..Len(B))
    BY DEF Lone
  <2> QED
    BY <2>1, <2>2, Zenon
<1>9. Lone(A, B, p.a + p.n) = Lone(A, B, p.a)
  <2>1. \A j \in 1..Len(A) : j \in Lone(A, B, p.a + p.n) <=> j \in Lone(A, B, p.a)
    BY <1>4, <1>6 DEF Lone
  <2>2. Lone(A, B, p.a + p.n) \in SUBSET (1..Len(A)) /\ Lone(A, B, p.a) \in SUBSET (1..Len(A))
    BY DEF Lone
  <2> QED
    BY <2>1, <2>2, Zenon
<1>10. ASSUME NEW ps, Joined(B, A, ps, p.b), p \in ps PROVE Joined(B, A, ps, p.b + p.n)
  <2> SUFFICES ASSUME NEW i \in 1..Len(B), NEW j \in 1..Len(A), i < p.b + p.n, B[i] = A[j]
               PROVE  \E q \in ps : Covers(q, i, j)
    BY DEF Joined
  <2>1. CASE i < p.b
    BY <2>1, <1>10 DEF Joined
  <2>2. CASE p.b <= i
    <3>1. PICK k \in 1..Len(A) : Covers(p, i, k) /\ B[i] = A[k]
      BY <1>3, <2>2
    <3>2. A[k] = A[j]
      BY <3>1
    <3>3. k = j
      BY <3>2, SameOrder
    <3> QED
      BY <3>1, <3>3, <1>10
  <2> QED
    BY <1>5, <2>1, <2>2
<1> QED
  BY <1>7, <1>8, <1>9, <1>10

-----------------------------------------------------------------------------
(* The inductive invariant, phase by phase. *)

InputInv ==
    /\ Ascending(bLabels) /\ Ascending(aLabels)
    /\ \A l \in differ : /\ \E i \in 1..Len(bLabels) : bLabels[i] = l
                         /\ \E j \in 1..Len(aLabels) : aLabels[j] = l

\* What block matching has paired lies before the block that is next.
MatchInv ==
    /\ block \in 1..BlockCount(bLabels) + 1
    /\ pairs \in Seq(Ranges) /\ InOrder(pairs)
    /\ \A k \in 1..Len(pairs) : /\ Valid(bLabels, aLabels, pairs[k])
                                /\ pairs[k].b + pairs[k].n <= BlockStart(bLabels, block)
    /\ gap = 1 /\ at = [b |-> 1, a |-> 1]
    /\ deleted = {} /\ inserted = {} /\ runs = << >> /\ marked = {}

\* The merge-join: the cursors are in the current gap and at the same place
\* of the order; below them everything is paired or lone.
JoinInv ==
    /\ matched \in Seq(Ranges) /\ InOrder(matched)
    /\ \A k \in 1..Len(matched) : Valid(bLabels, aLabels, matched[k])
    /\ gap \in 1..Len(matched) + 1
    /\ at \in [b : Nat, a : Nat]
    /\ GapBStart(gap) <= at.b /\ at.b <= GapBEnd(gap)
    /\ GapAStart(gap) <= at.a /\ at.a <= GapAEnd(gap)
    /\ Frontier(bLabels, aLabels, at.b, at.a)
    /\ pairs \in Seq(Ranges)
    /\ \A p \in Range(pairs) : /\ Valid(bLabels, aLabels, p)
                               /\ p.b + p.n <= at.b \/ \E k \in gap..Len(matched) : p = matched[k]
    /\ \A k \in gap..Len(matched) : matched[k] \in Range(pairs)
    /\ Apart(Range(pairs))
    /\ Joined(bLabels, aLabels, Range(pairs), at.b)
    /\ deleted = Lone(bLabels, aLabels, at.b)
    /\ inserted = Lone(aLabels, bLabels, at.a)
    /\ runs = << >> /\ marked = {}

\* Nodes without a partner, when all gaps are joined.
LoneInv ==
    /\ deleted = Lone(bLabels, aLabels, Len(bLabels) + 1)
    /\ inserted = Lone(aLabels, bLabels, Len(aLabels) + 1)

\* The runs so far: as long as they can be, and in order on both sides.
RunsInv ==
    /\ runs \in Seq(Ranges)
    /\ \A k \in 1..Len(runs) : Valid(bLabels, aLabels, runs[k])
    /\ \A k \in 1..Len(runs) - 1 :
         /\ runs[k].b + runs[k].n <= runs[k + 1].b /\ runs[k].a + runs[k].n <= runs[k + 1].a
         /\ ~Adjacent(runs[k], runs[k + 1])

\* What is left to merge lies behind the runs.
MergeInv ==
    /\ \A p \in rest : /\ Valid(bLabels, aLabels, p)
                       /\ runs # << >> => runs[Len(runs)].b + runs[Len(runs)].n <= p.b
    /\ Apart(rest)
    /\ Joined(bLabels, aLabels, rest \cup Range(runs), Len(bLabels) + 1)
    /\ marked = {}

\* Every changed node is marked or in a range that is still to be compared.
BisectInv ==
    /\ Joined(bLabels, aLabels, Range(runs), Len(bLabels) + 1)
    /\ todo \in Seq(Ranges)
    /\ \A k \in 1..Len(todo) : Valid(bLabels, aLabels, todo[k])
    /\ marked \in SUBSET {j \in 1..Len(aLabels) : aLabels[j] \in differ}
    /\ \A j \in 1..Len(aLabels) :
         aLabels[j] \in differ => \/ j \in marked
                                \/ \E k \in 1..Len(todo), i \in 1..Len(bLabels) : Covers(todo[k], i, j)

IndInv ==
    /\ InputInv
    /\ stage \in {"match", "join", "merge", "bisect", "done"}
    /\ stage = "match" => MatchInv
    /\ stage = "join" => JoinInv
    /\ stage \in {"merge", "bisect", "done"} => LoneInv /\ RunsInv
    /\ stage = "merge" => MergeInv
    /\ stage \in {"bisect", "done"} => BisectInv
    /\ stage = "done" => todo = << >>

-----------------------------------------------------------------------------
(* The blocks of a sequence follow each other and fill it. *)

\* Each block begins where the one before it ends, and has at least one node.
LEMMA BlockBounds ==
    ASSUME NEW s, Ascending(s)
    PROVE  /\ BlockCount(s) \in Nat
           /\ \A k \in 1..BlockCount(s) :
                /\ BlockStart(s, k) \in Nat /\ BlockEnd(s, k) \in Nat
                /\ 1 <= BlockStart(s, k) /\ BlockStart(s, k) < BlockEnd(s, k)
                /\ BlockEnd(s, k) <= Len(s) + 1
                /\ BlockStart(s, k + 1) = BlockEnd(s, k)
<1> DEFINE E == BlockEnds(s)
           e == Sorted(E)
<1>1. Len(s) \in Nat
  BY DEF Ascending
<1>2. E \in SUBSET (1..Len(s))
  BY DEF BlockEnds
<1>3. IsFiniteSet(E) /\ E \in SUBSET Nat
  <2>1. IsFiniteSet(1..Len(s))
    BY <1>1, FS_Interval
  <2>2. 1..Len(s) \in SUBSET Nat
    BY <1>1
  <2> HIDE DEF E
  <2> QED
    BY <2>1, <2>2, <1>2, FS_Subset
<1>4. BlockCount(s) \in Nat
  BY <1>3, FS_CardinalityType DEF BlockCount
<1>5. e \in Seq(E) /\ Len(e) = BlockCount(s) /\ Increasing(e)
  <2> HIDE DEF E
  <2>1. e \in Seq(E) /\ Len(e) = Cardinality(E) /\ Increasing(e)
    BY <1>3, SortedProperties
  <2> QED
    BY <2>1 DEF BlockCount, E
<1>6. \A k \in 1..BlockCount(s) : e[k] \in Nat /\ 1 <= e[k] /\ e[k] <= Len(s)
  <2> SUFFICES ASSUME NEW k \in 1..BlockCount(s) PROVE e[k] \in Nat /\ 1 <= e[k] /\ e[k] <= Len(s)
    OBVIOUS
  <2> HIDE DEF E, e
  <2>1. e[k] \in E
    BY <1>5
  <2>2. e[k] \in 1..Len(s)
    BY <2>1, <1>2
  <2> QED
    BY <2>2, <1>1
<1>7. \A k, l \in 1..BlockCount(s) : k < l => e[k] < e[l]
  <2> HIDE DEF E, e
  <2> QED
    BY <1>5 DEF Increasing
<1>8. /\ \A k : BlockEnd(s, k) = e[k] + 1
      /\ \A k : BlockStart(s, k) = IF k = 1 THEN 1 ELSE e[k - 1] + 1
  BY DEF BlockStart, BlockEnd
<1>9. ASSUME NEW k \in 1..BlockCount(s)
      PROVE  /\ BlockStart(s, k) \in Nat /\ BlockEnd(s, k) \in Nat
             /\ 1 <= BlockStart(s, k) /\ BlockStart(s, k) < BlockEnd(s, k)
             /\ BlockEnd(s, k) <= Len(s) + 1
             /\ BlockStart(s, k + 1) = BlockEnd(s, k)
  <2> HIDE DEF E, e
  <2>1. BlockEnd(s, k) = e[k] + 1 /\ e[k] \in Nat /\ 1 <= e[k] /\ e[k] <= Len(s)
    BY <1>6, <1>8
  <2>2. BlockStart(s, k + 1) = BlockEnd(s, k)
    <3>1. k + 1 # 1 /\ k + 1 - 1 = k
      BY <1>4
    <3> QED
      BY <3>1, <1>8
  <2>3. CASE k = 1
    BY <2>1, <2>2, <2>3, <1>1, <1>8
  <2>4. CASE k # 1
    <3>1. k - 1 \in 1..BlockCount(s) /\ k - 1 < k
      BY <2>4, <1>4
    <3>2. BlockStart(s, k) = e[k - 1] + 1
      BY <2>4, <1>8
    <3>3. e[k - 1] \in Nat /\ e[k - 1] < e[k]
      BY <3>1, <1>6, <1>7
    <3> QED
      BY <2>1, <2>2, <3>2, <3>3, <1>1
  <2> QED
    BY <2>3, <2>4
<1> QED
  BY <1>4, <1>9

\* The digest of a block tells its length and its labels.
LEMMA DigestTells ==
    ASSUME NEW s, Ascending(s), NEW k \in 1..BlockCount(s)
    PROVE  /\ Len(BlockDigest(s, k)) = BlockEnd(s, k) - BlockStart(s, k)
           /\ \A t \in 1..BlockEnd(s, k) - BlockStart(s, k) :
                BlockDigest(s, k)[t] = s[BlockStart(s, k) + t - 1]
<1>1. PICK u \in Nat, v \in Nat : u = BlockStart(s, k) /\ v = BlockEnd(s, k)
  BY BlockBounds
<1>2. 1 <= u /\ u < v /\ v <= Len(s) + 1
  BY <1>1, BlockBounds
<1>3. \A i \in u..v - 1 : s[i] \in Nat
  <2>1. s \in Seq(Nat) /\ Len(s) \in Nat
    BY DEF Ascending
  <2>2. \A i \in u..v - 1 : i \in 1..Len(s)
    BY <2>1, <1>2
  <2> QED
    BY <2>1, <2>2
<1>4. v - 1 \in Int /\ u \in Int
  BY <1>1
<1>5. /\ Len(SubSeq(s, u, v - 1)) = IF u <= v - 1 THEN v - 1 - u + 1 ELSE 0
      /\ \A t \in 1..v - 1 - u + 1 : SubSeq(s, u, v - 1)[t] = s[u + t - 1]
  BY <1>3, <1>4, SubSeqProperties
<1>6. u <= v - 1 /\ v - 1 - u + 1 = v - u
  BY <1>2
<1>7. /\ Len(SubSeq(s, u, v - 1)) = v - u
      /\ \A t \in 1..v - u : SubSeq(s, u, v - 1)[t] = s[u + t - 1]
  BY <1>5, <1>6
<1> QED
  BY <1>1, <1>7 DEF BlockDigest

\* Two blocks with the same digest make a range along which the labels agree.
LEMMA DigestsPair ==
    ASSUME Ascending(bLabels), Ascending(aLabels),
           NEW k \in 1..BlockCount(bLabels), NEW j \in 1..BlockCount(aLabels),
           BlockDigest(aLabels, j) = BlockDigest(bLabels, k)
    PROVE  LET p == Pair(BlockStart(bLabels, k), BlockStart(aLabels, j), Len(BlockDigest(bLabels, k)))
           IN  /\ Valid(bLabels, aLabels, p)
               /\ p.b + p.n = BlockEnd(bLabels, k)
<1>1. PICK u \in Nat, v \in Nat : u = BlockStart(bLabels, k) /\ v = BlockEnd(bLabels, k)
  BY BlockBounds
<1>2. PICK x \in Nat, y \in Nat : x = BlockStart(aLabels, j) /\ y = BlockEnd(aLabels, j)
  BY BlockBounds
<1>3. 1 <= u /\ u < v /\ v <= Len(bLabels) + 1
  BY <1>1, BlockBounds
<1>4. 1 <= x /\ x < y /\ y <= Len(aLabels) + 1
  BY <1>2, BlockBounds
<1>5. PICK d : d = BlockDigest(bLabels, k) /\ d = BlockDigest(aLabels, j)
  OBVIOUS
<1>6. Len(d) = v - u /\ \A t \in 1..v - u : d[t] = bLabels[u + t - 1]
  BY <1>1, <1>5, DigestTells
<1>7. Len(d) = y - x /\ \A t \in 1..y - x : d[t] = aLabels[x + t - 1]
  BY <1>2, <1>5, DigestTells
<1>8. PICK n \in Nat : n = Len(d)
  BY <1>6, <1>3
<1>9. 1 <= n /\ n = v - u /\ n = y - x
  BY <1>3, <1>6, <1>7, <1>8
<1> DEFINE p == [b |-> u, a |-> x, n |-> n]
<1>10. p.b = u /\ p.a = x /\ p.n = n /\ p \in Ranges
  BY DEF Ranges
<1> HIDE DEF p
<1>11. Len(bLabels) \in Nat /\ Len(aLabels) \in Nat
  BY DEF Ascending
<1>12. ASSUME NEW i \in 1..Len(bLabels), NEW l \in 1..Len(aLabels), Covers(p, i, l)
       PROVE  bLabels[i] = aLabels[l]
  <2>1. u <= i /\ i < u + n /\ l - i = x - u
    BY <1>10, <1>12 DEF Covers
  <2>2. PICK t \in 1..n : t = i - u + 1
    <3>1. i - u + 1 \in 1..n
      BY <2>1
    <3> QED
      BY <3>1
  <2>3. u + t - 1 = i /\ x + t - 1 = l
    BY <2>1, <2>2
  <2>4. d[t] = bLabels[u + t - 1] /\ d[t] = aLabels[x + t - 1]
    BY <1>6, <1>7, <1>9
  <2> QED
    BY <2>3, <2>4
<1>13. u + n <= Len(bLabels) + 1 /\ x + n <= Len(aLabels) + 1 /\ u + n = v
  BY <1>3, <1>4, <1>9, <1>11
<1>14. Valid(bLabels, aLabels, p)
  BY <1>3, <1>4, <1>9, <1>10, <1>12, <1>13 DEF Valid
<1>15. p = Pair(BlockStart(bLabels, k), BlockStart(aLabels, j), Len(BlockDigest(bLabels, k)))
  BY <1>1, <1>2, <1>5, <1>8 DEF p, Pair
<1> QED
  BY <1>1, <1>10, <1>13, <1>14, <1>15

-----------------------------------------------------------------------------
(* The invariant holds at the start. *)

\* The labels of a graph in their order.
LEMMA SortedAscending ==
    ASSUME NEW S \in SUBSET Labels
    PROVE  /\ Ascending(Sorted(S))
           /\ \A l \in S : \E i \in 1..Len(Sorted(S)) : Sorted(S)[i] = l
<1>1. S \in SUBSET Nat /\ IsFiniteSet(S)
  BY LabelAssumption, FS_Subset
<1>2. /\ Sorted(S) \in Seq(S) /\ Increasing(Sorted(S))
      /\ \A l \in S : \E i \in 1..Len(Sorted(S)) : Sorted(S)[i] = l
  BY <1>1, SortedProperties
<1>3. Sorted(S) \in Seq(Nat)
  <2>1. PICK s : s = Sorted(S)
    OBVIOUS
  <2>2. s \in Seq(S)
    BY <2>1, <1>2
  <2>3. Len(s) \in Nat /\ s \in [1..Len(s) -> S]
    BY <2>2, LenProperties
  <2>4. s \in [1..Len(s) -> Nat]
    BY <2>3, <1>1
  <2>5. s \in Seq(Nat)
    BY <2>3, <2>4
  <2> QED
    BY <2>1, <2>5
<1> QED
  BY <1>2, <1>3 DEF Ascending

\* Nothing is looked up, paired or compared yet.
LEMMA InitIndInv == Init => IndInv
<1> SUFFICES ASSUME Init PROVE IndInv
  OBVIOUS
<1>1. PICK where \in [Labels -> {"neither", "before", "after", "same", "differ"}] :
         /\ bLabels = Sorted({l \in Labels : where[l] \in {"before", "same", "differ"}})
         /\ aLabels = Sorted({l \in Labels : where[l] \in {"after", "same", "differ"}})
         /\ differ = {l \in Labels : where[l] = "differ"}
  BY DEF Init
<1> DEFINE S == {l \in Labels : where[l] \in {"before", "same", "differ"}}
           T == {l \in Labels : where[l] \in {"after", "same", "differ"}}
<1>2. S \in SUBSET Labels /\ T \in SUBSET Labels /\ differ \in SUBSET S /\ differ \in SUBSET T
  BY <1>1
<1>3. bLabels = Sorted(S) /\ aLabels = Sorted(T)
  BY <1>1
<1> HIDE DEF S, T
<1>4. InputInv
  BY <1>2, <1>3, SortedAscending DEF InputInv
<1>5. MatchInv
  <2>1. BlockCount(bLabels) \in Nat
    BY <1>4, BlockBounds DEF InputInv
  <2>2. block = 1 /\ block \in 1..BlockCount(bLabels) + 1
    BY <2>1 DEF Init
  <2>3. pairs = << >>
    BY DEF Init
  <2>4. pairs \in Seq(Ranges) /\ Len(pairs) = 0
    BY <2>3
  <2>5. InOrder(pairs) /\ 1..Len(pairs) = {}
    BY <2>4 DEF InOrder
  <2> QED
    BY <2>2, <2>4, <2>5 DEF MatchInv, Init
<1> QED
  BY <1>4, <1>5 DEF IndInv, Init

-----------------------------------------------------------------------------
(* Block matching. *)

\* A sequence that grows by one range behind all of it stays in order.
LEMMA AppendInOrder ==
    ASSUME NEW ps \in Seq(Ranges), InOrder(ps), NEW p \in Ranges,
           \A k \in 1..Len(ps) : ps[k].b + ps[k].n <= p.b /\ ps[k].a + ps[k].n <= p.a
    PROVE  InOrder(Append(ps, p))
<1>1. PICK qs : qs = Append(ps, p)
  OBVIOUS
<1>2. /\ Len(qs) = Len(ps) + 1 /\ Len(ps) \in Nat
      /\ \A i \in 1..Len(ps) : qs[i] = ps[i]
      /\ qs[Len(ps) + 1] = p
  BY <1>1, AppendProperties
<1>3. ASSUME NEW k \in 1..Len(qs), NEW l \in 1..Len(qs), k < l
      PROVE  qs[k].b + qs[k].n <= qs[l].b /\ qs[k].a + qs[k].n <= qs[l].a
  <2>1. k \in 1..Len(ps) /\ qs[k] = ps[k]
    BY <1>2, <1>3
  <2>2. CASE l \in 1..Len(ps)
    BY <1>2, <1>3, <2>1, <2>2 DEF InOrder
  <2>3. CASE l = Len(ps) + 1
    BY <1>2, <2>1, <2>3
  <2> QED
    BY <1>2, <2>2, <2>3
<1> QED
  BY <1>1, <1>3 DEF InOrder

\* A matched block lies behind the pairs found before it, on both sides.
LEMMA MatchBlockInd == ASSUME IndInv, MatchBlock PROVE IndInv'
<1>0. stage = "match" /\ stage' = "match" /\ bLabels' = bLabels /\ aLabels' = aLabels /\ cuts' = cuts /\ differ' = differ
  BY DEF MatchBlock, inputVars
<1>1. InputInv /\ MatchInv /\ Ascending(bLabels) /\ Ascending(aLabels)
  BY <1>0 DEF IndInv, InputInv
<1>2. InputInv'
  BY <1>0, <1>1 DEF InputInv
<1>3. \A s : BlockEnds(s)' = BlockEnds(s)
  BY <1>0 DEF BlockEnds
<1>4. BlockCount(bLabels)' = BlockCount(bLabels) /\ BlockStart(bLabels, block)' = BlockStart(bLabels, block')
  BY <1>0, <1>3 DEF BlockCount, BlockStart, BlockEnd
<1>5. BlockCount(bLabels) \in Nat /\ block \in Nat /\ block >= 1 /\ block <= BlockCount(bLabels)
  BY <1>1, BlockBounds DEF MatchInv, MatchBlock
<1>6. block' = block + 1 /\ block' \in 1..BlockCount(bLabels) + 1 /\ block \in 1..BlockCount(bLabels)
  BY <1>5 DEF MatchBlock
<1>7. /\ BlockStart(bLabels, block) \in Nat /\ BlockStart(bLabels, block') = BlockEnd(bLabels, block)
      /\ BlockStart(bLabels, block) < BlockEnd(bLabels, block) /\ BlockEnd(bLabels, block) \in Nat
  BY <1>1, <1>6, BlockBounds
<1>8. /\ pairs \in Seq(Ranges) /\ InOrder(pairs)
      /\ \A k \in 1..Len(pairs) : /\ Valid(bLabels, aLabels, pairs[k])
                                  /\ pairs[k].b + pairs[k].n <= BlockStart(bLabels, block)
  BY <1>1 DEF MatchInv
<1>9. /\ \A k \in 1..Len(pairs) : pairs[k].b \in Nat /\ pairs[k].n \in Nat /\ pairs[k].a \in Nat
      /\ Len(pairs) \in Nat
  <2>1. Len(pairs) \in Nat /\ \A k \in 1..Len(pairs) : pairs[k] \in Ranges
    BY <1>8
  <2> QED
    BY <2>1 DEF Ranges
<1>10. \A k \in 1..Len(pairs) : pairs[k].b + pairs[k].n <= BlockStart(bLabels, block')
  BY <1>7, <1>8, <1>9
<1>11. ASSUME pairs' \in Seq(Ranges), InOrder(pairs'),
              \A k \in 1..Len(pairs') : /\ Valid(bLabels, aLabels, pairs'[k])
                                        /\ pairs'[k].b + pairs'[k].n <= BlockStart(bLabels, block')
       PROVE  IndInv'
  <2>1. MatchInv'
    BY <1>0, <1>1, <1>4, <1>6, <1>11 DEF MatchInv, MatchBlock
  <2> QED
    BY <2>1, <1>0, <1>2 DEF IndInv
<1>12. CASE UNCHANGED pairs
  BY <1>8, <1>10, <1>11, <1>12
<1>13. CASE \E j \in Candidates(block) :
            pairs' = Append(pairs, Pair(BlockStart(bLabels, block), BlockStart(aLabels, j),
                                        Len(BlockDigest(bLabels, block))))
  <2>1. PICK j \in Candidates(block) :
            pairs' = Append(pairs, Pair(BlockStart(bLabels, block), BlockStart(aLabels, j),
                                        Len(BlockDigest(bLabels, block))))
    BY <1>13
  <2>2. PICK p : p = Pair(BlockStart(bLabels, block), BlockStart(aLabels, j), Len(BlockDigest(bLabels, block)))
    OBVIOUS
  <2>3. /\ j \in 1..BlockCount(aLabels) /\ BlockDigest(aLabels, j) = BlockDigest(bLabels, block)
        /\ BlockStart(aLabels, j) >= AfterPos
    BY DEF Candidates
  <2>4. Valid(bLabels, aLabels, p) /\ p.b + p.n = BlockEnd(bLabels, block)
    BY <1>1, <1>6, <2>2, <2>3, DigestsPair
  <2>5. p \in Ranges /\ p.b = BlockStart(bLabels, block) /\ p.a = BlockStart(aLabels, j)
    BY <2>2, <2>4 DEF Valid, Pair
  <2>6. p.a \in Nat
    BY <2>5 DEF Ranges
  <2>7. \A k \in 1..Len(pairs) : pairs[k].a + pairs[k].n <= p.a
    <3> SUFFICES ASSUME NEW k \in 1..Len(pairs) PROVE pairs[k].a + pairs[k].n <= p.a
      OBVIOUS
    <3>1. PICK m \in 1..Len(pairs) : m = Len(pairs)
      BY <1>9
    <3>2. pairs # << >>
      BY <1>8, <1>9
    <3>3. AfterPos = pairs[m].a + pairs[m].n
      BY <3>1, <3>2 DEF AfterPos, AEnd
    <3>4. pairs[m].a + pairs[m].n <= p.a
      BY <3>3, <2>3, <2>5, <2>6, <1>9
    <3>5. CASE k = m
      BY <3>4, <3>5
    <3>6. CASE k # m
      <4>1. k < m
        BY <3>1, <3>6, <1>9
      <4>2. pairs[k].a + pairs[k].n <= pairs[m].a
        BY <4>1, <1>8 DEF InOrder
      <4> QED
        BY <4>2, <3>4, <2>6, <1>9
    <3> QED
      BY <3>5, <3>6
  <2>8. InOrder(pairs')
    BY <1>8, <2>1, <2>2, <2>5, <2>7, AppendInOrder
  <2>9. /\ pairs' \in Seq(Ranges) /\ Len(pairs') = Len(pairs) + 1
        /\ \A k \in 1..Len(pairs) : pairs'[k] = pairs[k]
        /\ pairs'[Len(pairs) + 1] = p
    BY <1>8, <2>1, <2>2, <2>5, AppendProperties
  <2>10. ASSUME NEW k \in 1..Len(pairs')
         PROVE  /\ Valid(bLabels, aLabels, pairs'[k])
                /\ pairs'[k].b + pairs'[k].n <= BlockStart(bLabels, block')
    <3>1. CASE k \in 1..Len(pairs)
      BY <3>1, <2>9, <1>8, <1>10
    <3>2. CASE k = Len(pairs) + 1
      <4>1. pairs'[k] = p
        BY <3>2, <2>9
      <4> QED
        BY <4>1, <2>4, <1>7
    <3> QED
      BY <3>1, <3>2, <2>9, <1>9
  <2> QED
    BY <2>8, <2>9, <2>10, <1>11
<1> QED
  BY <1>12, <1>13 DEF MatchBlock

\* The ranges of a sequence, one by one and after one more is appended.
LEMMA RangeOfRanges ==
    ASSUME NEW ps \in Seq(Ranges)
    PROVE  /\ \A k \in 1..Len(ps) : ps[k] \in Range(ps)
           /\ \A p \in Range(ps) : \E k \in 1..Len(ps) : p = ps[k]
           /\ \A p \in Ranges : Range(Append(ps, p)) = Range(ps) \cup {p}
<1>1. DOMAIN ps = 1..Len(ps) /\ Len(ps) \in Nat
  BY LenProperties
<1>2. Range(ps) = {ps[k] : k \in 1..Len(ps)}
  BY <1>1 DEF Range
<1>3. ASSUME NEW p \in Ranges PROVE Range(Append(ps, p)) = Range(ps) \cup {p}
  <2>1. PICK qs : qs = Append(ps, p)
    OBVIOUS
  <2>2. /\ qs \in Seq(Ranges)
        /\ Len(qs) = Len(ps) + 1
        /\ \A i \in 1..Len(ps) : qs[i] = ps[i]
        /\ qs[Len(ps) + 1] = p
    BY <2>1, AppendProperties
  <2>3. DOMAIN qs = 1..Len(ps) + 1
    BY <2>2, LenProperties
  <2>4. \A k \in 1..Len(ps) + 1 : k \in 1..Len(ps) \/ k = Len(ps) + 1
    BY <1>1
  <2>5. (1..Len(ps)) \in SUBSET (1..Len(ps) + 1) /\ Len(ps) + 1 \in 1..Len(ps) + 1
    BY <1>1
  <2>6. Range(qs) = {qs[k] : k \in 1..Len(ps) + 1}
    BY <2>3 DEF Range
  <2>7. ASSUME NEW q PROVE q \in Range(qs) <=> q \in Range(ps) \cup {p}
    BY <2>2, <2>4, <2>5, <2>6, <1>2
  <2>8. Range(qs) = Range(ps) \cup {p}
    BY <2>7
  <2> QED
    BY <2>1, <2>8
<1> QED
  BY <1>2, <1>3

\* The join starts at the first positions of both graphs.
LEMMA MatchDoneInd == ASSUME IndInv, MatchDone PROVE IndInv'
<1>0. stage = "match" /\ stage' = "join" /\ bLabels' = bLabels /\ aLabels' = aLabels /\ differ' = differ
  BY DEF MatchDone, inputVars
<1>1. InputInv /\ MatchInv /\ Ascending(bLabels) /\ Ascending(aLabels)
  BY <1>0 DEF IndInv, InputInv
<1>2. InputInv'
  BY <1>0, <1>1 DEF InputInv
<1>3. /\ matched' = pairs /\ pairs' = pairs /\ gap' = 1 /\ at' = [b |-> 1, a |-> 1]
      /\ deleted' = {} /\ inserted' = {} /\ runs' = << >> /\ marked' = {}
  BY <1>1 DEF MatchDone, MatchInv
<1>4. /\ pairs \in Seq(Ranges) /\ InOrder(pairs)
      /\ \A k \in 1..Len(pairs) : Valid(bLabels, aLabels, pairs[k])
  BY <1>1 DEF MatchInv
<1>5. Len(pairs) \in Nat /\ Len(bLabels) \in Nat /\ Len(aLabels) \in Nat
  BY <1>1, <1>4 DEF Ascending
<1>6. \A k \in 1..Len(pairs) : pairs[k].b \in Nat /\ pairs[k].a \in Nat /\ pairs[k].n \in Nat
                               /\ 1 <= pairs[k].b /\ 1 <= pairs[k].a
  BY <1>4 DEF Valid, Ranges
<1>7. at'.b = 1 /\ at'.a = 1 /\ at' \in [b : Nat, a : Nat] /\ gap' \in 1..Len(matched') + 1
  BY <1>3, <1>5
<1>8. GapBStart(gap)' = 1 /\ GapAStart(gap)' = 1
  BY <1>3 DEF GapBStart, GapAStart
<1>9. 1 <= GapBEnd(gap)' /\ 1 <= GapAEnd(gap)'
  <2>1. CASE 1 <= Len(pairs)
    <3>1. 1 \in 1..Len(pairs)
      BY <2>1, <1>5
    <3>2. GapBEnd(gap)' = pairs[1].b /\ GapAEnd(gap)' = pairs[1].a
      BY <2>1, <1>3 DEF GapBEnd, GapAEnd
    <3> QED
      BY <3>1, <3>2, <1>6
  <2>2. CASE ~(1 <= Len(pairs))
    <3>1. GapBEnd(gap)' = Len(bLabels) + 1 /\ GapAEnd(gap)' = Len(aLabels) + 1
      BY <2>2, <1>0, <1>3 DEF GapBEnd, GapAEnd
    <3> QED
      BY <3>1, <1>5
  <2> QED
    BY <2>1, <2>2
<1>10. Frontier(bLabels, aLabels, 1, 1)
  BY <1>5 DEF Frontier
<1>11. Lone(bLabels, aLabels, 1) = {} /\ Lone(aLabels, bLabels, 1) = {}
  BY <1>5 DEF Lone
<1>12. Joined(bLabels, aLabels, Range(pairs), 1)
  BY <1>5 DEF Joined
<1>13. \A p \in Range(pairs) : \E k \in 1..Len(pairs) : p = pairs[k]
  BY <1>4, RangeOfRanges
<1>14. Apart(Range(pairs))
  <2> SUFFICES ASSUME NEW p \in Range(pairs), NEW q \in Range(pairs), p # q
               PROVE  p.b + p.n <= q.b \/ q.b + q.n <= p.b
    BY DEF Apart
  <2>1. PICK k \in 1..Len(pairs) : p = pairs[k]
    BY <1>13
  <2>2. PICK l \in 1..Len(pairs) : q = pairs[l]
    BY <1>13
  <2>3. k < l \/ l < k
    BY <2>1, <2>2, <1>5
  <2> QED
    BY <2>1, <2>2, <2>3, <1>4 DEF InOrder
<1>15. \A k \in 1..Len(pairs) : pairs[k] \in Range(pairs)
  BY <1>4, RangeOfRanges
<1>16. JoinInv'
  <2>1. /\ GapBStart(gap)' <= at'.b /\ at'.b <= GapBEnd(gap)'
        /\ GapAStart(gap)' <= at'.a /\ at'.a <= GapAEnd(gap)'
    BY <1>7, <1>8, <1>9
  <2>2. \A p \in Range(pairs) : Valid(bLabels, aLabels, p)
    BY <1>4, <1>13
  <2> QED
    BY <2>1, <2>2, <1>0, <1>3, <1>4, <1>7, <1>10, <1>11, <1>12, <1>13, <1>14, <1>15 DEF JoinInv
<1> QED
  BY <1>0, <1>2, <1>16 DEF IndInv

-----------------------------------------------------------------------------
(* The merge-join of the gaps. *)

\* Where the current gap ends.
LEMMA GapBounds ==
    ASSUME InputInv, JoinInv
    PROVE  /\ at.b \in Nat /\ at.a \in Nat /\ 1 <= at.b /\ 1 <= at.a
           /\ gap \in Nat /\ 1 <= gap /\ gap <= Len(matched) + 1 /\ Len(matched) \in Nat
           /\ GapBEnd(gap) \in Nat /\ at.b <= GapBEnd(gap) /\ GapBEnd(gap) <= Len(bLabels) + 1
           /\ GapAEnd(gap) \in Nat /\ at.a <= GapAEnd(gap) /\ GapAEnd(gap) <= Len(aLabels) + 1
           /\ \A k \in 1..Len(matched) :
                /\ Valid(bLabels, aLabels, matched[k])
                /\ matched[k].b \in Nat /\ matched[k].a \in Nat /\ matched[k].n \in Nat
           /\ \A k \in gap..Len(matched) : GapBEnd(gap) <= matched[k].b
           /\ gap <= Len(matched) => GapBEnd(gap) = matched[gap].b /\ GapAEnd(gap) = matched[gap].a
           /\ gap > Len(matched) => GapBEnd(gap) = Len(bLabels) + 1 /\ GapAEnd(gap) = Len(aLabels) + 1
<1>0. Len(bLabels) \in Nat /\ Len(aLabels) \in Nat
  BY DEF InputInv, Ascending
<1>1. Len(matched) \in Nat
  BY DEF JoinInv
<1>2. gap \in Nat /\ 1 <= gap /\ gap <= Len(matched) + 1 /\ gap \in 1..Len(matched) + 1
  BY <1>1 DEF JoinInv
<1>3. ASSUME NEW k \in 1..Len(matched)
      PROVE  /\ Valid(bLabels, aLabels, matched[k])
             /\ matched[k].b \in Nat /\ matched[k].a \in Nat /\ matched[k].n \in Nat
             /\ 1 <= matched[k].b /\ 1 <= matched[k].a /\ 1 <= matched[k].n
             /\ matched[k].b + matched[k].n <= Len(bLabels) + 1
             /\ matched[k].a + matched[k].n <= Len(aLabels) + 1
  BY DEF JoinInv, Valid, Ranges
<1>4. InOrder(matched) /\ at \in [b : Nat, a : Nat]
  BY DEF JoinInv
<1>5. at.b \in Nat /\ at.a \in Nat
  BY <1>4
<1>6. gap <= Len(matched) => GapBEnd(gap) = matched[gap].b /\ GapAEnd(gap) = matched[gap].a
  BY DEF GapBEnd, GapAEnd
<1>7. gap > Len(matched) => GapBEnd(gap) = Len(bLabels) + 1 /\ GapAEnd(gap) = Len(aLabels) + 1
  BY <1>1, <1>2 DEF GapBEnd, GapAEnd
<1>8. GapBStart(gap) <= at.b /\ at.b <= GapBEnd(gap) /\ GapAStart(gap) <= at.a /\ at.a <= GapAEnd(gap)
  BY DEF JoinInv
<1>9. 1 <= at.b /\ 1 <= at.a
  <2>1. CASE gap = 1
    BY <2>1, <1>5, <1>8 DEF GapBStart, GapAStart
  <2>2. CASE gap # 1
    <3>1. PICK k \in 1..Len(matched) : k = gap - 1
      <4>1. gap - 1 \in 1..Len(matched)
        BY <2>2, <1>1, <1>2
      <4> QED
        BY <4>1
    <3>2. GapBStart(gap) = matched[k].b + matched[k].n /\ GapAStart(gap) = matched[k].a + matched[k].n
      BY <2>2, <3>1 DEF GapBStart, GapAStart, BEnd, AEnd
    <3> QED
      BY <3>2, <1>3, <1>5, <1>8
  <2> QED
    BY <2>1, <2>2
<1>10. /\ GapBEnd(gap) \in Nat /\ GapBEnd(gap) <= Len(bLabels) + 1
       /\ GapAEnd(gap) \in Nat /\ GapAEnd(gap) <= Len(aLabels) + 1
  <2>1. CASE gap <= Len(matched)
    <3>1. gap \in 1..Len(matched)
      BY <2>1, <1>1, <1>2
    <3>2. GapBEnd(gap) = matched[gap].b /\ GapAEnd(gap) = matched[gap].a
      BY <2>1, <1>6
    <3> QED
      BY <3>1, <3>2, <1>0, <1>3
  <2>2. CASE gap > Len(matched)
    BY <2>2, <1>0, <1>7
  <2> QED
    BY <2>1, <2>2, <1>1, <1>2
<1>11. ASSUME NEW k \in gap..Len(matched) PROVE GapBEnd(gap) <= matched[k].b
  <2>1. gap \in 1..Len(matched) /\ k \in 1..Len(matched) /\ gap <= Len(matched) /\ (gap = k \/ gap < k)
    BY <1>1, <1>2
  <2>2. GapBEnd(gap) = matched[gap].b
    BY <2>1, <1>6
  <2>3. CASE gap = k
    BY <2>1, <2>2, <2>3, <1>3
  <2>4. CASE gap < k
    <3>1. matched[gap].b + matched[gap].n <= matched[k].b
      BY <2>1, <2>4, <1>4 DEF InOrder
    <3> QED
      BY <3>1, <2>1, <2>2, <1>3
  <2> QED
    BY <2>1, <2>3, <2>4
<1> QED
  BY <1>1, <1>2, <1>3, <1>5, <1>6, <1>7, <1>8, <1>9, <1>10, <1>11

\* What holds of the join, in the form the steps use it.
LEMMA JoinFacts ==
    ASSUME IndInv, stage = "join"
    PROVE  /\ InputInv /\ JoinInv /\ Ascending(bLabels) /\ Ascending(aLabels)
           /\ Len(bLabels) \in Nat /\ Len(aLabels) \in Nat
           /\ \A i \in 1..Len(bLabels) : bLabels[i] \in Nat
           /\ \A j \in 1..Len(aLabels) : aLabels[j] \in Nat
           /\ Frontier(bLabels, aLabels, at.b, at.a) /\ Frontier(aLabels, bLabels, at.a, at.b)
<1>1. InputInv /\ JoinInv /\ Ascending(bLabels) /\ Ascending(aLabels)
  BY DEF IndInv, InputInv
<1>2. /\ Len(bLabels) \in Nat /\ Len(aLabels) \in Nat
      /\ \A i \in 1..Len(bLabels) : bLabels[i] \in Nat
      /\ \A j \in 1..Len(aLabels) : aLabels[j] \in Nat
  BY <1>1 DEF Ascending
<1>3. Frontier(bLabels, aLabels, at.b, at.a)
  BY <1>1 DEF JoinInv
<1>4. Frontier(aLabels, bLabels, at.a, at.b)
  BY <1>3 DEF Frontier
<1> QED
  BY <1>1, <1>2, <1>3, <1>4

\* What a step within a gap leaves alone.
LEMMA InGap ==
    ASSUME IndInv, stage = "join", UNCHANGED <<stage, inputVars, matched, gap, runs, marked>>,
           at' \in [b : Nat, a : Nat],
           at.b <= at'.b, at'.b <= GapBEnd(gap), at.a <= at'.a, at'.a <= GapAEnd(gap),
           Frontier(bLabels, aLabels, at'.b, at'.a),
           pairs' \in Seq(Ranges),
           \A p \in Range(pairs') : \/ p \in Range(pairs)
                                    \/ Valid(bLabels, aLabels, p) /\ p.b + p.n <= at'.b,
           \A p \in Range(pairs) : p \in Range(pairs'),
           Apart(Range(pairs')),
           Joined(bLabels, aLabels, Range(pairs'), at'.b),
           deleted' = Lone(bLabels, aLabels, at'.b),
           inserted' = Lone(aLabels, bLabels, at'.a)
    PROVE  IndInv'
<1>1. InputInv /\ JoinInv
  BY JoinFacts
<1>2. /\ stage' = stage /\ bLabels' = bLabels /\ aLabels' = aLabels /\ differ' = differ
      /\ matched' = matched /\ gap' = gap /\ runs' = runs /\ marked' = marked
  BY DEF inputVars
<1>3. InputInv'
  BY <1>1, <1>2 DEF InputInv
<1>4. /\ GapBStart(gap)' = GapBStart(gap) /\ GapAStart(gap)' = GapAStart(gap)
      /\ GapBEnd(gap)' = GapBEnd(gap) /\ GapAEnd(gap)' = GapAEnd(gap)
  BY <1>2 DEF GapBStart, GapAStart, GapBEnd, GapAEnd
<1>5. at.b \in Nat /\ at.a \in Nat /\ at'.b \in Nat /\ at'.a \in Nat
  BY <1>1, GapBounds
<1>6. GapBStart(gap) <= at'.b /\ GapAStart(gap) <= at'.a
  <2>1. GapBStart(gap) <= at.b /\ GapAStart(gap) <= at.a
    BY <1>1 DEF JoinInv
  <2>2. GapBStart(gap) \in Nat /\ GapAStart(gap) \in Nat
    <3>1. CASE gap = 1
      BY <3>1 DEF GapBStart, GapAStart
    <3>2. CASE gap # 1
      <4>1. PICK k \in 1..Len(matched) : k = gap - 1
        <5>1. gap - 1 \in 1..Len(matched)
          BY <3>2, <1>1, GapBounds
        <5> QED
          BY <5>1
      <4>2. GapBStart(gap) = matched[k].b + matched[k].n /\ GapAStart(gap) = matched[k].a + matched[k].n
        BY <3>2, <4>1 DEF GapBStart, GapAStart, BEnd, AEnd
      <4>3. matched[k].b \in Nat /\ matched[k].a \in Nat /\ matched[k].n \in Nat
        BY <1>1, GapBounds
      <4> QED
        BY <4>2, <4>3
    <3> QED
      BY <3>1, <3>2
  <2> QED
    BY <2>1, <2>2, <1>5
<1>7. ASSUME NEW p \in Range(pairs')
      PROVE  /\ Valid(bLabels, aLabels, p)
             /\ p.b + p.n <= at'.b \/ \E k \in gap..Len(matched) : p = matched[k]
  <2>1. CASE p \in Range(pairs)
    <3>1. /\ Valid(bLabels, aLabels, p)
          /\ p.b + p.n <= at.b \/ \E k \in gap..Len(matched) : p = matched[k]
      BY <2>1, <1>1 DEF JoinInv
    <3>2. p.b \in Nat /\ p.n \in Nat
      BY <3>1 DEF Valid, Ranges
    <3>3. p.b + p.n <= at.b => p.b + p.n <= at'.b
      BY <3>2, <1>5
    <3> QED
      BY <3>1, <3>3
  <2> QED
    BY <2>1
<1>8. \A k \in gap..Len(matched) : matched[k] \in Range(pairs')
  BY <1>1 DEF JoinInv
<1>9. JoinInv'
  BY <1>1, <1>2, <1>4, <1>6, <1>7, <1>8 DEF JoinInv
<1> QED
  BY <1>2, <1>3, <1>9 DEF IndInv

\* The label at the earlier cursor is less than all that is left of the later graph.
LEMMA JoinDeletedInd == ASSUME IndInv, JoinDeleted PROVE IndInv'
<1>0. stage = "join" /\ UNCHANGED <<stage, inputVars, matched, gap, runs, marked>> /\ pairs' = pairs
  BY DEF JoinDeleted
<1>1. /\ InputInv /\ JoinInv /\ Ascending(bLabels) /\ Ascending(aLabels)
      /\ Len(bLabels) \in Nat /\ Len(aLabels) \in Nat /\ Frontier(bLabels, aLabels, at.b, at.a)
  BY <1>0, JoinFacts
<1>2. /\ at.b \in Nat /\ at.a \in Nat /\ 1 <= at.b /\ 1 <= at.a
      /\ at.b < GapBEnd(gap) /\ GapBEnd(gap) \in Nat /\ GapBEnd(gap) <= Len(bLabels) + 1
      /\ GapAEnd(gap) \in Nat /\ at.a <= GapAEnd(gap)
  BY <1>1, GapBounds DEF JoinDeleted, InGapB
<1>3. at.b \in 1..Len(bLabels)
  BY <1>1, <1>2
<1>4. at' \in [b : Nat, a : Nat] /\ at'.b = at.b + 1 /\ at'.a = at.a
  <2>1. at \in [b : Nat, a : Nat]
    BY <1>1 DEF JoinInv
  <2>2. at' = [at EXCEPT !.b = @ + 1]
    BY DEF JoinDeleted
  <2> QED
    BY <2>1, <2>2
<1>5. \A j \in 1..Len(aLabels) : at.a <= j => bLabels[at.b] < aLabels[j]
  <2> SUFFICES ASSUME NEW j \in 1..Len(aLabels), at.a <= j PROVE bLabels[at.b] < aLabels[j]
    OBVIOUS
  <2>1. at.a \in 1..Len(aLabels)
    BY <1>1, <1>2
  <2>2. aLabels[at.a] <= aLabels[j]
    BY <2>1, <1>1, SameOrder
  <2>3. bLabels[at.b] < aLabels[at.a]
    <3>1. CASE InGapA
      BY <3>1 DEF JoinDeleted
    <3>2. CASE ~InGapA
      <4>1. at.a = GapAEnd(gap)
        BY <3>2, <1>2 DEF InGapA
      <4>2. gap <= Len(matched)
        <5> SUFFICES ASSUME gap > Len(matched) PROVE FALSE
          BY <1>1, GapBounds
        <5>1. at.a = Len(aLabels) + 1
          BY <4>1, <1>1, GapBounds
        <5> QED
          BY <5>1, <2>1, <1>1
      <4>3. PICK m : m = matched[gap]
        OBVIOUS
      <4>4. Valid(bLabels, aLabels, m) /\ GapBEnd(gap) = m.b /\ GapAEnd(gap) = m.a
        <5>1. gap \in 1..Len(matched)
          BY <4>2, <1>1, GapBounds
        <5> QED
          BY <4>2, <4>3, <5>1, <1>1, GapBounds
      <4>5. PICK i \in 1..Len(bLabels) : m.b <= i /\ bLabels[i] = aLabels[at.a]
        <5>1. m.a \in Nat /\ m.n \in Nat /\ 1 <= m.n
          BY <4>4 DEF Valid, Ranges
        <5>2. m.a <= at.a /\ at.a < m.a + m.n
          BY <5>1, <4>1, <4>4
        <5> QED
          BY <5>2, <4>4, <2>1, <1>1, Partners
      <4>6. at.b < i
        BY <4>4, <4>5, <1>2
      <4> QED
        BY <4>5, <4>6, <1>1, <1>3, SameOrder
    <3> QED
      BY <3>1, <3>2
  <2>4. bLabels[at.b] \in Nat /\ aLabels[at.a] \in Nat /\ aLabels[j] \in Nat
    BY <1>0, <1>3, <2>1, JoinFacts
  <2> QED
    BY <2>2, <2>3, <2>4
<1>6. /\ Frontier(bLabels, aLabels, at.b + 1, at.a)
      /\ Lone(bLabels, aLabels, at.b + 1) = Lone(bLabels, aLabels, at.b) \cup {at.b}
      /\ \A ps : Joined(bLabels, aLabels, ps, at.b) => Joined(bLabels, aLabels, ps, at.b + 1)
  BY <1>1, <1>2, <1>3, <1>5, StepOver
<1>7. /\ deleted = Lone(bLabels, aLabels, at.b) /\ inserted = Lone(aLabels, bLabels, at.a)
      /\ Joined(bLabels, aLabels, Range(pairs), at.b) /\ Apart(Range(pairs)) /\ pairs \in Seq(Ranges)
  BY <1>1 DEF JoinInv
<1>8. deleted' = Lone(bLabels, aLabels, at'.b) /\ inserted' = Lone(aLabels, bLabels, at'.a)
  BY <1>4, <1>6, <1>7 DEF JoinDeleted
<1>9. at.b <= at'.b /\ at'.b <= GapBEnd(gap) /\ at.a <= at'.a /\ at'.a <= GapAEnd(gap)
  BY <1>2, <1>4
<1>10. Frontier(bLabels, aLabels, at'.b, at'.a) /\ Joined(bLabels, aLabels, Range(pairs'), at'.b)
  BY <1>0, <1>4, <1>6, <1>7
<1> QED
  BY <1>0, <1>4, <1>7, <1>8, <1>9, <1>10, InGap

\* The label at the later cursor is less than all that is left of the earlier graph.
LEMMA JoinInsertedInd == ASSUME IndInv, JoinInserted PROVE IndInv'
<1>0. stage = "join" /\ UNCHANGED <<stage, inputVars, matched, gap, runs, marked>> /\ pairs' = pairs
  BY DEF JoinInserted
<1>1. /\ InputInv /\ JoinInv /\ Ascending(bLabels) /\ Ascending(aLabels)
      /\ Len(bLabels) \in Nat /\ Len(aLabels) \in Nat /\ Frontier(aLabels, bLabels, at.a, at.b)
  BY <1>0, JoinFacts
<1>2. /\ at.b \in Nat /\ at.a \in Nat /\ 1 <= at.b /\ 1 <= at.a
      /\ at.a < GapAEnd(gap) /\ GapAEnd(gap) \in Nat /\ GapAEnd(gap) <= Len(aLabels) + 1
      /\ GapBEnd(gap) \in Nat /\ at.b <= GapBEnd(gap)
  BY <1>1, GapBounds DEF JoinInserted, InGapA
<1>3. at.a \in 1..Len(aLabels)
  BY <1>1, <1>2
<1>4. at' \in [b : Nat, a : Nat] /\ at'.a = at.a + 1 /\ at'.b = at.b
  <2>1. at \in [b : Nat, a : Nat]
    BY <1>1 DEF JoinInv
  <2>2. at' = [at EXCEPT !.a = @ + 1]
    BY DEF JoinInserted
  <2> QED
    BY <2>1, <2>2
<1>5. \A i \in 1..Len(bLabels) : at.b <= i => aLabels[at.a] < bLabels[i]
  <2> SUFFICES ASSUME NEW i \in 1..Len(bLabels), at.b <= i PROVE aLabels[at.a] < bLabels[i]
    OBVIOUS
  <2>1. at.b \in 1..Len(bLabels)
    BY <1>1, <1>2
  <2>2. bLabels[at.b] <= bLabels[i]
    BY <2>1, <1>1, SameOrder
  <2>3. aLabels[at.a] < bLabels[at.b]
    <3>1. CASE InGapB
      BY <3>1 DEF JoinInserted
    <3>2. CASE ~InGapB
      <4>1. at.b = GapBEnd(gap)
        BY <3>2, <1>2 DEF InGapB
      <4>2. gap <= Len(matched)
        <5> SUFFICES ASSUME gap > Len(matched) PROVE FALSE
          BY <1>1, GapBounds
        <5>1. at.b = Len(bLabels) + 1
          BY <4>1, <1>1, GapBounds
        <5> QED
          BY <5>1, <2>1, <1>1
      <4>3. PICK m : m = matched[gap]
        OBVIOUS
      <4>4. Valid(bLabels, aLabels, m) /\ GapBEnd(gap) = m.b /\ GapAEnd(gap) = m.a
        <5>1. gap \in 1..Len(matched)
          BY <4>2, <1>1, GapBounds
        <5> QED
          BY <4>2, <4>3, <5>1, <1>1, GapBounds
      <4>5. PICK j \in 1..Len(aLabels) : m.a <= j /\ bLabels[at.b] = aLabels[j]
        <5>1. m.b \in Nat /\ m.n \in Nat /\ 1 <= m.n
          BY <4>4 DEF Valid, Ranges
        <5>2. m.b <= at.b /\ at.b < m.b + m.n
          BY <5>1, <4>1, <4>4
        <5>3. \A k \in 1..Len(bLabels) : m.b <= k /\ k < m.b + m.n =>
                \E j \in 1..Len(aLabels) : m.a <= j /\ bLabels[k] = aLabels[j]
          BY <4>4, <1>1, Partners
        <5> QED
          BY <5>2, <5>3, <2>1
      <4>6. at.a < j
        BY <4>4, <4>5, <1>2
      <4> QED
        BY <4>5, <4>6, <1>1, <1>3, SameOrder
    <3> QED
      BY <3>1, <3>2
  <2>4. bLabels[at.b] \in Nat /\ aLabels[at.a] \in Nat /\ bLabels[i] \in Nat
    BY <1>0, <1>3, <2>1, JoinFacts
  <2> QED
    BY <2>2, <2>3, <2>4
<1>6. /\ Frontier(bLabels, aLabels, at.b, at.a + 1)
      /\ Lone(aLabels, bLabels, at.a + 1) = Lone(aLabels, bLabels, at.a) \cup {at.a}
  BY <1>1, <1>2, <1>3, <1>5, StepOver
<1>7. /\ deleted = Lone(bLabels, aLabels, at.b) /\ inserted = Lone(aLabels, bLabels, at.a)
      /\ Joined(bLabels, aLabels, Range(pairs), at.b) /\ Apart(Range(pairs)) /\ pairs \in Seq(Ranges)
  BY <1>1 DEF JoinInv
<1>8. deleted' = Lone(bLabels, aLabels, at'.b) /\ inserted' = Lone(aLabels, bLabels, at'.a)
  BY <1>4, <1>6, <1>7 DEF JoinInserted
<1>9. at.b <= at'.b /\ at'.b <= GapBEnd(gap) /\ at.a <= at'.a /\ at'.a <= GapAEnd(gap)
  BY <1>2, <1>4
<1>10. Frontier(bLabels, aLabels, at'.b, at'.a) /\ Joined(bLabels, aLabels, Range(pairs'), at'.b)
  BY <1>0, <1>4, <1>6, <1>7
<1> QED
  BY <1>0, <1>4, <1>7, <1>8, <1>9, <1>10, InGap

\* The cursors stand at the same label, and go on together.
LEMMA JoinSameInd == ASSUME IndInv, JoinSame PROVE IndInv'
<1>0. stage = "join" /\ UNCHANGED <<stage, inputVars, matched, gap, runs, marked>>
  BY DEF JoinSame
<1>1. /\ InputInv /\ JoinInv /\ Ascending(bLabels) /\ Ascending(aLabels)
      /\ Len(bLabels) \in Nat /\ Len(aLabels) \in Nat /\ Frontier(bLabels, aLabels, at.b, at.a)
  BY <1>0, JoinFacts
<1>2. /\ at.b \in Nat /\ at.a \in Nat /\ 1 <= at.b /\ 1 <= at.a
      /\ at.b < GapBEnd(gap) /\ GapBEnd(gap) \in Nat /\ GapBEnd(gap) <= Len(bLabels) + 1
      /\ at.a < GapAEnd(gap) /\ GapAEnd(gap) \in Nat /\ GapAEnd(gap) <= Len(aLabels) + 1
  BY <1>1, GapBounds DEF JoinSame, InGapB, InGapA
<1>3. at.b \in 1..Len(bLabels) /\ at.a \in 1..Len(aLabels)
  BY <1>1, <1>2
<1>4. at' = [b |-> at.b + 1, a |-> at.a + 1] /\ bLabels[at.b] = aLabels[at.a]
  BY DEF JoinSame
<1>5. at' \in [b : Nat, a : Nat] /\ at'.b = at.b + 1 /\ at'.a = at.a + 1
  BY <1>2, <1>4
<1>6. PICK p : p = Pair(at.b, at.a, 1)
  OBVIOUS
<1>7. p \in Ranges /\ p.b = at.b /\ p.a = at.a /\ p.n = 1
  BY <1>2, <1>6 DEF Pair, Ranges
<1>8. Valid(bLabels, aLabels, p)
  <2>1. ASSUME NEW i \in 1..Len(bLabels), NEW j \in 1..Len(aLabels), Covers(p, i, j)
        PROVE  bLabels[i] = aLabels[j]
    <3>1. at.b <= i /\ i < at.b + 1 /\ j - i = at.a - at.b
      BY <2>1, <1>7 DEF Covers
    <3>2. i = at.b /\ j = at.a
      BY <3>1, <1>1, <1>2
    <3> QED
      BY <3>2, <1>4
  <2>2. at.b + 1 <= Len(bLabels) + 1 /\ at.a + 1 <= Len(aLabels) + 1
    BY <1>1, <1>2
  <2> QED
    BY <2>1, <2>2, <1>2, <1>7 DEF Valid
<1>9. /\ Frontier(bLabels, aLabels, at.b + 1, at.a + 1)
      /\ Lone(bLabels, aLabels, at.b + 1) = Lone(bLabels, aLabels, at.b)
      /\ Lone(aLabels, bLabels, at.a + 1) = Lone(aLabels, bLabels, at.a)
      /\ \A ps : Joined(bLabels, aLabels, ps, at.b) /\ p \in ps => Joined(bLabels, aLabels, ps, at.b + 1)
  <2>1. Frontier(bLabels, aLabels, p.b, p.a)
    BY <1>1, <1>7
  <2>2. /\ Frontier(bLabels, aLabels, p.b + p.n, p.a + p.n)
        /\ Lone(bLabels, aLabels, p.b + p.n) = Lone(bLabels, aLabels, p.b)
        /\ Lone(aLabels, bLabels, p.a + p.n) = Lone(aLabels, bLabels, p.a)
        /\ \A ps : Joined(bLabels, aLabels, ps, p.b) /\ p \in ps => Joined(bLabels, aLabels, ps, p.b + p.n)
    BY <2>1, <1>1, <1>8, StepPair
  <2> QED
    BY <2>2, <1>7
<1>10. /\ deleted = Lone(bLabels, aLabels, at.b) /\ inserted = Lone(aLabels, bLabels, at.a)
       /\ Joined(bLabels, aLabels, Range(pairs), at.b) /\ Apart(Range(pairs)) /\ pairs \in Seq(Ranges)
  BY <1>1 DEF JoinInv
<1>11. pairs' = Append(pairs, p)
  BY <1>6 DEF JoinSame
<1>12. pairs' \in Seq(Ranges) /\ Range(pairs') = Range(pairs) \cup {p}
  <2>1. Append(pairs, p) \in Seq(Ranges)
    BY <1>7, <1>10, AppendProperties
  <2>2. Range(Append(pairs, p)) = Range(pairs) \cup {p}
    BY <1>7, <1>10, RangeOfRanges
  <2> QED
    BY <2>1, <2>2, <1>11
<1>13. \A q \in Range(pairs) : q.b + q.n <= p.b \/ p.b + p.n <= q.b
  <2> SUFFICES ASSUME NEW q \in Range(pairs) PROVE q.b + q.n <= p.b \/ p.b + p.n <= q.b
    OBVIOUS
  <2>1. q.b + q.n <= at.b \/ \E k \in gap..Len(matched) : q = matched[k]
    BY <1>1 DEF JoinInv
  <2>2. ASSUME NEW k \in gap..Len(matched), q = matched[k] PROVE p.b + p.n <= q.b
    <3>1. k \in 1..Len(matched)
      BY <1>1, GapBounds
    <3>2. GapBEnd(gap) <= q.b /\ q.b \in Nat
      BY <2>2, <3>1, <1>1, GapBounds
    <3> QED
      BY <3>2, <1>2, <1>7
  <2> QED
    BY <2>1, <2>2, <1>7
<1>14. Apart(Range(pairs'))
  BY <1>10, <1>12, <1>13 DEF Apart
<1>15. \A ps : Joined(bLabels, aLabels, ps, at.b) => Joined(bLabels, aLabels, ps \cup {p}, at.b)
  BY DEF Joined
<1>16. Joined(bLabels, aLabels, Range(pairs'), at'.b)
  BY <1>5, <1>9, <1>10, <1>12, <1>15
<1>17. deleted' = Lone(bLabels, aLabels, at'.b) /\ inserted' = Lone(aLabels, bLabels, at'.a)
  BY <1>5, <1>9, <1>10 DEF JoinSame
<1>18. at.b <= at'.b /\ at'.b <= GapBEnd(gap) /\ at.a <= at'.a /\ at'.a <= GapAEnd(gap)
  BY <1>2, <1>5
<1>19. p.b + p.n <= at'.b
  BY <1>2, <1>5, <1>7
<1>20. Frontier(bLabels, aLabels, at'.b, at'.a)
  BY <1>5, <1>9
<1>21. ASSUME NEW q \in Range(pairs')
       PROVE  q \in Range(pairs) \/ (Valid(bLabels, aLabels, q) /\ q.b + q.n <= at'.b)
  <2>1. q \in Range(pairs) \/ q = p
    BY <1>12
  <2> QED
    BY <2>1, <1>8, <1>19
<1>22. \A q \in Range(pairs) : q \in Range(pairs')
  BY <1>12
<1> QED
  BY <1>0, <1>5, <1>12, <1>14, <1>16, <1>17, <1>18, <1>20, <1>21, <1>22, InGap

\* At the end of a gap the cursors jump over the matched block behind it.
LEMMA NextGapInd == ASSUME IndInv, NextGap PROVE IndInv'
<1>0. /\ stage = "join" /\ stage' = "join" /\ bLabels' = bLabels /\ aLabels' = aLabels /\ differ' = differ
      /\ matched' = matched /\ pairs' = pairs /\ deleted' = deleted /\ inserted' = inserted
      /\ runs' = runs /\ marked' = marked /\ gap' = gap + 1
  BY DEF NextGap, inputVars
<1>1. /\ InputInv /\ JoinInv /\ Ascending(bLabels) /\ Ascending(aLabels)
      /\ Len(bLabels) \in Nat /\ Len(aLabels) \in Nat /\ Frontier(bLabels, aLabels, at.b, at.a)
  BY <1>0, JoinFacts
<1>2. /\ at.b \in Nat /\ at.a \in Nat /\ Len(matched) \in Nat
      /\ at.b <= GapBEnd(gap) /\ GapBEnd(gap) \in Nat /\ ~(at.b < GapBEnd(gap))
      /\ at.a <= GapAEnd(gap) /\ GapAEnd(gap) \in Nat /\ ~(at.a < GapAEnd(gap))
  BY <1>1, GapBounds DEF NextGap, InGapB, InGapA
<1>3. gap \in 1..Len(matched) /\ gap \in Nat /\ gap <= Len(matched)
  BY <1>1, GapBounds DEF NextGap
<1>4. PICK m : m = matched[gap]
  OBVIOUS
<1>5. at.b = m.b /\ at.a = m.a
  <2>1. GapBEnd(gap) = m.b /\ GapAEnd(gap) = m.a
    BY <1>1, <1>3, <1>4, GapBounds
  <2> QED
    BY <2>1, <1>2
<1>6. Valid(bLabels, aLabels, m) /\ m.b \in Nat /\ m.a \in Nat /\ m.n \in Nat
  BY <1>1, <1>3, <1>4, GapBounds
<1>7. GapBStart(gap)' = m.b + m.n /\ GapAStart(gap)' = m.a + m.n
  <2>1. gap' # 1 /\ gap' - 1 = gap
    BY <1>0, <1>3
  <2>2. matched'[gap' - 1] = m
    BY <2>1, <1>0, <1>4
  <2> QED
    BY <2>1, <2>2 DEF GapBStart, GapAStart, BEnd, AEnd
<1>8. at' = [b |-> m.b + m.n, a |-> m.a + m.n]
  <2>1. gap' # 1 /\ gap' - 1 = gap
    BY <1>0, <1>3
  <2>2. matched[gap' - 1] = m
    BY <2>1, <1>4
  <2>3. GapBStart(gap') = m.b + m.n /\ GapAStart(gap') = m.a + m.n
    BY <2>1, <2>2 DEF GapBStart, GapAStart, BEnd, AEnd
  <2> QED
    BY <2>3 DEF NextGap
<1>9. at' \in [b : Nat, a : Nat] /\ at'.b = m.b + m.n /\ at'.a = m.a + m.n
  BY <1>6, <1>8
<1>10. gap' \in 1..Len(matched') + 1
  BY <1>0, <1>2, <1>3
<1>11. at'.b <= GapBEnd(gap)' /\ at'.a <= GapAEnd(gap)'
  <2>1. CASE gap + 1 <= Len(matched)
    <3>1. gap + 1 \in 1..Len(matched) /\ gap < gap + 1
      BY <2>1, <1>2, <1>3
    <3>2. GapBEnd(gap)' = matched[gap + 1].b /\ GapAEnd(gap)' = matched[gap + 1].a
      BY <2>1, <1>0 DEF GapBEnd, GapAEnd
    <3>3. InOrder(matched)
      BY <1>1 DEF JoinInv
    <3>4. m.b + m.n <= matched[gap + 1].b /\ m.a + m.n <= matched[gap + 1].a
      BY <3>1, <3>3, <1>3, <1>4 DEF InOrder
    <3> QED
      BY <3>2, <3>4, <1>9
  <2>2. CASE ~(gap + 1 <= Len(matched))
    <3>1. GapBEnd(gap)' = Len(bLabels) + 1 /\ GapAEnd(gap)' = Len(aLabels) + 1
      BY <2>2, <1>0 DEF GapBEnd, GapAEnd
    <3>2. m.b + m.n <= Len(bLabels) + 1 /\ m.a + m.n <= Len(aLabels) + 1
      BY <1>6 DEF Valid
    <3> QED
      BY <3>1, <3>2, <1>9
  <2> QED
    BY <2>1, <2>2
<1>12. m \in Range(pairs)
  <2>1. gap \in gap..Len(matched)
    BY <1>2, <1>3
  <2> QED
    BY <2>1, <1>1, <1>4 DEF JoinInv
<1>13. /\ deleted = Lone(bLabels, aLabels, at.b) /\ inserted = Lone(aLabels, bLabels, at.a)
       /\ Joined(bLabels, aLabels, Range(pairs), at.b) /\ Apart(Range(pairs)) /\ pairs \in Seq(Ranges)
  BY <1>1 DEF JoinInv
<1>14. /\ Frontier(bLabels, aLabels, at'.b, at'.a)
       /\ deleted = Lone(bLabels, aLabels, at'.b) /\ inserted = Lone(aLabels, bLabels, at'.a)
       /\ Joined(bLabels, aLabels, Range(pairs), at'.b)
  <2>1. Frontier(bLabels, aLabels, m.b, m.a)
    BY <1>1, <1>5
  <2>2. /\ Frontier(bLabels, aLabels, m.b + m.n, m.a + m.n)
        /\ Lone(bLabels, aLabels, m.b + m.n) = Lone(bLabels, aLabels, m.b)
        /\ Lone(aLabels, bLabels, m.a + m.n) = Lone(aLabels, bLabels, m.a)
        /\ \A ps : Joined(bLabels, aLabels, ps, m.b) /\ m \in ps => Joined(bLabels, aLabels, ps, m.b + m.n)
    BY <2>1, <1>1, <1>6, StepPair
  <2> QED
    BY <2>2, <1>5, <1>9, <1>12, <1>13
<1>15. ASSUME NEW p \in Range(pairs)
       PROVE  /\ Valid(bLabels, aLabels, p)
              /\ p.b + p.n <= at'.b \/ \E k \in gap'..Len(matched) : p = matched[k]
  <2>1. /\ Valid(bLabels, aLabels, p)
        /\ p.b + p.n <= at.b \/ \E k \in gap..Len(matched) : p = matched[k]
    BY <1>1 DEF JoinInv
  <2>2. CASE p.b + p.n <= at.b
    <3>1. p.b \in Nat /\ p.n \in Nat
      BY <2>1 DEF Valid, Ranges
    <3> QED
      BY <3>1, <2>1, <2>2, <1>5, <1>6, <1>9
  <2>3. ASSUME NEW k \in gap..Len(matched), p = matched[k]
        PROVE  p.b + p.n <= at'.b \/ k \in gap'..Len(matched)
    <3>1. CASE k = gap
      <4>1. p = m
        BY <3>1, <2>3, <1>4
      <4> QED
        BY <4>1, <1>6, <1>9
    <3>2. CASE k # gap
      BY <3>2, <1>0, <1>2, <1>3
    <3> QED
      BY <3>1, <3>2
  <2> QED
    BY <2>1, <2>2, <2>3
<1>16. \A k \in gap'..Len(matched) : matched[k] \in Range(pairs)
  <2>1. \A k \in gap'..Len(matched) : k \in gap..Len(matched)
    BY <1>0, <1>2, <1>3
  <2> QED
    BY <2>1, <1>1 DEF JoinInv
<1>17. /\ GapBStart(gap)' <= at'.b /\ GapAStart(gap)' <= at'.a
  BY <1>6, <1>7, <1>9
<1>18. JoinInv'
  BY <1>0, <1>1, <1>9, <1>10, <1>11, <1>13, <1>14, <1>15, <1>16, <1>17 DEF JoinInv
<1>19. InputInv'
  BY <1>0, <1>1 DEF InputInv
<1> QED
  BY <1>0, <1>18, <1>19 DEF IndInv

\* With the last gap joined, everything is paired or lone.
LEMMA JoinDoneInd == ASSUME IndInv, JoinDone PROVE IndInv'
<1>0. /\ stage = "join" /\ stage' = "merge" /\ bLabels' = bLabels /\ aLabels' = aLabels /\ differ' = differ
      /\ deleted' = deleted /\ inserted' = inserted
      /\ runs' = runs /\ marked' = marked /\ rest' = Range(pairs)
  BY DEF JoinDone, inputVars, alignVars
<1>1. InputInv /\ JoinInv /\ Len(bLabels) \in Nat /\ Len(aLabels) \in Nat
  BY <1>0, JoinFacts
<1>2. at.b = Len(bLabels) + 1 /\ at.a = Len(aLabels) + 1
  <2>1. /\ at.b \in Nat /\ at.a \in Nat
        /\ at.b <= GapBEnd(gap) /\ GapBEnd(gap) \in Nat /\ ~(at.b < GapBEnd(gap))
        /\ at.a <= GapAEnd(gap) /\ GapAEnd(gap) \in Nat /\ ~(at.a < GapAEnd(gap))
    BY <1>1, GapBounds DEF JoinDone, InGapB, InGapA
  <2>2. GapBEnd(gap) = Len(bLabels) + 1 /\ GapAEnd(gap) = Len(aLabels) + 1
    BY <1>1, GapBounds DEF JoinDone
  <2> QED
    BY <2>1, <2>2
<1>3. /\ deleted = Lone(bLabels, aLabels, at.b) /\ inserted = Lone(aLabels, bLabels, at.a)
      /\ Joined(bLabels, aLabels, Range(pairs), at.b) /\ Apart(Range(pairs))
      /\ runs = << >> /\ marked = {}
      /\ \A p \in Range(pairs) : Valid(bLabels, aLabels, p)
  BY <1>1 DEF JoinInv
<1>4. LoneInv'
  BY <1>0, <1>2, <1>3 DEF LoneInv
<1>5. RunsInv'
  <2>1. runs' \in Seq(Ranges) /\ Len(runs') = 0 /\ 1..Len(runs') = {} /\ 1..Len(runs') - 1 = {}
    BY <1>0, <1>3
  <2> QED
    BY <2>1 DEF RunsInv
<1>6. MergeInv'
  <2>1. \A ps, qs : Joined(bLabels, aLabels, ps, Len(bLabels) + 1) => Joined(bLabels, aLabels, ps \cup qs, Len(bLabels) + 1)
    BY DEF Joined
  <2>2. runs' = << >> /\ rest' = Range(pairs) /\ marked' = {}
    BY <1>0, <1>3
  <2>3. Joined(bLabels, aLabels, Range(pairs) \cup Range(runs'), Len(bLabels) + 1)
    BY <2>1, <1>2, <1>3
  <2> QED
    BY <2>2, <2>3, <1>0, <1>3 DEF MergeInv
<1>7. InputInv'
  BY <1>0, <1>1 DEF InputInv
<1> QED
  BY <1>0, <1>4, <1>5, <1>6, <1>7 DEF IndInv

-----------------------------------------------------------------------------
(* Merging the pairs into runs. *)

\* A range cut in two covers what the parts cover.
LEMMA CoversSplit ==
    ASSUME NEW l, NEW p, NEW r, l.b \in Nat, l.a \in Nat, l.n \in Nat, p.n \in Nat,
           p.b = l.b + l.n, p.a = l.a + l.n, r.b = l.b, r.a = l.a, r.n = l.n + p.n,
           NEW i \in Nat, NEW j \in Nat
    PROVE  Covers(r, i, j) <=> Covers(l, i, j) \/ Covers(p, i, j)
<1>1. PICK b \in Nat, a \in Nat, n \in Nat, m \in Nat : b = l.b /\ a = l.a /\ n = l.n /\ m = p.n
  OBVIOUS
<1>2. Covers(l, i, j) <=> (b <= i /\ i < b + n /\ j - i = a - b)
  BY <1>1 DEF Covers
<1>3. Covers(p, i, j) <=> (b + n <= i /\ i < b + n + m /\ j - i = a + n - (b + n))
  <2>1. p.b = b + n /\ p.a = a + n /\ p.n = m
    BY <1>1
  <2> QED
    BY <2>1 DEF Covers
<1>4. Covers(r, i, j) <=> (b <= i /\ i < b + (n + m) /\ j - i = a - b)
  <2>1. r.b = b /\ r.a = a /\ r.n = n + m
    BY <1>1
  <2> QED
    BY <2>1 DEF Covers
<1>5. a + n - (b + n) = a - b /\ b + n + m = b + (n + m)
  OBVIOUS
<1>6. b <= i /\ i < b + (n + m) <=> (b <= i /\ i < b + n) \/ (b + n <= i /\ i < b + (n + m))
  OBVIOUS
<1> QED
  BY <1>2, <1>3, <1>4, <1>5, <1>6

\* Two adjacent ranges make one that covers what they cover.
LEMMA MergeValid ==
    ASSUME NEW B, NEW A, Ascending(B), Ascending(A),
           NEW l, Valid(B, A, l), NEW p, Valid(B, A, p), Adjacent(l, p)
    PROVE  /\ Valid(B, A, Merge(l, p))
           /\ Merge(l, p).b = l.b /\ Merge(l, p).a = l.a
           /\ Merge(l, p).b + Merge(l, p).n = p.b + p.n
           /\ \A i \in 1..Len(B), j \in 1..Len(A) :
                Covers(l, i, j) \/ Covers(p, i, j) => Covers(Merge(l, p), i, j)
<1>1. /\ l.b \in Nat /\ l.a \in Nat /\ l.n \in Nat /\ p.b \in Nat /\ p.a \in Nat /\ p.n \in Nat
      /\ 1 <= l.b /\ 1 <= l.a /\ 1 <= l.n /\ 1 <= p.n
      /\ p.b + p.n <= Len(B) + 1 /\ p.a + p.n <= Len(A) + 1
  BY DEF Valid, Ranges
<1>2. p.b = l.b + l.n /\ p.a = l.a + l.n
  BY DEF Adjacent, BEnd, AEnd
<1>3. PICK r : r = Merge(l, p)
  OBVIOUS
<1>4. r = [b |-> l.b, a |-> l.a, n |-> l.n + p.n]
  BY <1>3 DEF Merge, Pair
<1>5. r.b = l.b /\ r.a = l.a /\ r.n = l.n + p.n /\ r \in Ranges
  BY <1>1, <1>4 DEF Ranges
<1>6. r.b + r.n = p.b + p.n /\ r.a + r.n = p.a + p.n /\ 1 <= r.n
  BY <1>1, <1>2, <1>5
<1>7. Len(A) \in Nat /\ Len(B) \in Nat
  BY DEF Ascending
<1>8. ASSUME NEW i \in 1..Len(B), NEW j \in 1..Len(A)
      PROVE  Covers(r, i, j) <=> Covers(l, i, j) \/ Covers(p, i, j)
  <2>1. i \in Nat /\ j \in Nat
    BY <1>7
  <2> QED
    BY <2>1, <1>1, <1>2, <1>5, CoversSplit
<1>9. \A i \in 1..Len(B), j \in 1..Len(A) : Covers(r, i, j) => B[i] = A[j]
  BY <1>8 DEF Valid
<1>10. Valid(B, A, r)
  BY <1>1, <1>5, <1>6, <1>9 DEF Valid
<1> QED
  BY <1>3, <1>5, <1>6, <1>8, <1>10

\* The next pair is the first of those left, and all others come behind it.
LEMMA NextPairFirst ==
    ASSUME rest # {}, Apart(rest), \A p \in rest : Valid(bLabels, aLabels, p)
    PROVE  /\ NextPair \in rest
           /\ \A q \in rest \ {NextPair} : NextPair.b + NextPair.n <= q.b
<1>1. \A p \in rest : p.b \in Nat /\ p.n \in Nat /\ 1 <= p.n
  BY DEF Valid, Ranges
<1> DEFINE T == {p.b : p \in rest}
<1>2. T \in SUBSET Nat /\ T # {}
  BY <1>1
<1>3. PICK m \in T : \A k \in T : m <= k
  <2> HIDE DEF T
  <2> QED
    BY <1>2, LeastNumber
<1>4. \E p \in rest : \A q \in rest : p.b <= q.b
  BY <1>3
<1>5. NextPair \in rest /\ \A q \in rest : NextPair.b <= q.b
  BY <1>4 DEF NextPair
<1>6. ASSUME NEW q \in rest, q # NextPair PROVE NextPair.b + NextPair.n <= q.b
  <2>1. PICK p \in rest : p = NextPair
    BY <1>5
  <2>2. p.b + p.n <= q.b \/ q.b + q.n <= p.b
    BY <2>1, <1>6 DEF Apart
  <2>3. p.b <= q.b
    BY <2>1, <1>5
  <2>4. p.b + p.n <= q.b
    BY <2>2, <2>3, <1>1
  <2> QED
    BY <2>1, <2>4
<1> QED
  BY <1>5, <1>6

\* A run grows by the next pair, or ends where the two sides do not go on together.
LEMMA MergePairInd == ASSUME IndInv, MergePair PROVE IndInv'
<1>0. /\ stage = "merge" /\ stage' = "merge" /\ bLabels' = bLabels /\ aLabels' = aLabels /\ differ' = differ
      /\ deleted' = deleted /\ inserted' = inserted /\ marked' = marked
      /\ rest # {} /\ rest' = rest \ {NextPair}
  BY DEF MergePair, inputVars, alignVars
<1>1. InputInv /\ LoneInv /\ RunsInv /\ MergeInv /\ Ascending(bLabels) /\ Ascending(aLabels)
  BY <1>0 DEF IndInv, InputInv
<1>2. PICK p : p = NextPair
  OBVIOUS
<1>3. /\ p \in rest /\ rest' = rest \ {p}
      /\ \A q \in rest' : p.b + p.n <= q.b
  BY <1>0, <1>1, <1>2, NextPairFirst DEF MergeInv
<1>4. /\ \A q \in rest : Valid(bLabels, aLabels, q)
      /\ runs # << >> => runs[Len(runs)].b + runs[Len(runs)].n <= p.b
      /\ Joined(bLabels, aLabels, rest \cup Range(runs), Len(bLabels) + 1)
      /\ Apart(rest) /\ marked = {}
  BY <1>1, <1>3 DEF MergeInv
<1>5. /\ runs \in Seq(Ranges) /\ Len(runs) \in Nat
      /\ \A k \in 1..Len(runs) : Valid(bLabels, aLabels, runs[k])
      /\ \A k \in 1..Len(runs) - 1 :
           /\ runs[k].b + runs[k].n <= runs[k + 1].b /\ runs[k].a + runs[k].n <= runs[k + 1].a
           /\ ~Adjacent(runs[k], runs[k + 1])
  BY <1>1 DEF RunsInv
<1>6. Apart(rest')
  BY <1>3, <1>4 DEF Apart
<1>7. p \in Ranges /\ Valid(bLabels, aLabels, p)
  BY <1>3, <1>4 DEF Valid
<1>8. ASSUME RunsInv', runs' # << >>,
             runs'[Len(runs')].b + runs'[Len(runs')].n = p.b + p.n,
             Joined(bLabels, aLabels, rest' \cup Range(runs'), Len(bLabels) + 1)
      PROVE  IndInv'
  <2>1. \A q \in rest' : Valid(bLabels, aLabels, q)
    BY <1>3, <1>4
  <2>2. MergeInv'
    BY <2>1, <1>0, <1>3, <1>4, <1>6, <1>8 DEF MergeInv
  <2>3. InputInv' /\ LoneInv'
    BY <1>0, <1>1 DEF InputInv, LoneInv
  <2> QED
    BY <2>2, <2>3, <1>0, <1>8 DEF IndInv
<1>9. CASE /\ runs # << >> /\ Adjacent(runs[Len(runs)], NextPair)
           /\ runs' = [runs EXCEPT ![Len(runs)] = Merge(@, NextPair)]
  <2>1. PICK m \in 1..Len(runs) : m = Len(runs)
    BY <1>5, <1>9
  <2>2. PICK l : l = runs[m]
    OBVIOUS
  <2>3. PICK r : r = Merge(l, p)
    OBVIOUS
  <2>4. /\ Valid(bLabels, aLabels, r) /\ r.b = l.b /\ r.a = l.a /\ r.b + r.n = p.b + p.n
        /\ \A i \in 1..Len(bLabels), j \in 1..Len(aLabels) :
             Covers(l, i, j) \/ Covers(p, i, j) => Covers(r, i, j)
    <3>1. Valid(bLabels, aLabels, l) /\ Adjacent(l, p)
      BY <2>1, <2>2, <1>2, <1>5, <1>9
    <3> QED
      BY <3>1, <2>3, <1>1, <1>7, MergeValid
  <2>5. r \in Ranges
    BY <2>4 DEF Valid
  <2>6. runs' = [runs EXCEPT ![m] = r]
    BY <2>1, <2>2, <2>3, <1>2, <1>9
  <2>7. /\ runs' \in Seq(Ranges) /\ Len(runs') = Len(runs) /\ runs'[m] = r
        /\ \A k \in 1..Len(runs) : k # m => runs'[k] = runs[k]
    BY <2>5, <2>6, <1>5
  <2>8. RunsInv'
    <3>1. ASSUME NEW k \in 1..Len(runs') PROVE Valid(bLabels, aLabels, runs'[k])
      BY <2>4, <2>7, <1>5
    <3>2. ASSUME NEW k \in 1..Len(runs') - 1
          PROVE  /\ runs'[k].b + runs'[k].n <= runs'[k + 1].b
                 /\ runs'[k].a + runs'[k].n <= runs'[k + 1].a
                 /\ ~Adjacent(runs'[k], runs'[k + 1])
      <4>1. k \in 1..Len(runs) - 1 /\ k \in 1..Len(runs) /\ k + 1 \in 1..Len(runs) /\ k # m
        BY <2>1, <2>7, <1>5
      <4>2. /\ runs[k].b + runs[k].n <= runs[k + 1].b /\ runs[k].a + runs[k].n <= runs[k + 1].a
            /\ ~Adjacent(runs[k], runs[k + 1]) /\ runs'[k] = runs[k]
        BY <4>1, <2>7, <1>5
      <4>3. runs'[k + 1].b = runs[k + 1].b /\ runs'[k + 1].a = runs[k + 1].a
        BY <4>1, <2>2, <2>4, <2>7
      <4> QED
        BY <4>2, <4>3 DEF Adjacent
    <3> QED
      BY <3>1, <3>2, <2>7, <1>0 DEF RunsInv
  <2>9. Joined(bLabels, aLabels, rest' \cup Range(runs'), Len(bLabels) + 1)
    <3> SUFFICES ASSUME NEW i \in 1..Len(bLabels), NEW j \in 1..Len(aLabels),
                        i < Len(bLabels) + 1, bLabels[i] = aLabels[j]
                 PROVE  \E q \in rest' \cup Range(runs') : Covers(q, i, j)
      BY DEF Joined
    <3>1. PICK q \in rest \cup Range(runs) : Covers(q, i, j)
      BY <1>4 DEF Joined
    <3>2. r \in Range(runs')
      BY <2>7, RangeOfRanges
    <3>3. CASE q \in rest
      <4>1. q = p => Covers(r, i, j)
        BY <3>1, <2>4
      <4> QED
        BY <4>1, <3>1, <3>2, <3>3, <1>3
    <3>4. CASE q \in Range(runs)
      <4>1. PICK k \in 1..Len(runs) : q = runs[k]
        BY <3>4, <1>5, RangeOfRanges
      <4>2. CASE k = m
        BY <4>1, <4>2, <3>1, <3>2, <2>2, <2>4
      <4>3. CASE k # m
        <5>1. q \in Range(runs')
          BY <4>1, <4>3, <2>7, RangeOfRanges
        <5> QED
          BY <5>1, <3>1
      <4> QED
        BY <4>2, <4>3
    <3> QED
      BY <3>3, <3>4
  <2>10. runs' # << >> /\ runs'[Len(runs')].b + runs'[Len(runs')].n = p.b + p.n
    BY <2>1, <2>4, <2>7
  <2> QED
    BY <2>8, <2>9, <2>10, <1>8
<1>10. CASE /\ ~(runs # << >> /\ Adjacent(runs[Len(runs)], NextPair))
            /\ runs' = Append(runs, NextPair)
  <2>1. /\ runs' \in Seq(Ranges) /\ runs' # << >> /\ Len(runs') = Len(runs) + 1
        /\ \A k \in 1..Len(runs) : runs'[k] = runs[k]
        /\ runs'[Len(runs) + 1] = p
    BY <1>2, <1>5, <1>7, <1>10, AppendProperties
  <2>2. RunsInv'
    <3>1. ASSUME NEW k \in 1..Len(runs') PROVE Valid(bLabels, aLabels, runs'[k])
      <4>1. k \in 1..Len(runs) \/ k = Len(runs) + 1
        BY <2>1, <1>5
      <4> QED
        BY <4>1, <2>1, <1>5, <1>7
    <3>2. ASSUME NEW k \in 1..Len(runs') - 1
          PROVE  /\ runs'[k].b + runs'[k].n <= runs'[k + 1].b
                 /\ runs'[k].a + runs'[k].n <= runs'[k + 1].a
                 /\ ~Adjacent(runs'[k], runs'[k + 1])
      <4>1. k \in 1..Len(runs) /\ runs'[k] = runs[k]
        BY <2>1, <1>5
      <4>2. CASE k = Len(runs)
        <5>1. runs # << >>
          BY <4>1, <4>2, <1>5
        <5>2. runs'[k + 1] = p /\ ~Adjacent(runs[k], p) /\ runs[k].b + runs[k].n <= p.b
          BY <5>1, <4>2, <2>1, <1>2, <1>4, <1>10
        <5>3. runs[k].a + runs[k].n <= p.a
          BY <5>2, <4>1, <1>1, <1>5, <1>7, OrderBothSides
        <5> QED
          BY <5>2, <5>3, <4>1
      <4>3. CASE k # Len(runs)
        <5>1. k \in 1..Len(runs) - 1 /\ k + 1 \in 1..Len(runs)
          BY <4>1, <4>3, <1>5
        <5> QED
          BY <5>1, <4>1, <2>1, <1>5
      <4> QED
        BY <4>2, <4>3
    <3> QED
      BY <3>1, <3>2, <2>1, <1>0 DEF RunsInv
  <2>3. Range(runs') = Range(runs) \cup {p}
    BY <1>2, <1>5, <1>7, <1>10, RangeOfRanges
  <2>4. rest' \cup Range(runs') = rest \cup Range(runs)
    BY <2>3, <1>3
  <2>5. Joined(bLabels, aLabels, rest' \cup Range(runs'), Len(bLabels) + 1)
    BY <2>4, <1>4
  <2>6. runs'[Len(runs')].b + runs'[Len(runs')].n = p.b + p.n
    BY <2>1
  <2> QED
    BY <2>1, <2>2, <2>5, <2>6, <1>8
<1> QED
  BY <1>9, <1>10 DEF MergePair

\* A node that changed is in both graphs, so that a run covers it.
LEMMA MergeDoneInd == ASSUME IndInv, MergeDone PROVE IndInv'
<1>0. /\ stage = "merge" /\ stage' = "bisect" /\ bLabels' = bLabels /\ aLabels' = aLabels /\ differ' = differ
      /\ deleted' = deleted /\ inserted' = inserted /\ marked' = marked
      /\ rest = {} /\ runs' = runs /\ todo' = runs
  BY DEF MergeDone, inputVars, alignVars
<1>1. InputInv /\ LoneInv /\ RunsInv /\ MergeInv /\ Ascending(bLabels)
  BY <1>0 DEF IndInv, InputInv
<1>2. runs \in Seq(Ranges) /\ \A k \in 1..Len(runs) : Valid(bLabels, aLabels, runs[k])
  BY <1>1 DEF RunsInv
<1>3. Joined(bLabels, aLabels, Range(runs), Len(bLabels) + 1) /\ marked = {}
  <2>1. rest \cup Range(runs) = Range(runs)
    BY <1>0
  <2> QED
    BY <2>1, <1>1 DEF MergeInv
<1>4. ASSUME NEW j \in 1..Len(aLabels), aLabels[j] \in differ
      PROVE  \E k \in 1..Len(runs), i \in 1..Len(bLabels) : Covers(runs[k], i, j)
  <2>1. PICK i \in 1..Len(bLabels) : bLabels[i] = aLabels[j]
    BY <1>1, <1>4 DEF InputInv
  <2>2. i < Len(bLabels) + 1
    BY <1>1 DEF Ascending
  <2>3. PICK p \in Range(runs) : Covers(p, i, j)
    BY <2>1, <2>2, <1>3 DEF Joined
  <2>4. PICK k \in 1..Len(runs) : p = runs[k]
    BY <1>2, RangeOfRanges
  <2> QED
    BY <2>3, <2>4
<1>5. BisectInv'
  BY <1>0, <1>2, <1>3, <1>4 DEF BisectInv
<1>6. InputInv' /\ LoneInv' /\ RunsInv'
  BY <1>0, <1>1 DEF InputInv, LoneInv, RunsInv
<1> QED
  BY <1>0, <1>5, <1>6 DEF IndInv

-----------------------------------------------------------------------------
(* The bisection. *)

\* The two halves of a range of more than one node.
LEMMA Halves ==
    ASSUME NEW B, NEW A, Ascending(B), Ascending(A), NEW p, Valid(B, A, p), p.n > 1
    PROVE  /\ Valid(B, A, LeftHalf(p)) /\ Valid(B, A, RightHalf(p))
           /\ \A i \in 1..Len(B), j \in 1..Len(A) :
                Covers(p, i, j) <=> Covers(LeftHalf(p), i, j) \/ Covers(RightHalf(p), i, j)
<1>1. /\ p.b \in Nat /\ p.a \in Nat /\ p.n \in Nat /\ 1 <= p.b /\ 1 <= p.a
      /\ p.b + p.n <= Len(B) + 1 /\ p.a + p.n <= Len(A) + 1
  BY DEF Valid, Ranges
<1>2. PICK h \in Nat : h = p.n \div 2 /\ 1 <= h /\ h < p.n
  BY <1>1
<1>3. PICK l, r : l = LeftHalf(p) /\ r = RightHalf(p)
  OBVIOUS
<1>4. l = [b |-> p.b, a |-> p.a, n |-> h] /\ r = [b |-> p.b + h, a |-> p.a + h, n |-> p.n - h]
  BY <1>2, <1>3 DEF LeftHalf, RightHalf, Pair
<1>5. l.b = p.b /\ l.a = p.a /\ l.n = h /\ r.b = p.b + h /\ r.a = p.a + h /\ r.n = p.n - h
  BY <1>4
<1>6. p.n - h \in Nat /\ 1 <= p.n - h /\ p.n = h + (p.n - h)
  BY <1>1, <1>2
<1>7. l \in Ranges /\ r \in Ranges
  BY <1>1, <1>4, <1>6 DEF Ranges
<1>8. Len(A) \in Nat /\ Len(B) \in Nat
  BY DEF Ascending
<1>9. ASSUME NEW i \in 1..Len(B), NEW j \in 1..Len(A)
      PROVE  Covers(p, i, j) <=> Covers(l, i, j) \/ Covers(r, i, j)
  <2>1. i \in Nat /\ j \in Nat
    BY <1>8
  <2>2. /\ l.b \in Nat /\ l.a \in Nat /\ l.n \in Nat /\ r.n \in Nat
        /\ r.b = l.b + l.n /\ r.a = l.a + l.n /\ p.b = l.b /\ p.a = l.a /\ p.n = l.n + r.n
    BY <1>1, <1>5, <1>6
  <2> QED
    BY <2>1, <2>2, CoversSplit
<1>10. /\ \A i \in 1..Len(B), j \in 1..Len(A) : Covers(l, i, j) => B[i] = A[j]
       /\ \A i \in 1..Len(B), j \in 1..Len(A) : Covers(r, i, j) => B[i] = A[j]
  BY <1>9 DEF Valid
<1>11. /\ 1 <= l.b /\ 1 <= l.a /\ 1 <= l.n
       /\ l.b + l.n <= Len(B) + 1 /\ l.a + l.n <= Len(A) + 1
  <2>1. p.b + h <= Len(B) + 1 /\ p.a + h <= Len(A) + 1
    BY <1>1, <1>2, <1>8
  <2> QED
    BY <2>1, <1>1, <1>2, <1>5
<1>12. /\ 1 <= r.b /\ 1 <= r.a /\ 1 <= r.n
       /\ r.b + r.n <= Len(B) + 1 /\ r.a + r.n <= Len(A) + 1
  <2>1. p.b + h + (p.n - h) = p.b + p.n /\ p.a + h + (p.n - h) = p.a + p.n
    BY <1>1, <1>2
  <2>2. 1 <= p.b + h /\ 1 <= p.a + h
    BY <1>1, <1>2
  <2> QED
    BY <2>1, <2>2, <1>1, <1>5, <1>6
<1>13. Valid(B, A, l) /\ Valid(B, A, r)
  BY <1>7, <1>10, <1>11, <1>12 DEF Valid
<1> QED
  BY <1>3, <1>9, <1>13

\* The hashes of a range differ where one of its nodes changed.
LEMMA DifferTells ==
    ASSUME NEW p, Ascending(bLabels), Ascending(aLabels), Valid(bLabels, aLabels, p)
    PROVE  BytesDiffer(p) <=>
             \E i \in 1..Len(bLabels), j \in 1..Len(aLabels) : Covers(p, i, j) /\ aLabels[j] \in differ
<1>1. /\ p.b \in Nat /\ p.a \in Nat /\ p.n \in Nat /\ 1 <= p.b
      /\ p.b + p.n <= Len(bLabels) + 1
  BY DEF Valid, Ranges
<1>2. Len(aLabels) \in Nat /\ Len(bLabels) \in Nat
  BY DEF Ascending
<1>3. ASSUME NEW t \in 0..p.n - 1, bLabels[p.b + t] \in differ
      PROVE  \E i \in 1..Len(bLabels), j \in 1..Len(aLabels) : Covers(p, i, j) /\ aLabels[j] \in differ
  <2>1. PICK i \in 1..Len(bLabels) : i = p.b + t
    <3>1. p.b + t \in 1..Len(bLabels)
      BY <1>1, <1>2
    <3> QED
      BY <3>1
  <2>2. p.b <= i /\ i < p.b + p.n
    BY <2>1, <1>1
  <2>3. PICK j \in 1..Len(aLabels) : Covers(p, i, j) /\ bLabels[i] = aLabels[j]
    BY <2>2, Partners
  <2> QED
    BY <2>1, <2>3, <1>3
<1>4. ASSUME NEW i \in 1..Len(bLabels), NEW j \in 1..Len(aLabels), Covers(p, i, j), aLabels[j] \in differ
      PROVE  \E t \in 0..p.n - 1 : bLabels[p.b + t] \in differ
  <2>1. bLabels[i] = aLabels[j]
    BY <1>4 DEF Valid
  <2>2. p.b <= i /\ i < p.b + p.n
    BY <1>4 DEF Covers
  <2>3. i - p.b \in 0..p.n - 1 /\ p.b + (i - p.b) = i
    BY <2>2, <1>1, <1>2
  <2>4. bLabels[p.b + (i - p.b)] \in differ
    BY <2>1, <2>3, <1>4
  <2> QED
    BY <2>3, <2>4
<1> QED
  BY <1>3, <1>4 DEF BytesDiffer

\* Two ranges in front of a sequence.
LEMMA TwoInFront ==
    ASSUME NEW l \in Ranges, NEW r \in Ranges, NEW ts \in Seq(Ranges)
    PROVE  LET us == <<l, r>> \o ts
           IN  /\ us \in Seq(Ranges) /\ Len(us) = Len(ts) + 2
               /\ us[1] = l /\ us[2] = r
               /\ \A k \in 1..Len(ts) : us[k + 2] = ts[k]
<1>1. PICK fs : fs = <<l, r>>
  OBVIOUS
<1>2. fs \in Seq(Ranges) /\ Len(fs) = 2 /\ fs[1] = l /\ fs[2] = r
  BY <1>1
<1>3. Len(ts) \in Nat
  OBVIOUS
<1>4. PICK us : us = fs \o ts
  OBVIOUS
<1>5. /\ us \in Seq(Ranges) /\ Len(us) = Len(fs) + Len(ts)
      /\ \A i \in 1..Len(fs) + Len(ts) : us[i] = IF i <= Len(fs) THEN fs[i] ELSE ts[i - Len(fs)]
  BY <1>2, <1>4, ConcatProperties
<1>6. /\ Len(us) = Len(ts) + 2
      /\ \A i \in 1..Len(ts) + 2 : us[i] = IF i <= 2 THEN fs[i] ELSE ts[i - 2]
  <2>1. Len(fs) + Len(ts) = Len(ts) + 2
    BY <1>2, <1>3
  <2> QED
    BY <2>1, <1>2, <1>5
<1>7. us[1] = l /\ us[2] = r
  <2>1. 1 \in 1..Len(ts) + 2 /\ 2 \in 1..Len(ts) + 2
    BY <1>3
  <2> QED
    BY <2>1, <1>2, <1>6
<1>8. ASSUME NEW k \in 1..Len(ts) PROVE us[k + 2] = ts[k]
  <2>1. k + 2 \in 1..Len(ts) + 2 /\ ~(k + 2 <= 2) /\ k + 2 - 2 = k
    BY <1>3
  <2>2. us[k + 2] = ts[k + 2 - 2]
    BY <2>1, <1>6
  <2> QED
    BY <2>1, <2>2
<1> QED
  BY <1>1, <1>4, <1>5, <1>6, <1>7, <1>8

\* Comparing a range loses no changed node: it is marked, or in one of the halves.
LEMMA BisectInd == ASSUME IndInv, Bisect PROVE IndInv'
<1>0. /\ stage = "bisect" /\ stage' = "bisect" /\ bLabels' = bLabels /\ aLabels' = aLabels /\ differ' = differ
      /\ deleted' = deleted /\ inserted' = inserted /\ runs' = runs /\ todo # << >>
  BY DEF Bisect, inputVars, alignVars
<1>1. InputInv /\ LoneInv /\ RunsInv /\ BisectInv /\ Ascending(bLabels) /\ Ascending(aLabels)
  BY <1>0 DEF IndInv, InputInv
<1>2. /\ todo \in Seq(Ranges) /\ \A k \in 1..Len(todo) : Valid(bLabels, aLabels, todo[k])
      /\ marked \in SUBSET {j \in 1..Len(aLabels) : aLabels[j] \in differ}
      /\ Joined(bLabels, aLabels, Range(runs), Len(bLabels) + 1)
  BY <1>1 DEF BisectInv
<1>3. \A j \in 1..Len(aLabels) :
         aLabels[j] \in differ => \/ j \in marked
                                \/ \E k \in 1..Len(todo), i \in 1..Len(bLabels) : Covers(todo[k], i, j)
  BY <1>1 DEF BisectInv
<1>4. PICK p, ts : p = Head(todo) /\ ts = Tail(todo)
  OBVIOUS
<1>5. /\ ts \in Seq(Ranges) /\ Len(ts) = Len(todo) - 1 /\ Len(todo) \in Nat /\ Len(todo) >= 1
      /\ p = todo[1] /\ \A k \in 1..Len(ts) : ts[k] = todo[k + 1]
  <2>1. ts \in Seq(Ranges) /\ Len(ts) = Len(todo) - 1 /\ \A k \in 1..Len(ts) : ts[k] = todo[k + 1]
    BY <1>0, <1>2, <1>4, HeadTailProperties
  <2>2. Len(todo) \in Nat /\ Len(todo) >= 1 /\ p = todo[1]
    BY <1>0, <1>2, <1>4
  <2> QED
    BY <2>1, <2>2
<1>6. Valid(bLabels, aLabels, p) /\ \A k \in 1..Len(ts) : Valid(bLabels, aLabels, ts[k])
  <2>1. 1 \in 1..Len(todo) /\ \A k \in 1..Len(ts) : k + 1 \in 1..Len(todo)
    BY <1>5
  <2> QED
    BY <2>1, <1>2, <1>5
<1>7. ASSUME NEW j \in 1..Len(aLabels), aLabels[j] \in differ, j \notin marked
      PROVE  \/ \E i \in 1..Len(bLabels) : Covers(p, i, j)
             \/ \E k \in 1..Len(ts), i \in 1..Len(bLabels) : Covers(ts[k], i, j)
  <2>1. PICK k \in 1..Len(todo), i \in 1..Len(bLabels) : Covers(todo[k], i, j)
    BY <1>3, <1>7
  <2>2. CASE k = 1
    BY <2>1, <2>2, <1>5
  <2>3. CASE k # 1
    <3>1. PICK m \in 1..Len(ts) : k = m + 1
      <4>1. k - 1 \in 1..Len(ts) /\ k = (k - 1) + 1
        BY <2>3, <1>5
      <4> QED
        BY <4>1
    <3>2. Covers(ts[m], i, j)
      BY <3>1, <2>1, <1>5
    <3> QED
      BY <3>2
  <2> QED
    BY <2>2, <2>3
<1>8. ASSUME BisectInv' PROVE IndInv'
  <2>1. InputInv' /\ LoneInv' /\ RunsInv'
    BY <1>0, <1>1 DEF InputInv, LoneInv, RunsInv
  <2> QED
    BY <2>1, <1>0, <1>8 DEF IndInv
<1>9. BytesDiffer(p) <=>
             \E i \in 1..Len(bLabels), j \in 1..Len(aLabels) : Covers(p, i, j) /\ aLabels[j] \in differ
  BY <1>1, <1>6, DifferTells
<1>10. CASE ~BytesDiffer(p) /\ todo' = ts /\ marked' = marked
  <2>1. \A j \in 1..Len(aLabels) :
          aLabels[j] \in differ => \/ j \in marked
                                 \/ \E k \in 1..Len(ts), i \in 1..Len(bLabels) : Covers(ts[k], i, j)
    BY <1>7, <1>9, <1>10
  <2>2. BisectInv'
    BY <2>1, <1>0, <1>2, <1>5, <1>6, <1>10 DEF BisectInv
  <2> QED
    BY <2>2, <1>8
<1>11. CASE BytesDiffer(p) /\ p.n = 1 /\ todo' = ts /\ marked' = marked \cup {p.a}
  <2>1. /\ p.b \in Nat /\ p.a \in Nat /\ p.a \in 1..Len(aLabels)
    <3>1. /\ p.b \in Nat /\ p.a \in Nat /\ p.n \in Nat /\ 1 <= p.a /\ p.a + p.n <= Len(aLabels) + 1
      BY <1>6 DEF Valid, Ranges
    <3>2. Len(aLabels) \in Nat
      BY <1>1 DEF Ascending
    <3> QED
      BY <3>1, <3>2, <1>11
  <2>2. ASSUME NEW i \in 1..Len(bLabels), NEW j \in 1..Len(aLabels), Covers(p, i, j) PROVE j = p.a
    <3>1. p.b <= i /\ i < p.b + 1 /\ j - i = p.a - p.b
      BY <2>2, <1>11 DEF Covers
    <3>2. i \in Nat /\ j \in Nat
      BY <1>1 DEF Ascending
    <3>3. i = p.b
      BY <3>1, <3>2, <2>1
    <3> QED
      BY <3>1, <3>2, <3>3, <2>1
  <2>3. aLabels[p.a] \in differ
    <3>1. PICK i \in 1..Len(bLabels), j \in 1..Len(aLabels) : Covers(p, i, j) /\ aLabels[j] \in differ
      BY <1>9, <1>11
    <3>2. j = p.a
      BY <3>1, <2>2
    <3> QED
      BY <3>1, <3>2
  <2>4. marked' \in SUBSET {j \in 1..Len(aLabels) : aLabels[j] \in differ}
    BY <2>1, <2>3, <1>2, <1>11
  <2>5. \A j \in 1..Len(aLabels) :
          aLabels[j] \in differ => \/ j \in marked'
                                 \/ \E k \in 1..Len(ts), i \in 1..Len(bLabels) : Covers(ts[k], i, j)
    BY <2>2, <1>7, <1>11
  <2>6. BisectInv'
    BY <2>4, <2>5, <1>0, <1>2, <1>5, <1>6, <1>11 DEF BisectInv
  <2> QED
    BY <2>6, <1>8
<1>12. CASE BytesDiffer(p) /\ p.n > 1 /\ todo' = <<LeftHalf(p), RightHalf(p)>> \o ts /\ marked' = marked
  <2>1. PICK l, r : l = LeftHalf(p) /\ r = RightHalf(p)
    OBVIOUS
  <2>2. /\ Valid(bLabels, aLabels, l) /\ Valid(bLabels, aLabels, r)
        /\ \A i \in 1..Len(bLabels), j \in 1..Len(aLabels) :
             Covers(p, i, j) <=> Covers(l, i, j) \/ Covers(r, i, j)
    BY <2>1, <1>1, <1>6, <1>12, Halves
  <2>3. l \in Ranges /\ r \in Ranges
    BY <2>2 DEF Valid
  <2>4. PICK us : us = todo'
    OBVIOUS
  <2>5. /\ us \in Seq(Ranges) /\ Len(us) = Len(ts) + 2 /\ us[1] = l /\ us[2] = r
        /\ \A k \in 1..Len(ts) : us[k + 2] = ts[k]
    <3>1. us = <<l, r>> \o ts
      BY <2>1, <2>4, <1>12
    <3> QED
      BY <3>1, <2>3, <1>5, TwoInFront
  <2>6. Len(ts) \in Nat
    BY <1>5
  <2>7. ASSUME NEW k \in 1..Len(us) PROVE Valid(bLabels, aLabels, us[k])
    <3>1. CASE k = 1 \/ k = 2
      BY <3>1, <2>2, <2>5
    <3>2. CASE k # 1 /\ k # 2
      <4>1. PICK m \in 1..Len(ts) : k = m + 2
        <5>1. k - 2 \in 1..Len(ts) /\ k = (k - 2) + 2
          BY <3>2, <2>5, <2>6
        <5> QED
          BY <5>1
      <4> QED
        BY <4>1, <2>5, <1>6
    <3> QED
      BY <3>1, <3>2
  <2>8. ASSUME NEW j \in 1..Len(aLabels), aLabels[j] \in differ, j \notin marked
        PROVE  \E k \in 1..Len(us), i \in 1..Len(bLabels) : Covers(us[k], i, j)
    <3>1. 1 \in 1..Len(us) /\ 2 \in 1..Len(us) /\ \A k \in 1..Len(ts) : k + 2 \in 1..Len(us)
      BY <2>5, <2>6
    <3>2. ASSUME NEW i \in 1..Len(bLabels), Covers(p, i, j)
          PROVE  \E k \in 1..Len(us) : Covers(us[k], i, j)
      BY <3>1, <3>2, <2>2, <2>5
    <3>3. ASSUME NEW k \in 1..Len(ts), NEW i \in 1..Len(bLabels), Covers(ts[k], i, j)
          PROVE  \E m \in 1..Len(us) : Covers(us[m], i, j)
      <4>1. Covers(us[k + 2], i, j)
        BY <3>3, <2>5
      <4> QED
        BY <4>1, <3>1
    <3> QED
      BY <3>2, <3>3, <2>8, <1>7
  <2>9. BisectInv'
    BY <2>4, <2>5, <2>7, <2>8, <1>0, <1>2, <1>12 DEF BisectInv
  <2> QED
    BY <2>9, <1>8
<1> QED
  BY <1>4, <1>10, <1>11, <1>12 DEF Bisect

\* Nothing is left to compare.
LEMMA BisectDoneInd == ASSUME IndInv, BisectDone PROVE IndInv'
<1>0. /\ stage = "bisect" /\ stage' = "done" /\ bLabels' = bLabels /\ aLabels' = aLabels /\ differ' = differ
      /\ deleted' = deleted /\ inserted' = inserted /\ runs' = runs /\ marked' = marked
      /\ todo = << >> /\ todo' = todo
  BY DEF BisectDone, inputVars, alignVars
<1>1. InputInv /\ LoneInv /\ RunsInv /\ BisectInv
  BY <1>0 DEF IndInv
<1>2. InputInv' /\ LoneInv' /\ RunsInv' /\ BisectInv'
  BY <1>0, <1>1 DEF InputInv, LoneInv, RunsInv, BisectInv
<1> QED
  BY <1>0, <1>2 DEF IndInv

\* A step that changes nothing keeps it as well.
LEMMA StutterInd == ASSUME IndInv, UNCHANGED vars PROVE IndInv'
<1>1. /\ stage' = stage /\ cuts' = cuts /\ bLabels' = bLabels /\ aLabels' = aLabels /\ differ' = differ
      /\ block' = block /\ pairs' = pairs /\ matched' = matched /\ gap' = gap /\ at' = at
      /\ deleted' = deleted /\ inserted' = inserted /\ rest' = rest /\ runs' = runs
      /\ todo' = todo /\ marked' = marked
  BY DEF vars, inputVars, alignVars
<1>2. InputInv' <=> InputInv
  BY <1>1 DEF InputInv
<1>3. MatchInv' <=> MatchInv
  <2>1. \A s : BlockEnds(s)' = BlockEnds(s)
    BY <1>1 DEF BlockEnds
  <2>2. BlockCount(bLabels)' = BlockCount(bLabels) /\ BlockStart(bLabels, block)' = BlockStart(bLabels, block)
    BY <2>1, <1>1 DEF BlockCount, BlockStart, BlockEnd
  <2> QED
    BY <2>2, <1>1 DEF MatchInv
<1>4. JoinInv' <=> JoinInv
  <2>1. /\ GapBStart(gap)' = GapBStart(gap) /\ GapAStart(gap)' = GapAStart(gap)
        /\ GapBEnd(gap)' = GapBEnd(gap) /\ GapAEnd(gap)' = GapAEnd(gap)
    BY <1>1 DEF GapBStart, GapAStart, GapBEnd, GapAEnd
  <2> QED
    BY <2>1, <1>1 DEF JoinInv
<1>5. (LoneInv' <=> LoneInv) /\ (RunsInv' <=> RunsInv) /\ (MergeInv' <=> MergeInv) /\ (BisectInv' <=> BisectInv)
  BY <1>1 DEF LoneInv, RunsInv, MergeInv, BisectInv
<1> QED
  BY <1>1, <1>2, <1>3, <1>4, <1>5 DEF IndInv

\* Every step of align and of the bisection keeps the invariant of its phase.
THEOREM IndInvHolds == Spec => []IndInv
<1>1. IndInv /\ [Next]_vars => IndInv'
  BY MatchBlockInd, MatchDoneInd, JoinSameInd, JoinDeletedInd, JoinInsertedInd, NextGapInd,
     JoinDoneInd, MergePairInd, MergeDoneInd, BisectInd, BisectDoneInd, StutterInd DEF Next
<1> QED
  BY InitIndInv, <1>1, PTL DEF Spec

-----------------------------------------------------------------------------

\* Ranges, told by what they cover, pair positions as Paired says.
LEMMA PairedCovers ==
    ASSUME NEW ps \in SUBSET Ranges, NEW i \in Nat, NEW j \in Nat
    PROVE  <<i, j>> \in Paired(ps) <=> \E p \in ps : Covers(p, i, j)
<1>1. ASSUME NEW p \in ps, NEW t \in 0..p.n - 1, <<i, j>> = <<p.b + t, p.a + t>> PROVE Covers(p, i, j)
  <2>1. p.b \in Nat /\ p.a \in Nat /\ p.n \in Nat
    BY DEF Ranges
  <2>2. i = p.b + t /\ j = p.a + t /\ t \in Nat /\ t < p.n
    BY <2>1, <1>1
  <2> QED
    BY <2>1, <2>2 DEF Covers
<1>2. ASSUME NEW p \in ps, Covers(p, i, j) PROVE \E t \in 0..p.n - 1 : <<i, j>> = <<p.b + t, p.a + t>>
  <2>1. p.b \in Nat /\ p.a \in Nat /\ p.n \in Nat
    BY DEF Ranges
  <2>2. p.b <= i /\ i < p.b + p.n /\ j - i = p.a - p.b
    BY <1>2 DEF Covers
  <2>3. PICK t \in 0..p.n - 1 : t = i - p.b
    <3>1. i - p.b \in 0..p.n - 1
      BY <2>1, <2>2
    <3> QED
      BY <3>1
  <2>4. i = p.b + t /\ j = p.a + t
    BY <2>1, <2>2, <2>3
  <2> QED
    BY <2>4
<1> QED
  BY <1>1, <1>2 DEF Paired

\* What the invariant says of the runs, once they are complete.
LEMMA IndInvAligns == IndInv => AlignmentExact
<1> SUFFICES ASSUME IndInv, stage \in {"bisect", "done"}
             PROVE  /\ Paired(Range(runs)) = SameLabel
                    /\ deleted = {i \in DOMAIN bLabels : \A j \in DOMAIN aLabels : bLabels[i] # aLabels[j]}
                    /\ inserted = {j \in DOMAIN aLabels : \A i \in DOMAIN bLabels : bLabels[i] # aLabels[j]}
                    /\ \A i \in 1..Len(runs) - 1 :
                         /\ BEnd(runs[i]) <= runs[i + 1].b
                         /\ AEnd(runs[i]) <= runs[i + 1].a
                         /\ ~(runs[i + 1].b = BEnd(runs[i]) /\ runs[i + 1].a = AEnd(runs[i]))
  BY DEF AlignmentExact
<1>1. InputInv /\ LoneInv /\ RunsInv /\ BisectInv /\ Ascending(bLabels) /\ Ascending(aLabels)
  BY DEF IndInv, InputInv
<1>2. /\ DOMAIN bLabels = 1..Len(bLabels) /\ DOMAIN aLabels = 1..Len(aLabels)
      /\ Len(bLabels) \in Nat /\ Len(aLabels) \in Nat
  BY <1>1 DEF Ascending
<1>3. /\ runs \in Seq(Ranges)
      /\ \A k \in 1..Len(runs) : Valid(bLabels, aLabels, runs[k])
      /\ \A k \in 1..Len(runs) - 1 :
           /\ runs[k].b + runs[k].n <= runs[k + 1].b /\ runs[k].a + runs[k].n <= runs[k + 1].a
           /\ ~Adjacent(runs[k], runs[k + 1])
  BY <1>1 DEF RunsInv
<1>4. \A p \in Range(runs) : Valid(bLabels, aLabels, p)
  BY <1>3, RangeOfRanges
<1>5. Range(runs) \in SUBSET Ranges
  BY <1>4 DEF Valid
<1>6. Joined(bLabels, aLabels, Range(runs), Len(bLabels) + 1)
  BY <1>1 DEF BisectInv
<1>7. ASSUME NEW p \in Range(runs), NEW t \in 0..p.n - 1
      PROVE  <<p.b + t, p.a + t>> \in SameLabel
  <2>1. /\ p.b \in Nat /\ p.a \in Nat /\ p.n \in Nat /\ 1 <= p.b /\ 1 <= p.a
        /\ p.b + p.n <= Len(bLabels) + 1 /\ p.a + p.n <= Len(aLabels) + 1
    BY <1>4 DEF Valid, Ranges
  <2>2. PICK i \in 1..Len(bLabels) : i = p.b + t
    <3>1. p.b + t \in 1..Len(bLabels)
      BY <2>1, <1>2
    <3> QED
      BY <3>1
  <2>3. PICK j \in 1..Len(aLabels) : j = p.a + t
    <3>1. p.a + t \in 1..Len(aLabels)
      BY <2>1, <1>2
    <3> QED
      BY <3>1
  <2>4. Covers(p, i, j)
    <3>1. p.b <= i /\ i < p.b + p.n
      BY <2>1, <2>2
    <3>2. j - i = p.a - p.b
      BY <2>1, <2>2, <2>3
    <3> QED
      BY <3>1, <3>2 DEF Covers
  <2>5. bLabels[i] = aLabels[j]
    BY <2>4, <1>4 DEF Valid
  <2>6. <<i, j>> \in SameLabel
    BY <2>5, <1>2 DEF SameLabel
  <2> QED
    BY <2>2, <2>3, <2>6
<1>8. ASSUME NEW i \in 1..Len(bLabels), NEW j \in 1..Len(aLabels), bLabels[i] = aLabels[j]
      PROVE  <<i, j>> \in Paired(Range(runs))
  <2>1. i \in Nat /\ j \in Nat /\ i < Len(bLabels) + 1
    BY <1>2
  <2>2. \E p \in Range(runs) : Covers(p, i, j)
    BY <2>1, <1>6, <1>8 DEF Joined
  <2> QED
    BY <2>1, <2>2, <1>5, PairedCovers
<1>9. Paired(Range(runs)) = SameLabel
  <2>1. \A q \in Paired(Range(runs)) : q \in SameLabel
    BY <1>7 DEF Paired
  <2>2. ASSUME NEW q \in SameLabel PROVE q \in Paired(Range(runs))
    <3>1. PICK i \in 1..Len(bLabels), j \in 1..Len(aLabels) : q = <<i, j>> /\ bLabels[i] = aLabels[j]
      BY <1>2 DEF SameLabel
    <3> QED
      BY <3>1, <1>8
  <2> QED
    BY <2>1, <2>2
<1>10. deleted = {i \in DOMAIN bLabels : \A j \in DOMAIN aLabels : bLabels[i] # aLabels[j]}
  <2>1. \A i \in 1..Len(bLabels) : i < Len(bLabels) + 1
    BY <1>2
  <2>2. deleted = {i \in 1..Len(bLabels) : i < Len(bLabels) + 1 /\ \A j \in 1..Len(aLabels) : bLabels[i] # aLabels[j]}
    BY <1>1 DEF LoneInv, Lone
  <2> QED
    BY <2>1, <2>2, <1>2
<1>11. inserted = {j \in DOMAIN aLabels : \A i \in DOMAIN bLabels : bLabels[i] # aLabels[j]}
  <2>1. \A j \in 1..Len(aLabels) : j < Len(aLabels) + 1
    BY <1>2
  <2>2. inserted = {j \in 1..Len(aLabels) : j < Len(aLabels) + 1 /\ \A i \in 1..Len(bLabels) : aLabels[j] # bLabels[i]}
    BY <1>1 DEF LoneInv, Lone
  <2> QED
    BY <2>1, <2>2, <1>2
<1> QED
  BY <1>3, <1>9, <1>10, <1>11 DEF BEnd, AEnd, Adjacent

\* Whatever labels the two graphs share and however their blocks are cut, the
\* runs that align returns pair exactly the nodes with the same label, in the
\* order of both graphs and as few as can be, and the rest is what it reports
\* as deleted and inserted.
THEOREM AlignsExactly == Spec => []AlignmentExact
  BY IndInvHolds, IndInvAligns, PTL

\* The bisection marks the nodes of the later graph whose hash differs, all of
\* them and no others, for runs of any length.
THEOREM MarksExactly == Spec => []ChangedExact
<1>1. IndInv => ChangedExact
  <2> SUFFICES ASSUME IndInv, stage = "done"
               PROVE  marked = {j \in DOMAIN aLabels : aLabels[j] \in differ}
    BY DEF ChangedExact
  <2>1. BisectInv /\ todo = << >> /\ Ascending(aLabels)
    BY DEF IndInv, InputInv
  <2>2. DOMAIN aLabels = 1..Len(aLabels) /\ 1..Len(todo) = {}
    BY <2>1 DEF Ascending
  <2>3. marked \in SUBSET {j \in 1..Len(aLabels) : aLabels[j] \in differ}
    BY <2>1 DEF BisectInv
  <2>4. \A j \in 1..Len(aLabels) : aLabels[j] \in differ => j \in marked
    BY <2>1, <2>2 DEF BisectInv
  <2> QED
    BY <2>2, <2>3, <2>4
<1> QED
  BY IndInvHolds, <1>1, PTL
=============================================================================
