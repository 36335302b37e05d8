--------------------------- MODULE TgbCodecProofs ---------------------------
(***************************************************************************)
(* What Encode writes and a Reader reads, for every graph, number of       *)
(* goroutines, shard length, restart interval, width of a byte and limits  *)
(* of the reader: BlobCanonical, LosslessOrRefused, FindNodeExact and      *)
(* AccessorsAgree.                                                         *)
(*                                                                         *)
(* The inductive invariant CodecInv says that every shard's streams lead   *)
(* from the join of the nodes before its range to the join of the nodes    *)
(* before the one it has reached, and that every byte of a bitset holds    *)
(* the flags that are stored so far.  It rests on lemmas about sorting,    *)
(* dictionaries and columns: what each encoding writes is read back.       *)
(***************************************************************************)
EXTENDS TgbCodec, FiniteSetTheorems, SequenceTheorems, WellFoundedInduction, TLAPS

-----------------------------------------------------------------------------
(* Induction and recursion. *)

\* Every set of numbers has a least one: induction, for a property given as a set.
LEMMA LeastNumber ==
    ASSUME NEW T \in SUBSET Nat, T # {}
    PROVE  \E m \in T : \A k \in T : m <= k
<1> DEFINE R == {ss \in Nat \X Nat : ss[1] < ss[2]}
<1>1. IsWellFoundedOn(R, Nat)
  BY NatLessThanWellFounded, Zenon DEF OpToRel
<1>2. PICK m \in T : \A y \in T : <<y, m>> \notin R
  <2> HIDE DEF R
  <2> QED
    BY <1>1, WFMin
<1>3. \A y \in T : ~(y < m)
  BY <1>2
<1> QED
  BY <1>3

\* A property of 0..n, given as the set of the numbers that have it, holds throughout
\* if it holds at 0 and goes from each number to the next.
LEMMA UpTo ==
    ASSUME NEW n \in Nat, NEW T, 0 \in T, \A k \in 1..n : k - 1 \in T => k \in T
    PROVE  \A k \in 0..n : k \in T
<1> DEFINE F == {k \in 0..n : k \notin T}
<1> SUFFICES ASSUME F # {} PROVE FALSE
  OBVIOUS
<1>1. PICK m \in F : \A k \in F : m <= k
  <2>1. F \in SUBSET Nat
    OBVIOUS
  <2> HIDE DEF F
  <2> QED
    BY <2>1, LeastNumber
<1>2. m \in 1..n /\ m - 1 \in 0..n /\ m - 1 \notin F
  BY <1>1
<1> QED
  BY <1>1, <1>2

\* A function on 0..n that starts at base and goes on by a step.
StepByStep(f, X, n, base, step) ==
    /\ f \in [0..n -> X]
    /\ f[0] = base
    /\ \A k \in 1..n : f[k] = step[<<f[k - 1], k>>]

\* There is one.
LEMMA Recursion ==
    ASSUME NEW X, NEW n \in Nat, NEW base \in X, NEW step \in [X \X (1..n) -> X]
    PROVE  \E f : StepByStep(f, X, n, base, step)
<1> DEFINE Steps(f, m) == f[0] = base /\ \A k \in 1..m : f[k] = step[<<f[k - 1], k>>]
           T == {m \in 0..n : \E f \in [0..m -> X] : Steps(f, m)}
<1>1. 0 \in T
  <2>1. [k \in 0..0 |-> base] \in [0..0 -> X] /\ Steps([k \in 0..0 |-> base], 0)
    OBVIOUS
  <2> HIDE DEF Steps
  <2> QED
    BY <2>1
<1>2. ASSUME NEW m \in 1..n, m - 1 \in T PROVE m \in T
  <2>1. PICK f \in [0..(m - 1) -> X] : Steps(f, m - 1)
    BY <1>2
  <2> DEFINE g == [k \in 0..m |-> IF k = m THEN step[<<f[m - 1], m>>] ELSE f[k]]
  <2>2. g \in [0..m -> X]
    <3>1. f[m - 1] \in X
      OBVIOUS
    <3>2. step[<<f[m - 1], m>>] \in X
      BY <3>1
    <3>3. \A k \in 0..m : k # m => k \in 0..(m - 1)
      OBVIOUS
    <3> QED
      BY <3>2, <3>3
  <2>3. Steps(g, m)
    <3>1. g[0] = base
      BY <2>1
    <3>2. ASSUME NEW k \in 1..m PROVE g[k] = step[<<g[k - 1], k>>]
      <4>1. g[k - 1] = f[k - 1]
        OBVIOUS
      <4>2. CASE k = m
        <5>1. g[m] = step[<<f[m - 1], m>>]
          OBVIOUS
        <5> HIDE DEF g
        <5> QED
          BY <4>1, <4>2, <5>1
      <4>3. CASE k # m
        <5>1. k \in 1..(m - 1)
          BY <4>3
        <5>2. f[k] = step[<<f[k - 1], k>>]
          BY <5>1, <2>1
        <5>3. g[k] = f[k]
          BY <4>3
        <5> QED
          BY <4>1, <5>2, <5>3
      <4> QED
        BY <4>2, <4>3
    <3> QED
      BY <3>1, <3>2
  <2>4. m \in 0..n
    OBVIOUS
  <2> HIDE DEF g, Steps
  <2> QED
    BY <2>2, <2>3, <2>4
<1>3. n \in T
  <2> HIDE DEF T
  <2>1. \A k \in 0..n : k \in T
    BY <1>1, <1>2, UpTo
  <2> QED
    BY <2>1
<1>4. PICK f \in [0..n -> X] : Steps(f, n)
  <2> HIDE DEF Steps
  <2> QED
    BY <1>3
<1> QED
  BY <1>4, Zenon DEF StepByStep

\* What a running total is.
LEMMA TotalsDef ==
    ASSUME NEW n \in Nat, NEW col \in [1..n -> Int]
    PROVE  /\ Totals(col) \in [0..n -> Int]
           /\ Totals(col)[0] = 0
           /\ \A k \in 1..n : Totals(col)[k] = Totals(col)[k - 1] + col[k]
<1> DEFINE Eq(f) == f = [k \in 0..n |-> IF k = 0 THEN 0 ELSE f[k - 1] + col[k]]
<1>1. \E f : Eq(f)
  <2> DEFINE step == [p \in Int \X (1..n) |-> p[1] + col[p[2]]]
  <2>1. step \in [Int \X (1..n) -> Int]
    OBVIOUS
  <2>2. PICK f : StepByStep(f, Int, n, 0, step)
    <3>1. 0 \in Int
      OBVIOUS
    <3> HIDE DEF step
    <3> QED
      BY <2>1, <3>1, Recursion
  <2>3. \A x \in Int : \A k \in 1..n : step[<<x, k>>] = x + col[k]
    OBVIOUS
  <2>4. ASSUME NEW k \in 1..n PROVE f[k] = f[k - 1] + col[k]
    <3>1. f[k - 1] \in Int
      BY <2>2 DEF StepByStep
    <3>2. f[k] = step[<<f[k - 1], k>>]
      BY <2>2, Zenon DEF StepByStep
    <3> HIDE DEF step
    <3> QED
      BY <3>1, <3>2, <2>3
  <2>5. Eq(f)
    <3> HIDE DEF step
    <3>1. \A k \in 0..n : f[k] = IF k = 0 THEN 0 ELSE f[k - 1] + col[k]
      BY <2>2, <2>4 DEF StepByStep
    <3> QED
      BY <2>2, <3>1 DEF StepByStep
  <2> QED
    BY <2>5
<1> DEFINE g == Totals(col)
<1>2. g = CHOOSE f : Eq(f)
  <2>1. Len(col) = n
    OBVIOUS
  <2> QED
    BY <2>1 DEF Totals
<1>3. Eq(g)
  BY <1>1, <1>2, Zenon
<1>4. g[0] = 0 /\ \A k \in 1..n : g[k] = g[k - 1] + col[k]
  <2> HIDE DEF g
  <2>1. \A k \in 0..n : g[k] = IF k = 0 THEN 0 ELSE g[k - 1] + col[k]
    BY <1>3
  <2> QED
    BY <2>1
<1>5. \A k \in 0..n : g[k] \in Int
  <2> DEFINE T == {k \in 0..n : g[k] \in Int}
  <2>1. 0 \in T /\ \A k \in 1..n : k - 1 \in T => k \in T
    <3> HIDE DEF g
    <3> QED
      BY <1>4
  <2>2. \A k \in 0..n : k \in T
    <3> HIDE DEF T
    <3> QED
      BY <2>1, UpTo
  <2> QED
    BY <2>2
<1>6. g \in [0..n -> Int]
  <2> HIDE DEF g
  <2>1. g = [k \in 0..n |-> g[k]]
    BY <1>3
  <2> QED
    BY <2>1, <1>5
<1> QED
  BY <1>4, <1>6

-----------------------------------------------------------------------------
(* Sequences one after the other. *)

\* c is a, followed by b.
IsCat(S, a, b, c) ==
    /\ c \in Seq(S) /\ Len(c) = Len(a) + Len(b)
    /\ \A j \in 1..Len(a) : c[j] = a[j]
    /\ \A j \in 1..Len(b) : c[Len(a) + j] = b[j]

\* a \o b is a followed by b.
LEMMA Cat ==
    ASSUME NEW S, NEW a \in Seq(S), NEW b \in Seq(S)
    PROVE  IsCat(S, a, b, a \o b)
  BY DEF IsCat

\* c is the part of s from a to b.
IsSub(S, s, a, b, c) ==
    /\ c \in Seq(S) /\ Len(c) = b - a + 1
    /\ \A j \in 1..(b - a + 1) : c[j] = s[a + j - 1]

\* SubSeq takes what lies between its bounds.
LEMMA Sub ==
    ASSUME NEW S, NEW s \in Seq(S), NEW a \in Nat, NEW b \in Nat, 1 <= a, a <= b + 1, b <= Len(s)
    PROVE  IsSub(S, s, a, b, SubSeq(s, a, b))
<1> DEFINE c == SubSeq(s, a, b)
<1>1. a \in Int /\ b \in Int /\ \A j \in a..b : s[j] \in S
  OBVIOUS
<1>2. /\ c \in Seq(S) /\ Len(c) = IF a <= b THEN b - a + 1 ELSE 0
      /\ \A j \in 1..(b - a + 1) : c[j] = s[a + j - 1]
  BY <1>1, SubSeqProperties
<1> HIDE DEF c
<1>3. Len(c) = b - a + 1
  BY <1>2
<1> QED
  BY <1>2, <1>3, Zenon DEF IsSub, c

\* Sequences with the same elements.
LEMMA SameSeq ==
    ASSUME NEW S, NEW T, NEW s \in Seq(S), NEW t \in Seq(T), Len(s) = Len(t),
           \A j \in 1..Len(s) : s[j] = t[j]
    PROVE  s = t
<1>1. s = [j \in 1..Len(s) |-> s[j]] /\ t = [j \in 1..Len(t) |-> t[j]]
  OBVIOUS
<1> QED
  BY <1>1

\* The first k of the sequences, joined, for every k.
Joins(seqs) ==
    LET join[k \in 0..Len(seqs)] == IF k = 0 THEN <<>> ELSE join[k - 1] \o seqs[k]
    IN  join

\* The joins are built one sequence after the other.
LEMMA JoinsDef ==
    ASSUME NEW S, NEW n \in Nat, NEW seqs \in [1..n -> Seq(S)]
    PROVE  /\ Joins(seqs) \in [0..n -> Seq(S)]
           /\ Joins(seqs)[0] = <<>>
           /\ \A k \in 1..n : Joins(seqs)[k] = Joins(seqs)[k - 1] \o seqs[k]
<1> DEFINE Eq(f) == f = [k \in 0..n |-> IF k = 0 THEN <<>> ELSE f[k - 1] \o seqs[k]]
<1>1. \E f : Eq(f)
  <2> DEFINE step == [p \in Seq(S) \X (1..n) |-> p[1] \o seqs[p[2]]]
  <2>1. step \in [Seq(S) \X (1..n) -> Seq(S)]
    <3>1. ASSUME NEW p \in Seq(S) \X (1..n) PROVE p[1] \o seqs[p[2]] \in Seq(S)
      OBVIOUS
    <3> QED
      BY <3>1
  <2>2. PICK f : StepByStep(f, Seq(S), n, <<>>, step)
    <3>1. <<>> \in Seq(S)
      OBVIOUS
    <3> HIDE DEF step
    <3> QED
      BY <2>1, <3>1, Recursion
  <2>3. \A x \in Seq(S) : \A k \in 1..n : step[<<x, k>>] = x \o seqs[k]
    OBVIOUS
  <2>4. ASSUME NEW k \in 1..n PROVE f[k] = f[k - 1] \o seqs[k]
    <3>1. f[k - 1] \in Seq(S)
      BY <2>2 DEF StepByStep
    <3>2. f[k] = step[<<f[k - 1], k>>]
      BY <2>2, Zenon DEF StepByStep
    <3> HIDE DEF step
    <3> QED
      BY <3>1, <3>2, <2>3
  <2>5. Eq(f)
    <3> HIDE DEF step
    <3>1. \A k \in 0..n : f[k] = IF k = 0 THEN <<>> ELSE f[k - 1] \o seqs[k]
      <4>1. \A k \in 0..n : k = 0 \/ k \in 1..n
        OBVIOUS
      <4> QED
        BY <4>1, <2>2, <2>4, Zenon DEF StepByStep
    <3> QED
      BY <2>2, <3>1 DEF StepByStep
  <2> QED
    BY <2>5
<1> DEFINE g == Joins(seqs)
<1>2. g = CHOOSE f : Eq(f)
  <2>1. Len(seqs) = n
    OBVIOUS
  <2> QED
    BY <2>1, Zenon DEF Joins
<1>3. Eq(g)
  BY <1>1, <1>2, Zenon
<1>4. g[0] = <<>> /\ \A k \in 1..n : g[k] = g[k - 1] \o seqs[k]
  <2> HIDE DEF g
  <2>1. \A k \in 0..n : g[k] = IF k = 0 THEN <<>> ELSE g[k - 1] \o seqs[k]
    BY <1>3
  <2>2. 0 \in 0..n /\ \A k \in 1..n : k \in 0..n /\ k # 0
    OBVIOUS
  <2> QED
    BY <2>1, <2>2, Zenon
<1>5. \A k \in 0..n : g[k] \in Seq(S)
  <2> DEFINE T == {k \in 0..n : g[k] \in Seq(S)}
  <2>1. 0 \in T
    <3>1. <<>> \in Seq(S) /\ 0 \in 0..n
      OBVIOUS
    <3> QED
      BY <1>4, <3>1, Zenon
  <2>2. ASSUME NEW k \in 1..n, k - 1 \in T PROVE k \in T
    <3> HIDE DEF g
    <3>1. g[k - 1] \in Seq(S) /\ seqs[k] \in Seq(S)
      BY <2>2
    <3>2. g[k] = g[k - 1] \o seqs[k]
      BY <1>4, Zenon
    <3>3. g[k] \in Seq(S)
      BY <3>1, <3>2, Cat, Zenon DEF IsCat
    <3> QED
      BY <3>3
  <2>3. \A k \in 0..n : k \in T
    <3> HIDE DEF T
    <3> QED
      BY <2>1, <2>2, UpTo
  <2> QED
    BY <2>3
<1>6. g \in [0..n -> Seq(S)]
  <2> HIDE DEF g
  <2>1. g = [k \in 0..n |-> g[k]]
    BY <1>3
  <2> QED
    BY <2>1, <1>5
<1> QED
  BY <1>4, <1>6

\* FlattenSeq is the last of the joins: how Collect puts the shards' streams together.
LEMMA FlattenIsJoins ==
    ASSUME NEW S, NEW n \in Nat, NEW seqs \in [1..n -> Seq(S)]
    PROVE  FlattenSeq(seqs) = Joins(seqs)[n] /\ FlattenSeq(seqs) \in Seq(S) /\ Len(seqs) = n
<1>0. Len(seqs) = n /\ \A k \in 1..n : seqs[k] \in Seq(S)
  OBVIOUS
<1> DEFINE g == Joins(seqs)
<1>1. g \in [0..n -> Seq(S)] /\ g[0] = <<>> /\ \A k \in 1..n : g[k] = g[k - 1] \o seqs[k]
  BY JoinsDef, Zenon
<1> HIDE DEF g
<1>2. CASE n = 0
  <2>1. FlattenSeq(seqs) = seqs /\ seqs = <<>>
    BY <1>0, <1>2 DEF FlattenSeq
  <2> QED
    BY <2>1, <1>1, <1>2, <1>0 DEF g
<1>3. CASE n # 0
  <2> DEFINE Eq(f) == f = [i \in 1..n |-> IF i = 1 THEN seqs[i] ELSE f[i - 1] \o seqs[i]]
             h == CHOOSE f : Eq(f)
             f0 == [i \in 1..n |-> g[i]]
  <2>1. Eq(f0)
    <3>1. f0[1] = seqs[1]
      <4>1. 1 \in 1..n /\ seqs[1] \in Seq(S) /\ g[1 - 1] = g[0]
        BY <1>3, <1>0
      <4>2. g[1] = g[1 - 1] \o seqs[1]
        BY <4>1, <1>1, Zenon
      <4> QED
        BY <4>1, <4>2, <1>1, <1>3
    <3>2. ASSUME NEW i \in 1..n, i # 1 PROVE f0[i] = f0[i - 1] \o seqs[i]
      <4>1. i - 1 \in 1..n
        BY <3>2
      <4>2. f0[i] = g[i] /\ f0[i - 1] = g[i - 1]
        BY <4>1
      <4> QED
        BY <4>2, <1>1, Zenon
    <3> HIDE DEF f0
    <3>3. \A i \in 1..n : f0[i] = IF i = 1 THEN seqs[i] ELSE f0[i - 1] \o seqs[i]
      BY <3>1, <3>2
    <3>4. f0 = [i \in 1..n |-> f0[i]]
      BY DEF f0
    <3> QED
      BY <3>3, <3>4
  <2>2. Eq(h)
    <3> HIDE DEF f0
    <3> QED
      BY <2>1, Zenon
  <2>3. FlattenSeq(seqs) = h[n]
    BY <1>0, <1>3 DEF FlattenSeq
  <2> HIDE DEF h
  <2>4. \A i \in 1..n : h[i] = IF i = 1 THEN seqs[i] ELSE h[i - 1] \o seqs[i]
    BY <2>2
  <2> DEFINE T == {k \in 0..n : k # 0 => h[k] = g[k]}
  <2>5. 0 \in T
    OBVIOUS
  <2>6. ASSUME NEW k \in 1..n, k - 1 \in T PROVE k \in T
    <3>1. CASE k = 1
      <4>1. g[1] = seqs[1]
        <5>1. 1 \in 1..n /\ seqs[1] \in Seq(S) /\ g[1 - 1] = g[0]
          BY <1>3, <1>0
        <5>2. g[1] = g[1 - 1] \o seqs[1]
          BY <5>1, <1>1, Zenon
        <5> QED
          BY <5>1, <5>2, <1>1
      <4> QED
        BY <4>1, <2>4, <3>1
    <3>2. CASE k # 1
      <4>1. h[k] = h[k - 1] \o seqs[k]
        BY <2>4, <3>2, Zenon
      <4>2. h[k - 1] = g[k - 1]
        BY <3>2, <2>6
      <4>3. h[k] = g[k]
        BY <4>1, <4>2, <1>1, Zenon
      <4> QED
        BY <4>3
    <3> QED
      BY <3>1, <3>2
  <2>7. n \in T
    <3> HIDE DEF T
    <3>1. \A k \in 0..n : k \in T
      BY <2>5, <2>6, UpTo
    <3> QED
      BY <3>1
  <2> QED
    BY <2>3, <2>7, <1>3, <1>1, <1>0 DEF g
<1> QED
  BY <1>2, <1>3

\* The sequences seqs, of lengths degs, are the parts of each J[m], and end at T.
ArePartsOf(S, n, seqs, degs, J, T) ==
    /\ \A m \in 0..n : J[m] \in Seq(S) /\ Len(J[m]) = T[m]
    /\ \A m \in 0..n : T[m] \in Nat
    /\ \A m \in 1..n : T[m] = T[m - 1] + degs[m]
    /\ \A m \in 0..n : \A k \in 1..m :
          /\ T[k] <= T[m]
          /\ \A j \in 1..degs[k] : J[m][T[k - 1] + j] = seqs[k][j]
    /\ T[0] = 0

\* Where the parts of a joined sequence are.
LEMMA JoinsParts ==
    ASSUME NEW S, NEW n \in Nat, NEW seqs \in [1..n -> Seq(S)],
           NEW degs \in [1..n -> Nat], \A k \in 1..n : degs[k] = Len(seqs[k])
    PROVE  ArePartsOf(S, n, seqs, degs, Joins(seqs), Totals(degs))
<1> DEFINE g == Joins(seqs)
           t == Totals(degs)
<1>1. g \in [0..n -> Seq(S)] /\ g[0] = <<>> /\ \A k \in 1..n : g[k] = g[k - 1] \o seqs[k]
  BY JoinsDef, Zenon
<1>2. t \in [0..n -> Int] /\ t[0] = 0 /\ \A k \in 1..n : t[k] = t[k - 1] + degs[k]
  <2>1. degs \in [1..n -> Int]
    OBVIOUS
  <2> QED
    BY <2>1, TotalsDef, Zenon
<1> HIDE DEF g, t
<1> DEFINE P(m) == /\ t[m] \in Nat /\ Len(g[m]) = t[m]
                   /\ \A k \in 1..m :
                         /\ t[k] <= t[m]
                         /\ \A j \in 1..degs[k] : g[m][t[k - 1] + j] = seqs[k][j]
           T == {m \in 0..n : P(m)}
<1>p. \A k \in 0..n : t[k] >= 0
  <2> DEFINE U == {k \in 0..n : t[k] >= 0}
  <2>1. 0 \in U /\ \A k \in 1..n : k - 1 \in U => k \in U
    <3>1. \A k \in 1..n : degs[k] \in Nat /\ t[k - 1] \in Int
      BY <1>2
    <3> QED
      BY <1>2, <3>1
  <2>2. \A k \in 0..n : k \in U
    <3> HIDE DEF U
    <3> QED
      BY <2>1, UpTo
  <2> QED
    BY <2>2
<1>3. 0 \in T
  BY <1>1, <1>2
<1>4. ASSUME NEW m \in 1..n, m - 1 \in T PROVE m \in T
  <2>0. P(m - 1)
    BY <1>4
  <2>a. g[m] = g[m - 1] \o seqs[m]
    BY <1>1, Zenon
  <2>1. /\ t[m] = t[m - 1] + degs[m]
        /\ g[m - 1] \in Seq(S) /\ seqs[m] \in Seq(S) /\ Len(seqs[m]) = degs[m] /\ degs[m] \in Nat
        /\ t[m - 1] \in Nat /\ Len(g[m - 1]) = t[m - 1]
    <3>1. m - 1 \in 0..n
      OBVIOUS
    <3> QED
      BY <3>1, <2>0, <1>1, <1>2
  <2>b. /\ Len(g[m]) = Len(g[m - 1]) + Len(seqs[m])
        /\ \A j \in 1..Len(g[m - 1]) : g[m][j] = g[m - 1][j]
        /\ \A j \in 1..Len(seqs[m]) : g[m][Len(g[m - 1]) + j] = seqs[m][j]
    <3>1. g[m - 1] \in Seq(S) /\ seqs[m] \in Seq(S)
      BY <2>1
    <3>2. IsCat(S, g[m - 1], seqs[m], g[m])
      BY <2>a, <3>1, Cat, Zenon
    <3> QED
      BY <3>2, Zenon DEF IsCat
  <2>2. t[m] \in Nat /\ Len(g[m]) = t[m]
    BY <2>1, <2>b
  <2>3. ASSUME NEW k \in 1..m PROVE t[k] <= t[m]
    <3>1. CASE k = m
      BY <3>1, <2>2
    <3>2. CASE k # m
      <4>1. k \in 1..(m - 1) /\ t[k] \in Int
        BY <3>2, <1>2
      <4>2. t[k] <= t[m - 1]
        BY <4>1, <2>0
      <4> QED
        BY <4>1, <4>2, <2>1
    <3> QED
      BY <3>1, <3>2
  <2>4. ASSUME NEW k \in 1..m, NEW j \in 1..degs[k] PROVE g[m][t[k - 1] + j] = seqs[k][j]
    <3>1. CASE k = m
      <4>1. t[m - 1] + j \in 1..Len(g[m]) /\ j \in 1..degs[m]
        BY <3>1, <2>1, <2>2
      <4> QED
        BY <4>1, <3>1, <2>1, <2>b
    <3>2. CASE k # m
      <4>1. k \in 1..(m - 1) /\ k - 1 \in 0..n /\ k \in 1..n /\ degs[k] \in Nat
        BY <3>2
      <4>2. t[k] = t[k - 1] + degs[k] /\ t[k] \in Int /\ t[k - 1] \in Int /\ t[k] <= t[m - 1]
        BY <4>1, <1>2, <2>0
      <4>3. t[k - 1] >= 0
        BY <4>1, <1>p
      <4>4. t[k - 1] + j \in 1..Len(g[m - 1])
        <5>0. degs[k] \in Nat /\ j \in Int /\ 1 <= j /\ j <= degs[k]
          BY <4>1
        <5> HIDE DEF P, T
        <5>2. t[m - 1] \in Nat
          BY <2>1
        <5>3. \A a, b, d, i \in Int : a >= 0 /\ 1 <= i /\ i <= d /\ a + d <= b => a + i \in 1..b
          OBVIOUS
        <5>4. t[k - 1] + degs[k] <= t[m - 1] /\ t[k - 1] \in Int /\ degs[k] \in Int /\ t[m - 1] \in Int
          BY <4>2, <5>0, <5>2
        <5>1. t[k - 1] + j \in 1..t[m - 1]
          BY <5>0, <5>3, <5>4, <4>3
        <5> QED
          BY <5>1, <2>1, Zenon
      <4>5. g[m][t[k - 1] + j] = g[m - 1][t[k - 1] + j]
        BY <4>4, <2>b
      <4> QED
        BY <4>5, <4>1, <2>0
    <3> QED
      BY <3>1, <3>2
  <2> QED
    BY <2>2, <2>3, <2>4
<1>5. \A m \in 0..n : m \in T
  <2> HIDE DEF T
  <2> QED
    BY <1>3, <1>4, UpTo
<1>6. /\ \A m \in 0..n : g[m] \in Seq(S) /\ Len(g[m]) = t[m]
      /\ \A m \in 0..n : t[m] \in Nat
      /\ \A m \in 1..n : t[m] = t[m - 1] + degs[m]
      /\ \A m \in 0..n : \A k \in 1..m :
            /\ t[k] <= t[m]
            /\ \A j \in 1..degs[k] : g[m][t[k - 1] + j] = seqs[k][j]
      /\ t[0] = 0
  BY <1>5, <1>1, <1>2
<1> QED
  BY <1>6, Zenon DEF ArePartsOf, g, t

-----------------------------------------------------------------------------
(* Finite sets in order. *)

\* R orders S strictly and totally.
Orders(S, R) ==
    /\ IsFiniteSet(S)
    /\ \A x \in S : <<x, x>> \notin R
    /\ \A x, y \in S : x # y => <<x, y>> \in R \/ <<y, x>> \in R
    /\ \A x, y, z \in S : <<x, y>> \in R /\ <<y, z>> \in R => <<x, z>> \in R

\* What comes before x, how much that is, and the elements by their ranks.
Below(S, R, x) == {y \in S : <<y, x>> \in R}

Rank(S, R, x) == Cardinality(Below(S, R, x))

Enumeration(S, R) == [k \in 1..Cardinality(S) |-> CHOOSE x \in S : Rank(S, R, x) = k - 1]

\* q lists S in ascending order.
Lists(q, S, R) ==
    /\ Cardinality(S) \in Nat
    /\ q \in [1..Cardinality(S) -> S]
    /\ \A x \in S : \E k \in 1..Cardinality(S) : q[k] = x
    /\ \A j, k \in 1..Cardinality(S) : <<q[j], q[k]>> \in R <=> j < k
    /\ \A j, k \in 1..Cardinality(S) : q[j] = q[k] => j = k

\* The rank of a member is a number below the size of the set and tells its place.
LEMMA RankProperties ==
    ASSUME NEW S, NEW R, Orders(S, R)
    PROVE  /\ Cardinality(S) \in Nat
           /\ \A x \in S : Rank(S, R, x) \in 0..(Cardinality(S) - 1)
           /\ \A x, y \in S : <<x, y>> \in R <=> Rank(S, R, x) < Rank(S, R, y)
           /\ \A x, y \in S : Rank(S, R, x) = Rank(S, R, y) => x = y
<1>0. Cardinality(S) \in Nat
  BY FS_CardinalityType DEF Orders
<1>1. ASSUME NEW x \in S PROVE IsFiniteSet(Below(S, R, x)) /\ Rank(S, R, x) \in 0..(Cardinality(S) - 1)
  <2> DEFINE X == Below(S, R, x)
  <2>1. X \in SUBSET S /\ X # S /\ IsFiniteSet(S)
    BY Zenon DEF Below, Orders
  <2> HIDE DEF X
  <2>2. IsFiniteSet(X) /\ Cardinality(X) <= Cardinality(S) /\ Cardinality(X) # Cardinality(S)
    BY <2>1, FS_Subset
  <2>3. Cardinality(X) \in Nat
    BY <2>2, FS_CardinalityType
  <2> QED
    BY <2>2, <2>3, <1>0 DEF X, Rank
<1>2. ASSUME NEW x \in S, NEW y \in S, <<x, y>> \in R PROVE Rank(S, R, x) < Rank(S, R, y)
  <2> DEFINE X == Below(S, R, x)
             Y == Below(S, R, y)
  <2>1. X \in SUBSET Y /\ X # Y
    BY <1>2, Zenon DEF Below, Orders
  <2>2. IsFiniteSet(X) /\ IsFiniteSet(Y)
    BY <1>1
  <2>3. Cardinality(X) \in 0..(Cardinality(S) - 1) /\ Cardinality(Y) \in 0..(Cardinality(S) - 1)
    BY <1>1 DEF Rank
  <2>4. Cardinality(X) <= Cardinality(Y) /\ Cardinality(X) # Cardinality(Y)
    <3> HIDE DEF X, Y
    <3> QED
      BY <2>1, <2>2, FS_Subset
  <2> QED
    BY <2>3, <2>4, <1>0 DEF Rank
<1>3. ASSUME NEW x \in S, NEW y \in S
      PROVE  /\ <<x, y>> \in R <=> Rank(S, R, x) < Rank(S, R, y)
             /\ Rank(S, R, x) = Rank(S, R, y) => x = y
  <2>1. x = y \/ <<x, y>> \in R \/ <<y, x>> \in R
    BY Zenon DEF Orders
  <2>2. x = y => <<x, y>> \notin R
    BY Zenon DEF Orders
  <2>3. Rank(S, R, x) \in Int /\ Rank(S, R, y) \in Int
    BY <1>0, <1>1
  <2>4. /\ <<x, y>> \in R => Rank(S, R, x) < Rank(S, R, y)
        /\ <<y, x>> \in R => Rank(S, R, y) < Rank(S, R, x)
    BY <1>2
  <2> QED
    BY <2>1, <2>2, <2>3, <2>4
<1> QED
  BY <1>0, <1>1, <1>3

\* The enumeration of a set lists it.
LEMMA EnumerationLists ==
    ASSUME NEW S, NEW R, Orders(S, R)
    PROVE  Lists(Enumeration(S, R), S, R)
<1> DEFINE n == Cardinality(S)
           f == [x \in S |-> Rank(S, R, x)]
           q == Enumeration(S, R)
<1>1. /\ n \in Nat /\ \A x \in S : Rank(S, R, x) \in 0..(n - 1)
      /\ \A x, y \in S : <<x, y>> \in R <=> Rank(S, R, x) < Rank(S, R, y)
      /\ \A x, y \in S : Rank(S, R, x) = Rank(S, R, y) => x = y
  BY RankProperties, Zenon
<1>2. IsFiniteSet(0..(n - 1)) /\ Cardinality(0..(n - 1)) = n
  BY <1>1, FS_Interval
<1>3. f \in Injection(S, 0..(n - 1))
  BY <1>1 DEF Injection, IsInjective
<1>4. f \in Surjection(S, 0..(n - 1))
  <2> HIDE DEF f
  <2> QED
    BY <1>2, <1>3, FS_Injection
<1>5. \A k \in 0..(n - 1) : \E x \in S : Rank(S, R, x) = k
  BY <1>4 DEF Surjection
<1>6. ASSUME NEW k \in 1..n PROVE q[k] \in S /\ Rank(S, R, q[k]) = k - 1
  <2>1. k - 1 \in 0..(n - 1)
    BY <1>1
  <2>2. \E x \in S : Rank(S, R, x) = k - 1
    BY <2>1, <1>5
  <2>3. q[k] = CHOOSE x \in S : Rank(S, R, x) = k - 1
    BY DEF Enumeration
  <2> HIDE DEF q
  <2> QED
    BY <2>2, <2>3, Zenon
<1>7. q \in [1..n -> S]
  <2> DEFINE e(k) == CHOOSE x \in S : Rank(S, R, x) = k - 1
  <2>1. q = [k \in 1..n |-> e(k)]
    BY Zenon DEF Enumeration
  <2> HIDE DEF q, e
  <2> QED
    BY <2>1, <1>6
<1> HIDE DEF q
<1>8. ASSUME NEW x \in S PROVE \E k \in 1..n : q[k] = x
  <2> DEFINE k == Rank(S, R, x) + 1
  <2>1. k \in 1..n /\ k - 1 = Rank(S, R, x)
    BY <1>1
  <2>2. q[k] \in S /\ Rank(S, R, q[k]) = k - 1
    <3> HIDE DEF k
    <3> QED
      BY <2>1, <1>6
  <2>3. q[k] = x
    <3> HIDE DEF k
    <3> QED
      BY <2>1, <2>2, <1>1
  <2> QED
    BY <2>1, <2>3
<1>9. ASSUME NEW j \in 1..n, NEW k \in 1..n
      PROVE  (<<q[j], q[k]>> \in R <=> j < k) /\ (q[j] = q[k] => j = k)
  <2>1. q[j] \in S /\ q[k] \in S /\ Rank(S, R, q[j]) = j - 1 /\ Rank(S, R, q[k]) = k - 1
    BY <1>6
  <2>2. <<q[j], q[k]>> \in R <=> Rank(S, R, q[j]) < Rank(S, R, q[k])
    BY <2>1, <1>1
  <2>3. <<q[j], q[k]>> \in R <=> j - 1 < k - 1
    BY <2>1, <2>2, Zenon
  <2>4. (j - 1 < k - 1) <=> j < k
    OBVIOUS
  <2>5. q[j] = q[k] => j - 1 = k - 1
    BY <2>1, Zenon
  <2> QED
    BY <2>3, <2>4, <2>5
<1> QED
  BY <1>1, <1>7, <1>8, <1>9 DEF Lists, q

\* There is only one list, and the rank of a member is its place.
LEMMA ListRanks ==
    ASSUME NEW S, NEW R, Orders(S, R), NEW q, Lists(q, S, R)
    PROVE  /\ \A k \in 1..Cardinality(S) : Rank(S, R, q[k]) = k - 1
           /\ q = Enumeration(S, R)
<1> DEFINE n == Cardinality(S)
<1>0. n \in Nat
  BY DEF Lists
<1>1. ASSUME NEW k \in 1..n PROVE Rank(S, R, q[k]) = k - 1
  <2> DEFINE B == Below(S, R, q[k])
             f == [j \in 1..(k - 1) |-> q[j]]
  <2>1. f \in Bijection(1..(k - 1), B)
    <3>1. \A j \in 1..(k - 1) : j \in 1..n
      BY <1>0
    <3>2. \A j \in 1..(k - 1) : q[j] \in B
      BY <3>1, <1>1 DEF Lists, Below
    <3>3. f \in [1..(k - 1) -> B]
      BY <3>2
    <3>4. \A i, j \in 1..(k - 1) : f[i] = f[j] => i = j
      BY <3>1 DEF Lists
    <3>5. ASSUME NEW y \in B PROVE \E j \in 1..(k - 1) : f[j] = y
      <4>1. y \in S /\ <<y, q[k]>> \in R
        BY DEF Below
      <4>2. PICK j \in 1..n : q[j] = y
        BY <4>1 DEF Lists
      <4>3. j < k
        BY <4>1, <4>2, Zenon DEF Lists
      <4> QED
        BY <4>2, <4>3
    <3> HIDE DEF f, B
    <3> QED
      BY <3>3, <3>4, <3>5 DEF Bijection, Injection, Surjection, IsInjective
  <2>2. k - 1 \in Nat
    OBVIOUS
  <2>3. Cardinality(B) = k - 1
    <3> HIDE DEF f, B
    <3>1. ExistsBijection(1..(k - 1), B)
      BY <2>1, Zenon DEF ExistsBijection
    <3> QED
      BY <3>1, <2>2, FS_CountingElements
  <2> QED
    BY <2>3 DEF Rank
<1>2. ASSUME NEW k \in 1..n PROVE q[k] = CHOOSE x \in S : Rank(S, R, x) = k - 1
  <2>1. q[k] \in S /\ Rank(S, R, q[k]) = k - 1
    BY <1>1 DEF Lists
  <2>2. \A x \in S : Rank(S, R, x) = k - 1 => x = q[k]
    BY <2>1, RankProperties
  <2> QED
    BY <2>1, <2>2, Zenon
<1>3. q = [k \in 1..n |-> q[k]]
  BY DEF Lists
<1>4. q = Enumeration(S, R)
  BY <1>2, <1>3, Zenon DEF Enumeration
<1> QED
  BY <1>1, <1>4

-----------------------------------------------------------------------------
(* The order of strings. *)

\* a comes before b at position k: they agree up to it, and there a ends or has the
\* smaller character.
LessAt(a, b, k) ==
    /\ k <= Len(a) + 1 /\ k <= Len(b)
    /\ \A j \in 1..(k - 1) : a[j] = b[j]
    /\ k <= Len(a) => a[k] < b[k]

\* The order of strings by the first place where they differ.
LEMMA LexLessAt ==
    ASSUME NEW a \in Seq(Nat), NEW b \in Seq(Nat)
    PROVE  LexLess(a, b) <=> \E k \in Nat \ {0} : LessAt(a, b, k)
<1>0. Len(a) \in Nat /\ Len(b) \in Nat
  OBVIOUS
<1>1. ASSUME IsStrictPrefix(a, b) PROVE LessAt(a, b, Len(a) + 1)
  <2>1. Len(a) <= Len(b) /\ SubSeq(a, 1, Len(a)) = SubSeq(b, 1, Len(a)) /\ a # b
    BY <1>1 DEF IsStrictPrefix, IsPrefix
  <2>2. \A j \in 1..Len(a) : SubSeq(a, 1, Len(a))[j] = a[j] /\ SubSeq(b, 1, Len(a))[j] = b[j]
    BY <2>1, <1>0
  <2>3. \A j \in 1..Len(a) : a[j] = b[j]
    BY <2>1, <2>2, Zenon
  <2>4. Len(a) # Len(b)
    BY <2>1, <2>3
  <2> QED
    BY <2>1, <2>3, <2>4, <1>0 DEF LessAt
<1>2. ASSUME NEW k \in (1..Len(a)) \cap (1..Len(b)),
             SubSeq(a, 1, k - 1) = SubSeq(b, 1, k - 1), a[k] < b[k]
      PROVE  LessAt(a, b, k)
  <2>1. \A j \in 1..(k - 1) : SubSeq(a, 1, k - 1)[j] = a[j] /\ SubSeq(b, 1, k - 1)[j] = b[j]
    <3>1. k - 1 \in Nat /\ k - 1 <= Len(a) /\ k - 1 <= Len(b)
      BY <1>0
    <3>2. /\ SubSeq(a, 1, k - 1) = [j \in 1..(k - 1) |-> a[j]]
          /\ SubSeq(b, 1, k - 1) = [j \in 1..(k - 1) |-> b[j]]
      BY <3>1, <1>0
    <3> QED
      BY <3>2, Zenon
  <2>2. \A j \in 1..(k - 1) : a[j] = b[j]
    BY <1>2, <2>1, Zenon
  <2> QED
    BY <1>2, <2>2, <1>0 DEF LessAt
<1>3. ASSUME NEW k \in Nat \ {0}, LessAt(a, b, k) PROVE LexLess(a, b)
  <2>1. CASE k <= Len(a)
    <3>1. k \in (1..Len(a)) \cap (1..Len(b)) /\ a[k] < b[k] /\ \A j \in 1..(k - 1) : a[j] = b[j]
      BY <1>3, <2>1, <1>0 DEF LessAt
    <3>2. SubSeq(a, 1, k - 1) = SubSeq(b, 1, k - 1)
      <4>1. /\ SubSeq(a, 1, k - 1) = [j \in 1..(k - 1) |-> a[j]]
            /\ SubSeq(b, 1, k - 1) = [j \in 1..(k - 1) |-> b[j]]
        BY <1>0, <3>1
      <4> QED
        BY <4>1, <3>1, Zenon
    <3> QED
      BY <3>1, <3>2, Zenon DEF LexLess
  <2>2. CASE ~(k <= Len(a))
    <3>1. k = Len(a) + 1 /\ Len(a) < Len(b) /\ \A j \in 1..Len(a) : a[j] = b[j]
      BY <1>3, <2>2, <1>0 DEF LessAt
    <3>2. SubSeq(a, 1, Len(a)) = SubSeq(b, 1, Len(a))
      <4>1. /\ SubSeq(a, 1, Len(a)) = [j \in 1..Len(a) |-> a[j]]
            /\ SubSeq(b, 1, Len(a)) = [j \in 1..Len(a) |-> b[j]]
        BY <1>0, <3>1
      <4> QED
        BY <4>1, <3>1, Zenon
    <3> QED
      BY <3>1, <3>2, <1>0 DEF LexLess, IsStrictPrefix, IsPrefix
  <2> QED
    BY <2>1, <2>2
<1>4. ASSUME LexLess(a, b) PROVE \E k \in Nat \ {0} : LessAt(a, b, k)
  <2>1. CASE IsStrictPrefix(a, b)
    BY <2>1, <1>1, <1>0
  <2>2. CASE \E k \in (1..Len(a)) \cap (1..Len(b)) :
                SubSeq(a, 1, k - 1) = SubSeq(b, 1, k - 1) /\ a[k] < b[k]
    <3>1. PICK k \in (1..Len(a)) \cap (1..Len(b)) :
                SubSeq(a, 1, k - 1) = SubSeq(b, 1, k - 1) /\ a[k] < b[k]
      BY <2>2
    <3>2. k \in Nat \ {0}
      OBVIOUS
    <3> QED
      BY <3>1, <3>2, <1>2
  <2> QED
    BY <1>4, <2>1, <2>2 DEF LexLess
<1> QED
  BY <1>3, <1>4

\* Strings are strictly and totally ordered.
LEMMA LexOrder ==
    /\ \A a \in Seq(Nat) : ~LexLess(a, a)
    /\ \A a, b \in Seq(Nat) : a # b => LexLess(a, b) \/ LexLess(b, a)
    /\ \A a, b, c \in Seq(Nat) : LexLess(a, b) /\ LexLess(b, c) => LexLess(a, c)
<1>1. ASSUME NEW a \in Seq(Nat) PROVE ~LexLess(a, a)
  <2>1. ASSUME NEW k \in Nat \ {0}, LessAt(a, a, k) PROVE FALSE
    BY <2>1 DEF LessAt
  <2> QED
    BY <2>1, LexLessAt
<1>2. ASSUME NEW a \in Seq(Nat), NEW b \in Seq(Nat), a # b PROVE LexLess(a, b) \/ LexLess(b, a)
  <2> DEFINE D == {k \in Nat \ {0} : k <= Len(a) /\ k <= Len(b) /\ a[k] # b[k]}
  <2>0. Len(a) \in Nat /\ Len(b) \in Nat
    OBVIOUS
  <2>1. CASE D = {}
    <3>1. \A k \in 1..Len(a) : k <= Len(b) => a[k] = b[k]
      <4>1. \A k \in 1..Len(a) : k \in Nat \ {0} /\ k <= Len(a)
        BY <2>0
      <4>2. \A k \in Nat \ {0} : ~(k <= Len(a) /\ k <= Len(b) /\ a[k] # b[k])
        BY <2>1, Zenon
      <4> QED
        BY <4>1, <4>2, Zenon
    <3>2. Len(a) # Len(b)
      <4> SUFFICES ASSUME Len(a) = Len(b) PROVE FALSE
        OBVIOUS
      <4>1. \A k \in 1..Len(a) : a[k] = b[k]
        BY <3>1, <2>0
      <4>2. a = [k \in 1..Len(a) |-> a[k]] /\ b = [k \in 1..Len(b) |-> b[k]]
        OBVIOUS
      <4> QED
        BY <4>1, <4>2, <1>2
    <3>3. CASE Len(a) < Len(b)
      <4>1. LessAt(a, b, Len(a) + 1)
        BY <3>1, <3>3, <2>0 DEF LessAt
      <4> QED
        BY <4>1, <2>0, LexLessAt
    <3>4. CASE Len(b) < Len(a)
      <4>1. LessAt(b, a, Len(b) + 1)
        BY <3>1, <3>4, <2>0 DEF LessAt
      <4> QED
        BY <4>1, <2>0, LexLessAt
    <3> QED
      BY <3>2, <3>3, <3>4, <2>0
  <2>2. CASE D # {}
    <3>1. PICK m \in D : \A k \in D : m <= k
      <4>1. D \in SUBSET Nat
        OBVIOUS
      <4> HIDE DEF D
      <4> QED
        BY <4>1, <2>2, LeastNumber
    <3>2. ASSUME NEW j \in 1..(m - 1) PROVE a[j] = b[j]
      <4>1. j \in Nat \ {0} /\ j <= Len(a) /\ j <= Len(b) /\ ~(m <= j)
        <5>1. m \in Nat /\ m <= Len(a) /\ m <= Len(b)
          BY <3>1
        <5> HIDE DEF D
        <5> QED
          BY <5>1, <2>0
      <4>2. j \notin D
        BY <4>1, <3>1
      <4> QED
        BY <4>1, <4>2
    <3>3. m \in Nat \ {0} /\ m <= Len(a) /\ m <= Len(b) /\ a[m] \in Nat /\ b[m] \in Nat /\ a[m] # b[m]
      BY <3>1, <2>0
    <3>4. CASE a[m] < b[m]
      <4>1. LessAt(a, b, m)
        BY <3>2, <3>3, <3>4, <2>0 DEF LessAt
      <4> QED
        BY <4>1, <3>3, LexLessAt
    <3>5. CASE b[m] < a[m]
      <4>1. LessAt(b, a, m)
        BY <3>2, <3>3, <3>5, <2>0 DEF LessAt
      <4> QED
        BY <4>1, <3>3, LexLessAt
    <3> QED
      BY <3>3, <3>4, <3>5
  <2> QED
    BY <2>1, <2>2
<1>3. ASSUME NEW a \in Seq(Nat), NEW b \in Seq(Nat), NEW c \in Seq(Nat), LexLess(a, b), LexLess(b, c)
      PROVE  LexLess(a, c)
  <2>0. Len(a) \in Nat /\ Len(b) \in Nat /\ Len(c) \in Nat
    OBVIOUS
  <2>1. PICK k \in Nat \ {0} : LessAt(a, b, k)
    BY <1>3, LexLessAt
  <2>2. PICK l \in Nat \ {0} : LessAt(b, c, l)
    BY <1>3, LexLessAt
  <2>3. \A j \in Nat \ {0} : /\ j <= Len(a) => a[j] \in Nat
                             /\ j <= Len(b) => b[j] \in Nat
                             /\ j <= Len(c) => c[j] \in Nat
    OBVIOUS
  <2>4. CASE k < l
    <3>1. LessAt(a, c, k)
      <4>1. k \in 1..(l - 1) /\ \A j \in 1..(k - 1) : j \in 1..(l - 1)
        BY <2>4
      <4>2. k <= Len(a) + 1 /\ k <= Len(b) /\ l <= Len(b) + 1 /\ l <= Len(c)
        BY <2>1, <2>2, Zenon DEF LessAt
      <4>3. k <= Len(c)
        BY <4>2, <2>0, <2>4
      <4>4. b[k] = c[k] /\ \A j \in 1..(k - 1) : a[j] = c[j]
        BY <4>1, <2>1, <2>2, Zenon DEF LessAt
      <4>5. k <= Len(a) => a[k] < c[k]
        BY <4>4, <2>1, Zenon DEF LessAt
      <4> QED
        BY <4>2, <4>3, <4>4, <4>5, Zenon DEF LessAt
    <3> QED
      BY <3>1, LexLessAt
  <2>5. CASE l <= k
    <3>1. LessAt(a, c, l)
      <4>0. k <= Len(a) + 1 /\ k <= Len(b) /\ l <= Len(c)
        BY <2>1, <2>2, Zenon DEF LessAt
      <4>1. l <= Len(a) + 1 /\ l <= Len(c) /\ l <= Len(b)
        BY <4>0, <2>0, <2>5
      <4>2. \A j \in 1..(l - 1) : a[j] = c[j]
        <5>1. \A j \in 1..(l - 1) : j \in 1..(k - 1)
          BY <2>5
        <5> QED
          BY <5>1, <2>1, <2>2, Zenon DEF LessAt
      <4>3. ASSUME l <= Len(a) PROVE a[l] < c[l]
        <5>1. l <= Len(b) /\ l <= Len(c) /\ a[l] \in Nat /\ b[l] \in Nat /\ c[l] \in Nat
          BY <4>1, <2>3, <4>3, Zenon
        <5>2. b[l] < c[l]
          BY <5>1, <2>2 DEF LessAt
        <5>3. a[l] <= b[l]
          <6>1. CASE l = k
            BY <6>1, <5>1, <2>1, <4>3 DEF LessAt
          <6>2. CASE l # k
            <7>1. l \in 1..(k - 1)
              BY <6>2, <2>5
            <7>2. a[l] = b[l]
              BY <7>1, <2>1 DEF LessAt
            <7> QED
              BY <7>2, <5>1
          <6> QED
            BY <6>1, <6>2
        <5> QED
          BY <5>1, <5>2, <5>3
      <4> QED
        BY <4>1, <4>2, <4>3 DEF LessAt
    <3> QED
      BY <3>1, LexLessAt
  <2> QED
    BY <2>4, <2>5
<1> QED
  BY <1>1, <1>2, <1>3

-----------------------------------------------------------------------------
(* Greatest and least numbers. *)

\* Integers are ordered by <.
LEMMA IntOrder ==
    ASSUME NEW I \in SUBSET Int, IsFiniteSet(I)
    PROVE  Orders(I, {p \in I \X I : p[1] < p[2]})
<1> DEFINE R == {p \in I \X I : p[1] < p[2]}
<1>1. \A x, y \in I : <<x, y>> \in R <=> x < y
  OBVIOUS
<1> HIDE DEF R
<1>2. \A x \in I : x \in Int
  OBVIOUS
<1>3. \A x \in I : <<x, x>> \notin R
  BY <1>1, <1>2
<1>4. \A x, y \in I : x # y => <<x, y>> \in R \/ <<y, x>> \in R
  BY <1>1, <1>2
<1>5. \A x, y, z \in I : <<x, y>> \in R /\ <<y, z>> \in R => <<x, z>> \in R
  BY <1>1, <1>2
<1> QED
  BY <1>3, <1>4, <1>5 DEF Orders, R

\* A finite set of integers that is not empty has a greatest and a least element.
LEMMA MaxMin ==
    ASSUME NEW I \in SUBSET Int, IsFiniteSet(I), I # {}
    PROVE  /\ Max(I) \in I /\ \A y \in I : y <= Max(I)
           /\ Min(I) \in I /\ \A y \in I : Min(I) <= y
<1> DEFINE R == {p \in I \X I : p[1] < p[2]}
           q == Enumeration(I, R)
           n == Cardinality(I)
<1>1. Lists(q, I, R)
  <2>1. Orders(I, R)
    BY IntOrder
  <2> HIDE DEF R
  <2> QED
    BY <2>1, EnumerationLists
<1>2. \A x, y \in I : <<x, y>> \in R <=> x < y
  OBVIOUS
<1> HIDE DEF R, q
<1>3. n \in Nat /\ n # 0
  BY <1>1, FS_EmptySet DEF Lists
<1>4. \A x \in I : x \in Int
  OBVIOUS
<1>5. q[n] \in I /\ q[1] \in I
  BY <1>1, <1>3 DEF Lists
<1>6. ASSUME NEW y \in I PROVE y <= q[n] /\ q[1] <= y
  <2>1. PICK k \in 1..n : q[k] = y
    BY <1>1, Zenon DEF Lists
  <2>2. n \in 1..n /\ 1 \in 1..n /\ ~(n < k) /\ ~(k < 1)
    BY <1>3
  <2>3. <<q[n], q[k]>> \notin R /\ <<q[k], q[1]>> \notin R
    BY <2>2, <1>1, Zenon DEF Lists
  <2>4. ~(q[n] < y) /\ ~(y < q[1])
    BY <2>1, <2>3, <1>2, <1>5, Zenon
  <2>5. y \in Int /\ q[n] \in Int /\ q[1] \in Int
    BY <1>4, <1>5
  <2> QED
    BY <2>4, <2>5
<1>7. Max(I) \in I /\ \A y \in I : Max(I) >= y
  <2>1. \E x \in I : \A y \in I : x >= y
    <3>1. \A y \in I : q[n] >= y
      BY <1>4, <1>5, <1>6
    <3> QED
      BY <1>5, <3>1, Zenon
  <2> QED
    BY <2>1, Zenon DEF Max
<1>8. Min(I) \in I /\ \A y \in I : Min(I) =< y
  <2>1. \E x \in I : \A y \in I : x =< y
    BY <1>5, <1>6, Zenon
  <2> QED
    BY <2>1, Zenon DEF Min
<1> QED
  BY <1>4, <1>7, <1>8

\* Subsets of an interval.
LEMMA MaxMinInterval ==
    ASSUME NEW a \in Int, NEW b \in Int, NEW I \in SUBSET (a..b), I # {}
    PROVE  /\ Max(I) \in I /\ \A y \in I : y <= Max(I)
           /\ Min(I) \in I /\ \A y \in I : Min(I) <= y
<1>1. I \in SUBSET Int
  OBVIOUS
<1>2. IsFiniteSet(I)
  BY FS_Interval, FS_Subset
<1> QED
  BY <1>1, <1>2, MaxMin, Zenon

\* A set with one member.
LEMMA MaxMinOne ==
    ASSUME NEW x \in Int
    PROVE  Max({x}) = x /\ Min({x}) = x
<1>1. Max({x}) \in {x} /\ Min({x}) \in {x}
  <2>1. {x} \in SUBSET Int /\ IsFiniteSet({x}) /\ {x} # {}
    BY FS_Singleton
  <2> QED
    BY <2>1, MaxMin, Zenon
<1> QED
  BY <1>1

-----------------------------------------------------------------------------
(* Labels, packages and names. *)

\* A label as the callers give it.
IsLabel(l) == l \in Seq(Nat) /\ l # <<>> /\ l[1] # Colon

\* Splitting a label loses nothing.
LEMMA SplitJoin ==
    ASSUME NEW l, IsLabel(l)
    PROVE  /\ splitLabel(l).pkg \in Seq(Nat) /\ splitLabel(l).name \in Seq(Nat)
           /\ joinLabel(splitLabel(l).pkg, splitLabel(l).name) = l
           /\ splitLabel(l) = [pkg |-> splitLabel(l).pkg, name |-> splitLabel(l).name]
<1>0. l \in Seq(Nat) /\ l # <<>> /\ l[1] # Colon /\ Len(l) \in Nat /\ Len(l) > 0 /\ DOMAIN l = 1..Len(l)
  BY DEF IsLabel
<1>1. CASE Colon \notin ToSet(l)
  <2>1. splitLabel(l) = [pkg |-> <<>>, name |-> l]
    BY <1>1 DEF splitLabel
  <2> QED
    BY <2>1, <1>0 DEF joinLabel
<1>2. CASE Colon \in ToSet(l)
  <2> DEFINE I == {i \in 1..Len(l) : l[i] = Colon}
             i == SelectLastInSeq(l, LAMBDA c : c = Colon)
  <2>1. I # {}
    BY <1>0, <1>2 DEF ToSet
  <2>2. i = Max(I)
    BY <2>1 DEF SelectLastInSeq
  <2>3. i \in 1..Len(l) /\ l[i] = Colon
    <3>1. I \in SUBSET (1..Len(l)) /\ 1 \in Int /\ Len(l) \in Int
      BY <1>0
    <3>2. Max(I) \in I
      <4> HIDE DEF I
      <4> QED
        BY <2>1, <3>1, MaxMinInterval
    <3> QED
      BY <3>2, <2>2
  <2> HIDE DEF i
  <2>4. splitLabel(l) = [pkg |-> SubSeq(l, 1, i - 1), name |-> SubSeq(l, i + 1, Len(l))]
    BY <1>2 DEF splitLabel, i
  <2> DEFINE p == SubSeq(l, 1, i - 1)
             m == SubSeq(l, i + 1, Len(l))
  <2>5. i # 1
    BY <2>3, <1>0
  <2>6. /\ p \in Seq(Nat) /\ Len(p) = i - 1 /\ \A j \in 1..(i - 1) : p[j] = l[j]
        /\ m \in Seq(Nat) /\ Len(m) = Len(l) - i /\ \A j \in 1..(Len(l) - i) : m[j] = l[i + j]
    <3>1. i - 1 \in Nat /\ i + 1 \in Nat /\ 1 \in Nat /\ 1 <= i - 1 + 1 /\ i - 1 <= Len(l) /\ i + 1 <= Len(l) + 1
          /\ 1 <= i + 1 /\ Len(l) <= Len(l)
      BY <1>0, <2>3
    <3>2. p \in Seq(Nat) /\ Len(p) = i - 1 - 1 + 1 /\ \A j \in 1..(i - 1 - 1 + 1) : p[j] = l[1 + j - 1]
      <4>1. IsSub(Nat, l, 1, i - 1, p)
        BY <3>1, <1>0, Sub
      <4> HIDE DEF p
      <4> QED
        BY <4>1, Zenon DEF IsSub
    <3>3. m \in Seq(Nat) /\ Len(m) = Len(l) - (i + 1) + 1 /\ \A j \in 1..(Len(l) - (i + 1) + 1) : m[j] = l[(i + 1) + j - 1]
      <4>1. IsSub(Nat, l, i + 1, Len(l), m)
        BY <3>1, <1>0, Sub, Zenon
      <4> HIDE DEF m
      <4> QED
        BY <4>1, Zenon DEF IsSub
    <3>4. i - 1 - 1 + 1 = i - 1 /\ Len(l) - (i + 1) + 1 = Len(l) - i
      BY <3>1, <1>0, <2>3
    <3>5. (\A j \in 1..(i - 1) : 1 + j - 1 = j) /\ (\A j \in 1..(Len(l) - i) : (i + 1) + j - 1 = i + j)
      BY <2>3, <1>0
    <3> HIDE DEF p, m
    <3> QED
      BY <3>2, <3>3, <3>4, <3>5
  <2> HIDE DEF p, m
  <2>7. p # <<>>
    BY <2>5, <2>6, <2>3, <1>0
  <2> DEFINE c == <<Colon>>
             w == p \o c
             v == w \o m
  <2>8. c \in Seq(Nat) /\ Len(c) = 1 /\ c[1] = Colon
    BY FormatAssumption
  <2> HIDE DEF c
  <2>9. w \in Seq(Nat) /\ Len(w) = i /\ (\A j \in 1..(i - 1) : w[j] = l[j]) /\ w[i] = Colon
    <3>1. /\ w \in Seq(Nat) /\ Len(w) = Len(p) + Len(c)
          /\ \A j \in 1..Len(p) : w[j] = p[j]
          /\ \A j \in 1..Len(c) : w[Len(p) + j] = c[j]
      <4>1. IsCat(Nat, p, c, w)
        BY <2>6, <2>8, Cat, Zenon
      <4> HIDE DEF w
      <4> QED
        BY <4>1, Zenon DEF IsCat
    <3> HIDE DEF w
    <3>2. Len(w) = i /\ w[(i - 1) + 1] = c[1] /\ (i - 1) + 1 = i
      BY <3>1, <2>6, <2>8, <2>3
    <3> HIDE DEF w
    <3> QED
      BY <3>1, <3>2, <2>6, <2>8
  <2> HIDE DEF w
  <2>10. v \in Seq(Nat) /\ Len(v) = Len(l) /\ \A j \in 1..Len(l) : v[j] = l[j]
    <3>1. /\ v \in Seq(Nat) /\ Len(v) = Len(l)
          /\ \A j \in 1..i : v[j] = w[j]
          /\ \A j \in 1..(Len(l) - i) : v[i + j] = m[j]
      <4>1. /\ v \in Seq(Nat) /\ Len(v) = Len(w) + Len(m)
            /\ \A j \in 1..Len(w) : v[j] = w[j]
            /\ \A j \in 1..Len(m) : v[Len(w) + j] = m[j]
        <5>1. IsCat(Nat, w, m, v)
          BY <2>6, <2>9, Cat, Zenon
        <5> HIDE DEF v
        <5> QED
          BY <5>1, Zenon DEF IsCat
      <4> HIDE DEF v
      <4> QED
        BY <4>1, <2>6, <2>9, <2>3, <1>0
    <3> HIDE DEF v
    <3>2. ASSUME NEW j \in 1..Len(l) PROVE v[j] = l[j]
      <4>1. CASE j <= i
        BY <4>1, <3>1, <2>9, <2>3
      <4>2. CASE j > i
        <5>1. j - i \in 1..(Len(l) - i) /\ i + (j - i) = j
          BY <4>2, <2>3, <1>0
        <5>2. v[i + (j - i)] = m[j - i] /\ m[j - i] = l[i + (j - i)]
          BY <5>1, <3>1, <2>6
        <5> QED
          BY <5>1, <5>2
      <4> QED
        BY <4>1, <4>2, <2>3, <1>0
    <3> QED
      BY <3>1, <3>2
  <2>11. v = l
    <3> HIDE DEF v
    <3> QED
      BY <2>10, <1>0, SeqEqual
  <2>14. splitLabel(l) = [pkg |-> p, name |-> m]
    BY <2>4 DEF p, m
  <2>12. splitLabel(l).pkg = p /\ splitLabel(l).name = m
    BY <2>14
  <2>13. joinLabel(p, m) = v
    BY <2>7 DEF joinLabel, w, c
  <2> QED
    BY <2>6, <2>11, <2>12, <2>13, <2>14
<1> QED
  BY <1>1, <1>2

-----------------------------------------------------------------------------
(* The nodes of a graph. *)

\* Every target has a label.
Labelled(g) == \A k \in 1..Len(g.targets) : g.targets[k].id \in DOMAIN g.meta.targets

\* The label of a target, the node it becomes, and the nodes of a graph in their order.
LabelAt(g, k) == g.meta.targets[g.targets[k].id]

NodeAt(g, k) ==
    [pkg |-> splitLabel(LabelAt(g, k)).pkg, name |-> splitLabel(LabelAt(g, k)).name, origIdx |-> k]

NodeSet(g) == {NodeAt(g, k) : k \in 1..Len(g.targets)}

LessNode(S) == {p \in S \X S : NodeLess(p[1], p[2])}

\* Labels of targets are labels, and no two targets share one.
LEMMA LabelsAt ==
    ASSUME NEW g, Input(g), Labelled(g)
    PROVE  /\ Len(g.targets) \in Nat
           /\ \A k \in 1..Len(g.targets) : IsLabel(LabelAt(g, k))
           /\ \A j, k \in 1..Len(g.targets) : LabelAt(g, j) = LabelAt(g, k) => j = k
<1>1. Len(g.targets) \in Nat
  BY DEF Input
<1>2. ASSUME NEW k \in 1..Len(g.targets) PROVE IsLabel(LabelAt(g, k))
  <2>1. g.targets[k].id \in DOMAIN g.meta.targets
    BY DEF Labelled
  <2>2. Table(g.meta.targets)
    BY DEF Input
  <2>3. g.meta.targets[g.targets[k].id] \in Seq(Nat)
    BY <2>1, <2>2 DEF Table
  <2>4. g.meta.targets[g.targets[k].id] # <<>> /\ g.meta.targets[g.targets[k].id][1] # Colon
    BY <2>1, Zenon DEF Input
  <2> QED
    BY <2>3, <2>4 DEF IsLabel, LabelAt
<1>3. ASSUME NEW j \in 1..Len(g.targets), NEW k \in 1..Len(g.targets), LabelAt(g, j) = LabelAt(g, k)
      PROVE  j = k
  <2>1. g.targets[j].id \in DOMAIN g.meta.targets /\ g.targets[k].id \in DOMAIN g.meta.targets
    BY DEF Labelled
  <2>2. Distinct(g.meta.targets)
    BY DEF Input
  <2>3. g.targets[j].id = g.targets[k].id
    BY <1>3, <2>1, <2>2, Zenon DEF Distinct, LabelAt
  <2> QED
    BY <2>3, Zenon DEF Input
<1> QED
  BY <1>1, <1>2, <1>3

\* Package and name are strings.
IsNode(x) == x.pkg \in Seq(Nat) /\ x.name \in Seq(Nat)

\* Nodes are strictly and totally ordered by package and name.
LEMMA NodeOrder ==
    /\ \A x : IsNode(x) => ~NodeLess(x, x)
    /\ \A x, y : IsNode(x) /\ IsNode(y) /\ ~(x.pkg = y.pkg /\ x.name = y.name) => NodeLess(x, y) \/ NodeLess(y, x)
    /\ \A x, y, z : IsNode(x) /\ IsNode(y) /\ IsNode(z) /\ NodeLess(x, y) /\ NodeLess(y, z) => NodeLess(x, z)
<1>1. ASSUME NEW x, IsNode(x) PROVE ~NodeLess(x, x)
  BY <1>1, LexOrder, Zenon DEF IsNode, NodeLess
<1>2. ASSUME NEW x, NEW y, IsNode(x), IsNode(y), ~(x.pkg = y.pkg /\ x.name = y.name)
      PROVE  NodeLess(x, y) \/ NodeLess(y, x)
  <2>1. x.pkg # y.pkg => LexLess(x.pkg, y.pkg) \/ LexLess(y.pkg, x.pkg)
    BY <1>2, LexOrder, Zenon DEF IsNode
  <2>2. x.name # y.name => LexLess(x.name, y.name) \/ LexLess(y.name, x.name)
    BY <1>2, LexOrder, Zenon DEF IsNode
  <2> QED
    BY <1>2, <2>1, <2>2, Zenon DEF NodeLess
<1>3. ASSUME NEW x, NEW y, NEW z, IsNode(x), IsNode(y), IsNode(z), NodeLess(x, y), NodeLess(y, z)
      PROVE  NodeLess(x, z)
  <2>1. LexLess(x.pkg, y.pkg) /\ LexLess(y.pkg, z.pkg) => LexLess(x.pkg, z.pkg)
    BY <1>3, LexOrder, Zenon DEF IsNode
  <2>2. LexLess(x.name, y.name) /\ LexLess(y.name, z.name) => LexLess(x.name, z.name)
    BY <1>3, LexOrder, Zenon DEF IsNode
  <2> QED
    BY <1>3, <2>1, <2>2, Zenon DEF NodeLess
<1> QED
  BY <1>1, <1>2, <1>3, Zenon

\* What buildNodes gives: one node per target, in the order of nodes.
IsNodes(g, nodes) ==
    /\ nodes \in [1..Len(g.targets) -> NodeSet(g)]
    /\ nodes \in Seq(NodeSet(g)) /\ Len(nodes) = Len(g.targets)
    /\ \A k \in 1..Len(g.targets) :
          /\ nodes[k].origIdx \in 1..Len(g.targets)
          /\ nodes[k] = NodeAt(g, nodes[k].origIdx)
          /\ IsNode(nodes[k])
          /\ nodes[k].pkg = splitLabel(LabelAt(g, nodes[k].origIdx)).pkg
          /\ nodes[k].name = splitLabel(LabelAt(g, nodes[k].origIdx)).name
          /\ joinLabel(nodes[k].pkg, nodes[k].name) = LabelAt(g, nodes[k].origIdx)
    /\ \A j, k \in 1..Len(g.targets) : nodes[j].origIdx = nodes[k].origIdx => j = k
    /\ \A m \in 1..Len(g.targets) : \E k \in 1..Len(g.targets) : nodes[k].origIdx = m
    /\ \A j, k \in 1..Len(g.targets) : NodeLess(nodes[j], nodes[k]) <=> j < k

\* The nodes of a graph whose targets have distinct labels are ordered by package and name.
LEMMA NodeSetOrders ==
    ASSUME NEW g, Input(g), Labelled(g)
    PROVE  /\ Orders(NodeSet(g), LessNode(NodeSet(g)))
           /\ Cardinality(NodeSet(g)) = Len(g.targets)
           /\ \A x \in NodeSet(g) :
                 IsNode(x) /\ x.origIdx \in 1..Len(g.targets) /\ x = NodeAt(g, x.origIdx)
           /\ \A k \in 1..Len(g.targets) : NodeAt(g, k) \in NodeSet(g) /\ NodeAt(g, k).origIdx = k
           /\ \A x, y \in NodeSet(g) : <<x, y>> \in LessNode(NodeSet(g)) <=> NodeLess(x, y)
<1> DEFINE n == Len(g.targets)
           S == NodeSet(g)
<1>0. n \in Nat
  BY LabelsAt
<1>1. ASSUME NEW k \in 1..n
      PROVE  /\ IsNode(NodeAt(g, k)) /\ NodeAt(g, k).origIdx = k
             /\ NodeAt(g, k).pkg = splitLabel(LabelAt(g, k)).pkg
             /\ NodeAt(g, k).name = splitLabel(LabelAt(g, k)).name
  <2>1. IsLabel(LabelAt(g, k))
    BY LabelsAt
  <2>2. splitLabel(LabelAt(g, k)).pkg \in Seq(Nat) /\ splitLabel(LabelAt(g, k)).name \in Seq(Nat)
    BY <2>1, SplitJoin
  <2> DEFINE a == splitLabel(LabelAt(g, k)).pkg
             b == splitLabel(LabelAt(g, k)).name
  <2>3. NodeAt(g, k) = [pkg |-> a, name |-> b, origIdx |-> k] /\ a \in Seq(Nat) /\ b \in Seq(Nat)
    BY <2>2 DEF NodeAt
  <2> HIDE DEF a, b
  <2>4. IsNode(NodeAt(g, k)) /\ NodeAt(g, k).origIdx = k /\ NodeAt(g, k).pkg = a /\ NodeAt(g, k).name = b
    BY <2>3 DEF IsNode
  <2> QED
    BY <2>4 DEF a, b
<1>2. \A k \in 1..n : NodeAt(g, k) \in S
  BY DEF NodeSet
<1>3. ASSUME NEW x \in S PROVE IsNode(x) /\ x.origIdx \in 1..n /\ x = NodeAt(g, x.origIdx)
  <2>1. PICK k \in 1..n : x = NodeAt(g, k)
    BY Zenon DEF NodeSet
  <2> QED
    BY <2>1, <1>1, Zenon
<1>4. ASSUME NEW j \in 1..n, NEW k \in 1..n, NodeAt(g, j).pkg = NodeAt(g, k).pkg,
             NodeAt(g, j).name = NodeAt(g, k).name
      PROVE  j = k
  <2>1. IsLabel(LabelAt(g, j)) /\ IsLabel(LabelAt(g, k))
    BY LabelsAt
  <2>2. LabelAt(g, j) = LabelAt(g, k)
    <3>1. /\ joinLabel(splitLabel(LabelAt(g, j)).pkg, splitLabel(LabelAt(g, j)).name) = LabelAt(g, j)
          /\ joinLabel(splitLabel(LabelAt(g, k)).pkg, splitLabel(LabelAt(g, k)).name) = LabelAt(g, k)
      BY <2>1, SplitJoin, Zenon
    <3>2. /\ splitLabel(LabelAt(g, j)).pkg = splitLabel(LabelAt(g, k)).pkg
          /\ splitLabel(LabelAt(g, j)).name = splitLabel(LabelAt(g, k)).name
      BY <1>1, <1>4, Zenon
    <3> QED
      BY <3>1, <3>2, Zenon
  <2> QED
    BY <2>2, LabelsAt, Zenon
<1>5. ASSUME NEW x \in S, NEW y \in S, x.pkg = y.pkg, x.name = y.name PROVE x = y
  BY <1>3, <1>4, <1>5, Zenon
<1>6. \A x, y \in S : <<x, y>> \in LessNode(S) <=> NodeLess(x, y)
  <2> HIDE DEF S
  <2> QED
    BY DEF LessNode
<1>7. IsFiniteSet(S) /\ Cardinality(S) = n
  <2> DEFINE f == [k \in 1..n |-> NodeAt(g, k)]
  <2>1. f \in Bijection(1..n, S)
    <3>1. f \in [1..n -> S]
      BY <1>2
    <3>2. \A j, k \in 1..n : f[j] = f[k] => j = k
      <4>1. \A j, k \in 1..n : NodeAt(g, j) = NodeAt(g, k) => j = k
        BY <1>1, Zenon
      <4> QED
        BY <4>1
    <3>3. \A x \in S : \E k \in 1..n : f[k] = x
      BY <1>3
    <3> HIDE DEF f, S
    <3> QED
      BY <3>1, <3>2, <3>3 DEF Bijection, Injection, Surjection, IsInjective
  <2> HIDE DEF f, S
  <2>2. ExistsBijection(1..n, S)
    BY <2>1, Zenon DEF ExistsBijection
  <2>3. IsFiniteSet(S)
    BY <2>2, <1>0, FS_NatBijection
  <2>4. Cardinality(S) = n
    BY <2>2, <1>0, FS_CountingElements
  <2> QED
    BY <2>3, <2>4
<1>8. Orders(S, LessNode(S))
  <2> HIDE DEF S
  <2>1. \A x \in S : <<x, x>> \notin LessNode(S)
    BY <1>3, <1>6, NodeOrder, Zenon
  <2>2. \A x, y \in S : x # y => <<x, y>> \in LessNode(S) \/ <<y, x>> \in LessNode(S)
    BY <1>3, <1>5, <1>6, NodeOrder, Zenon
  <2>3. \A x, y, z \in S : <<x, y>> \in LessNode(S) /\ <<y, z>> \in LessNode(S) => <<x, z>> \in LessNode(S)
    BY <1>3, <1>6, NodeOrder, Zenon
  <2> QED
    BY <2>1, <2>2, <2>3, <1>7 DEF Orders
<1> QED
  BY <1>1, <1>2, <1>3, <1>6, <1>7, <1>8, Zenon

\* A list of the nodes in their order has each target at one place.
LEMMA ListIsNodes ==
    ASSUME NEW g, Input(g), Labelled(g), NEW nodes, Lists(nodes, NodeSet(g), LessNode(NodeSet(g)))
    PROVE  IsNodes(g, nodes)
<1> DEFINE n == Len(g.targets)
           S == NodeSet(g)
           R == LessNode(NodeSet(g))
<1>0. n \in Nat
  BY LabelsAt
<1>1. /\ Cardinality(S) = n
      /\ \A x \in S : IsNode(x) /\ x.origIdx \in 1..n /\ x = NodeAt(g, x.origIdx)
      /\ \A k \in 1..n : NodeAt(g, k) \in S /\ NodeAt(g, k).origIdx = k
      /\ \A x, y \in S : <<x, y>> \in R <=> NodeLess(x, y)
  BY NodeSetOrders, Zenon
<1>2. /\ nodes \in [1..n -> S]
      /\ \A x \in S : \E k \in 1..n : nodes[k] = x
      /\ \A j, k \in 1..n : <<nodes[j], nodes[k]>> \in R <=> j < k
      /\ \A j, k \in 1..n : nodes[j] = nodes[k] => j = k
  BY <1>1, Zenon DEF Lists
<1>3. nodes \in Seq(S) /\ Len(nodes) = n
  <2> HIDE DEF S
  <2> QED
    BY <1>2, <1>0
<1>4. ASSUME NEW k \in 1..n
      PROVE  /\ nodes[k] \in S
             /\ nodes[k].origIdx \in 1..n /\ nodes[k] = NodeAt(g, nodes[k].origIdx) /\ IsNode(nodes[k])
             /\ nodes[k].pkg = splitLabel(LabelAt(g, nodes[k].origIdx)).pkg
             /\ nodes[k].name = splitLabel(LabelAt(g, nodes[k].origIdx)).name
             /\ joinLabel(nodes[k].pkg, nodes[k].name) = LabelAt(g, nodes[k].origIdx)
  <2>1. nodes[k] \in S
    <3> HIDE DEF S
    <3> QED
      BY <1>2
  <2> DEFINE i == nodes[k].origIdx
  <2>2. i \in 1..n /\ nodes[k] = NodeAt(g, i) /\ IsNode(nodes[k])
    BY <2>1, <1>1, Zenon
  <2> HIDE DEF i
  <2>3. nodes[k].pkg = splitLabel(LabelAt(g, i)).pkg /\ nodes[k].name = splitLabel(LabelAt(g, i)).name
    BY <2>2 DEF NodeAt
  <2>4. joinLabel(splitLabel(LabelAt(g, i)).pkg, splitLabel(LabelAt(g, i)).name) = LabelAt(g, i)
    BY <2>2, LabelsAt, SplitJoin, Zenon
  <2>5. joinLabel(nodes[k].pkg, nodes[k].name) = LabelAt(g, i)
    BY <2>3, <2>4, Zenon
  <2> QED
    BY <2>1, <2>2, <2>3, <2>5, Zenon DEF i
<1>5. ASSUME NEW j \in 1..n, NEW k \in 1..n, nodes[j].origIdx = nodes[k].origIdx PROVE j = k
  <2>1. nodes[j] = NodeAt(g, nodes[j].origIdx) /\ nodes[k] = NodeAt(g, nodes[k].origIdx)
    BY <1>4
  <2>2. nodes[j] = nodes[k]
    BY <2>1, <1>5, Zenon
  <2> QED
    BY <2>2, <1>2, Zenon
<1>6. ASSUME NEW m \in 1..n PROVE \E k \in 1..n : nodes[k].origIdx = m
  <2>1. NodeAt(g, m) \in S /\ NodeAt(g, m).origIdx = m
    BY <1>1, Zenon
  <2>2. PICK k \in 1..n : nodes[k] = NodeAt(g, m)
    BY <2>1, <1>2, Zenon
  <2> QED
    BY <2>1, <2>2, Zenon
<1>7. ASSUME NEW j \in 1..n, NEW k \in 1..n PROVE NodeLess(nodes[j], nodes[k]) <=> j < k
  BY <1>1, <1>2, <1>4, Zenon
<1> QED
  BY <1>2, <1>3, <1>4, <1>5, <1>6, <1>7, Zenon DEF IsNodes

\* buildNodes lists the nodes in their order.
LEMMA BuildsNodes ==
    ASSUME NEW g, Input(g), Labelled(g)
    PROVE  /\ buildNodes(g) = Enumeration(NodeSet(g), LessNode(NodeSet(g)))
           /\ IsNodes(g, buildNodes(g))
<1> DEFINE S == NodeSet(g)
           R == LessNode(NodeSet(g))
<1>1. buildNodes(g) = SortedSeq(S, NodeLess)
  BY Zenon DEF buildNodes, NodeSet, NodeAt, LabelAt
<1>2. \A x \in S : {y \in S : NodeLess(y, x)} = Below(S, R, x)
  <2>1. \A x, y \in S : <<x, y>> \in R <=> NodeLess(x, y)
    BY NodeSetOrders, Zenon
  <2> QED
    BY <2>1, Zenon DEF Below
<1>3. SortedSeq(S, NodeLess) = Enumeration(S, R)
  <2> DEFINE c == Cardinality(S)
             d(k) == CHOOSE x \in S : Cardinality({y \in S : NodeLess(y, x)}) = k - 1
             e(k) == CHOOSE x \in S : Rank(S, R, x) = k - 1
  <2>1. \A k \in 1..c : d(k) = e(k)
    BY <1>2, Zenon DEF Rank
  <2>2. SortedSeq(S, NodeLess) = [k \in 1..c |-> d(k)]
    BY Zenon DEF SortedSeq
  <2>3. Enumeration(S, R) = [k \in 1..c |-> e(k)]
    BY Zenon DEF Enumeration
  <2> HIDE DEF c, d, e, S, R
  <2> QED
    BY <2>1, <2>2, <2>3
<1>4. Lists(Enumeration(S, R), S, R)
  BY NodeSetOrders, EnumerationLists, Zenon
<1> QED
  BY <1>1, <1>3, <1>4, ListIsNodes, Zenon

-----------------------------------------------------------------------------
(* Dictionaries. *)

\* Strings in their order.
LessString(S) == {p \in S \X S : LexLess(p[1], p[2])}

\* dict lists the strings S in ascending order.
IsDict(dict, S) ==
    /\ Cardinality(S) \in Nat
    /\ dict \in [1..Cardinality(S) -> S]
    /\ dict \in Seq(Seq(Nat)) /\ dict \in Seq(S) /\ Len(dict) = Cardinality(S)
    /\ \A s \in S : \E k \in 1..Cardinality(S) : dict[k] = s
    /\ \A j, k \in 1..Cardinality(S) : LexLess(dict[j], dict[k]) <=> j < k
    /\ \A j, k \in 1..Cardinality(S) : dict[j] = dict[k] => j = k

\* A finite set of strings is ordered by LexLess.
LEMMA StringOrders ==
    ASSUME NEW S \in SUBSET Seq(Nat), IsFiniteSet(S)
    PROVE  Orders(S, LessString(S)) /\ \A x, y \in S : <<x, y>> \in LessString(S) <=> LexLess(x, y)
<1>1. \A x, y \in S : <<x, y>> \in LessString(S) <=> LexLess(x, y)
  BY DEF LessString
<1>2. \A x \in S : x \in Seq(Nat)
  BY Zenon
<1>3. \A x \in S : <<x, x>> \notin LessString(S)
  BY <1>1, <1>2, LexOrder, Zenon
<1>4. \A x, y \in S : x # y => <<x, y>> \in LessString(S) \/ <<y, x>> \in LessString(S)
  BY <1>1, <1>2, LexOrder, Zenon
<1>5. \A x, y, z \in S : <<x, y>> \in LessString(S) /\ <<y, z>> \in LessString(S) => <<x, z>> \in LessString(S)
  BY <1>1, <1>2, LexOrder, Zenon
<1> QED
  BY <1>1, <1>3, <1>4, <1>5, Zenon DEF Orders

\* Sorting a finite set of strings gives a dictionary.
LEMMA SortsStrings ==
    ASSUME NEW S \in SUBSET Seq(Nat), IsFiniteSet(S)
    PROVE  IsDict(SortedSeq(S, LexLess), S)
<1> DEFINE R == LessString(S)
           q == Enumeration(S, R)
           c == Cardinality(S)
<1>1. Orders(S, R) /\ \A x, y \in S : <<x, y>> \in R <=> LexLess(x, y)
  BY StringOrders, Zenon
<1>2. \A x \in S : {y \in S : LexLess(y, x)} = Below(S, R, x)
  BY <1>1, Zenon DEF Below
<1>3. SortedSeq(S, LexLess) = q
  <2> DEFINE d(k) == CHOOSE x \in S : Cardinality({y \in S : LexLess(y, x)}) = k - 1
             e(k) == CHOOSE x \in S : Rank(S, R, x) = k - 1
  <2>1. \A k \in 1..c : d(k) = e(k)
    BY <1>2, Zenon DEF Rank
  <2>2. SortedSeq(S, LexLess) = [k \in 1..c |-> d(k)]
    BY Zenon DEF SortedSeq
  <2>3. Enumeration(S, R) = [k \in 1..c |-> e(k)]
    BY Zenon DEF Enumeration
  <2> HIDE DEF c, d, e, R
  <2> QED
    BY <2>1, <2>2, <2>3
<1>4. Lists(q, S, R)
  BY <1>1, EnumerationLists, Zenon
<1> HIDE DEF q, R
<1>5. /\ c \in Nat /\ q \in [1..c -> S]
      /\ \A x \in S : \E k \in 1..c : q[k] = x
      /\ \A j, k \in 1..c : <<q[j], q[k]>> \in R <=> j < k
      /\ \A j, k \in 1..c : q[j] = q[k] => j = k
  BY <1>4, Zenon DEF Lists
<1> HIDE DEF c
<1>6. q \in Seq(S) /\ Len(q) = c /\ \A k \in 1..c : q[k] \in S
  BY <1>5
<1>7. q \in Seq(Seq(Nat))
  <2>1. \A k \in 1..c : q[k] \in Seq(Nat)
    BY <1>6, Zenon
  <2>2. q = [k \in 1..c |-> q[k]]
    BY <1>5
  <2> QED
    BY <2>1, <2>2, <1>5
<1>8. \A j, k \in 1..c : LexLess(q[j], q[k]) <=> j < k
  BY <1>1, <1>5, <1>6, Zenon
<1> QED
  BY <1>3, <1>5, <1>6, <1>7, <1>8, Zenon DEF IsDict, c

\* idx is the place of every string of dict, from 0.
IsIndex(idx, dict, S) ==
    /\ DOMAIN idx = S
    /\ \A k \in 1..Len(dict) : idx[dict[k]] = k - 1
    /\ \A s \in S : idx[s] \in 0..(Len(dict) - 1) /\ dict[idx[s] + 1] = s
    /\ \A s, t \in S : LexLess(s, t) <=> idx[s] < idx[t]
    /\ \A s, t \in S : idx[s] = idx[t] => s = t

\* buildStrIndex gives every string of a dictionary its place.
LEMMA BuildsIndex ==
    ASSUME NEW dict, NEW S, IsDict(dict, S)
    PROVE  IsIndex(buildStrIndex(dict), dict, S)
<1> DEFINE n == Cardinality(S)
           idx == buildStrIndex(dict)
<1>0. /\ n \in Nat /\ dict \in [1..n -> S] /\ Len(dict) = n
      /\ \A s \in S : \E k \in 1..n : dict[k] = s
      /\ \A j, k \in 1..n : LexLess(dict[j], dict[k]) <=> j < k
      /\ \A j, k \in 1..n : dict[j] = dict[k] => j = k
  BY Zenon DEF IsDict
<1>1. ToSet(dict) = S
  <2>1. DOMAIN dict = 1..n /\ \A k \in 1..n : dict[k] \in S
    BY <1>0
  <2> QED
    BY <2>1, <1>0 DEF ToSet
<1>2. DOMAIN idx = S /\ \A s \in S : idx[s] = (CHOOSE k \in 1..Len(dict) : dict[k] = s) - 1
  <2> DEFINE e(s) == (CHOOSE k \in 1..Len(dict) : dict[k] = s) - 1
  <2>1. idx = [s \in ToSet(dict) |-> e(s)]
    BY Zenon DEF buildStrIndex
  <2> HIDE DEF idx, e
  <2>2. DOMAIN idx = S /\ \A s \in S : idx[s] = e(s)
    BY <2>1, <1>1, Zenon
  <2> QED
    BY <2>2, Zenon DEF e
<1>3. ASSUME NEW k \in 1..n PROVE idx[dict[k]] = k - 1 /\ dict[k] \in S
  <2>1. dict[k] \in S
    BY <1>0
  <2> DEFINE c == CHOOSE i \in 1..Len(dict) : dict[i] = dict[k]
  <2>2. c \in 1..n /\ dict[c] = dict[k]
    <3>1. c \in 1..Len(dict) /\ dict[c] = dict[k]
      BY <1>0, Zenon
    <3> QED
      BY <3>1, <1>0, Zenon
  <2>3. c = k
    BY <2>2, <1>0, Zenon
  <2>4. idx[dict[k]] = c - 1
    BY <1>2, <2>1, Zenon
  <2> QED
    BY <2>1, <2>3, <2>4
<1> HIDE DEF idx, n
<1>4. DOMAIN idx = S
  BY <1>2, Zenon
<1>5. ASSUME NEW s \in S PROVE idx[s] \in 0..(n - 1) /\ dict[idx[s] + 1] = s /\ \E k \in 1..n : s = dict[k] /\ idx[s] = k - 1
  <2>1. PICK k \in 1..n : dict[k] = s
    BY <1>0
  <2>2. idx[s] = k - 1
    BY <2>1, <1>3
  <2> QED
    BY <2>1, <2>2, <1>0
<1>6. ASSUME NEW s \in S, NEW t \in S
      PROVE  (LexLess(s, t) <=> idx[s] < idx[t]) /\ (idx[s] = idx[t] => s = t)
  <2>1. PICK j \in 1..n : s = dict[j] /\ idx[s] = j - 1
    BY <1>5
  <2>2. PICK k \in 1..n : t = dict[k] /\ idx[t] = k - 1
    BY <1>5
  <2>3. LexLess(s, t) <=> j < k
    BY <2>1, <2>2, <1>0, Zenon
  <2> QED
    BY <2>1, <2>2, <2>3, <1>0
<1> QED
  BY <1>0, <1>3, <1>4, <1>5, <1>6, Zenon DEF IsIndex, idx, n

\* The strings of a table.
Strings(m) == {m[id] : id \in DOMAIN m}

\* A table has finitely many strings.
LEMMA TableStrings ==
    ASSUME NEW m, Table(m)
    PROVE  /\ Strings(m) \in SUBSET Seq(Nat) /\ IsFiniteSet(Strings(m))
           /\ \A id \in DOMAIN m : m[id] \in Strings(m)
<1>1. IsFiniteSet(DOMAIN m) /\ m \in [DOMAIN m -> Seq(Nat)]
  BY DEF Table
<1>2. \A id \in DOMAIN m : m[id] \in Strings(m) /\ m[id] \in Seq(Nat)
  BY <1>1 DEF Strings
<1>3. Strings(m) \in SUBSET Seq(Nat)
  BY <1>2, Zenon DEF Strings
<1>4. m \in Surjection(DOMAIN m, Strings(m))
  <2>1. m \in [DOMAIN m -> Strings(m)]
    BY <1>1, <1>2
  <2>2. \A s \in Strings(m) : \E id \in DOMAIN m : m[id] = s
    BY Zenon DEF Strings
  <2> QED
    BY <2>1, <2>2 DEF Surjection
<1>5. IsFiniteSet(Strings(m))
  BY <1>1, <1>4, FS_Surjection, Zenon
<1> QED
  BY <1>2, <1>3, <1>5, Zenon

\* The dictionary of a table, and the table that leads into it.
IsRemap(m, dict, tab) ==
    /\ IsDict(dict, Strings(m))
    /\ DOMAIN tab = DOMAIN m
    /\ \A id \in DOMAIN m : tab[id] \in 0..(Len(dict) - 1) /\ dict[tab[id] + 1] = m[id]
    /\ \A i, j \in DOMAIN m : LexLess(m[i], m[j]) <=> tab[i] < tab[j]
    /\ \A i, j \in DOMAIN m : m[i] = m[j] <=> tab[i] = tab[j]

\* sortedUniqueStrings, buildStrIndex and remapTable renumber a table by the order of its strings.
LEMMA Remaps ==
    ASSUME NEW m, Table(m)
    PROVE  IsRemap(m, sortedUniqueStrings(m), remapTable(m, buildStrIndex(sortedUniqueStrings(m))))
<1> DEFINE S == Strings(m)
           d == sortedUniqueStrings(m)
           idx == buildStrIndex(d)
           tab == remapTable(m, idx)
<1>1. IsDict(d, S)
  <2>1. d = SortedSeq(S, LexLess)
    BY Zenon DEF sortedUniqueStrings, Strings
  <2> QED
    BY <2>1, TableStrings, SortsStrings, Zenon
<1>2. IsIndex(idx, d, S)
  <2> HIDE DEF d
  <2> QED
    BY <1>1, BuildsIndex, Zenon
<1>3. tab = [id \in DOMAIN m |-> idx[m[id]]]
  BY Zenon DEF remapTable
<1> HIDE DEF S, d, idx, tab
<1>4. \A id \in DOMAIN m : m[id] \in S
  BY TableStrings, Zenon DEF S
<1>5. \A id \in DOMAIN m : tab[id] = idx[m[id]]
  BY <1>3, Zenon
<1>6. DOMAIN tab = DOMAIN m
  BY <1>3, Zenon
<1>7. \A id \in DOMAIN m : tab[id] \in 0..(Len(d) - 1) /\ d[tab[id] + 1] = m[id]
  BY <1>2, <1>4, <1>5, Zenon DEF IsIndex
<1>8. \A i, j \in DOMAIN m : LexLess(m[i], m[j]) <=> tab[i] < tab[j]
  <2> TAKE i, j \in DOMAIN m
  <2>1. m[i] \in S /\ m[j] \in S /\ tab[i] = idx[m[i]] /\ tab[j] = idx[m[j]]
    BY <1>4, <1>5, Zenon
  <2>2. LexLess(m[i], m[j]) <=> idx[m[i]] < idx[m[j]]
    BY <2>1, <1>2, Zenon DEF IsIndex
  <2> QED
    BY <2>1, <2>2, Zenon
<1>9. \A i, j \in DOMAIN m : m[i] = m[j] <=> tab[i] = tab[j]
  <2> TAKE i, j \in DOMAIN m
  <2>1. m[i] \in S /\ m[j] \in S /\ tab[i] = idx[m[i]] /\ tab[j] = idx[m[j]]
    BY <1>4, <1>5, Zenon
  <2>2. idx[m[i]] = idx[m[j]] => m[i] = m[j]
    BY <2>1, <1>2, Zenon DEF IsIndex
  <2> QED
    BY <2>1, <2>2, Zenon
<1> QED
  BY <1>1, <1>6, <1>7, <1>8, <1>9, Zenon DEF IsRemap, S, d, idx, tab

-----------------------------------------------------------------------------
(* IDs of targets. *)

\* The node of an ID is the one whose target has it; -1 if there is none.
LEMMA Resolves ==
    ASSUME NEW g, Input(g), NEW e, IsNodes(g, e.nodes), NEW id \in Nat
    PROVE  /\ \A i \in 0..(Len(g.targets) - 1) :
                 g.targets[e.nodes[i + 1].origIdx].id = id => resolveID(g, e, id) = i
           /\ (\A i \in 0..(Len(g.targets) - 1) : g.targets[e.nodes[i + 1].origIdx].id # id)
                 => resolveID(g, e, id) = -1
<1> DEFINE n == Len(g.targets)
           N == 0..(n - 1)
           orig(i) == g.targets[e.nodes[i + 1].origIdx].id
           top == Max({0} \union {orig(i) : i \in N})
           at == {i \in N : orig(i) = id}
           found == IF at = {} THEN -1 ELSE Max(at)
<1>0. n \in Nat /\ Len(e.nodes) = n
  BY DEF Input, IsNodes
<1>1. ASSUME NEW i \in N PROVE orig(i) \in Nat
  <2>1. i + 1 \in 1..n
    BY <1>0
  <2>2. e.nodes[i + 1].origIdx \in 1..n
    BY <2>1, Zenon DEF IsNodes
  <2> QED
    BY <2>2, Zenon DEF Input
<1>2. \A i, j \in N : orig(i) = orig(j) => i = j
  <2> TAKE i, j \in N
  <2> HAVE orig(i) = orig(j)
  <2>1. i + 1 \in 1..n /\ j + 1 \in 1..n
    BY <1>0
  <2>2. e.nodes[i + 1].origIdx \in 1..n /\ e.nodes[j + 1].origIdx \in 1..n
    BY <2>1, Zenon DEF IsNodes
  <2>3. e.nodes[i + 1].origIdx = e.nodes[j + 1].origIdx
    BY <2>2, Zenon DEF Input
  <2>4. i + 1 = j + 1
    BY <2>1, <2>3, Zenon DEF IsNodes
  <2> QED
    BY <2>4, <1>0
<1>3. top \in Nat /\ \A i \in N : orig(i) <= top
  <2> DEFINE D == {0} \union {orig(i) : i \in N}
             h == [k \in 0..n |-> IF k = 0 THEN 0 ELSE orig(k - 1)]
  <2>1. D \in SUBSET Int /\ 0 \in D /\ \A x \in D : x \in Nat
    <3> HIDE DEF orig
    <3> QED
      BY <1>1
  <2>2. h \in Surjection(0..n, D)
    <3>1. \A k \in 0..n : k # 0 => k - 1 \in N
      BY <1>0
    <3>2. \A i \in N : i + 1 \in 0..n /\ i + 1 # 0 /\ i + 1 - 1 = i
      BY <1>0
    <3> HIDE DEF orig, N
    <3>3. \A k \in 0..n : h[k] \in D
      BY <3>1
    <3>4. \A x \in D : \E k \in 0..n : h[k] = x
      <4> TAKE x \in D
      <4>1. CASE x = 0
        <5>1. 0 \in 0..n /\ h[0] = 0
          BY <1>0
        <5> QED
          BY <4>1, <5>1
      <4>2. CASE x # 0
        <5>1. PICK i \in N : x = orig(i)
          BY <4>2
        <5>2. PICK k \in 0..n : k # 0 /\ k - 1 = i
          BY <1>0 DEF N
        <5>3. h[k] = orig(k - 1)
          BY <5>2
        <5> QED
          BY <5>1, <5>2, <5>3
      <4> QED
        BY <4>1, <4>2
    <3>5. h \in [0..n -> D]
      BY <3>3
    <3> HIDE DEF h, D
    <3> QED
      BY <3>4, <3>5 DEF Surjection
  <2>3. IsFiniteSet(D)
    <3>1. IsFiniteSet(0..n)
      BY <1>0, FS_Interval
    <3> HIDE DEF h, D
    <3> QED
      BY <2>2, <3>1, FS_Surjection
  <2>4. Max(D) \in D /\ \A x \in D : x <= Max(D)
    <3> HIDE DEF D
    <3> QED
      BY <2>1, <2>3, MaxMin, Zenon
  <2>5. \A i \in N : orig(i) \in D
    BY Zenon
  <2> HIDE DEF D
  <2> QED
    BY <2>1, <2>4, <2>5, Zenon DEF D
<1>4. resolveID(g, e, id) = found
  <2> DEFINE sl(x) == IF {i \in N : orig(i) = x} = {} THEN -1 ELSE Max({i \in N : orig(i) = x})
             slice == [x \in 0..top |-> sl(x)]
  <2>1. resolveID(g, e, id) = IF top < 2 * n + DenseSlack
                              THEN IF id \in 0..top THEN slice[id] ELSE -1
                              ELSE found
    BY <1>0 DEF resolveID
  <2>2. sl(id) = found
    OBVIOUS
  <2>3. id \notin 0..top => found = -1
    <3> SUFFICES ASSUME id \notin 0..top PROVE at = {}
      OBVIOUS
    <3> HIDE DEF top, orig, N
    <3> QED
      BY <1>3
  <2>4. id \in 0..top => slice[id] = found
    <3> HIDE DEF sl, found, top
    <3> QED
      BY <2>2
  <2> HIDE DEF slice, found, top
  <2> QED
    BY <2>1, <2>3, <2>4, Zenon
<1>5. ASSUME NEW i \in N, orig(i) = id PROVE found = i
  <2>1. at = {i}
    <3> HIDE DEF orig, N
    <3> QED
      BY <1>2, <1>5
  <2>2. Max({i}) = i
    BY MaxMinOne
  <2> HIDE DEF at
  <2> QED
    BY <2>1, <2>2
<1>6. ASSUME \A i \in N : orig(i) # id PROVE found = -1
  <2>1. at = {}
    BY <1>6, Zenon
  <2> QED
    BY <2>1
<1> QED
  BY <1>4, <1>5, <1>6, Zenon

-----------------------------------------------------------------------------
(* Sorting with repetitions. *)

\* The places of s in the order of its values and then of the places.
IntBefore(s, m) ==
    {p \in (1..m) \X (1..m) : s[p[1]] < s[p[2]] \/ (s[p[1]] = s[p[2]] /\ p[1] < p[2])}

\* Places of a sequence are ordered by their numbers and then by place.
LEMMA IntBeforeOrders ==
    ASSUME NEW m \in Nat, NEW s \in [1..m -> Int]
    PROVE  /\ Orders(1..m, IntBefore(s, m)) /\ Cardinality(1..m) = m
           /\ \A j, k \in 1..m : <<j, k>> \in IntBefore(s, m) <=> s[j] < s[k] \/ (s[j] = s[k] /\ j < k)
<1>1. \A j, k \in 1..m : <<j, k>> \in IntBefore(s, m) <=> s[j] < s[k] \/ (s[j] = s[k] /\ j < k)
  BY DEF IntBefore
<1>2. IsFiniteSet(1..m) /\ Cardinality(1..m) = m
  BY FS_Interval
<1>3. \A j \in 1..m : s[j] \in Int
  OBVIOUS
<1>4. \A j \in 1..m : <<j, j>> \notin IntBefore(s, m)
  BY <1>1, <1>3
<1>5. \A j, k \in 1..m : j # k => <<j, k>> \in IntBefore(s, m) \/ <<k, j>> \in IntBefore(s, m)
  BY <1>1, <1>3
<1>6. \A i, j, k \in 1..m : <<i, j>> \in IntBefore(s, m) /\ <<j, k>> \in IntBefore(s, m) => <<i, k>> \in IntBefore(s, m)
  <2> TAKE i, j, k \in 1..m
  <2>1. s[i] \in Int /\ s[j] \in Int /\ s[k] \in Int
    BY <1>3
  <2>2. \A a, b, c \in Int :
           (a < b \/ (a = b /\ i < j)) /\ (b < c \/ (b = c /\ j < k)) => a < c \/ (a = c /\ i < k)
    OBVIOUS
  <2>3. (s[i] < s[j] \/ (s[i] = s[j] /\ i < j)) /\ (s[j] < s[k] \/ (s[j] = s[k] /\ j < k))
        => s[i] < s[k] \/ (s[i] = s[k] /\ i < k)
    BY <2>1, <2>2, Zenon
  <2> QED
    BY <2>3, <1>1, Zenon
<1> QED
  BY <1>1, <1>2, <1>4, <1>5, <1>6, Zenon DEF Orders

\* t is s in ascending order.
IsAscending(s, m, t) ==
    /\ t \in [1..m -> Int] /\ t \in Seq(Int) /\ Len(t) = m
    /\ \A k \in 1..m : Enumeration(1..m, IntBefore(s, m))[k] \in 1..m
    /\ \A k \in 1..m : t[k] = s[Enumeration(1..m, IntBefore(s, m))[k]]
    /\ \A j \in 1..m : \E k \in 1..m : t[k] = s[j]
    /\ \A j, k \in 1..m : j < k => t[j] <= t[k]

\* SortInts puts the numbers of a sequence into ascending order and loses none.
LEMMA SortsInts ==
    ASSUME NEW m \in Nat, NEW s \in [1..m -> Int]
    PROVE  IsAscending(s, m, SortInts(s))
<1> DEFINE R == IntBefore(s, m)
           q == Enumeration(1..m, R)
           t == SortInts(s)
<1>0. Len(s) = m /\ \A j \in 1..m : s[j] \in Int
  OBVIOUS
<1>1. /\ Orders(1..m, R) /\ Cardinality(1..m) = m
      /\ \A j, k \in 1..m : <<j, k>> \in R <=> s[j] < s[k] \/ (s[j] = s[k] /\ j < k)
  BY IntBeforeOrders, Zenon
<1>2. Lists(q, 1..m, R)
  BY <1>1, EnumerationLists, Zenon
<1>3. /\ q \in [1..m -> 1..m]
      /\ \A x \in 1..m : \E k \in 1..m : q[k] = x
      /\ \A j, k \in 1..m : <<q[j], q[k]>> \in R <=> j < k
  BY <1>1, <1>2, Zenon DEF Lists
<1>4. t = [k \in 1..m |-> s[q[k]]]
  <2> DEFINE before(k) == {j \in 1..Len(s) : s[j] < s[k] \/ (s[j] = s[k] /\ j < k)}
             d(p) == CHOOSE k \in 1..Len(s) : Cardinality(before(k)) = p - 1
             f(p) == CHOOSE k \in 1..m : Rank(1..m, R, k) = p - 1
  <2>1. t = [p \in 1..Len(s) |-> s[d(p)]]
    BY Zenon DEF SortInts
  <2>2. \A k \in 1..m : before(k) = Below(1..m, R, k)
    BY <1>0, <1>1, Zenon DEF Below
  <2>3. \A p \in 1..m : d(p) = f(p)
    BY <1>0, <2>2, Zenon DEF Rank
  <2>4. q = [k \in 1..m |-> f(k)]
    <3>1. q = [k \in 1..Cardinality(1..m) |-> f(k)]
      BY Zenon DEF Enumeration
    <3> HIDE DEF f, q
    <3> QED
      BY <3>1, <1>1
  <2> HIDE DEF t, d, f, q
  <2> QED
    BY <2>1, <2>3, <2>4, <1>0
<1> HIDE DEF q, t, R
<1>5. \A k \in 1..m : q[k] \in 1..m /\ t[k] = s[q[k]] /\ t[k] \in Int
  BY <1>3, <1>4, <1>0
<1>6. t \in [1..m -> Int] /\ t \in Seq(Int) /\ Len(t) = m
  BY <1>4, <1>5
<1>7. \A j \in 1..m : \E k \in 1..m : t[k] = s[j]
  <2> TAKE j \in 1..m
  <2>1. PICK k \in 1..m : q[k] = j
    BY <1>3, Zenon
  <2>2. t[k] = s[j]
    BY <2>1, <1>5, Zenon
  <2> QED
    BY <2>2
<1>8. ASSUME NEW j \in 1..m, NEW k \in 1..m, j < k PROVE t[j] <= t[k]
  <2>1. <<q[j], q[k]>> \in R
    BY <1>3, <1>8
  <2>2. s[q[j]] < s[q[k]] \/ s[q[j]] = s[q[k]]
    BY <2>1, <1>1, <1>5, Zenon
  <2>3. t[j] < t[k] \/ t[j] = t[k]
    BY <2>2, <1>5, Zenon
  <2> QED
    BY <2>3, <1>5
<1> QED
  BY <1>5, <1>6, <1>7, <1>8, Zenon DEF IsAscending, q, t, R

-----------------------------------------------------------------------------
(* The dictionary of packages. *)

\* The dictionaries after each node.
ArePkgDicts(nodes, n, d) ==
    /\ d \in [0..n -> Seq(Seq(Nat))]
    /\ d[0] = <<>>
    /\ \A k \in 1..n : IF k > 1 /\ nodes[k].pkg = nodes[k - 1].pkg
                       THEN d[k] = d[k - 1] ELSE d[k] = Append(d[k - 1], nodes[k].pkg)

\* The package dictionary is built node by node.
LEMMA PkgDictsDef ==
    ASSUME NEW n \in Nat, NEW nodes, Len(nodes) = n, \A k \in 1..n : nodes[k].pkg \in Seq(Nat)
    PROVE  ArePkgDicts(nodes, n, pkgDicts(nodes))
<1> DEFINE X == Seq(Seq(Nat))
           same(k) == k > 1 /\ nodes[k].pkg = nodes[k - 1].pkg
           Eq(f) == f = [k \in 0..n |-> IF k = 0 THEN <<>>
                                        ELSE IF same(k) THEN f[k - 1]
                                        ELSE Append(f[k - 1], nodes[k].pkg)]
<1>0. <<>> \in X /\ \A d \in X, p \in Seq(Nat) : Append(d, p) \in X
  OBVIOUS
<1>1. \E f : Eq(f)
  <2> DEFINE nx(d, k) == IF same(k) THEN d ELSE Append(d, nodes[k].pkg)
             step == [p \in X \X (1..n) |-> nx(p[1], p[2])]
  <2>a. \A d \in X, k \in 1..n : nx(d, k) \in X
    BY <1>0, Zenon
  <2>1. step \in [X \X (1..n) -> X]
    <3> HIDE DEF nx, X
    <3> QED
      BY <2>a
  <2>3. \A d \in X : \A k \in 1..n : step[<<d, k>>] = nx(d, k)
    <3> HIDE DEF nx, X
    <3> QED
      OBVIOUS
  <2>2. PICK f : StepByStep(f, X, n, <<>>, step)
    <3> HIDE DEF step, X
    <3> QED
      BY <2>1, <1>0, Recursion
  <2>4. ASSUME NEW k \in 1..n PROVE f[k] = nx(f[k - 1], k)
    <3> HIDE DEF X, step, nx
    <3>1. f[k - 1] \in X
      BY <2>2 DEF StepByStep
    <3>2. f[k] = step[<<f[k - 1], k>>]
      BY <2>2, Zenon DEF StepByStep
    <3> QED
      BY <3>1, <3>2, <2>3
  <2>5. Eq(f)
    <3> DEFINE v(k) == IF k = 0 THEN <<>> ELSE nx(f[k - 1], k)
    <3>1. \A k \in 0..n : f[k] = v(k)
      <4> HIDE DEF step, nx, X
      <4>1. \A k \in 0..n : k = 0 \/ (k \in 1..n /\ k # 0)
        OBVIOUS
      <4>2. f[0] = <<>>
        BY <2>2, Zenon DEF StepByStep
      <4> QED
        BY <4>1, <4>2, <2>4, Zenon
    <3>2. f = [k \in 0..n |-> v(k)]
      <4> HIDE DEF v, step, X
      <4>1. f \in [0..n -> X]
        BY <2>2, Zenon DEF StepByStep
      <4> QED
        BY <3>1, <4>1
    <3> QED
      BY <3>2, Zenon
  <2> QED
    BY <2>5
<1> DEFINE g == pkgDicts(nodes)
<1>2. g = CHOOSE f : Eq(f)
  BY Zenon DEF pkgDicts
<1>3. Eq(g)
  BY <1>1, <1>2, Zenon
<1> HIDE DEF g
<1>4. g[0] = <<>> /\ \A k \in 1..n : g[k] = IF same(k) THEN g[k - 1] ELSE Append(g[k - 1], nodes[k].pkg)
  <2> DEFINE v(k) == IF k = 0 THEN <<>> ELSE IF same(k) THEN g[k - 1] ELSE Append(g[k - 1], nodes[k].pkg)
  <2>1. \A k \in 0..n : g[k] = v(k)
    <3>1. g = [k \in 0..n |-> v(k)]
      BY <1>3, Zenon
    <3> HIDE DEF v
    <3> QED
      BY <3>1
  <2>2. 0 \in 0..n /\ \A k \in 1..n : k \in 0..n /\ k # 0
    OBVIOUS
  <2> QED
    BY <2>1, <2>2, Zenon
<1>5. \A k \in 0..n : g[k] \in X
  <2> DEFINE T == {k \in 0..n : g[k] \in X}
  <2>1. 0 \in T
    <3>1. 0 \in 0..n
      OBVIOUS
    <3> QED
      BY <1>4, <1>0, <3>1, Zenon
  <2>2. ASSUME NEW k \in 1..n, k - 1 \in T PROVE k \in T
    <3>1. k \in 0..n
      OBVIOUS
    <3> QED
      BY <3>1, <1>4, <1>0, <2>2, Zenon
  <2>3. \A k \in 0..n : k \in T
    <3> HIDE DEF T
    <3> QED
      BY <2>1, <2>2, UpTo
  <2> QED
    BY <2>3, Zenon
<1>6. g \in [0..n -> X]
  <2> DEFINE v(k) == IF k = 0 THEN <<>> ELSE IF same(k) THEN g[k - 1] ELSE Append(g[k - 1], nodes[k].pkg)
  <2>1. g = [k \in 0..n |-> v(k)]
    BY <1>3, Zenon
  <2> HIDE DEF v, X
  <2> QED
    BY <2>1, <1>5
<1> QED
  BY <1>4, <1>6, Zenon DEF ArePkgDicts, g

\* The packages of two lists of nodes that agree in them are the same.
LEMMA SamePkgs ==
    ASSUME NEW n \in Nat, NEW a, NEW b, Len(a) = n, Len(b) = n,
           \A k \in 1..n : a[k].pkg \in Seq(Nat) /\ b[k].pkg = a[k].pkg
    PROVE  pkgDicts(a) = pkgDicts(b) /\ pkgDictOf(a) = pkgDictOf(b) /\ pkgIDsOf(a) = pkgIDsOf(b)
<1> DEFINE c == pkgDicts(a)
           d == pkgDicts(b)
<1>0. \A k \in 1..n : b[k].pkg \in Seq(Nat)
  BY Zenon
<1>1. ArePkgDicts(a, n, c) /\ ArePkgDicts(b, n, d)
  BY <1>0, PkgDictsDef, Zenon
<1> HIDE DEF c, d
<1>2. \A k \in 0..n : c[k] = d[k]
  <2> DEFINE T == {k \in 0..n : c[k] = d[k]}
  <2>1. 0 \in T
    <3>1. 0 \in 0..n
      OBVIOUS
    <3> QED
      BY <3>1, <1>1, Zenon DEF ArePkgDicts
  <2>2. ASSUME NEW k \in 1..n, k - 1 \in T PROVE k \in T
    <3>1. k \in 0..n /\ (k > 1 => k - 1 \in 1..n)
      OBVIOUS
    <3>2. k > 1 /\ a[k].pkg = a[k - 1].pkg <=> k > 1 /\ b[k].pkg = b[k - 1].pkg
      BY <3>1, Zenon
    <3>3. c[k - 1] = d[k - 1]
      BY <2>2, Zenon
    <3>4. c[k] = d[k]
      BY <3>2, <3>3, <1>1, Zenon DEF ArePkgDicts
    <3> QED
      BY <3>1, <3>4, Zenon
  <2>3. \A k \in 0..n : k \in T
    <3> HIDE DEF T
    <3> QED
      BY <2>1, <2>2, UpTo
  <2> QED
    BY <2>3, Zenon
<1>3. c = d
  <2>1. c \in [0..n -> Seq(Seq(Nat))] /\ d \in [0..n -> Seq(Seq(Nat))]
    BY <1>1, Zenon DEF ArePkgDicts
  <2> QED
    BY <2>1, <1>2
<1> QED
  BY <1>3, Zenon DEF pkgDictOf, pkgIDsOf, c, d

-----------------------------------------------------------------------------
(* Targets. *)

\* What is known of a target of a graph.
IsTarget(t) ==
    /\ DOMAIN t = {"id", "hash", "ruleType", "deps", "tags", "attrs", "root", "ext"}
    /\ t.id \in Nat /\ t.ruleType \in Nat
    /\ t.hash = Nil \/ t.hash \in Seq(Nat)
    /\ t.deps \in Seq(Nat) /\ t.tags \in Seq(Nat)
    /\ IsFiniteSet(DOMAIN t.attrs) /\ t.attrs \in [DOMAIN t.attrs -> Nat]
    /\ t.root \in BOOLEAN /\ t.ext \in BOOLEAN

\* The targets of an input have the fields that Encode reads.
LEMMA Targets ==
    ASSUME NEW g, Input(g)
    PROVE  \A k \in 1..Len(g.targets) : IsTarget(g.targets[k])
  BY Zenon DEF Input, IsTarget

-----------------------------------------------------------------------------
(* Attributes. *)

\* An attribute by its IDs, the attributes of a target, and their order.
AttrAt(e, t, a) == [name |-> e.attrName[a], val |-> e.attrVal[t.attrs[a]]]

AttrSet(e, t) == {AttrAt(e, t, a) : a \in DOMAIN t.attrs}

LessName(S) == {p \in S \X S : p[1].name < p[2].name}

\* The attributes of a target can be encoded.
AttrsOk(e, t) ==
    /\ IsFiniteSet(DOMAIN t.attrs)
    /\ \A a \in DOMAIN t.attrs : e.attrName[a] \in Nat /\ e.attrVal[t.attrs[a]] \in Nat
    /\ \A a, b \in DOMAIN t.attrs : e.attrName[a] = e.attrName[b] => a = b

\* kvs are the attributes of t, by name.
IsAttrs(e, t, kvs) ==
    /\ Len(kvs) \in Nat /\ kvs \in Seq(AttrSet(e, t))
    /\ \A k \in 1..Len(kvs) : \E a \in DOMAIN t.attrs :
          kvs[k].name = e.attrName[a] /\ kvs[k].val = e.attrVal[t.attrs[a]]
    /\ \A a \in DOMAIN t.attrs : \E k \in 1..Len(kvs) :
          kvs[k].name = e.attrName[a] /\ kvs[k].val = e.attrVal[t.attrs[a]]
    /\ \A k \in 1..Len(kvs) : kvs[k].name \in Nat /\ kvs[k].val \in Nat
    /\ \A j, k \in 1..Len(kvs) : kvs[j].name < kvs[k].name <=> j < k
    /\ \A j, k \in 1..Len(kvs) : kvs[j].name = kvs[k].name => j = k

\* SortedAttrs lists every attribute once, by the ID of its name.
LEMMA SortsAttrs ==
    ASSUME NEW e, NEW t, AttrsOk(e, t)
    PROVE  IsAttrs(e, t, SortedAttrs(e, t))
<1> DEFINE S == AttrSet(e, t)
           R == LessName(S)
           q == Enumeration(S, R)
           c == Cardinality(S)
<1>1. ASSUME NEW a \in DOMAIN t.attrs
      PROVE  /\ AttrAt(e, t, a) \in S
             /\ AttrAt(e, t, a).name = e.attrName[a] /\ AttrAt(e, t, a).val = e.attrVal[t.attrs[a]]
  BY DEF AttrSet, AttrAt
<1>2. ASSUME NEW x \in S
      PROVE  \E a \in DOMAIN t.attrs :
                x = AttrAt(e, t, a) /\ x.name = e.attrName[a] /\ x.val = e.attrVal[t.attrs[a]]
  <2>1. PICK a \in DOMAIN t.attrs : x = AttrAt(e, t, a)
    BY Zenon DEF AttrSet
  <2> QED
    BY <2>1, <1>1, Zenon
<1>3. \A x \in S : x.name \in Nat /\ x.val \in Nat
  BY <1>2, Zenon DEF AttrsOk
<1>4. \A x, y \in S : x.name = y.name => x = y
  <2> TAKE x, y \in S
  <2> HAVE x.name = y.name
  <2>1. PICK a \in DOMAIN t.attrs : x = AttrAt(e, t, a) /\ x.name = e.attrName[a]
    BY <1>2, Zenon
  <2>2. PICK b \in DOMAIN t.attrs : y = AttrAt(e, t, b) /\ y.name = e.attrName[b]
    BY <1>2, Zenon
  <2>3. a = b
    BY <2>1, <2>2, Zenon DEF AttrsOk
  <2> QED
    BY <2>1, <2>2, <2>3, Zenon
<1>5. \A x, y \in S : <<x, y>> \in R <=> x.name < y.name
  <2> HIDE DEF S
  <2> QED
    BY DEF LessName
<1>6. IsFiniteSet(S)
  <2> DEFINE f == [a \in DOMAIN t.attrs |-> AttrAt(e, t, a)]
  <2>1. f \in Surjection(DOMAIN t.attrs, S)
    <3>1. f \in [DOMAIN t.attrs -> S]
      BY <1>1
    <3>2. \A x \in S : \E a \in DOMAIN t.attrs : f[a] = x
      BY <1>2
    <3> HIDE DEF f, S
    <3> QED
      BY <3>1, <3>2 DEF Surjection
  <2>2. IsFiniteSet(DOMAIN t.attrs)
    BY DEF AttrsOk
  <2> HIDE DEF f, S
  <2> QED
    BY <2>1, <2>2, FS_Surjection
<1>7. Orders(S, R)
  <2> HIDE DEF S, R
  <2>1. \A x \in S : <<x, x>> \notin R
    BY <1>3, <1>5
  <2>2. \A x, y \in S : x # y => <<x, y>> \in R \/ <<y, x>> \in R
    <3> TAKE x, y \in S
    <3> HAVE x # y
    <3>1. x.name \in Nat /\ y.name \in Nat /\ x.name # y.name
      BY <1>3, <1>4, Zenon
    <3>2. x.name < y.name \/ y.name < x.name
      BY <3>1
    <3> QED
      BY <3>2, <1>5, Zenon
  <2>3. \A x, y, z \in S : <<x, y>> \in R /\ <<y, z>> \in R => <<x, z>> \in R
    <3> TAKE x, y, z \in S
    <3> HAVE <<x, y>> \in R /\ <<y, z>> \in R
    <3>1. x.name \in Nat /\ y.name \in Nat /\ z.name \in Nat /\ x.name < y.name /\ y.name < z.name
      BY <1>3, <1>5, Zenon
    <3>2. x.name < z.name
      BY <3>1
    <3> QED
      BY <3>2, <1>5, Zenon
  <2> QED
    BY <2>1, <2>2, <2>3, <1>6, Zenon DEF Orders
<1>8. SortedAttrs(e, t) = q
  <2> DEFINE d(k) == CHOOSE x \in S : Cardinality({y \in S : y.name < x.name}) = k - 1
             f(k) == CHOOSE x \in S : Rank(S, R, x) = k - 1
  <2>0. \A x \in S : {y \in S : y.name < x.name} = Below(S, R, x)
    BY <1>5, Zenon DEF Below
  <2>1. \A k \in 1..c : d(k) = f(k)
    BY <2>0, Zenon DEF Rank
  <2>2. SortedAttrs(e, t) = [k \in 1..c |-> d(k)]
    BY Zenon DEF SortedAttrs, SortedSeq, AttrSet, AttrAt
  <2>3. Enumeration(S, R) = [k \in 1..c |-> f(k)]
    BY Zenon DEF Enumeration
  <2> HIDE DEF c, d, f, R, S
  <2> QED
    BY <2>1, <2>2, <2>3
<1>9. Lists(q, S, R)
  BY <1>7, EnumerationLists, Zenon
<1> HIDE DEF q, R, S
<1>10. /\ c \in Nat /\ q \in [1..c -> S]
       /\ \A x \in S : \E k \in 1..c : q[k] = x
       /\ \A j, k \in 1..c : <<q[j], q[k]>> \in R <=> j < k
       /\ \A j, k \in 1..c : q[j] = q[k] => j = k
  BY <1>9, Zenon DEF Lists
<1> HIDE DEF c
<1>11. Len(q) = c /\ q \in Seq(S) /\ \A k \in 1..c : q[k] \in S
  BY <1>10
<1>12. \A k \in 1..c : \E a \in DOMAIN t.attrs : q[k].name = e.attrName[a] /\ q[k].val = e.attrVal[t.attrs[a]]
  BY <1>2, <1>11, Zenon
<1>13. \A a \in DOMAIN t.attrs : \E k \in 1..c : q[k].name = e.attrName[a] /\ q[k].val = e.attrVal[t.attrs[a]]
  <2> TAKE a \in DOMAIN t.attrs
  <2>1. PICK k \in 1..c : q[k] = AttrAt(e, t, a)
    BY <1>1, <1>10, Zenon
  <2> QED
    BY <2>1, <1>1, Zenon
<1>14. \A j, k \in 1..c : q[j].name < q[k].name <=> j < k
  BY <1>5, <1>10, <1>11, Zenon
<1>15. \A j, k \in 1..c : q[j].name = q[k].name => j = k
  BY <1>4, <1>10, <1>11, Zenon
<1>16. \A k \in 1..c : q[k].name \in Nat /\ q[k].val \in Nat
  BY <1>3, <1>11, Zenon
<1> QED
  <2>1. c = Len(q)
    BY <1>11
  <2>2. IsAttrs(e, t, q)
    <3> DEFINE L == Len(q)
    <3>1. L \in Nat /\ q \in Seq(AttrSet(e, t)) /\ c = L
      BY <2>1, <1>10, <1>11 DEF S
    <3> HIDE DEF L
    <3>2. /\ \A k \in 1..L : \E a \in DOMAIN t.attrs : q[k].name = e.attrName[a] /\ q[k].val = e.attrVal[t.attrs[a]]
          /\ \A a \in DOMAIN t.attrs : \E k \in 1..L : q[k].name = e.attrName[a] /\ q[k].val = e.attrVal[t.attrs[a]]
          /\ \A j, k \in 1..L : q[j].name < q[k].name <=> j < k
          /\ \A j, k \in 1..L : q[j].name = q[k].name => j = k
          /\ \A k \in 1..L : q[k].name \in Nat /\ q[k].val \in Nat
      BY <3>1, <1>12, <1>13, <1>14, <1>15, <1>16
    <3> QED
      BY <3>1, <3>2, Zenon DEF IsAttrs, L
  <2> QED
    BY <1>8, <2>2, Zenon

-----------------------------------------------------------------------------
(* The encoder of a graph. *)

\* The names of the nodes.
Names(nodes) == {nodes[k].name : k \in 1..Len(nodes)}

\* Nodes, dictionaries and tables that fit the graph.
IsEncoder(g, e) ==
    /\ e.nodes = buildNodes(g) /\ IsNodes(g, e.nodes)
    /\ e.dict.pkg = pkgDictOf(e.nodes)
    /\ IsDict(e.dict.name, Names(e.nodes)) /\ IsIndex(e.nameIdx, e.dict.name, Names(e.nodes))
    /\ IsRemap(g.meta.ruleTypes, e.dict.ruleType, e.ruleType)
    /\ IsRemap(g.meta.tags, e.dict.tag, e.tag)
    /\ IsRemap(g.meta.attrNames, e.dict.attrName, e.attrName)
    /\ IsRemap(g.meta.attrVals, e.dict.attrVal, e.attrVal)

\* newEncoder gives nodes, dictionaries and tables that fit the graph.
LEMMA NewEncoder ==
    ASSUME NEW g, Input(g), Labelled(g)
    PROVE  IsEncoder(g, newEncoder(g))
<1> DEFINE nodes == buildNodes(g)
           nm == SortedSeq(Names(nodes), LexLess)
           rt == sortedUniqueStrings(g.meta.ruleTypes)
           tg == sortedUniqueStrings(g.meta.tags)
           an == sortedUniqueStrings(g.meta.attrNames)
           av == sortedUniqueStrings(g.meta.attrVals)
           dict == [pkg |-> pkgDictOf(nodes), name |-> nm, ruleType |-> rt, tag |-> tg,
                    attrName |-> an, attrVal |-> av]
           e == newEncoder(g)
<1>1. IsNodes(g, nodes)
  BY BuildsNodes, Zenon
<1>2. IsDict(nm, Names(nodes)) /\ IsIndex(buildStrIndex(nm), nm, Names(nodes))
  <2>1. Names(nodes) \in SUBSET Seq(Nat) /\ IsFiniteSet(Names(nodes))
    <3> HIDE DEF nodes
    <3>0. Len(g.targets) \in Nat /\ Len(nodes) = Len(g.targets)
      BY <1>1 DEF IsNodes, Input
    <3>1. \A k \in 1..Len(nodes) : nodes[k].name \in Seq(Nat)
      BY <3>0, <1>1, Zenon DEF IsNodes, IsNode
    <3> DEFINE f == [k \in 1..Len(nodes) |-> nodes[k].name]
    <3>2. f \in Surjection(1..Len(nodes), Names(nodes))
      BY DEF Surjection, Names
    <3>3. IsFiniteSet(1..Len(nodes))
      BY <3>0, FS_Interval
    <3>4. IsFiniteSet(Names(nodes))
      <4> HIDE DEF f
      <4> QED
        BY <3>2, <3>3, FS_Surjection
    <3> QED
      BY <3>1, <3>4, Zenon DEF Names
  <2>2. IsDict(nm, Names(nodes))
    <3> DEFINE S == Names(nodes)
    <3> HIDE DEF S
    <3>1. IsDict(SortedSeq(S, LexLess), S)
      BY <2>1, SortsStrings, Zenon DEF S
    <3> QED
      BY <3>1, Zenon DEF S
  <2> HIDE DEF nm
  <2> QED
    BY <2>2, BuildsIndex, Zenon
<1>3. /\ IsRemap(g.meta.ruleTypes, rt, remapTable(g.meta.ruleTypes, buildStrIndex(rt)))
      /\ IsRemap(g.meta.tags, tg, remapTable(g.meta.tags, buildStrIndex(tg)))
      /\ IsRemap(g.meta.attrNames, an, remapTable(g.meta.attrNames, buildStrIndex(an)))
      /\ IsRemap(g.meta.attrVals, av, remapTable(g.meta.attrVals, buildStrIndex(av)))
  BY Remaps, Zenon DEF Input
<1>4. e = [nodes    |-> nodes,
           dict     |-> dict,
           nameIdx  |-> buildStrIndex(nm),
           ruleType |-> remapTable(g.meta.ruleTypes, buildStrIndex(rt)),
           tag      |-> remapTable(g.meta.tags, buildStrIndex(tg)),
           attrName |-> remapTable(g.meta.attrNames, buildStrIndex(an)),
           attrVal  |-> remapTable(g.meta.attrVals, buildStrIndex(av))]
  <2>1. buildDicts(g, nodes) = dict
    BY Zenon DEF buildDicts, Names
  <2> QED
    BY <2>1 DEF newEncoder
<1> HIDE DEF e, nodes, nm, rt, tg, an, av
<1>5. /\ e.nodes = nodes
      /\ e.dict.pkg = pkgDictOf(nodes) /\ e.dict.name = nm /\ e.dict.ruleType = rt /\ e.dict.tag = tg
      /\ e.dict.attrName = an /\ e.dict.attrVal = av
      /\ e.nameIdx = buildStrIndex(nm)
      /\ e.ruleType = remapTable(g.meta.ruleTypes, buildStrIndex(rt))
      /\ e.tag = remapTable(g.meta.tags, buildStrIndex(tg))
      /\ e.attrName = remapTable(g.meta.attrNames, buildStrIndex(an))
      /\ e.attrVal = remapTable(g.meta.attrVals, buildStrIndex(av))
  BY <1>4
<1> QED
  BY <1>1, <1>2, <1>3, <1>5, Zenon DEF IsEncoder, e, nodes

-----------------------------------------------------------------------------
(* What is refused of a node, and what is encoded. *)

\* The target of node i, and the IDs of the targets.
TargetAt(g, e, i) == g.targets[e.nodes[i + 1].origIdx]

IDs(g) == {g.targets[j].id : j \in 1..Len(g.targets)}

\* Everything the target refers to is there.
TargetOk(g, t) ==
    /\ t.ruleType \in DOMAIN g.meta.ruleTypes
    /\ HashOk(t.hash)
    /\ ToSet(t.deps) \subseteq IDs(g)
    /\ ToSet(t.tags) \subseteq DOMAIN g.meta.tags
    /\ \A a \in DOMAIN t.attrs : a \in DOMAIN g.meta.attrNames /\ t.attrs[a] \in DOMAIN g.meta.attrVals

\* A graph is well formed when its targets have labels and every node can be encoded.
LEMMA WellFormedTargets ==
    ASSUME NEW g
    PROVE  WellFormed(g) <=> Labelled(g) /\ \A k \in 1..Len(g.targets) : TargetOk(g, g.targets[k])
  BY Zenon DEF WellFormed, Labelled, TargetOk, IDs

\* The node of the target of an ID.
LEMMA ResolvesIDs ==
    ASSUME NEW g, Input(g), NEW e, IsNodes(g, e.nodes), NEW id \in Nat
    PROVE  /\ id \in IDs(g) => /\ resolveID(g, e, id) \in 0..(Len(g.targets) - 1)
                               /\ TargetAt(g, e, resolveID(g, e, id)).id = id
           /\ id \notin IDs(g) => resolveID(g, e, id) = -1
<1> DEFINE n == Len(g.targets)
           r == resolveID(g, e, id)
<1>0. n \in Nat
  BY DEF Input
<1>1. ASSUME id \in IDs(g) PROVE r \in 0..(n - 1) /\ TargetAt(g, e, r).id = id
  <2>1. PICK j \in 1..n : g.targets[j].id = id
    BY <1>1, Zenon DEF IDs
  <2>2. PICK k \in 1..n : e.nodes[k].origIdx = j
    BY Zenon DEF IsNodes
  <2>3. k - 1 \in 0..(n - 1) /\ k - 1 + 1 = k
    BY <1>0
  <2>4. g.targets[e.nodes[k - 1 + 1].origIdx].id = id
    BY <2>1, <2>2, <2>3, Zenon
  <2>5. r = k - 1
    BY <2>3, <2>4, Resolves, Zenon
  <2> HIDE DEF r
  <2> QED
    BY <2>3, <2>4, <2>5, Zenon DEF TargetAt
<1>2. ASSUME id \notin IDs(g) PROVE r = -1
  <2>1. \A i \in 0..(n - 1) : g.targets[e.nodes[i + 1].origIdx].id # id
    <3> TAKE i \in 0..(n - 1)
    <3>1. i + 1 \in 1..n
      BY <1>0
    <3>2. e.nodes[i + 1].origIdx \in 1..n
      BY <3>1, Zenon DEF IsNodes
    <3> QED
      BY <3>2, <1>2, Zenon DEF IDs
  <2> QED
    BY <2>1, Resolves, Zenon
<1> QED
  BY <1>1, <1>2, Zenon

\* A node is refused exactly when something it refers to is missing or its hash is unusable.
LEMMA NodeErrors ==
    ASSUME NEW g, Input(g), NEW e, IsEncoder(g, e), NEW t, IsTarget(t)
    PROVE  NodeError(g, e, t) = "none" <=> TargetOk(g, t)
<1>1. /\ DOMAIN e.ruleType = DOMAIN g.meta.ruleTypes /\ DOMAIN e.tag = DOMAIN g.meta.tags
      /\ DOMAIN e.attrName = DOMAIN g.meta.attrNames /\ DOMAIN e.attrVal = DOMAIN g.meta.attrVals
      /\ IsNodes(g, e.nodes)
  BY Zenon DEF IsEncoder, IsRemap
<1>2. /\ \A k \in 1..Len(t.deps) : t.deps[k] \in Nat
      /\ DOMAIN t.deps = 1..Len(t.deps) /\ DOMAIN t.tags = 1..Len(t.tags)
  BY DEF IsTarget
<1> DEFINE A == t.ruleType \notin DOMAIN g.meta.ruleTypes
           B == ~HashOk(t.hash)
           C == \E k \in 1..Len(t.deps) : resolveID(g, e, t.deps[k]) < 0
           D == \E k \in 1..Len(t.tags) : t.tags[k] \notin DOMAIN g.meta.tags
           E == \E a \in DOMAIN t.attrs : a \notin DOMAIN g.meta.attrNames \/ t.attrs[a] \notin DOMAIN g.meta.attrVals
<1>3. C <=> ~(ToSet(t.deps) \subseteq IDs(g))
  <2>1. ASSUME NEW k \in 1..Len(t.deps) PROVE resolveID(g, e, t.deps[k]) < 0 <=> t.deps[k] \notin IDs(g)
    <3>0. Len(g.targets) \in Nat
      BY DEF Input
    <3>1. CASE t.deps[k] \in IDs(g)
      <4>1. resolveID(g, e, t.deps[k]) \in 0..(Len(g.targets) - 1)
        BY <3>1, <1>1, <1>2, ResolvesIDs
      <4> QED
        BY <3>1, <4>1, <3>0
    <3>2. CASE t.deps[k] \notin IDs(g)
      <4>1. resolveID(g, e, t.deps[k]) = -1
        BY <3>2, <1>1, <1>2, ResolvesIDs
      <4> QED
        BY <3>2, <4>1
    <3> QED
      BY <3>1, <3>2
  <2>2. ToSet(t.deps) \subseteq IDs(g) <=> \A k \in 1..Len(t.deps) : t.deps[k] \in IDs(g)
    BY <1>2, Zenon DEF ToSet
  <2> QED
    BY <2>1, <2>2, Zenon
<1>4. D <=> ~(ToSet(t.tags) \subseteq DOMAIN g.meta.tags)
  BY <1>2, Zenon DEF ToSet
<1>5. TargetOk(g, t) <=> ~A /\ ~B /\ ~C /\ ~D /\ ~E
  BY <1>3, <1>4, Zenon DEF TargetOk
<1>6. NodeError(g, e, t) = CASE A -> "rule type" [] B -> "hash" [] C -> "dependency" [] D -> "tag"
                             [] E -> "attribute" [] OTHER -> "none"
  BY <1>1, Zenon DEF NodeError
<1> HIDE DEF A, B, C, D, E
<1> QED
  BY <1>5, <1>6

\* The node of a target's dependencies and the IDs of its tags.
NodeDeps(g, e, t) == [k \in 1..Len(t.deps) |-> resolveID(g, e, t.deps[k])]

\* The IDs of a target's tags in the dictionary.
NodeTags(e, t) == [k \in 1..Len(t.tags) |-> e.tag[t.tags[k]]]

\* A target whose parts are numbers of dictionaries and nodes.
IsResolved(g, e, t) ==
    /\ Len(t.deps) \in Nat /\ NodeDeps(g, e, t) \in [1..Len(t.deps) -> Int]
    /\ \A k \in 1..Len(t.deps) : NodeDeps(g, e, t)[k] \in 0..(Len(g.targets) - 1)
                                 /\ TargetAt(g, e, NodeDeps(g, e, t)[k]).id = t.deps[k]
    /\ Len(t.tags) \in Nat /\ NodeTags(e, t) \in [1..Len(t.tags) -> Int]
    /\ \A k \in 1..Len(t.tags) : NodeTags(e, t)[k] \in 0..(Len(e.dict.tag) - 1)
                                 /\ e.dict.tag[NodeTags(e, t)[k] + 1] = g.meta.tags[t.tags[k]]
    /\ IsAscending(NodeDeps(g, e, t), Len(t.deps), SortInts(NodeDeps(g, e, t)))
    /\ IsAscending(NodeTags(e, t), Len(t.tags), SortInts(NodeTags(e, t)))
    /\ IsAttrs(e, t, SortedAttrs(e, t))
    /\ e.ruleType[t.ruleType] \in 0..(Len(e.dict.ruleType) - 1)
    /\ e.dict.ruleType[e.ruleType[t.ruleType] + 1] = g.meta.ruleTypes[t.ruleType]

\* Dependencies, tags, attributes and the rule type of a target that is not refused resolve.
LEMMA TargetsResolve ==
    ASSUME NEW g, Input(g), NEW e, IsEncoder(g, e), NEW t, IsTarget(t), TargetOk(g, t)
    PROVE  IsResolved(g, e, t)
<1> DEFINE n == Len(g.targets)
           d == NodeDeps(g, e, t)
           s == NodeTags(e, t)
<1>0. n \in Nat /\ Len(t.deps) \in Nat /\ Len(t.tags) \in Nat
  BY DEF Input, IsTarget
<1>1. ASSUME NEW k \in 1..Len(t.deps) PROVE d[k] \in 0..(n - 1) /\ TargetAt(g, e, d[k]).id = t.deps[k]
  <2>1. t.deps[k] \in Nat
    BY DEF IsTarget
  <2>2. t.deps[k] \in IDs(g)
    <3>1. DOMAIN t.deps = 1..Len(t.deps)
      BY DEF IsTarget
    <3> QED
      BY <3>1, Zenon DEF TargetOk, ToSet
  <2>3. IsNodes(g, e.nodes)
    BY DEF IsEncoder
  <2>4. d[k] = resolveID(g, e, t.deps[k])
    BY DEF NodeDeps
  <2> QED
    <3>1. /\ resolveID(g, e, t.deps[k]) \in 0..(n - 1)
          /\ TargetAt(g, e, resolveID(g, e, t.deps[k])).id = t.deps[k]
      BY <2>1, <2>2, <2>3, ResolvesIDs, Zenon
    <3> HIDE DEF d
    <3> QED
      BY <3>1, <2>4, Zenon
<1>2. d \in [1..Len(t.deps) -> Int]
  <2>1. \A k \in 1..Len(t.deps) : d[k] \in Int
    BY <1>0, <1>1
  <2>2. d = [k \in 1..Len(t.deps) |-> d[k]]
    BY DEF NodeDeps
  <2> HIDE DEF d
  <2> QED
    BY <2>1, <2>2
<1>3. ASSUME NEW k \in 1..Len(t.tags)
      PROVE  s[k] \in 0..(Len(e.dict.tag) - 1) /\ e.dict.tag[s[k] + 1] = g.meta.tags[t.tags[k]]
  <2>1. t.tags[k] \in DOMAIN g.meta.tags
    <3>1. DOMAIN t.tags = 1..Len(t.tags)
      BY DEF IsTarget
    <3> QED
      BY <3>1, Zenon DEF TargetOk, ToSet
  <2>2. s[k] = e.tag[t.tags[k]]
    BY DEF NodeTags
  <2>3. IsRemap(g.meta.tags, e.dict.tag, e.tag)
    BY DEF IsEncoder
  <2> QED
    BY <2>1, <2>2, <2>3, Zenon DEF IsRemap
<1>4. s \in [1..Len(t.tags) -> Int]
  <2>1. \A k \in 1..Len(t.tags) : s[k] \in Int
    <3>1. Len(e.dict.tag) \in Nat
      BY DEF IsEncoder, IsRemap, IsDict
    <3> QED
      BY <1>3, <3>1
  <2>2. s = [k \in 1..Len(t.tags) |-> s[k]]
    BY DEF NodeTags
  <2> HIDE DEF s
  <2> QED
    BY <2>1, <2>2
<1>5. IsAscending(d, Len(t.deps), SortInts(d)) /\ IsAscending(s, Len(t.tags), SortInts(s))
  <2> HIDE DEF d, s
  <2> QED
    BY <1>0, <1>2, <1>4, SortsInts, Zenon
<1>6. IsAttrs(e, t, SortedAttrs(e, t))
  <2>1. /\ IsRemap(g.meta.attrNames, e.dict.attrName, e.attrName)
        /\ IsRemap(g.meta.attrVals, e.dict.attrVal, e.attrVal)
        /\ Len(e.dict.attrName) \in Nat /\ Len(e.dict.attrVal) \in Nat
    BY Zenon DEF IsEncoder, IsRemap, IsDict
  <2>2. ASSUME NEW a \in DOMAIN t.attrs PROVE e.attrName[a] \in Nat /\ e.attrVal[t.attrs[a]] \in Nat
    <3>1. a \in DOMAIN g.meta.attrNames /\ t.attrs[a] \in DOMAIN g.meta.attrVals
      BY Zenon DEF TargetOk
    <3>2. e.attrName[a] \in 0..(Len(e.dict.attrName) - 1) /\ e.attrVal[t.attrs[a]] \in 0..(Len(e.dict.attrVal) - 1)
      BY <3>1, <2>1, Zenon DEF IsRemap
    <3> QED
      BY <3>2, <2>1
  <2>3. ASSUME NEW a \in DOMAIN t.attrs, NEW b \in DOMAIN t.attrs, e.attrName[a] = e.attrName[b] PROVE a = b
    <3>1. a \in DOMAIN g.meta.attrNames /\ b \in DOMAIN g.meta.attrNames
      BY Zenon DEF TargetOk
    <3>2. g.meta.attrNames[a] = g.meta.attrNames[b]
      BY <3>1, <2>1, <2>3, Zenon DEF IsRemap
    <3>3. Distinct(g.meta.attrNames)
      BY DEF Input
    <3> QED
      BY <3>1, <3>2, <3>3, Zenon DEF Distinct
  <2>4. IsFiniteSet(DOMAIN t.attrs)
    BY DEF IsTarget
  <2>5. AttrsOk(e, t)
    BY <2>2, <2>3, <2>4, Zenon DEF AttrsOk
  <2> QED
    BY <2>5, SortsAttrs, Zenon
<1>7. /\ e.ruleType[t.ruleType] \in 0..(Len(e.dict.ruleType) - 1)
      /\ e.dict.ruleType[e.ruleType[t.ruleType] + 1] = g.meta.ruleTypes[t.ruleType]
  BY Zenon DEF IsEncoder, IsRemap, TargetOk
<1> QED
  BY <1>0, <1>1, <1>2, <1>3, <1>4, <1>5, <1>6, <1>7, Zenon DEF IsResolved

-----------------------------------------------------------------------------
(* A graph whose targets are numbered by their nodes. *)

\* The ID that Renumbered gives to a target.
NewID(g, id) == CHOOSE k \in 1..Len(buildNodes(g)) : g.targets[buildNodes(g)[k].origIdx].id = id

\* The same target under its new ID.
SameTarget(g, t, u, k) ==
    /\ DOMAIN u = DOMAIN t
    /\ u.id = k
    /\ u.hash = t.hash /\ u.ruleType = t.ruleType /\ u.tags = t.tags /\ u.attrs = t.attrs
    /\ u.root = t.root /\ u.ext = t.ext
    /\ u.deps = [j \in 1..Len(t.deps) |-> NewID(g, t.deps[j])]

\* h is g with its targets in the order of the nodes and numbered so.
IsRenumbered(g, h) ==
    /\ DOMAIN h = {"targets", "meta"}
    /\ DOMAIN h.targets = 1..Len(g.targets) /\ Len(h.targets) = Len(g.targets)
    /\ \A k \in 1..Len(g.targets) : SameTarget(g, g.targets[buildNodes(g)[k].origIdx], h.targets[k], k)
    /\ DOMAIN h.meta = DOMAIN g.meta
    /\ h.meta.ruleTypes = g.meta.ruleTypes /\ h.meta.tags = g.meta.tags
    /\ h.meta.attrNames = g.meta.attrNames /\ h.meta.attrVals = g.meta.attrVals
    /\ h.meta.files = g.meta.files
    /\ h.meta.targets = [k \in 1..Len(g.targets) |-> LabelAt(g, buildNodes(g)[k].origIdx)]

\* Renumbered, target by target.
LEMMA Renumbers ==
    ASSUME NEW g, Input(g), Labelled(g)
    PROVE  IsRenumbered(g, Renumbered(g))
<1> DEFINE n == Len(g.targets)
           N == buildNodes(g)
           h == Renumbered(g)
           newID(id) == CHOOSE k \in 1..Len(N) : g.targets[N[k].origIdx].id = id
           new(k) == [g.targets[N[k].origIdx] EXCEPT !.id = k, !.deps = [j \in 1..Len(@) |-> newID(@[j])]]
           lab(k) == g.meta.targets[g.targets[N[k].origIdx].id]
<1>1. n \in Nat /\ IsNodes(g, N) /\ Len(N) = n
  BY BuildsNodes DEF Input, IsNodes
<1>2. h = [targets |-> [k \in 1..Len(N) |-> new(k)], meta |-> [g.meta EXCEPT !.targets = [k \in 1..Len(N) |-> lab(k)]]]
  BY DEF Renumbered
<1>3. ASSUME NEW k \in 1..n PROVE SameTarget(g, g.targets[N[k].origIdx], new(k), k)
  <2> DEFINE t == g.targets[N[k].origIdx]
             ds == [j \in 1..Len(t.deps) |-> newID(t.deps[j])]
  <2>1. N[k].origIdx \in 1..n
    BY <1>1, Zenon DEF IsNodes
  <2>2. IsTarget(t)
    BY <2>1, Targets, Zenon
  <2>3. new(k) = [t EXCEPT !.id = k, !.deps = ds]
    OBVIOUS
  <2>4. ds = [j \in 1..Len(t.deps) |-> NewID(g, t.deps[j])]
    BY Zenon DEF NewID
  <2>5. DOMAIN t = {"id", "hash", "ruleType", "deps", "tags", "attrs", "root", "ext"}
    BY <2>2, Zenon DEF IsTarget
  <2> HIDE DEF new, t, ds, newID
  <2>6. /\ DOMAIN new(k) = DOMAIN t /\ new(k).id = k /\ new(k).deps = ds
        /\ new(k).hash = t.hash /\ new(k).ruleType = t.ruleType /\ new(k).tags = t.tags /\ new(k).attrs = t.attrs
        /\ new(k).root = t.root /\ new(k).ext = t.ext
    BY <2>3, <2>5
  <2> QED
    BY <2>4, <2>6, Zenon DEF SameTarget, t
<1>4. DOMAIN g.meta = {"targets", "ruleTypes", "tags", "attrNames", "attrVals", "files"}
  BY Zenon DEF Input
<1> HIDE DEF h, new
<1>5. h.targets = [k \in 1..n |-> new(k)] /\ DOMAIN h = {"targets", "meta"}
  BY <1>1, <1>2
<1>6. h.meta = [g.meta EXCEPT !.targets = [k \in 1..n |-> lab(k)]]
  BY <1>1, <1>2
<1>7. /\ DOMAIN h.meta = DOMAIN g.meta
      /\ h.meta.ruleTypes = g.meta.ruleTypes /\ h.meta.tags = g.meta.tags
      /\ h.meta.attrNames = g.meta.attrNames /\ h.meta.attrVals = g.meta.attrVals
      /\ h.meta.files = g.meta.files
      /\ h.meta.targets = [k \in 1..n |-> lab(k)]
  <2> DEFINE ls == [k \in 1..n |-> lab(k)]
  <2> HIDE DEF ls
  <2>1. h.meta = [g.meta EXCEPT !.targets = ls]
    BY <1>6, Zenon DEF ls
  <2>2. /\ DOMAIN h.meta = DOMAIN g.meta
        /\ h.meta.ruleTypes = g.meta.ruleTypes /\ h.meta.tags = g.meta.tags
        /\ h.meta.attrNames = g.meta.attrNames /\ h.meta.attrVals = g.meta.attrVals
        /\ h.meta.files = g.meta.files
        /\ h.meta.targets = ls
    BY <2>1, <1>4
  <2> QED
    BY <2>2, Zenon DEF ls
<1>8. DOMAIN h.targets = 1..n /\ Len(h.targets) = n /\ \A k \in 1..n : h.targets[k] = new(k)
  BY <1>1, <1>5
<1>9. \A k \in 1..n : SameTarget(g, g.targets[N[k].origIdx], h.targets[k], k)
  BY <1>3, <1>8, Zenon
<1>10. h.meta.targets = [k \in 1..n |-> LabelAt(g, N[k].origIdx)]
  BY <1>7, Zenon DEF LabelAt
<1> QED
  BY <1>5, <1>7, <1>8, <1>9, <1>10, Zenon DEF IsRenumbered, h

\* The new ID of a target is its node, counted from 1.
LEMMA NewIDs ==
    ASSUME NEW g, Input(g), Labelled(g), NEW id \in IDs(g)
    PROVE  /\ NewID(g, id) \in 1..Len(g.targets)
           /\ \A k \in 1..Len(g.targets) : g.targets[buildNodes(g)[k].origIdx].id = id <=> NewID(g, id) = k
<1> DEFINE n == Len(g.targets)
           N == buildNodes(g)
<1>1. IsNodes(g, N)
  BY BuildsNodes, Zenon
<1> HIDE DEF N
<1>2. PICK j \in 1..n : g.targets[j].id = id
  BY Zenon DEF IDs
<1>3. PICK k \in 1..n : N[k].origIdx = j
  BY <1>1, Zenon DEF IsNodes
<1>4. g.targets[N[k].origIdx].id = id
  BY <1>2, <1>3, Zenon
<1>5. \A i \in 1..n : g.targets[N[i].origIdx].id = id => i = k
  <2> TAKE i \in 1..n
  <2> HAVE g.targets[N[i].origIdx].id = id
  <2>1. N[i].origIdx \in 1..n
    BY <1>1, Zenon DEF IsNodes
  <2>2. N[i].origIdx = j
    BY <2>1, <1>2, Zenon DEF Input
  <2> QED
    BY <2>2, <1>1, <1>3, Zenon DEF IsNodes
<1>6. NewID(g, id) = k
  <2>1. NewID(g, id) = CHOOSE i \in 1..Len(N) : g.targets[N[i].origIdx].id = id
    BY Zenon DEF NewID, N
  <2>2. Len(N) = n
    BY <1>1, Zenon DEF IsNodes
  <2>3. 1..Len(N) = 1..n
    BY <2>2
  <2>4. k \in 1..Len(N) /\ \A i \in 1..Len(N) : g.targets[N[i].origIdx].id = id => i = k
    BY <2>3, <1>5, Zenon
  <2> QED
    BY <2>1, <2>4, <1>4, Zenon
<1> QED
  BY <1>4, <1>5, <1>6, Zenon DEF N

\* A renumbered graph may be given to Encode too.
LEMMA RenumberedInput ==
    ASSUME NEW g, Input(g), WellFormed(g), NEW h, IsRenumbered(g, h)
    PROVE  /\ Input(h) /\ Labelled(h)
           /\ \A k \in 1..Len(g.targets) : LabelAt(h, k) = LabelAt(g, buildNodes(g)[k].origIdx)
<1> DEFINE n == Len(g.targets)
           N == buildNodes(g)
<1>0. Labelled(g) /\ \A k \in 1..n : TargetOk(g, g.targets[k])
  BY WellFormedTargets, Zenon
<1>1. n \in Nat /\ IsNodes(g, N)
  BY <1>0, BuildsNodes, Zenon DEF Input
<1> HIDE DEF N
<1>a. Len(h.targets) = n
  BY Zenon DEF IsRenumbered
<1>2. ASSUME NEW k \in 1..n
      PROVE  /\ h.targets[k].id = k /\ IsTarget(h.targets[k])
  <2> DEFINE t == g.targets[N[k].origIdx]
             u == h.targets[k]
  <2>1. N[k].origIdx \in 1..n
    BY <1>1, Zenon DEF IsNodes
  <2>2. IsTarget(t) /\ TargetOk(g, t)
    BY <2>1, <1>0, Targets, Zenon
  <2>3. SameTarget(g, t, u, k)
    BY Zenon DEF IsRenumbered, N
  <2> HIDE DEF t, u
  <2>4. ASSUME NEW j \in 1..Len(t.deps) PROVE NewID(g, t.deps[j]) \in Nat
    <3>1. DOMAIN t.deps = 1..Len(t.deps)
      BY <2>2 DEF IsTarget
    <3>2. t.deps[j] \in IDs(g)
      BY <2>2, <3>1, Zenon DEF TargetOk, ToSet
    <3>3. NewID(g, t.deps[j]) \in 1..n
      BY <3>2, <1>0, NewIDs
    <3> QED
      BY <3>3
  <2>5. u.deps \in Seq(Nat)
    <3>1. Len(t.deps) \in Nat /\ u.deps = [j \in 1..Len(t.deps) |-> NewID(g, t.deps[j])]
      BY <2>2, <2>3 DEF IsTarget, SameTarget
    <3> QED
      BY <3>1, <2>4
  <2>6. u.id = k /\ k \in Nat
    BY <2>3 DEF SameTarget
  <2>7. IsTarget(u)
    BY <2>2, <2>3, <2>5, <2>6, Zenon DEF IsTarget, SameTarget
  <2> QED
    BY <2>6, <2>7 DEF u
<1>3. /\ h.meta.targets = [k \in 1..n |-> LabelAt(g, N[k].origIdx)]
      /\ DOMAIN h.meta.targets = 1..n
      /\ \A k \in 1..n : h.meta.targets[k] = LabelAt(g, N[k].origIdx)
  <2>1. h.meta.targets = [k \in 1..n |-> LabelAt(g, N[k].origIdx)]
    BY Zenon DEF IsRenumbered, N
  <2> QED
    BY <2>1
<1>4. \A k \in 1..n : LabelAt(h, k) = LabelAt(g, N[k].origIdx)
  <2> TAKE k \in 1..n
  <2>1. LabelAt(h, k) = h.meta.targets[k]
    BY <1>2, Zenon DEF LabelAt
  <2> QED
    BY <2>1, <1>3, Zenon
<1>5. Labelled(h)
  BY <1>2, <1>3, <1>a, Zenon DEF Labelled
<1>6. \A k \in 1..n : N[k].origIdx \in 1..n /\ IsLabel(LabelAt(g, N[k].origIdx))
  BY <1>0, <1>1, LabelsAt, Zenon DEF IsNodes
<1>7. Table(h.meta.targets)
  <2>1. IsFiniteSet(1..n) /\ 1..n \subseteq Nat
    BY <1>1, FS_Interval
  <2>2. \A k \in 1..n : h.meta.targets[k] \in Seq(Nat)
    BY <1>3, <1>6, Zenon DEF IsLabel
  <2>3. h.meta.targets \in [1..n -> Seq(Nat)]
    BY <2>2, <1>3
  <2> QED
    BY <2>1, <2>3, <1>3, Zenon DEF Table
<1>8. Distinct(h.meta.targets)
  <2>1. ASSUME NEW j \in 1..n, NEW k \in 1..n, h.meta.targets[j] = h.meta.targets[k] PROVE j = k
    <3>1. LabelAt(g, N[j].origIdx) = LabelAt(g, N[k].origIdx)
      BY <2>1, <1>3, Zenon
    <3>2. N[j].origIdx = N[k].origIdx
      BY <3>1, <1>6, <1>0, LabelsAt, Zenon
    <3> QED
      BY <3>2, <1>1, Zenon DEF IsNodes
  <2> QED
    BY <2>1, <1>3, Zenon DEF Distinct
<1>9. \A id \in DOMAIN h.meta.targets : h.meta.targets[id] # <<>> /\ h.meta.targets[id][1] # Colon
  BY <1>3, <1>6, Zenon DEF IsLabel
<1>10. \A j, k \in 1..n : h.targets[j].id = h.targets[k].id => j = k
  BY <1>2, Zenon
<1>11. /\ Table(h.meta.ruleTypes) /\ Table(h.meta.tags) /\ Table(h.meta.attrNames) /\ Table(h.meta.attrVals)
       /\ Distinct(h.meta.attrNames)
       /\ \A id \in DOMAIN h.meta.tags : h.meta.tags[id] # <<>>
       /\ IsFiniteSet(DOMAIN h.meta.files) /\ DOMAIN h.meta.files \subseteq Seq(Nat)
       /\ h.meta.files \in [DOMAIN h.meta.files -> Seq(Nat)]
  <2>1. /\ h.meta.ruleTypes = g.meta.ruleTypes /\ h.meta.tags = g.meta.tags
        /\ h.meta.attrNames = g.meta.attrNames /\ h.meta.attrVals = g.meta.attrVals
        /\ h.meta.files = g.meta.files
    BY Zenon DEF IsRenumbered
  <2>2. /\ Table(g.meta.ruleTypes) /\ Table(g.meta.tags) /\ Table(g.meta.attrNames) /\ Table(g.meta.attrVals)
        /\ Distinct(g.meta.attrNames)
        /\ \A id \in DOMAIN g.meta.tags : g.meta.tags[id] # <<>>
        /\ IsFiniteSet(DOMAIN g.meta.files) /\ DOMAIN g.meta.files \subseteq Seq(Nat)
        /\ g.meta.files \in [DOMAIN g.meta.files -> Seq(Nat)]
    BY Zenon DEF Input
  <2> QED
    BY <2>1, <2>2, Zenon
<1>12. /\ DOMAIN h = {"targets", "meta"} /\ DOMAIN h.targets = 1..Len(h.targets)
       /\ DOMAIN h.meta = {"targets", "ruleTypes", "tags", "attrNames", "attrVals", "files"}
  BY <1>a, Zenon DEF IsRenumbered, Input
<1>13. Input(h)
  <2>1. \A k \in 1..Len(h.targets) : IsTarget(h.targets[k])
    BY <1>2, <1>a, Zenon
  <2>2. \A j, k \in 1..Len(h.targets) : h.targets[j].id = h.targets[k].id => j = k
    BY <1>10, <1>a, Zenon
  <2>3. Len(h.targets) \in Nat
    BY <1>1, <1>a
  <2> QED
    BY <1>7, <1>8, <1>9, <1>11, <1>12, <2>1, <2>2, <2>3, Zenon DEF Input, IsTarget
<1> QED
  BY <1>4, <1>5, <1>13, Zenon DEF N

-----------------------------------------------------------------------------
(* A renumbered graph has the same encoder, apart from where its targets are. *)

\* The nodes of g and h have the same packages and names.
SameNodes(g, h) ==
    /\ Len(buildNodes(h)) = Len(buildNodes(g))
    /\ \A k \in 1..Len(g.targets) :
          /\ buildNodes(h)[k].origIdx = k
          /\ buildNodes(h)[k].pkg = buildNodes(g)[k].pkg
          /\ buildNodes(h)[k].name = buildNodes(g)[k].name

\* The nodes of a renumbered graph are those of the graph.
LEMMA RenumberedNodes ==
    ASSUME NEW g, Input(g), WellFormed(g), NEW h, IsRenumbered(g, h)
    PROVE  SameNodes(g, h)
<1> DEFINE n == Len(g.targets)
           N == buildNodes(g)
           M == [k \in 1..n |-> NodeAt(h, k)]
           S == NodeSet(h)
           R == LessNode(S)
<1>0. Labelled(g)
  BY WellFormedTargets, Zenon
<1>1. n \in Nat /\ IsNodes(g, N)
  BY <1>0, BuildsNodes, Zenon DEF Input
<1> HIDE DEF N
<1>2. Input(h) /\ Labelled(h) /\ \A k \in 1..n : LabelAt(h, k) = LabelAt(g, N[k].origIdx)
  BY RenumberedInput, Zenon DEF N
<1>3. Len(h.targets) = n
  BY Zenon DEF IsRenumbered
<1>4. /\ Orders(S, R) /\ Cardinality(S) = n
      /\ \A x \in S : x.origIdx \in 1..n /\ x = NodeAt(h, x.origIdx)
      /\ \A k \in 1..n : NodeAt(h, k) \in S /\ NodeAt(h, k).origIdx = k
      /\ \A x, y \in S : <<x, y>> \in R <=> NodeLess(x, y)
  BY <1>2, <1>3, NodeSetOrders
<1> HIDE DEF S, R
<1>5. \A k \in 1..n : NodeAt(h, k).pkg = N[k].pkg /\ NodeAt(h, k).name = N[k].name
  <2> TAKE k \in 1..n
  <2>1. NodeAt(h, k).pkg = splitLabel(LabelAt(h, k)).pkg /\ NodeAt(h, k).name = splitLabel(LabelAt(h, k)).name
    BY DEF NodeAt, LabelAt
  <2>2. /\ N[k].pkg = splitLabel(LabelAt(g, N[k].origIdx)).pkg
        /\ N[k].name = splitLabel(LabelAt(g, N[k].origIdx)).name
    BY <1>1, Zenon DEF IsNodes
  <2>3. LabelAt(h, k) = LabelAt(g, N[k].origIdx)
    BY <1>2, Zenon
  <2> QED
    BY <2>1, <2>2, <2>3
<1>6. \A j, k \in 1..n : NodeLess(NodeAt(h, j), NodeAt(h, k)) <=> j < k
  <2> TAKE j, k \in 1..n
  <2>1. NodeLess(N[j], N[k]) <=> j < k
    BY <1>1, Zenon DEF IsNodes
  <2>2. NodeLess(NodeAt(h, j), NodeAt(h, k)) <=> NodeLess(N[j], N[k])
    BY <1>5, Zenon DEF NodeLess
  <2> QED
    BY <2>1, <2>2, Zenon
<1>7. \A k \in 1..n : M[k] = NodeAt(h, k) /\ M[k] \in S
  BY <1>4
<1>8. M \in [1..n -> S]
  BY <1>4
<1> HIDE DEF M
<1>9. \A x \in S : \E k \in 1..n : M[k] = x
  <2> TAKE x \in S
  <2>1. x.origIdx \in 1..n /\ x = NodeAt(h, x.origIdx)
    BY <1>4, Zenon
  <2>2. M[x.origIdx] = x
    BY <2>1, <1>7
  <2> QED
    BY <2>1, <2>2
<1>10. \A j, k \in 1..n : <<M[j], M[k]>> \in R <=> j < k
  <2> TAKE j, k \in 1..n
  <2>1. <<M[j], M[k]>> \in R <=> NodeLess(M[j], M[k])
    BY <1>4, <1>7, Zenon
  <2> QED
    BY <2>1, <1>6, <1>7, Zenon
<1>11. \A j, k \in 1..n : M[j] = M[k] => j = k
  BY <1>4, <1>7, Zenon
<1>12. Lists(M, S, R)
  <2> DEFINE c == Cardinality(S)
  <2>1. c = n
    BY <1>4
  <2> HIDE DEF c
  <2>2. /\ c \in Nat /\ M \in [1..c -> S]
        /\ \A x \in S : \E k \in 1..c : M[k] = x
        /\ \A j, k \in 1..c : <<M[j], M[k]>> \in R <=> j < k
        /\ \A j, k \in 1..c : M[j] = M[k] => j = k
    BY <2>1, <1>1, <1>8, <1>9, <1>10, <1>11
  <2> QED
    BY <2>2, Zenon DEF Lists, c
<1>13. buildNodes(h) = M
  <2>1. buildNodes(h) = Enumeration(S, R)
    BY <1>2, BuildsNodes, Zenon DEF S, R
  <2>2. M = Enumeration(S, R)
    BY <1>4, <1>12, ListRanks, Zenon
  <2> QED
    BY <2>1, <2>2, Zenon
<1>14. Len(M) = n
  BY <1>1 DEF M
<1>15. Len(N) = n
  BY <1>1, Zenon DEF IsNodes
<1>16. \A k \in 1..n : M[k].origIdx = k /\ M[k].pkg = N[k].pkg /\ M[k].name = N[k].name
  BY <1>4, <1>5, <1>7, Zenon
<1> QED
  BY <1>13, <1>14, <1>15, <1>16, Zenon DEF SameNodes, N

\* The encoders of g and h have the same dictionaries and tables.
SameEncoder(g, h) ==
    /\ newEncoder(h).dict = newEncoder(g).dict
    /\ newEncoder(h).nameIdx = newEncoder(g).nameIdx
    /\ newEncoder(h).ruleType = newEncoder(g).ruleType
    /\ newEncoder(h).tag = newEncoder(g).tag
    /\ newEncoder(h).attrName = newEncoder(g).attrName
    /\ newEncoder(h).attrVal = newEncoder(g).attrVal
    /\ newEncoder(h).nodes = buildNodes(h) /\ newEncoder(g).nodes = buildNodes(g)
    /\ pkgIDsOf(buildNodes(h)) = pkgIDsOf(buildNodes(g))

\* So are its dictionaries and tables.
LEMMA RenumberedEncoder ==
    ASSUME NEW g, Input(g), WellFormed(g), NEW h, IsRenumbered(g, h)
    PROVE  SameEncoder(g, h)
<1> DEFINE n == Len(g.targets)
           N == buildNodes(g)
           M == buildNodes(h)
           dict(nodes) == [pkg |-> pkgDictOf(nodes), name |-> SortedSeq(Names(nodes), LexLess),
                  ruleType |-> sortedUniqueStrings(g.meta.ruleTypes), tag |-> sortedUniqueStrings(g.meta.tags),
                  attrName |-> sortedUniqueStrings(g.meta.attrNames), attrVal |-> sortedUniqueStrings(g.meta.attrVals)]
           rec(nodes, d) == [nodes |-> nodes, dict |-> d, nameIdx  |-> buildStrIndex(d.name),
                         ruleType |-> remapTable(g.meta.ruleTypes, buildStrIndex(d.ruleType)),
                         tag      |-> remapTable(g.meta.tags, buildStrIndex(d.tag)),
                         attrName |-> remapTable(g.meta.attrNames, buildStrIndex(d.attrName)),
                         attrVal  |-> remapTable(g.meta.attrVals, buildStrIndex(d.attrVal))]
<1>0. Labelled(g)
  BY WellFormedTargets, Zenon
<1>1. n \in Nat /\ IsNodes(g, N) /\ Len(N) = n /\ \A k \in 1..n : N[k].pkg \in Seq(Nat)
  BY <1>0, BuildsNodes, Zenon DEF Input, IsNodes, IsNode
<1>2. SameNodes(g, h)
  BY RenumberedNodes, Zenon
<1>3. Len(M) = n /\ \A k \in 1..n : M[k].pkg = N[k].pkg /\ M[k].name = N[k].name
  BY <1>1, <1>2, Zenon DEF SameNodes
<1>4. /\ g.meta.ruleTypes = h.meta.ruleTypes /\ h.meta.tags = g.meta.tags
      /\ h.meta.attrNames = g.meta.attrNames /\ h.meta.attrVals = g.meta.attrVals
  BY Zenon DEF IsRenumbered
<1>a. newEncoder(g) = rec(N, dict(N))
  BY Zenon DEF newEncoder, buildDicts, Names
<1>b. newEncoder(h) = rec(M, dict(M))
  BY <1>4, Zenon DEF newEncoder, buildDicts, Names
<1> HIDE DEF N, M
<1>5. pkgDictOf(M) = pkgDictOf(N) /\ pkgIDsOf(M) = pkgIDsOf(N)
  <2>1. \A k \in 1..n : N[k].pkg \in Seq(Nat) /\ M[k].pkg = N[k].pkg
    BY <1>1, <1>3, Zenon
  <2> HIDE DEF n
  <2>2. n \in Nat /\ Len(N) = n /\ Len(M) = n
    BY <1>1, <1>3, Zenon
  <2>3. pkgDicts(N) = pkgDicts(M) /\ pkgDictOf(N) = pkgDictOf(M) /\ pkgIDsOf(N) = pkgIDsOf(M)
    BY <2>1, <2>2, SamePkgs
  <2> QED
    BY <2>3, Zenon
<1>6. Names(M) = Names(N)
  <2>1. {M[k].name : k \in 1..n} = {N[k].name : k \in 1..n}
    BY <1>3
  <2> QED
    BY <2>1, <1>1, <1>3, Zenon DEF Names
<1>7. dict(M) = dict(N)
  BY <1>5, <1>6, Zenon
<1> HIDE DEF dict
<1>8. newEncoder(h) = rec(M, dict(N))
  BY <1>7, <1>b, Zenon
<1> QED
  <2>1. /\ newEncoder(g).nodes = N /\ newEncoder(h).nodes = M
        /\ newEncoder(h).dict = newEncoder(g).dict
        /\ newEncoder(h).nameIdx = newEncoder(g).nameIdx
        /\ newEncoder(h).ruleType = newEncoder(g).ruleType
        /\ newEncoder(h).tag = newEncoder(g).tag
        /\ newEncoder(h).attrName = newEncoder(g).attrName
        /\ newEncoder(h).attrVal = newEncoder(g).attrVal
    BY <1>a, <1>8
  <2> QED
    BY <2>1, <1>5, Zenon DEF SameEncoder, N, M

-----------------------------------------------------------------------------
(* What is written of a node, from its parts. *)

\* What a node writes, as a function of what it depends on.
EncodeOf(i, name, ruleType, hash, root, ext, deps, tags, kvs) ==
    [row |-> [name |-> name, ruleType |-> ruleType,
              hash |-> IF hash = <<>> THEN [b \in 1..HashBytes |-> 0] ELSE SubSeq(hash, 1, HashBytes),
              depDeg |-> Len(deps), tagDeg |-> Len(tags), attrDeg |-> Len(kvs)],
     out |-> [deps |-> encodeDeps(i, deps), tags |-> encodeDeltas(tags),
              attrNms |-> [k \in 1..Len(kvs) |-> kvs[k].name],
              attrVls |-> [k \in 1..Len(kvs) |-> kvs[k].val]],
     set |-> [root |-> root, ext |-> ext, empty |-> hash = <<>>]]

\* A node is encoded from its strings' and its dependencies' numbers.
LEMMA EncodesNode ==
    ASSUME NEW g, NEW e, NEW i
    PROVE  EncodeNode(g, e, i) = EncodeOf(i, e.nameIdx[e.nodes[i + 1].name],
                e.ruleType[TargetAt(g, e, i).ruleType], TargetAt(g, e, i).hash,
                TargetAt(g, e, i).root, TargetAt(g, e, i).ext,
                SortInts(NodeDeps(g, e, TargetAt(g, e, i))), SortInts(NodeTags(e, TargetAt(g, e, i))),
                SortedAttrs(e, TargetAt(g, e, i)))
  BY Zenon DEF EncodeNode, EncodeOf, TargetAt, NodeDeps, NodeTags

\* A node of a renumbered graph is encoded like the node of the graph.
LEMMA RenumberedNode ==
    ASSUME NEW g, Input(g), WellFormed(g), NEW h, IsRenumbered(g, h), NEW i \in 0..(Len(g.targets) - 1)
    PROVE  EncodeNode(h, newEncoder(h), i) = EncodeNode(g, newEncoder(g), i)
<1> DEFINE n == Len(g.targets)
           N == buildNodes(g)
           M == buildNodes(h)
           e == newEncoder(g)
           f == newEncoder(h)
           t == TargetAt(g, e, i)
           u == TargetAt(h, f, i)
<1>0. Labelled(g) /\ \A k \in 1..n : TargetOk(g, g.targets[k])
  BY WellFormedTargets, Zenon
<1>1. n \in Nat /\ IsNodes(g, N)
  BY <1>0, BuildsNodes, Zenon DEF Input
<1>2. SameNodes(g, h) /\ SameEncoder(g, h)
  BY RenumberedNodes, RenumberedEncoder, Zenon
<1>3. e.nodes = N /\ f.nodes = M
  BY <1>2, Zenon DEF SameEncoder
<1>4. Input(h) /\ Labelled(h) /\ IsNodes(h, M) /\ Len(h.targets) = n
  <2>1. Input(h) /\ Labelled(h)
    BY RenumberedInput, Zenon
  <2> QED
    BY <2>1, BuildsNodes, Zenon DEF IsRenumbered
<1> HIDE DEF N, M, e, f
<1>5. i + 1 \in 1..n /\ N[i + 1].origIdx \in 1..n
  <2>1. i + 1 \in 1..n
    BY <1>1
  <2> QED
    BY <2>1, <1>1, Zenon DEF IsNodes
<1>6. \A k \in 1..n : M[k].origIdx = k /\ M[k].name = N[k].name
  BY <1>2, Zenon DEF SameNodes, N, M
<1>7. t = g.targets[N[i + 1].origIdx] /\ u = h.targets[i + 1]
  BY <1>3, <1>5, <1>6, Zenon DEF TargetAt
<1>8. SameTarget(g, t, u, i + 1)
  BY <1>5, <1>7, Zenon DEF IsRenumbered, N
<1>9. IsTarget(t) /\ TargetOk(g, t)
  BY <1>0, <1>5, <1>7, Targets, Zenon
<1> HIDE DEF t, u
<1>10. ASSUME NEW k \in 1..Len(t.deps) PROVE resolveID(h, f, NewID(g, t.deps[k])) = resolveID(g, e, t.deps[k])
  <2> DEFINE d == t.deps[k]
             j == NewID(g, d)
  <2>1. d \in Nat /\ DOMAIN t.deps = 1..Len(t.deps)
    BY <1>9 DEF IsTarget
  <2>2. d \in IDs(g)
    BY <2>1, <1>9, Zenon DEF TargetOk, ToSet
  <2> HIDE DEF d
  <2>3. j \in 1..n /\ g.targets[N[j].origIdx].id = d
    BY <2>2, <1>0, NewIDs, Zenon DEF N
  <2> HIDE DEF j
  <2>4. j - 1 \in 0..(n - 1) /\ (j - 1) + 1 = j /\ j \in Nat
    BY <2>3, <1>1
  <2>5. resolveID(g, e, d) = j - 1
    BY <2>1, <2>3, <2>4, <1>1, <1>3, Resolves
  <2>6. h.targets[M[j].origIdx].id = j
    <3>1. M[j].origIdx = j
      BY <2>3, <1>6, Zenon
    <3>2. h.targets[j].id = j
      BY <2>3, Zenon DEF IsRenumbered, SameTarget
    <3> QED
      BY <3>1, <3>2, Zenon
  <2>7. resolveID(h, f, j) = j - 1
    BY <2>4, <2>6, <1>3, <1>4, Resolves
  <2> QED
    BY <2>5, <2>7, Zenon DEF d, j
<1>11. NodeDeps(h, f, u) = NodeDeps(g, e, t)
  <2>1. Len(t.deps) \in Nat /\ u.deps = [k \in 1..Len(t.deps) |-> NewID(g, t.deps[k])]
    BY <1>8, <1>9 DEF IsTarget, SameTarget
  <2>2. Len(u.deps) = Len(t.deps) /\ \A k \in 1..Len(t.deps) : u.deps[k] = NewID(g, t.deps[k])
    BY <2>1
  <2>3. \A k \in 1..Len(t.deps) : resolveID(h, f, u.deps[k]) = resolveID(g, e, t.deps[k])
    BY <2>2, <1>10, Zenon
  <2> QED
    BY <2>2, <2>3 DEF NodeDeps
<1>12. NodeTags(f, u) = NodeTags(e, t)
  <2>1. f.tag = e.tag /\ u.tags = t.tags
    BY <1>2, <1>8, Zenon DEF SameEncoder, SameTarget, e, f
  <2> QED
    BY <2>1, Zenon DEF NodeTags
<1>13. SortedAttrs(f, u) = SortedAttrs(e, t)
  <2>1. f.attrName = e.attrName /\ f.attrVal = e.attrVal /\ u.attrs = t.attrs
    BY <1>2, <1>8, Zenon DEF SameEncoder, SameTarget, e, f
  <2> QED
    BY <2>1, Zenon DEF SortedAttrs
<1>14. /\ f.nameIdx = e.nameIdx /\ f.ruleType = e.ruleType /\ f.nodes[i + 1].name = e.nodes[i + 1].name
  BY <1>2, <1>3, <1>5, <1>6, Zenon DEF SameEncoder, e, f
<1>15. u.ruleType = t.ruleType /\ u.hash = t.hash /\ u.root = t.root /\ u.ext = t.ext
  BY <1>8, Zenon DEF SameTarget
<1>16. EncodeNode(g, e, i) = EncodeOf(i, e.nameIdx[e.nodes[i + 1].name], e.ruleType[t.ruleType], t.hash,
                t.root, t.ext, SortInts(NodeDeps(g, e, t)), SortInts(NodeTags(e, t)), SortedAttrs(e, t))
  BY EncodesNode, Zenon DEF t
<1>17. EncodeNode(h, f, i) = EncodeOf(i, f.nameIdx[f.nodes[i + 1].name], f.ruleType[u.ruleType], u.hash,
                u.root, u.ext, SortInts(NodeDeps(h, f, u)), SortInts(NodeTags(f, u)), SortedAttrs(f, u))
  BY EncodesNode, Zenon DEF u
<1> QED
  BY <1>11, <1>12, <1>13, <1>14, <1>15, <1>16, <1>17, Zenon DEF e, f

-----------------------------------------------------------------------------
(* The file, from its parts. *)

\* The columns and their IDs, as functions of what they depend on.
ColumnsOf(files, n, dict, pkgIDs, blocks, row, streams, bitsets) ==
    LET col(f) == [k \in 1..n |-> row[k - 1][f]]
    IN  [PKG_DICT |-> buildFrontCodedDict(dict.pkg),
         NAME_DICT |-> buildFrontCodedDict(dict.name),
         RULETYPE_DICT |-> buildFrontCodedDict(dict.ruleType),
         TAG_DICT |-> buildFrontCodedDict(dict.tag),
         ATTR_NAME_DICT |-> buildFrontCodedDict(dict.attrName),
         ATTR_VALUE_DICT |-> buildFrontCodedDict(dict.attrVal),
         NODE_PKG |-> encodeDeltas(pkgIDs),
         NODE_NAME |-> encodeNames(pkgIDs, col("name")),
         HASH |-> FlattenSeq(col("hash")),
         DEG |-> col("depDeg"), DEPS |-> streams.deps,
         RULETYPE |-> col("ruleType"),
         TAG_DEG |-> col("tagDeg"), TAGS |-> streams.tags,
         ATTR_DEG |-> col("attrDeg"),
         ATTR_NAME |-> streams.attrNms, ATTR_VALUE |-> streams.attrVls,
         FLAGS |-> BytesOf(bitsets.root) \o BytesOf(bitsets.ext) \o BytesOf(bitsets.empty),
         BLOCK_DIGEST |-> blocks.digests, BLOCK_START |-> encodeDeltas(blocks.starts),
         ALL_TARGETS_FILE_HASHES |-> encodeStringMap(files)]

BlocksOf(nodes) == buildBlocks(LabelsOf(nodes))

ColumnNames ==
    << "PKG_DICT", "NAME_DICT", "NODE_PKG", "NODE_NAME", "HASH", "DEG", "DEPS", "RULETYPE", "RULETYPE_DICT",
       "TAG_DEG", "TAGS", "TAG_DICT", "ATTR_DEG", "ATTR_NAME", "ATTR_VALUE", "ATTR_NAME_DICT",
       "ATTR_VALUE_DICT", "FLAGS", "BLOCK_DIGEST", "BLOCK_START" >>

IDsOf(files) == ColumnNames \o (IF DOMAIN files = {} THEN <<>> ELSE << "ALL_TARGETS_FILE_HASHES" >>)

\* The file, as a function of its columns.
Laid(ids, cols, n) ==
    << [kind |-> "header", nodeCount |-> n, edgeCount |-> Totals(cols.DEG)[n],
        blockSize |-> BlockSize, flags |-> {}] >>
    \o [k \in 1..Len(ids) |-> [kind |-> "column", data |-> cols[ids[k]]]]
    \o << [kind |-> "directory", entries |-> [k \in 1..Len(ids) |->
              [id |-> ids[k], codec |-> Codec(ids[k]), offset |-> k + 1,
               compressedSize |-> StoredSize(ids[k], cols[ids[k]]),
               rawSize |-> RawSize(ids[k], cols[ids[k]])]]],
          [kind |-> "footer", dirOffset |-> Len(ids) + 2] >>

\* The file follows from the all-targets files, the number of nodes, the dictionaries,
\* the nodes' packages and what the shards made.
LEMMA WritesFile ==
    ASSUME NEW g, NEW e, NEW row, NEW streams, NEW bitsets
    PROVE  write(g, e, row, streams, bitsets) =
             Laid(IDsOf(g.meta.files),
                  ColumnsOf(g.meta.files, Len(e.nodes), e.dict, pkgIDsOf(e.nodes), BlocksOf(e.nodes), row, streams, bitsets),
                  Len(e.nodes))
<1>1. ColumnIDs(g) = IDsOf(g.meta.files)
  BY Zenon DEF ColumnIDs, IDsOf, ColumnNames
<1>2. Columns(g, e, row, streams, bitsets)
        = ColumnsOf(g.meta.files, Len(e.nodes), e.dict, pkgIDsOf(e.nodes), BlocksOf(e.nodes), row, streams, bitsets)
  BY Zenon DEF Columns, ColumnsOf, BlocksOf
<1> QED
  BY <1>1, <1>2, Zenon DEF write, Laid

\* The file of a renumbered graph is the file of the graph.
LEMMA RenumberedFile ==
    ASSUME NEW g, Input(g), WellFormed(g)
    PROVE  EncodeInOrder(Renumbered(g)) = EncodeInOrder(g)
<1> DEFINE h == Renumbered(g)
           n == Len(g.targets)
           e == newEncoder(g)
           f == newEncoder(h)
           made(x, y, m, res) ==
               write(x, y, [i \in 0..(m - 1) |-> res[i].row],
                 [s \in Streams |-> FlattenSeq([k \in 1..m |-> res[k - 1].out[s]])],
                 [fl \in Flags |-> [b \in DOMAIN NoBits(m) |->
                    {i % ByteWidth : i \in {j \in 0..(m - 1) : ByteOf(j) = b /\ res[j].set[fl]}}]])
<1>0. Labelled(g) /\ n \in Nat
  BY WellFormedTargets, Zenon DEF Input
<1>1. IsRenumbered(g, h)
  BY <1>0, Renumbers, Zenon
<1> HIDE DEF h
<1>2. SameNodes(g, h) /\ SameEncoder(g, h) /\ IsNodes(g, buildNodes(g))
  BY <1>0, <1>1, RenumberedNodes, RenumberedEncoder, BuildsNodes, Zenon
<1>3. Len(e.nodes) = n /\ Len(f.nodes) = n
  BY <1>2, Zenon DEF SameEncoder, SameNodes, IsNodes
<1>4. \A i \in 0..(n - 1) : EncodeNode(h, f, i) = EncodeNode(g, e, i)
  BY <1>1, RenumberedNode, Zenon
<1>5. f.dict = e.dict /\ pkgIDsOf(f.nodes) = pkgIDsOf(e.nodes) /\ h.meta.files = g.meta.files
  BY <1>1, <1>2, Zenon DEF SameEncoder, IsRenumbered
<1>a. BlocksOf(f.nodes) = BlocksOf(e.nodes)
  <2>1. \A k \in 1..n : f.nodes[k].pkg = e.nodes[k].pkg /\ f.nodes[k].name = e.nodes[k].name
    BY <1>2, Zenon DEF SameEncoder, SameNodes
  <2>2. \A k \in 1..n : joinLabel(f.nodes[k].pkg, f.nodes[k].name) = joinLabel(e.nodes[k].pkg, e.nodes[k].name)
    BY <2>1, Zenon
  <2> HIDE DEF e, f, n
  <2>3. LabelsOf(f.nodes) = LabelsOf(e.nodes)
    BY <2>2, <1>3, Zenon DEF LabelsOf
  <2> QED
    BY <2>3, Zenon DEF BlocksOf
<1>6. \A r, s, b : write(h, f, r, s, b) = write(g, e, r, s, b)
  BY <1>3, <1>5, <1>a, WritesFile, Zenon
<1> DEFINE A(m) == [i \in 0..(m - 1) |-> EncodeNode(g, e, i)]
           B(m) == [i \in 0..(m - 1) |-> EncodeNode(h, f, i)]
<1>7. EncodeInOrder(g) = made(g, e, Len(e.nodes), A(Len(e.nodes)))
  BY Zenon DEF EncodeInOrder
<1>8. EncodeInOrder(h) = made(h, f, Len(f.nodes), B(Len(f.nodes)))
  BY Zenon DEF EncodeInOrder
<1>9. A(n) = B(n)
  <2> HIDE DEF e, f
  <2> QED
    BY <1>4
<1>10. made(h, f, n, A(n)) = made(g, e, n, A(n))
  BY <1>6, Zenon
<1> HIDE DEF made, A, B
<1> QED
  BY <1>3, <1>7, <1>8, <1>9, <1>10, Zenon DEF h

-----------------------------------------------------------------------------
(* Shards and bytes. *)

\* Whole division.
LEMMA DivMod ==
    ASSUME NEW a \in Nat, NEW b \in Nat, b > 0
    PROVE  /\ a \div b \in Nat /\ a % b \in 0..(b - 1)
           /\ a = (a \div b) * b + (a % b)
  OBVIOUS

\* A product grows with its factor.
LEMMA MulMono ==
    ASSUME NEW a \in Nat, NEW b \in Nat, NEW L \in Nat, a <= b
    PROVE  a * L \in Nat /\ b * L \in Nat /\ a * L <= b * L /\ (a + 1) * L = a * L + L
  OBVIOUS

\* Numbers in different rounds of L, L a multiple of W, lie in different bytes.
LEMMA DivLess ==
    ASSUME NEW a \in Nat, NEW q \in Nat, NEW W \in Nat, W > 0
    PROVE  /\ a < q * W => a \div W < q
           /\ q * W <= a => q <= a \div W
<1>1. a \div W \in Nat /\ a % W \in 0..(W - 1) /\ a = (a \div W) * W + (a % W)
  BY DivMod
<1>2. ASSUME a < q * W, q <= a \div W PROVE FALSE
  <2>1. q * W <= (a \div W) * W
    BY <1>1, <1>2, MulMono
  <2>2. (a \div W) * W \in Nat /\ q * W \in Nat
    BY <1>1, MulMono
  <2> QED
    BY <1>1, <1>2, <2>1, <2>2
<1>3. ASSUME q * W <= a, a \div W + 1 <= q PROVE FALSE
  <2>1. (a \div W + 1) * W <= q * W /\ (a \div W + 1) * W = (a \div W) * W + W
    BY <1>1, <1>3, MulMono
  <2>2. (a \div W) * W \in Nat /\ q * W \in Nat
    BY <1>1, MulMono
  <2> QED
    BY <1>1, <1>3, <2>1, <2>2
<1> QED
  BY <1>1, <1>2, <1>3

\* C shards of L nodes cover n nodes, the last one with at least one of them, and begin at
\* whole bytes.
IsSharding(n, L, C) ==
    /\ L \in Nat /\ C \in Nat
    /\ n = 0 => C = 0
    /\ n > 0 => L > 0 /\ C > 0 /\ n <= C * L /\ (C - 1) * L < n
    /\ C > 1 => \E q \in Nat : L = q * ByteWidth

\* Shards of ShardLen nodes cover all nodes; where there are several their boundaries are multiples of ByteWidth.
LEMMA Sharding ==
    ASSUME NEW n \in Nat
    PROVE  IsSharding(n, ShardLen(n), ShardCount(n))
<1> DEFINE W == ByteWidth
           a == n \div Procs
           q == (a + W) \div W
           len == q * W
           L == ShardLen(n)
           C == ShardCount(n)
<1>1. W \in Nat /\ W > 0 /\ Procs \in Nat /\ Procs > 0 /\ MinShard \in Nat
  BY FormatAssumption, CodecAssumption
<1>2. a \in Nat
  BY <1>1, DivMod
<1>3. q \in Nat /\ q >= 1
  <2>1. a + W \in Nat /\ 1 * W <= a + W
    BY <1>1, <1>2
  <2> HIDE DEF a
  <2> QED
    BY <2>1, <1>1, DivMod, DivLess
<1> HIDE DEF a, q
<1>4. len \in Nat /\ len > 0
  BY <1>1, <1>3
<1> SUFFICES IsSharding(n, L, C)
  OBVIOUS
<1>5. L = IF len < MinShard THEN n ELSE len
  BY Zenon DEF ShardLen, q, a
<1> HIDE DEF len
<1>6. C = IF n = 0 THEN 0 ELSE (n + L - 1) \div L
  BY Zenon DEF ShardCount
<1> HIDE DEF L, C
<1>7. CASE n = 0
  BY <1>7, <1>4, <1>5, <1>6 DEF IsSharding
<1>8. CASE n > 0
  <2>1. L \in Nat /\ L > 0
    BY <1>8, <1>4, <1>5
  <2>2. C = (n + L - 1) \div L /\ n + L - 1 \in Nat
    BY <1>8, <1>6, <2>1
  <2>3. C \in Nat /\ n + L - 1 = C * L + ((n + L - 1) % L) /\ (n + L - 1) % L \in 0..(L - 1)
    BY <2>1, <2>2, DivMod
  <2>4. C > 0
    <3>1. 1 * L <= n + L - 1
      BY <1>8, <2>1
    <3> QED
      BY <3>1, <2>1, <2>2, <2>3, DivLess
  <2>5. n <= C * L /\ (C - 1) * L < n
    <3>1. \E m \in Nat : C = m + 1
      <4>1. C - 1 \in Nat /\ C = (C - 1) + 1
        BY <2>3, <2>4
      <4> QED
        BY <4>1
    <3>2. PICK m \in Nat : C = m + 1
      BY <3>1
    <3>3. C * L = m * L + L /\ m * L \in Nat /\ C - 1 = m
      BY <3>2, <2>1, MulMono
    <3> HIDE DEF L
    <3> QED
      BY <3>3, <2>1, <2>3
  <2>6. ASSUME C > 1 PROVE \E k \in Nat : L = k * W
    <3>1. CASE len < MinShard
      <4>1. L = n
        BY <3>1, <1>5
      <4>2. n + n - 1 < 2 * n
        BY <1>8
      <4>3. C < 2
        BY <4>1, <4>2, <2>1, <2>2, DivLess
      <4> QED
        BY <4>3, <2>6, <2>3
    <3>2. CASE ~(len < MinShard)
      BY <3>2, <1>3, <1>5 DEF len
    <3> QED
      BY <3>1, <3>2
  <2> QED
    BY <1>8, <2>1, <2>3, <2>4, <2>5, <2>6 DEF IsSharding
<1> QED
  BY <1>7, <1>8

\* Where the shards of a graph of n nodes lie.
AreShards(n, L, C) ==
    /\ L \in Nat /\ C \in Nat /\ (n = 0 => C = 0)
    /\ \A s \in 0..(C - 1) :
          /\ s * L \in Nat /\ ShardEnd(s, n) \in Nat
          /\ s * L < ShardEnd(s, n) /\ ShardEnd(s, n) <= n
    /\ \A s \in 1..(C - 1) : ShardEnd(s - 1, n) = s * L
    /\ C > 0 => ShardEnd(C - 1, n) = n
    /\ \A i \in 0..(n - 1) : \E s \in 0..(C - 1) : s * L <= i /\ i < ShardEnd(s, n)
    /\ \A s, t \in 0..(C - 1) : \A i, j \in Nat :
          s * L <= i /\ i < ShardEnd(s, n) /\ t * L <= j /\ j < ShardEnd(t, n) /\ s # t
             => ByteOf(i) # ByteOf(j)

\* The ranges of the shards: one follows the other, and the last ends with the nodes.
LEMMA Shards ==
    ASSUME NEW n \in Nat
    PROVE  AreShards(n, ShardLen(n), ShardCount(n))
<1> DEFINE W == ByteWidth
           L == ShardLen(n)
           C == ShardCount(n)
<1>1. W \in Nat /\ W > 0
  BY FormatAssumption
<1>2. IsSharding(n, L, C)
  BY Sharding
<1>3. \A s : ShardEnd(s, n) = Min({(s + 1) * L, n})
  BY Zenon DEF ShardEnd
<1> HIDE DEF L, C
<1>4. L \in Nat /\ C \in Nat /\ (n = 0 => C = 0)
  BY <1>2 DEF IsSharding
<1>5. ASSUME NEW s \in 0..(C - 1)
      PROVE  /\ s * L \in Nat /\ s * L < n /\ (s + 1) * L = s * L + L /\ L > 0
             /\ ShardEnd(s, n) = IF (s + 1) * L <= n THEN (s + 1) * L ELSE n
  <2>1. s \in Nat /\ s <= C - 1 /\ C - 1 \in Nat
    BY <1>4
  <2>2. s * L \in Nat /\ s * L <= (C - 1) * L /\ (s + 1) * L = s * L + L /\ (C - 1) * L \in Nat
    BY <1>4, <2>1, MulMono
  <2>3. L > 0 /\ (C - 1) * L < n
    BY <1>2, <1>4, <2>1 DEF IsSharding
  <2>4. (s + 1) * L \in Int
    BY <2>2, <1>4
  <2> DEFINE m == (s + 1) * L
  <2>5. ShardEnd(s, n) = IF m <= n THEN m ELSE n
    <3>1. IsFiniteSet({m, n})
      <4>1. IsFiniteSet({m} \cup {n})
        <5>1. IsFiniteSet({m})
          BY FS_Singleton, Zenon
        <5> QED
          BY <5>1, FS_AddElement, Zenon
      <4>2. {m, n} = {m} \cup {n}
        BY Zenon
      <4> QED
        BY <4>1, <4>2, Zenon
    <3> HIDE DEF m
    <3>2. {m, n} \in SUBSET Int /\ {m, n} # {}
      BY <2>4 DEF m
    <3>3. Min({m, n}) \in {m, n} /\ \A y \in {m, n} : Min({m, n}) <= y
      BY <3>1, <3>2, MaxMin
    <3>4. ShardEnd(s, n) = Min({m, n})
      BY <1>3, Zenon DEF m
    <3> QED
      BY <3>3, <3>4, <2>4 DEF m
  <2> QED
    BY <2>2, <2>3, <2>5
<1>6. ASSUME NEW s \in 0..(C - 1), NEW t \in 0..(C - 1), s < t
      PROVE  ShardEnd(s, n) = (s + 1) * L /\ (s + 1) * L <= t * L
  <2>1. s + 1 \in Nat /\ t \in Nat /\ s + 1 <= t
    BY <1>6
  <2>2. (s + 1) * L <= t * L /\ (s + 1) * L \in Nat /\ t * L \in Nat
    BY <2>1, <1>4, MulMono
  <2>3. t * L < n
    BY <1>5
  <2> QED
    BY <2>2, <2>3, <1>5
<1>7. \A s \in 1..(C - 1) : ShardEnd(s - 1, n) = s * L
  <2> TAKE s \in 1..(C - 1)
  <2>1. s - 1 \in 0..(C - 1) /\ s \in 0..(C - 1) /\ s - 1 < s /\ (s - 1) + 1 = s
    BY <1>4
  <2> QED
    BY <2>1, <1>6
<1>8. C > 0 => ShardEnd(C - 1, n) = n
  <2> HAVE C > 0
  <2>1. C - 1 \in 0..(C - 1) /\ (C - 1) + 1 = C
    BY <1>4
  <2>2. n <= C * L
    <3>1. n > 0
      BY <1>4
    <3> QED
      BY <3>1, <1>2 DEF IsSharding
  <2>3. ShardEnd(C - 1, n) = IF C * L <= n THEN C * L ELSE n
    BY <2>1, <1>5
  <2> QED
    BY <2>2, <2>3, <1>4
<1>9. ASSUME NEW i \in 0..(n - 1) PROVE \E s \in 0..(C - 1) : s * L <= i /\ i < ShardEnd(s, n)
  <2>1. i \in Nat /\ L > 0 /\ C > 0 /\ n <= C * L
    BY <1>2 DEF IsSharding
  <2> DEFINE s == i \div L
  <2>2. s \in Nat /\ i = s * L + (i % L) /\ i % L \in 0..(L - 1)
    BY <2>1, <1>4, DivMod
  <2>3. s < C
    <3>1. i < C * L
      BY <2>1, <1>4
    <3> QED
      BY <3>1, <2>1, <1>4, DivLess
  <2> HIDE DEF s
  <2>4. s \in 0..(C - 1) /\ s * L \in Nat /\ (s + 1) * L = s * L + L
    BY <2>2, <2>3, <1>4, MulMono
  <2>5. s * L <= i /\ i < (s + 1) * L
    BY <2>1, <2>2, <2>4, <1>4
  <2>6. i < ShardEnd(s, n)
    BY <2>4, <2>5, <1>5
  <2> QED
    BY <2>4, <2>5, <2>6
<1>10. ASSUME NEW s \in 0..(C - 1), NEW t \in 0..(C - 1), s < t, NEW i \in Nat, NEW j \in Nat,
              i < ShardEnd(s, n), t * L <= j
       PROVE  ByteOf(i) < ByteOf(j)
  <2>1. i < (s + 1) * L /\ (s + 1) * L <= t * L /\ (s + 1) * L \in Nat /\ t * L \in Nat
    BY <1>4, <1>5, <1>6, <1>10
  <2>2. C > 1
    BY <1>4, <1>10
  <2>3. PICK q \in Nat : L = q * W
    BY <2>2, <1>2 DEF IsSharding
  <2>4. (s + 1) * L = ((s + 1) * q) * W /\ (s + 1) * q \in Nat
    BY <2>3, <1>1
  <2>5. i \div W < (s + 1) * q /\ (s + 1) * q <= j \div W
    <3> DEFINE b == (s + 1) * q
    <3>1. b \in Nat /\ i < b * W /\ b * W <= j
      BY <2>1, <2>4, <1>10
    <3> HIDE DEF b
    <3>2. i \div W < b /\ b <= j \div W
      BY <3>1, <1>1, DivLess
    <3> QED
      BY <3>2 DEF b
  <2>6. i \div W \in Nat /\ j \div W \in Nat
    BY <1>1, DivMod
  <2> QED
    BY <2>4, <2>5, <2>6 DEF ByteOf
<1>11. \A s, t \in 0..(C - 1) : \A i, j \in Nat :
          s * L <= i /\ i < ShardEnd(s, n) /\ t * L <= j /\ j < ShardEnd(t, n) /\ s # t
             => ByteOf(i) # ByteOf(j)
  <2> SUFFICES ASSUME NEW s \in 0..(C - 1), NEW t \in 0..(C - 1), NEW i \in Nat, NEW j \in Nat,
               s * L <= i, i < ShardEnd(s, n), t * L <= j, j < ShardEnd(t, n), s # t
               PROVE  ByteOf(i) # ByteOf(j)
    OBVIOUS
  <2>1. i \div W \in Nat /\ j \div W \in Nat
    BY <1>1, DivMod
  <2>2. CASE s < t
    <3>1. ByteOf(i) < ByteOf(j)
      BY <2>2, <1>10
    <3> QED
      BY <2>1, <3>1 DEF ByteOf
  <2>3. CASE t < s
    <3>1. ByteOf(j) < ByteOf(i)
      BY <2>3, <1>10
    <3> QED
      BY <2>1, <3>1 DEF ByteOf
  <2> QED
    BY <2>2, <2>3
<1>12. \A s \in 0..(C - 1) : /\ s * L \in Nat /\ ShardEnd(s, n) \in Nat
                              /\ s * L < ShardEnd(s, n) /\ ShardEnd(s, n) <= n
  <2> TAKE s \in 0..(C - 1)
  <2> QED
    BY <1>4, <1>5
<1> QED
  BY <1>4, <1>7, <1>8, <1>9, <1>11, <1>12, Zenon DEF AreShards, L, C

-----------------------------------------------------------------------------
(* What is known of an encoded node. *)

\* What a node's lists hold before they are written.
DepsOf(g, e, i) == SortInts(NodeDeps(g, e, TargetAt(g, e, i)))

TagsAt(g, e, i) == SortInts(NodeTags(e, TargetAt(g, e, i)))

AttrsAt(g, e, i) == SortedAttrs(e, TargetAt(g, e, i))

\* r is what node i writes.
IsEncoded(g, e, i, r) ==
    /\ r.row.name = e.nameIdx[e.nodes[i + 1].name]
    /\ r.row.ruleType = e.ruleType[TargetAt(g, e, i).ruleType]
    /\ r.row.hash \in Seq(Nat) /\ Len(r.row.hash) = HashBytes
    /\ TargetAt(g, e, i).hash # <<>> => r.row.hash = SubSeq(TargetAt(g, e, i).hash, 1, HashBytes)
    /\ r.row.depDeg = Len(DepsOf(g, e, i)) /\ r.row.tagDeg = Len(TagsAt(g, e, i))
    /\ r.row.attrDeg = Len(AttrsAt(g, e, i))
    /\ r.out.deps \in Seq(Int) /\ Len(r.out.deps) = Len(DepsOf(g, e, i))
    /\ r.out.tags \in Seq(Int) /\ Len(r.out.tags) = Len(TagsAt(g, e, i))
    /\ r.out.attrNms \in Seq(Int) /\ Len(r.out.attrNms) = Len(AttrsAt(g, e, i))
    /\ r.out.attrVls \in Seq(Int) /\ Len(r.out.attrVls) = Len(AttrsAt(g, e, i))
    /\ r.out.deps = encodeDeps(i, DepsOf(g, e, i))
    /\ r.out.tags = encodeDeltas(TagsAt(g, e, i))
    /\ \A k \in 1..Len(AttrsAt(g, e, i)) : /\ r.out.attrNms[k] = AttrsAt(g, e, i)[k].name
                                           /\ r.out.attrVls[k] = AttrsAt(g, e, i)[k].val
    /\ r.set.root = TargetAt(g, e, i).root /\ r.set.ext = TargetAt(g, e, i).ext
    /\ r.set.empty = (TargetAt(g, e, i).hash = <<>>)

\* Deltas and relative dependencies are as many numbers as they stand for.
LEMMA DeltasType ==
    ASSUME NEW s \in Seq(Int), NEW i \in Int
    PROVE  /\ encodeDeps(i, s) \in Seq(Int) /\ Len(encodeDeps(i, s)) = Len(s)
           /\ encodeDeltas(s) \in Seq(Int) /\ Len(encodeDeltas(s)) = Len(s)
<1>1. \A k \in 1..Len(s) : (IF k = 1 THEN appendZigzag(s[1] - i) ELSE s[k] - s[k - 1]) \in Int
  BY DEF appendZigzag
<1>2. \A k \in 1..Len(s) : s[k] - (IF k = 1 THEN 0 ELSE s[k - 1]) \in Int
  OBVIOUS
<1>3. encodeDeps(i, s) \in [1..Len(s) -> Int]
  BY <1>1 DEF encodeDeps
<1>4. encodeDeltas(s) \in [1..Len(s) -> Int]
  BY <1>2 DEF encodeDeltas
<1>5. \A f \in [1..Len(s) -> Int] : f \in Seq(Int) /\ Len(f) = Len(s)
  OBVIOUS
<1> QED
  BY <1>3, <1>4, <1>5, Zenon

\* A node whose target refers to nothing that is missing.
LEMMA EncodedNode ==
    ASSUME NEW g, Input(g), NEW e, IsEncoder(g, e), NEW i \in 0..(Len(g.targets) - 1),
           TargetOk(g, TargetAt(g, e, i))
    PROVE  IsEncoded(g, e, i, EncodeNode(g, e, i))
<1> DEFINE n == Len(g.targets)
           t == TargetAt(g, e, i)
           D == DepsOf(g, e, i)
           T == TagsAt(g, e, i)
           K == AttrsAt(g, e, i)
           r == EncodeNode(g, e, i)
<1>1. n \in Nat /\ IsNodes(g, e.nodes)
  BY Zenon DEF Input, IsEncoder
<1>2. IsTarget(t)
  <2>1. i + 1 \in 1..n
    BY <1>1
  <2>2. e.nodes[i + 1].origIdx \in 1..n
    BY <2>1, <1>1, Zenon DEF IsNodes
  <2> QED
    BY <2>2, Targets, Zenon DEF TargetAt
<1>3. IsResolved(g, e, t)
  BY <1>2, TargetsResolve, Zenon
<1>4. D \in Seq(Int) /\ T \in Seq(Int)
  BY <1>3, Zenon DEF IsResolved, IsAscending, DepsOf, TagsAt
<1>5. Len(K) \in Nat /\ \A k \in 1..Len(K) : K[k].name \in Nat /\ K[k].val \in Nat
  BY <1>3, Zenon DEF IsResolved, IsAttrs, AttrsAt
<1>6. r = EncodeOf(i, e.nameIdx[e.nodes[i + 1].name], e.ruleType[t.ruleType], t.hash, t.root, t.ext, D, T, K)
  BY EncodesNode, Zenon DEF DepsOf, TagsAt, AttrsAt
<1>7. t.hash = <<>> \/ (t.hash \in Seq(Nat) /\ Len(t.hash) >= HashBytes)
  BY <1>2, Zenon DEF TargetOk, HashOk, IsTarget
<1>8. HashBytes \in Nat
  BY FormatAssumption
<1> HIDE DEF t, D, T, K, r
<1> DEFINE hash == IF t.hash = <<>> THEN [b \in 1..HashBytes |-> 0] ELSE SubSeq(t.hash, 1, HashBytes)
           nms == [k \in 1..Len(K) |-> K[k].name]
           vls == [k \in 1..Len(K) |-> K[k].val]
<1>9. hash \in Seq(Nat) /\ Len(hash) = HashBytes
  <2>1. CASE t.hash = <<>>
    BY <2>1, <1>8
  <2>2. CASE t.hash # <<>>
    <3>1. t.hash \in Seq(Nat) /\ Len(t.hash) >= HashBytes /\ hash = SubSeq(t.hash, 1, HashBytes)
      BY <2>2, <1>7
    <3>2. SubSeq(t.hash, 1, HashBytes) \in Seq(Nat) /\ Len(SubSeq(t.hash, 1, HashBytes)) = HashBytes
      BY <3>1, <1>8
    <3> QED
      BY <3>1, <3>2
  <2> QED
    BY <2>1, <2>2
<1>10. nms \in Seq(Int) /\ Len(nms) = Len(K) /\ vls \in Seq(Int) /\ Len(vls) = Len(K)
  BY <1>5
<1>11. \A k \in 1..Len(K) : nms[k] = K[k].name /\ vls[k] = K[k].val
  OBVIOUS
<1>12. i \in Int
  OBVIOUS
<1>13. /\ encodeDeps(i, D) \in Seq(Int) /\ Len(encodeDeps(i, D)) = Len(D)
       /\ encodeDeltas(T) \in Seq(Int) /\ Len(encodeDeltas(T)) = Len(T)
  BY <1>4, <1>12, DeltasType
<1>14. t.hash # <<>> => hash = SubSeq(t.hash, 1, HashBytes)
  BY Zenon
<1>15. r = [row |-> [name |-> e.nameIdx[e.nodes[i + 1].name], ruleType |-> e.ruleType[t.ruleType], hash |-> hash,
                     depDeg |-> Len(D), tagDeg |-> Len(T), attrDeg |-> Len(K)],
            out |-> [deps |-> encodeDeps(i, D), tags |-> encodeDeltas(T), attrNms |-> nms, attrVls |-> vls],
            set |-> [root |-> t.root, ext |-> t.ext, empty |-> t.hash = <<>>]]
  BY <1>6, Zenon DEF EncodeOf
<1> HIDE DEF hash, nms, vls
<1> DEFINE none == t.hash = <<>>
<1>16. /\ r.row.name = e.nameIdx[e.nodes[i + 1].name] /\ r.row.ruleType = e.ruleType[t.ruleType]
       /\ r.row.hash = hash /\ r.row.depDeg = Len(D) /\ r.row.tagDeg = Len(T) /\ r.row.attrDeg = Len(K)
       /\ r.out.deps = encodeDeps(i, D) /\ r.out.tags = encodeDeltas(T)
       /\ r.out.attrNms = nms /\ r.out.attrVls = vls
  BY <1>15
<1>17. r.set.root = t.root /\ r.set.ext = t.ext /\ r.set.empty = none
  <2>1. r.set = [root |-> t.root, ext |-> t.ext, empty |-> none]
    BY <1>15
  <2> HIDE DEF none
  <2> QED
    BY <2>1
<1>a. r.row.hash \in Seq(Nat) /\ Len(r.row.hash) = HashBytes /\ (t.hash # <<>> => r.row.hash = SubSeq(t.hash, 1, HashBytes))
  BY <1>9, <1>14, <1>16, Zenon
<1>b. /\ r.out.deps \in Seq(Int) /\ Len(r.out.deps) = Len(D)
      /\ r.out.tags \in Seq(Int) /\ Len(r.out.tags) = Len(T)
  BY <1>13, <1>16, Zenon
<1>c. /\ r.out.attrNms \in Seq(Int) /\ Len(r.out.attrNms) = Len(K)
      /\ r.out.attrVls \in Seq(Int) /\ Len(r.out.attrVls) = Len(K)
      /\ \A k \in 1..Len(K) : r.out.attrNms[k] = K[k].name /\ r.out.attrVls[k] = K[k].val
  BY <1>10, <1>11, <1>16, Zenon DEF nms, vls
<1> QED
  BY <1>a, <1>b, <1>c, <1>16, <1>17, Zenon DEF IsEncoded, t, D, T, K, r

\* Concatenation is associative, and the empty sequence is neutral.
LEMMA CatAssoc ==
    ASSUME NEW S, NEW a \in Seq(S), NEW b \in Seq(S), NEW c \in Seq(S)
    PROVE  (a \o b) \o c = a \o (b \o c) /\ a \o <<>> = a
  OBVIOUS

-----------------------------------------------------------------------------
(* What the shards have made so far. *)

\* What a node adds to a stream; nothing, where it is refused.
NodeOut(g, e, x, i) == IF TargetOk(g, TargetAt(g, e, i)) THEN EncodeNode(g, e, i).out[x] ELSE <<>>

\* What all nodes append to a stream.
NodeOuts(g, e, x) == [k \in 1..Len(g.targets) |-> NodeOut(g, e, x, k - 1)]

\* The node that a shard has not encoded yet.
Reached(sh) == IF sh.byte = Nil THEN sh.at ELSE sh.at + 1

\* A shard stands inside of its range, has met no refused target, or has an error for a reason,
\* has written the rows it has reached, and its streams lead from those before its range to
\* those before the node it has reached.
IsShard(g, e, s, sh, row, bs) ==
    /\ DOMAIN sh = {"at", "out", "err", "byte"}
    /\ sh.at \in Nat /\ s * ShardLen(Len(g.targets)) <= sh.at /\ sh.at <= ShardEnd(s, Len(g.targets))
    /\ sh.byte # Nil => sh.at < ShardEnd(s, Len(g.targets)) /\ sh.err = "none"
    /\ sh.byte # Nil => \A fl \in Flags : sh.byte[fl] = bs[fl][ByteOf(sh.at)]
    /\ sh.err # "none" => ~WellFormed(g)
    /\ \A i \in Nat : s * ShardLen(Len(g.targets)) <= i /\ i < Reached(sh)
          => TargetOk(g, TargetAt(g, e, i)) /\ row[i] = EncodeNode(g, e, i).row
    /\ \A x \in Streams :
          /\ sh.out[x] \in Seq(Int)
          /\ Joins(NodeOuts(g, e, x))[s * ShardLen(Len(g.targets))] \o sh.out[x]
               = Joins(NodeOuts(g, e, x))[Reached(sh)]

\* A shard has stored the flags of the node.
Stored(shs, L, j) == \E s \in DOMAIN shs : s * L <= j /\ j < shs[s].at

\* Flags that a node sets, and the flags of a byte that are stored so far.
FlagAt(g, e, fl, j) == EncodeNode(g, e, j).set[fl] = TRUE

FlagsIn(g, e, shs, fl, b) ==
    {i % ByteWidth : i \in {j \in 0..(Len(g.targets) - 1) :
        ByteOf(j) = b /\ Stored(shs, ShardLen(Len(g.targets)), j) /\ FlagAt(g, e, fl, j)}}

\* Every shard is where it should be, and every byte holds the flags that are stored.
Encoding(g, e, shs, row, bs) ==
    /\ Labelled(g) /\ IsEncoder(g, e) /\ e = newEncoder(g)
    /\ DOMAIN shs = 0..(ShardCount(Len(g.targets)) - 1)
    /\ DOMAIN row = 0..(Len(g.targets) - 1) /\ row = [i \in 0..(Len(g.targets) - 1) |-> row[i]]
    /\ \A s \in DOMAIN shs : IsShard(g, e, s, shs[s], row, bs)
    /\ bs = [fl \in Flags |-> [b \in DOMAIN NoBits(Len(g.targets)) |-> FlagsIn(g, e, shs, fl, b)]]

\* The streams of the nodes are sequences of numbers, and join one after the other.
LEMMA NodeOutsJoin ==
    ASSUME NEW g, Input(g), NEW e, IsEncoder(g, e), NEW x \in Streams
    PROVE  /\ NodeOuts(g, e, x) \in [1..Len(g.targets) -> Seq(Int)]
           /\ \A m \in 0..Len(g.targets) : Joins(NodeOuts(g, e, x))[m] \in Seq(Int)
           /\ Joins(NodeOuts(g, e, x))[0] = <<>>
           /\ \A m \in 0..(Len(g.targets) - 1) :
                 /\ Joins(NodeOuts(g, e, x))[m + 1] = Joins(NodeOuts(g, e, x))[m] \o NodeOut(g, e, x, m)
                 /\ NodeOut(g, e, x, m) \in Seq(Int)
<1> DEFINE n == Len(g.targets)
           q == NodeOuts(g, e, x)
<1>1. n \in Nat
  BY Zenon DEF Input
<1>2. \A i \in 0..(n - 1) : NodeOut(g, e, x, i) \in Seq(Int)
  <2> TAKE i \in 0..(n - 1)
  <2>1. CASE TargetOk(g, TargetAt(g, e, i))
    <3>1. IsEncoded(g, e, i, EncodeNode(g, e, i))
      BY <2>1, EncodedNode
    <3>2. /\ EncodeNode(g, e, i).out.deps \in Seq(Int) /\ EncodeNode(g, e, i).out.tags \in Seq(Int)
          /\ EncodeNode(g, e, i).out.attrNms \in Seq(Int) /\ EncodeNode(g, e, i).out.attrVls \in Seq(Int)
      BY <3>1, Zenon DEF IsEncoded
    <3>3. x = "deps" \/ x = "tags" \/ x = "attrNms" \/ x = "attrVls"
      BY DEF Streams
    <3>4. NodeOut(g, e, x, i) = EncodeNode(g, e, i).out[x]
      BY <2>1, Zenon DEF NodeOut
    <3> QED
      BY <3>2, <3>3, <3>4, Zenon
  <2>2. CASE ~TargetOk(g, TargetAt(g, e, i))
    <3>1. NodeOut(g, e, x, i) = <<>>
      BY <2>2, Zenon DEF NodeOut
    <3> QED
      BY <3>1
  <2> QED
    BY <2>1, <2>2
<1>3. \A k \in 1..n : k - 1 \in 0..(n - 1)
  BY <1>1
<1>4. q = [k \in 1..n |-> NodeOut(g, e, x, k - 1)]
  BY Zenon DEF NodeOuts
<1>5. q \in [1..n -> Seq(Int)] /\ \A k \in 1..n : q[k] = NodeOut(g, e, x, k - 1)
  <2>1. \A k \in 1..n : NodeOut(g, e, x, k - 1) \in Seq(Int)
    BY <1>2, <1>3
  <2> QED
    BY <1>4, <2>1
<1> HIDE DEF q
<1>6. /\ Joins(q) \in [0..n -> Seq(Int)] /\ Joins(q)[0] = <<>>
      /\ \A k \in 1..n : Joins(q)[k] = Joins(q)[k - 1] \o q[k]
  BY <1>1, <1>5, JoinsDef
<1>7. \A m \in 0..(n - 1) : m + 1 \in 1..n /\ (m + 1) - 1 = m
  BY <1>1
<1>8. ASSUME NEW m \in 0..(n - 1) PROVE Joins(q)[m + 1] = Joins(q)[m] \o NodeOut(g, e, x, m)
  <2>1. m + 1 \in 1..n /\ (m + 1) - 1 = m
    BY <1>7
  <2>2. Joins(q)[m + 1] = Joins(q)[(m + 1) - 1] \o q[m + 1]
    BY <2>1, <1>6, Zenon
  <2>3. q[m + 1] = NodeOut(g, e, x, (m + 1) - 1)
    BY <2>1, <1>5, Zenon
  <2> QED
    BY <2>1, <2>2, <2>3, Zenon
<1>9. \A m \in 0..n : Joins(q)[m] \in Seq(Int)
  BY <1>6, Zenon
<1> QED
  BY <1>2, <1>5, <1>6, <1>8, <1>9, Zenon DEF q

\* Before the first node.
LEMMA EncodingStarts ==
    ASSUME NEW g, Input(g), Labelled(g), NEW shs,
           shs = [s \in 0..(ShardCount(Len(g.targets)) - 1) |->
                     [at |-> s * ShardLen(Len(g.targets)), out |-> [x \in Streams |-> <<>>],
                      err |-> "none", byte |-> Nil]]
    PROVE  Encoding(g, newEncoder(g), shs, [i \in 0..(Len(g.targets) - 1) |-> Nil],
                    [fl \in Flags |-> NoBits(Len(g.targets))])
<1> DEFINE n == Len(g.targets)
           L == ShardLen(n)
           C == ShardCount(n)
           e == newEncoder(g)
           row == [i \in 0..(n - 1) |-> Nil]
           bs == [fl \in Flags |-> NoBits(n)]
<1>1. n \in Nat /\ IsEncoder(g, e)
  BY NewEncoder, Zenon DEF Input
<1>2. AreShards(n, L, C)
  BY <1>1, Shards
<1>3. L \in Nat /\ C \in Nat /\ \A s \in 0..(C - 1) : /\ s * L \in Nat /\ ShardEnd(s, n) \in Nat
                              /\ s * L < ShardEnd(s, n) /\ ShardEnd(s, n) <= n
  BY <1>2, Zenon DEF AreShards
<1> HIDE DEF e, L, C
<1>4. /\ DOMAIN shs = 0..(C - 1)
      /\ \A s \in 0..(C - 1) : /\ DOMAIN shs[s] = {"at", "out", "err", "byte"}
                               /\ shs[s].at = s * L /\ shs[s].err = "none" /\ shs[s].byte = Nil
                               /\ \A x \in Streams : shs[s].out[x] = <<>>
  BY DEF L, C
<1>5. ASSUME NEW s \in 0..(C - 1) PROVE IsShard(g, e, s, shs[s], row, bs)
  <2> DEFINE sh == shs[s]
  <2>1. /\ DOMAIN sh = {"at", "out", "err", "byte"} /\ sh.at = s * L /\ sh.err = "none" /\ sh.byte = Nil
        /\ \A x \in Streams : sh.out[x] = <<>>
    BY <1>4
  <2> HIDE DEF sh
  <2>2. Reached(sh) = s * L
    BY <2>1, Zenon DEF Reached
  <2>3. sh.at \in Nat /\ s * L <= sh.at /\ sh.at <= ShardEnd(s, n)
    BY <2>1, <1>3
  <2>4. \A i \in Nat : ~(s * L <= i /\ i < Reached(sh))
    BY <2>2, <1>3
  <2>5. ASSUME NEW x \in Streams
        PROVE  /\ sh.out[x] \in Seq(Int)
               /\ Joins(NodeOuts(g, e, x))[s * L] \o sh.out[x] = Joins(NodeOuts(g, e, x))[Reached(sh)]
    <3>0. s * L \in Nat /\ ShardEnd(s, n) \in Nat /\ s * L < ShardEnd(s, n) /\ ShardEnd(s, n) <= n
      BY <1>3, Zenon
    <3>1. s * L \in 0..n
      BY <3>0, <1>1
    <3>2. Joins(NodeOuts(g, e, x))[s * L] \in Seq(Int)
      BY <3>1, <1>1, NodeOutsJoin, Zenon
    <3>3. <<>> \in Seq(Int)
      OBVIOUS
    <3>4. Joins(NodeOuts(g, e, x))[s * L] \o <<>> = Joins(NodeOuts(g, e, x))[s * L]
      BY <3>2, <3>3, CatAssoc, Zenon
    <3> QED
      BY <3>3, <3>4, <2>1, <2>2, Zenon
  <2> QED
    BY <2>1, <2>3, <2>4, <2>5, Zenon DEF IsShard, L, sh
<1>6. \A j \in Nat : ~Stored(shs, L, j)
  <2> SUFFICES ASSUME NEW j \in Nat, NEW s \in 0..(C - 1), s * L <= j, j < shs[s].at PROVE FALSE
    BY <1>4, Zenon DEF Stored
  <2>1. shs[s].at = s * L /\ s * L \in Nat
    BY <1>3, <1>4, Zenon
  <2> QED
    BY <2>1
<1>7. ASSUME NEW fl \in Flags PROVE NoBits(n) = [b \in DOMAIN NoBits(n) |-> FlagsIn(g, e, shs, fl, b)]
  <2>1. \A j \in 0..(n - 1) : ~Stored(shs, L, j)
    BY <1>6
  <2>2. \A b : FlagsIn(g, e, shs, fl, b) = {}
    <3> TAKE b
    <3>1. {j \in 0..(n - 1) : ByteOf(j) = b /\ Stored(shs, L, j) /\ FlagAt(g, e, fl, j)} = {}
      BY <2>1, Zenon
    <3>2. FlagsIn(g, e, shs, fl, b) = {i % ByteWidth : i \in {}}
      BY <3>1, Zenon DEF FlagsIn, L
    <3> QED
      BY <3>2, Zenon
  <2>3. NoBits(n) = [b \in DOMAIN NoBits(n) |-> {}]
    BY DEF NoBits
  <2> QED
    BY <2>2, <2>3, Zenon
<1>8. bs = [fl \in Flags |-> [b \in DOMAIN NoBits(n) |-> FlagsIn(g, e, shs, fl, b)]]
  <2> DEFINE F(fl) == [b \in DOMAIN NoBits(n) |-> FlagsIn(g, e, shs, fl, b)]
  <2>1. \A fl \in Flags : NoBits(n) = F(fl)
    BY <1>7, Zenon
  <2> HIDE DEF F
  <2>2. bs = [fl \in Flags |-> F(fl)]
    BY <2>1
  <2> QED
    BY <2>2, Zenon DEF F
<1>9. DOMAIN row = 0..(n - 1) /\ row = [i \in 0..(n - 1) |-> row[i]]
  OBVIOUS
<1> HIDE DEF row, bs
<1>10. Encoding(g, e, shs, row, bs)
  <2>1. \A s \in DOMAIN shs : IsShard(g, e, s, shs[s], row, bs)
    BY <1>4, <1>5, Zenon
  <2> QED
    BY <2>1, <1>1, <1>4, <1>8, <1>9, Zenon DEF Encoding, C, e
<1> QED
  BY <1>10, Zenon DEF row, bs, e

-----------------------------------------------------------------------------
(* The steps of a shard. *)

\* shs becomes shn by a step of shard s alone.
OnlyShard(shs, shn, s) ==
    /\ DOMAIN shn = DOMAIN shs /\ DOMAIN shn[s] = DOMAIN shs[s]
    /\ \A t \in DOMAIN shs : t # s => shn[t] = shs[t]

\* The nodes of shard s and those of another lie in different bytes.
Apart(shs, s, L, n) ==
    \A t \in DOMAIN shs : \A i, j \in Nat :
        s * L <= i /\ i < ShardEnd(s, n) /\ t * L <= j /\ j < ShardEnd(t, n) /\ s # t
          => ByteOf(i) # ByteOf(j)

\* Nodes of two shards lie in different bytes, and so are different nodes.
LEMMA OtherShards ==
    ASSUME NEW g, Input(g), NEW e, NEW shs, NEW row, NEW bs, Encoding(g, e, shs, row, bs),
           NEW s \in DOMAIN shs
    PROVE  /\ Len(g.targets) \in Nat /\ s \in Nat
           /\ s * ShardLen(Len(g.targets)) \in Nat /\ ShardEnd(s, Len(g.targets)) \in Nat
           /\ ShardEnd(s, Len(g.targets)) <= Len(g.targets)
           /\ Apart(shs, s, ShardLen(Len(g.targets)), Len(g.targets))
<1> DEFINE n == Len(g.targets)
<1>1. n \in Nat /\ DOMAIN shs = 0..(ShardCount(n) - 1)
  BY Zenon DEF Input, Encoding
<1>2. AreShards(n, ShardLen(n), ShardCount(n))
  BY <1>1, Shards
<1>3. s \in Nat
  BY <1>1
<1> QED
  BY <1>1, <1>2, <1>3, Zenon DEF AreShards, Apart

\* Every node has a byte.
LEMMA BytesCover ==
    ASSUME NEW n \in Nat, NEW i \in 0..(n - 1)
    PROVE  ByteOf(i) \in DOMAIN NoBits(n)
<1> DEFINE W == ByteWidth
           m == (n + W - 1) \div W
           c == n + W - 1
<1>1. W \in Nat /\ W > 0
  BY FormatAssumption
<1>a. c \in Nat /\ n \in Nat /\ n + W = c + 1
  BY <1>1
<1> HIDE DEF c
<1>b. c \div W \in Nat /\ c = (c \div W) * W + (c % W) /\ c % W \in 0..(W - 1)
  BY <1>1, <1>a, DivMod
<1>2. m \in Nat /\ c = m * W + (c % W) /\ c % W \in 0..(W - 1)
  BY <1>b, Zenon DEF c
<1> HIDE DEF m
<1>3. n <= m * W /\ m * W \in Nat
  BY <1>1, <1>2, <1>a
<1>4. i \div W < m /\ i \div W \in Nat
  <2>1. i < m * W
    BY <1>3
  <2> QED
    BY <2>1, <1>1, <1>2, <1>3, DivLess, DivMod
<1>5. DOMAIN NoBits(n) = 0..(m - 1)
  BY DEF NoBits, m
<1> QED
  BY <1>2, <1>4, <1>5 DEF ByteOf

\* A refused target ends its shard.
LEMMA EncodingFails ==
    ASSUME NEW g, Input(g), NEW e, NEW shs, NEW row, NEW bs, Encoding(g, e, shs, row, bs),
           NEW s \in DOMAIN shs, shs[s].byte = Nil, shs[s].at < ShardEnd(s, Len(g.targets)),
           ~TargetOk(g, TargetAt(g, e, shs[s].at)),
           NEW shn, OnlyShard(shs, shn, s), shn[s].at = shs[s].at, shn[s].out = shs[s].out,
           shn[s].byte = shs[s].byte
    PROVE  Encoding(g, e, shn, row, bs)
<1> DEFINE n == Len(g.targets)
           L == ShardLen(n)
           i == shs[s].at
<1>1. IsShard(g, e, s, shs[s], row, bs) /\ IsNodes(g, e.nodes)
  BY Zenon DEF Encoding, IsEncoder
<1>2. n \in Nat /\ ShardEnd(s, n) \in Nat /\ ShardEnd(s, n) <= n /\ s * L \in Nat
  BY OtherShards, Zenon
<1>3. i \in Nat
  BY <1>1, Zenon DEF IsShard
<1> HIDE DEF i
<1>4. ~WellFormed(g)
  <2>1. i + 1 \in 1..n
    BY <1>2, <1>3 DEF i
  <2>2. e.nodes[i + 1].origIdx \in 1..n
    BY <2>1, <1>1, Zenon DEF IsNodes
  <2>3. ~TargetOk(g, g.targets[e.nodes[i + 1].origIdx])
    BY Zenon DEF TargetAt, i
  <2> QED
    BY <2>2, <2>3, WellFormedTargets, Zenon
<1>5. Reached(shn[s]) = Reached(shs[s])
  BY Zenon DEF Reached
<1>6. IsShard(g, e, s, shn[s], row, bs)
  BY <1>1, <1>4, <1>5, Zenon DEF IsShard, OnlyShard
<1>7. \A t \in DOMAIN shn : IsShard(g, e, t, shn[t], row, bs)
  BY <1>6, Zenon DEF OnlyShard, Encoding
<1>8. \A j : Stored(shn, L, j) <=> Stored(shs, L, j)
  <2>1. DOMAIN shn = DOMAIN shs /\ \A t \in DOMAIN shs : shn[t].at = shs[t].at
    BY Zenon DEF OnlyShard
  <2> QED
    BY <2>1, Zenon DEF Stored
<1>9. \A fl, b : FlagsIn(g, e, shn, fl, b) = FlagsIn(g, e, shs, fl, b)
  BY <1>8, Zenon DEF FlagsIn
<1>10. bs = [fl \in Flags |-> [b \in DOMAIN NoBits(n) |-> FlagsIn(g, e, shn, fl, b)]]
  <2>1. bs = [fl \in Flags |-> [b \in DOMAIN NoBits(n) |-> FlagsIn(g, e, shs, fl, b)]]
    BY Zenon DEF Encoding
  <2> QED
    BY <2>1, <1>9
<1> QED
  BY <1>7, <1>10, Zenon DEF Encoding, OnlyShard

\* A node's row and streams are written, and the bytes of its flags are loaded.
LEMMA EncodingLoads ==
    ASSUME NEW g, Input(g), NEW e, NEW shs, NEW row, NEW bs, Encoding(g, e, shs, row, bs),
           NEW s \in DOMAIN shs, shs[s].byte = Nil, shs[s].at < ShardEnd(s, Len(g.targets)),
           shs[s].err = "none", TargetOk(g, TargetAt(g, e, shs[s].at)),
           NEW shn, OnlyShard(shs, shn, s), shn[s].at = shs[s].at, shn[s].err = shs[s].err,
           \A x \in Streams : shn[s].out[x] = shs[s].out[x] \o EncodeNode(g, e, shs[s].at).out[x],
           shn[s].byte = [fl \in Flags |-> bs[fl][ByteOf(shs[s].at)]],
           NEW rown, rown = [row EXCEPT ![shs[s].at] = EncodeNode(g, e, shs[s].at).row]
    PROVE  Encoding(g, e, shn, rown, bs)
<1> DEFINE n == Len(g.targets)
           L == ShardLen(n)
           i == shs[s].at
           r == EncodeNode(g, e, i)
<1>1. IsShard(g, e, s, shs[s], row, bs) /\ IsEncoder(g, e)
  BY Zenon DEF Encoding
<1>2. n \in Nat /\ ShardEnd(s, n) \in Nat /\ ShardEnd(s, n) <= n /\ s * L \in Nat
  BY OtherShards, Zenon
<1>3. i \in Nat /\ s * L <= i /\ i < ShardEnd(s, n)
  BY <1>1, Zenon DEF IsShard
<1>4. i \in 0..(n - 1)
  BY <1>2, <1>3
<1>5. Reached(shs[s]) = i
  BY Zenon DEF Reached
<1> HIDE DEF i, r, L
<1>o. Apart(shs, s, L, n)
  BY OtherShards, Zenon DEF L
<1>6. /\ DOMAIN rown = 0..(n - 1) /\ rown = [j \in 0..(n - 1) |-> rown[j]]
      /\ rown[i] = r.row /\ \A j \in 0..(n - 1) : j # i => rown[j] = row[j]
  <2>1. DOMAIN row = 0..(n - 1) /\ row = [j \in 0..(n - 1) |-> row[j]] /\ rown = [row EXCEPT ![i] = r.row]
    BY Zenon DEF Encoding, i, r
  <2> QED
    BY <2>1, <1>4
<1>7. bs = [fl \in Flags |-> [b \in DOMAIN NoBits(n) |-> FlagsIn(g, e, shs, fl, b)]]
  BY Zenon DEF Encoding
<1>8. ByteOf(i) \in DOMAIN NoBits(n)
  BY <1>2, <1>4, BytesCover
<1>9. \A fl \in Flags : bs[fl][ByteOf(i)] \in SUBSET (0..(ByteWidth - 1))
  <2> TAKE fl \in Flags
  <2>1. bs[fl][ByteOf(i)] = FlagsIn(g, e, shs, fl, ByteOf(i))
    BY <1>7, <1>8
  <2>2. ASSUME NEW j \in 0..(n - 1) PROVE j % ByteWidth \in 0..(ByteWidth - 1)
    BY FormatAssumption
  <2>3. FlagsIn(g, e, shs, fl, ByteOf(i)) \in SUBSET (0..(ByteWidth - 1))
    BY <2>2, Zenon DEF FlagsIn
  <2> QED
    BY <2>1, <2>3, Zenon
<1>10. shn[s].byte # Nil /\ \A fl \in Flags : shn[s].byte[fl] = bs[fl][ByteOf(i)]
  <2>1. shn[s].byte = [fl \in Flags |-> bs[fl][ByteOf(i)]]
    BY Zenon DEF i
  <2>2. shn[s].byte \in [Flags -> SUBSET (0..(ByteWidth - 1))]
    BY <2>1, <1>9
  <2> QED
    BY <2>1, <2>2, NilAssumption
<1>11. shn[s].at = i /\ Reached(shn[s]) = i + 1
  BY <1>10, Zenon DEF Reached, i
<1>12. ASSUME NEW j \in Nat, s * L <= j, j < i + 1
       PROVE  TargetOk(g, TargetAt(g, e, j)) /\ rown[j] = EncodeNode(g, e, j).row
  <2>1. CASE j = i
    BY <2>1, <1>6, Zenon DEF i, r
  <2>2. CASE j # i
    <3>1. j < i /\ j \in 0..(n - 1)
      BY <2>2, <1>12, <1>4
    <3>2. TargetOk(g, TargetAt(g, e, j)) /\ row[j] = EncodeNode(g, e, j).row
      BY <3>1, <1>1, <1>5, <1>12, Zenon DEF IsShard, L
    <3> QED
      BY <3>1, <3>2, <2>2, <1>6, Zenon
  <2> QED
    BY <2>1, <2>2
<1>13. ASSUME NEW x \in Streams
       PROVE  /\ shn[s].out[x] \in Seq(Int)
              /\ Joins(NodeOuts(g, e, x))[s * L] \o shn[s].out[x] = Joins(NodeOuts(g, e, x))[i + 1]
  <2> DEFINE J == Joins(NodeOuts(g, e, x))
             o == NodeOut(g, e, x, i)
  <2>1. o = r.out[x]
    BY Zenon DEF NodeOut, i, r
  <2>2. J[i + 1] = J[i] \o o /\ o \in Seq(Int)
    BY <1>1, <1>4, NodeOutsJoin, Zenon
  <2>3. s * L \in 0..n
    BY <1>2, <1>3, <1>4
  <2>4. J[s * L] \in Seq(Int)
    BY <2>3, <1>1, NodeOutsJoin, Zenon
  <2>5. shs[s].out[x] \in Seq(Int) /\ J[s * L] \o shs[s].out[x] = J[i]
    BY <1>1, <1>5, Zenon DEF IsShard, L
  <2> HIDE DEF J, o
  <2>6. shn[s].out[x] = shs[s].out[x] \o o
    BY <2>1, Zenon DEF i, r
  <2>7. shs[s].out[x] \o o \in Seq(Int)
    BY <2>2, <2>5, Cat, Zenon DEF IsCat
  <2>8. (J[s * L] \o shs[s].out[x]) \o o = J[s * L] \o (shs[s].out[x] \o o)
    <3>1. \A a, b, c \in Seq(Int) : (a \o b) \o c = a \o (b \o c)
      BY CatAssoc
    <3> QED
      BY <3>1, <2>2, <2>4, <2>5, Zenon
  <2> QED
    BY <2>2, <2>5, <2>6, <2>7, <2>8, Zenon DEF J
<1>14. IsShard(g, e, s, shn[s], rown, bs)
  <2>1. DOMAIN shn[s] = {"at", "out", "err", "byte"} /\ shn[s].err = "none"
    BY <1>1, Zenon DEF IsShard, OnlyShard
  <2>2. s * L <= i /\ i <= ShardEnd(s, n)
    BY <1>2, <1>3
  <2> QED
    BY <2>1, <2>2, <1>3, <1>10, <1>11, <1>12, <1>13, Zenon DEF IsShard, L
<1>15. ASSUME NEW t \in DOMAIN shs, t # s PROVE IsShard(g, e, t, shn[t], rown, bs)
  <2>1. shn[t] = shs[t] /\ IsShard(g, e, t, shs[t], row, bs)
    BY <1>15, Zenon DEF OnlyShard, Encoding
  <2>2. t * L \in Nat /\ ShardEnd(t, n) \in Nat /\ ShardEnd(t, n) <= n
    BY OtherShards, Zenon DEF L
  <2>3. shs[t].at \in Nat /\ shs[t].at <= ShardEnd(t, n) /\ (shs[t].byte # Nil => shs[t].at < ShardEnd(t, n))
    BY <2>1, Zenon DEF IsShard
  <2>4. Reached(shs[t]) \in Nat /\ Reached(shs[t]) <= ShardEnd(t, n)
    BY <2>2, <2>3 DEF Reached
  <2>5. ASSUME NEW j \in Nat, t * L <= j, j < Reached(shs[t])
        PROVE  TargetOk(g, TargetAt(g, e, j)) /\ rown[j] = EncodeNode(g, e, j).row
    <3>1. TargetOk(g, TargetAt(g, e, j)) /\ row[j] = EncodeNode(g, e, j).row
      BY <2>1, <2>5, Zenon DEF IsShard, L
    <3>2. j < ShardEnd(t, n) /\ j \in 0..(n - 1)
      BY <2>2, <2>4, <2>5, <1>2
    <3>3. ByteOf(i) # ByteOf(j)
      BY <3>2, <2>5, <1>3, <1>15, <1>o, Zenon DEF Apart
    <3>4. j # i
      BY <3>3, Zenon
    <3> QED
      BY <3>1, <3>2, <3>4, <1>6, Zenon
  <2> QED
    BY <2>1, <2>5, Zenon DEF IsShard, L
<1>16. \A t \in DOMAIN shn : IsShard(g, e, t, shn[t], rown, bs)
  BY <1>14, <1>15, Zenon DEF OnlyShard
<1>17. \A j : Stored(shn, L, j) <=> Stored(shs, L, j)
  <2>1. DOMAIN shn = DOMAIN shs /\ \A t \in DOMAIN shs : shn[t].at = shs[t].at
    BY <1>11, Zenon DEF OnlyShard, i
  <2> QED
    BY <2>1, Zenon DEF Stored
<1>18. \A fl, b : FlagsIn(g, e, shn, fl, b) = FlagsIn(g, e, shs, fl, b)
  BY <1>17, Zenon DEF FlagsIn, L
<1>19. bs = [fl \in Flags |-> [b \in DOMAIN NoBits(n) |-> FlagsIn(g, e, shn, fl, b)]]
  BY <1>7, <1>18
<1> QED
  BY <1>6, <1>16, <1>19, Zenon DEF Encoding, OnlyShard

-----------------------------------------------------------------------------

\* The bitsets after the store of a shard in the state c.
WithFlags(g, e, bs, c) ==
    [fl \in Flags |-> IF EncodeNode(g, e, c.at).set[fl]
                      THEN [bs[fl] EXCEPT ![ByteOf(c.at)] = c.byte[fl] \union {c.at % ByteWidth}]
                      ELSE bs[fl]]

\* The loaded bytes are stored with the flags of the node.
LEMMA EncodingStores ==
    ASSUME NEW g, Input(g), NEW e, NEW shs, NEW row, NEW bs, Encoding(g, e, shs, row, bs),
           NEW s \in DOMAIN shs, shs[s].byte # Nil,
           NEW shn, OnlyShard(shs, shn, s), shn[s].at = shs[s].at + 1, shn[s].err = shs[s].err,
           shn[s].out = shs[s].out, shn[s].byte = Nil,
           NEW bsn, bsn = WithFlags(g, e, bs, shs[s])
    PROVE  Encoding(g, e, shn, row, bsn)
<1> DEFINE n == Len(g.targets)
           L == ShardLen(n)
           i == shs[s].at
           B == DOMAIN NoBits(n)
<1>1. IsShard(g, e, s, shs[s], row, bs) /\ IsEncoder(g, e)
  BY Zenon DEF Encoding
<1>2. n \in Nat /\ ShardEnd(s, n) \in Nat /\ ShardEnd(s, n) <= n /\ s * L \in Nat
  BY OtherShards, Zenon
<1>3. i \in Nat /\ s * L <= i /\ i < ShardEnd(s, n) /\ shs[s].err = "none"
  BY <1>1, Zenon DEF IsShard
<1>4. i \in 0..(n - 1)
  BY <1>2, <1>3
<1>5. Reached(shs[s]) = i + 1 /\ Reached(shn[s]) = i + 1 /\ shn[s].at = i + 1
  BY Zenon DEF Reached
<1>6. \A fl \in Flags : shs[s].byte[fl] = bs[fl][ByteOf(i)]
  BY <1>1, Zenon DEF IsShard
<1>7. bs = [fl \in Flags |-> [b \in B |-> FlagsIn(g, e, shs, fl, b)]]
  BY Zenon DEF Encoding
<1>8. bsn = [fl \in Flags |-> IF FlagAt(g, e, fl, i)
                              THEN [bs[fl] EXCEPT ![ByteOf(i)] = shs[s].byte[fl] \union {i % ByteWidth}]
                              ELSE bs[fl]]
  BY Zenon DEF FlagAt, WithFlags
<1>o. Apart(shs, s, L, n)
  BY OtherShards, Zenon
<1>b. ByteOf(i) \in B
  BY <1>2, <1>4, BytesCover
<1> HIDE DEF i, L, B
<1>9. \A j \in 0..(n - 1) : Stored(shn, L, j) <=> Stored(shs, L, j) \/ j = i
  <2>1. DOMAIN shn = DOMAIN shs /\ \A t \in DOMAIN shs : t # s => shn[t].at = shs[t].at
    BY Zenon DEF OnlyShard
  <2>2. ASSUME NEW j \in 0..(n - 1), Stored(shn, L, j) PROVE Stored(shs, L, j) \/ j = i
    <3>1. PICK t \in DOMAIN shn : t * L <= j /\ j < shn[t].at
      BY <2>2, Zenon DEF Stored
    <3>2. CASE t = s
      <4>1. s * L <= j /\ j < i + 1
        BY <3>1, <3>2, <1>5
      <4>2. j < i \/ j = i
        BY <4>1, <1>3
      <4> QED
        BY <4>1, <4>2, Zenon DEF Stored, i
    <3>3. CASE t # s
      BY <3>1, <3>3, <2>1, Zenon DEF Stored
    <3> QED
      BY <3>2, <3>3
  <2>3. ASSUME NEW j \in 0..(n - 1), Stored(shs, L, j) PROVE Stored(shn, L, j)
    <3>1. PICK t \in DOMAIN shs : t * L <= j /\ j < shs[t].at
      BY <2>3, Zenon DEF Stored
    <3>2. CASE t = s
      <4>1. s * L <= j /\ j < i
        BY <3>1, <3>2, Zenon DEF i
      <4>2. j < i + 1
        BY <4>1, <1>3
      <4> QED
        BY <4>1, <4>2, <1>5, <2>1, Zenon DEF Stored
    <3>3. CASE t # s
      BY <3>1, <3>3, <2>1, Zenon DEF Stored
    <3> QED
      BY <3>2, <3>3
  <2>4. Stored(shn, L, i)
    <3>1. s * L <= i /\ i < i + 1
      BY <1>3
    <3> QED
      BY <3>1, <1>5, <2>1, Zenon DEF Stored
  <2> QED
    BY <2>2, <2>3, <2>4, Zenon
<1>10. ASSUME NEW fl \in Flags, NEW b
       PROVE  FlagsIn(g, e, shn, fl, b) =
                IF b = ByteOf(i) /\ FlagAt(g, e, fl, i)
                THEN FlagsIn(g, e, shs, fl, b) \union {i % ByteWidth} ELSE FlagsIn(g, e, shs, fl, b)
  <2> DEFINE P == {j \in 0..(n - 1) : ByteOf(j) = b /\ Stored(shs, L, j) /\ FlagAt(g, e, fl, j)}
             Q == {j \in 0..(n - 1) : ByteOf(j) = b /\ Stored(shn, L, j) /\ FlagAt(g, e, fl, j)}
  <2>1. FlagsIn(g, e, shs, fl, b) = {j % ByteWidth : j \in P} /\ FlagsIn(g, e, shn, fl, b) = {j % ByteWidth : j \in Q}
    BY Zenon DEF FlagsIn, L
  <2>2. CASE b = ByteOf(i) /\ FlagAt(g, e, fl, i)
    <3>1. Q = P \union {i}
      BY <2>2, <1>4, <1>9, Zenon
    <3> HIDE DEF P, Q
    <3> QED
      BY <2>1, <2>2, <3>1, Zenon
  <2>3. CASE ~(b = ByteOf(i) /\ FlagAt(g, e, fl, i))
    <3>1. Q = P
      BY <2>3, <1>9, Zenon
    <3> HIDE DEF P, Q
    <3> QED
      BY <2>1, <2>3, <3>1, Zenon
  <2> QED
    BY <2>2, <2>3
<1>11. bsn = [fl \in Flags |-> [b \in B |-> FlagsIn(g, e, shn, fl, b)]]
  <2>1. ASSUME NEW fl \in Flags PROVE bsn[fl] = [b \in B |-> FlagsIn(g, e, shn, fl, b)]
    <3>1. bs[fl] = [b \in B |-> FlagsIn(g, e, shs, fl, b)] /\ shs[s].byte[fl] = bs[fl][ByteOf(i)]
      BY <1>6, <1>7
    <3>2. CASE FlagAt(g, e, fl, i)
      <4>1. bsn[fl] = [bs[fl] EXCEPT ![ByteOf(i)] = bs[fl][ByteOf(i)] \union {i % ByteWidth}]
        BY <3>1, <3>2, <1>8
      <4>2. \A b : FlagsIn(g, e, shn, fl, b) = IF b = ByteOf(i) THEN FlagsIn(g, e, shs, fl, b) \union {i % ByteWidth}
                                               ELSE FlagsIn(g, e, shs, fl, b)
        BY <3>2, <1>10, Zenon
      <4> DEFINE F(b) == FlagsIn(g, e, shs, fl, b)
                 G(b) == FlagsIn(g, e, shn, fl, b)
      <4>3. bs[fl] = [b \in B |-> F(b)]
        BY <3>1, Zenon
      <4>4. \A b : G(b) = IF b = ByteOf(i) THEN F(b) \union {i % ByteWidth} ELSE F(b)
        BY <4>2, Zenon
      <4> DEFINE w == {i % ByteWidth}
      <4> HIDE DEF F, G, w
      <4>5. bsn[fl] = [bs[fl] EXCEPT ![ByteOf(i)] = F(ByteOf(i)) \union w]
        <5>1. bs[fl][ByteOf(i)] = F(ByteOf(i))
          BY <4>3, <1>b
        <5> QED
          BY <5>1, <4>1, Zenon DEF w
      <4>6. bsn[fl] = [b \in B |-> IF b = ByteOf(i) THEN F(b) \union w ELSE F(b)]
        BY <4>3, <4>5
      <4>7. bsn[fl] = [b \in B |-> G(b)]
        BY <4>4, <4>6, Zenon DEF w
      <4> QED
        BY <4>7, Zenon DEF G
    <3>3. CASE ~FlagAt(g, e, fl, i)
      <4>1. bsn[fl] = bs[fl]
        BY <3>3, <1>8
      <4>2. \A b : FlagsIn(g, e, shn, fl, b) = FlagsIn(g, e, shs, fl, b)
        BY <3>3, <1>10, Zenon
      <4> QED
        BY <3>1, <4>1, <4>2
    <3> QED
      BY <3>2, <3>3
  <2>2. bsn = [fl \in Flags |-> bsn[fl]]
    BY <1>8
  <2> QED
    BY <2>1, <2>2
<1>12. IsShard(g, e, s, shn[s], row, bsn)
  <2>1. DOMAIN shn[s] = {"at", "out", "err", "byte"} /\ shn[s].err = "none"
    BY <1>1, <1>3, Zenon DEF IsShard, OnlyShard
  <2>2. i + 1 \in Nat /\ s * L <= i + 1 /\ i + 1 <= ShardEnd(s, n)
    BY <1>2, <1>3
  <2> QED
    BY <2>1, <2>2, <1>1, <1>5, Zenon DEF IsShard, L
<1>13. ASSUME NEW t \in DOMAIN shs, t # s PROVE IsShard(g, e, t, shn[t], row, bsn)
  <2>1. shn[t] = shs[t] /\ IsShard(g, e, t, shs[t], row, bs)
    BY <1>13, Zenon DEF OnlyShard, Encoding
  <2>2. ASSUME shs[t].byte # Nil, NEW fl \in Flags PROVE shs[t].byte[fl] = bsn[fl][ByteOf(shs[t].at)]
    <3>1. /\ shs[t].at \in Nat /\ t * L <= shs[t].at /\ shs[t].at < ShardEnd(t, n)
          /\ shs[t].byte[fl] = bs[fl][ByteOf(shs[t].at)]
      BY <2>1, <2>2, Zenon DEF IsShard, L
    <3>2. ByteOf(i) # ByteOf(shs[t].at)
      BY <3>1, <1>3, <1>13, <1>o, Zenon DEF Apart
    <3>3. bsn[fl][ByteOf(shs[t].at)] = bs[fl][ByteOf(shs[t].at)]
      <4>1. bsn[fl] = [b \in B |-> FlagsIn(g, e, shn, fl, b)] /\ bs[fl] = [b \in B |-> FlagsIn(g, e, shs, fl, b)]
        BY <1>7, <1>11
      <4>2. \A b : b # ByteOf(i) => FlagsIn(g, e, shn, fl, b) = FlagsIn(g, e, shs, fl, b)
        BY <1>10, Zenon
      <4>3. shs[t].at \in 0..(n - 1)
        <5>1. ShardEnd(t, n) \in Nat /\ ShardEnd(t, n) <= n
          BY OtherShards, Zenon
        <5> QED
          BY <5>1, <3>1, <1>2
      <4>4. ByteOf(shs[t].at) \in B
        BY <4>3, <1>2, BytesCover DEF B
      <4> QED
        <5> DEFINE c == ByteOf(shs[t].at)
                   F(b) == FlagsIn(g, e, shs, fl, b)
                   G(b) == FlagsIn(g, e, shn, fl, b)
        <5>1. c \in B /\ c # ByteOf(i)
          BY <4>4, <3>2, Zenon
        <5>2. bsn[fl] = [b \in B |-> G(b)] /\ bs[fl] = [b \in B |-> F(b)] /\ G(c) = F(c)
          BY <5>1, <4>1, <4>2, Zenon
        <5> HIDE DEF c, F, G
        <5>3. bsn[fl][c] = bs[fl][c]
          BY <5>1, <5>2
        <5> QED
          BY <5>3, Zenon DEF c
    <3> QED
      BY <3>1, <3>3, Zenon
  <2> QED
    BY <2>1, <2>2, Zenon DEF IsShard, L
<1>14. \A t \in DOMAIN shn : IsShard(g, e, t, shn[t], row, bsn)
  BY <1>12, <1>13, Zenon DEF OnlyShard
<1> QED
  BY <1>11, <1>14, Zenon DEF Encoding, OnlyShard, B

-----------------------------------------------------------------------------
(* What the shards made in the end. *)

\* What EncodeInOrder puts together.
RowsOf(g, e, n) == [i \in 0..(n - 1) |-> EncodeNode(g, e, i).row]

\* What the file is made of when all nodes are encoded.
StreamOf(g, e, n, x) == [k \in 1..n |-> EncodeNode(g, e, k - 1).out[x]]

StreamsOf(g, e, n) == [x \in Streams |-> FlattenSeq(StreamOf(g, e, n, x))]

FlagsOf(g, e, n, fl, b) ==
    {i % ByteWidth : i \in {j \in 0..(n - 1) : ByteOf(j) = b /\ FlagAt(g, e, fl, j)}}

BitsOf(g, e, n) == [fl \in Flags |-> [b \in DOMAIN NoBits(n) |-> FlagsOf(g, e, n, fl, b)]]

FileOf(g, e, n) == write(g, e, RowsOf(g, e, n), StreamsOf(g, e, n), BitsOf(g, e, n))

\* EncodeInOrder as one file of all rows, streams and bitsets.
LEMMA EncodesInOrder ==
    ASSUME NEW g, Input(g), Labelled(g)
    PROVE  EncodeInOrder(g) = FileOf(g, newEncoder(g), Len(g.targets))
<1> DEFINE e == newEncoder(g)
           n == Len(g.targets)
           res(m) == [i \in 0..(m - 1) |-> EncodeNode(g, e, i)]
           made(m, r) ==
               write(g, e, [i \in 0..(m - 1) |-> r[i].row],
                 [x \in Streams |-> FlattenSeq([k \in 1..m |-> r[k - 1].out[x]])],
                 [fl \in Flags |-> [b \in DOMAIN NoBits(m) |->
                    {i % ByteWidth : i \in {j \in 0..(m - 1) : ByteOf(j) = b /\ r[j].set[fl]}}]])
<1>1. EncodeInOrder(g) = made(Len(e.nodes), res(Len(e.nodes)))
  BY Zenon DEF EncodeInOrder
<1>2. Len(e.nodes) = n /\ n \in Nat
  BY NewEncoder, Zenon DEF IsEncoder, IsNodes, Input
<1> HIDE DEF made, res, e
<1>3. EncodeInOrder(g) = made(n, res(n))
  BY <1>1, <1>2, Zenon
<1> DEFINE r == res(n)
<1>4. \A i \in 0..(n - 1) : r[i] = EncodeNode(g, e, i)
  BY DEF res
<1>a. \A k \in 1..n : k - 1 \in 0..(n - 1)
  BY <1>2
<1> HIDE DEF r
<1>5. [i \in 0..(n - 1) |-> r[i].row] = RowsOf(g, e, n)
  BY <1>4 DEF RowsOf
<1>6. \A x : [k \in 1..n |-> r[k - 1].out[x]] = StreamOf(g, e, n, x)
  <2> TAKE x
  <2>1. \A k \in 1..n : r[k - 1].out[x] = EncodeNode(g, e, k - 1).out[x]
    BY <1>4, <1>a, Zenon
  <2> QED
    BY <2>1 DEF StreamOf
<1>7. [x \in Streams |-> FlattenSeq([k \in 1..n |-> r[k - 1].out[x]])] = StreamsOf(g, e, n)
  BY <1>6, Zenon DEF StreamsOf
<1>8. ASSUME NEW fl, NEW b
      PROVE  {i % ByteWidth : i \in {j \in 0..(n - 1) : ByteOf(j) = b /\ r[j].set[fl]}} = FlagsOf(g, e, n, fl, b)
  <2>1. {j \in 0..(n - 1) : ByteOf(j) = b /\ r[j].set[fl]}
          = {j \in 0..(n - 1) : ByteOf(j) = b /\ FlagAt(g, e, fl, j)}
    BY <1>4, Zenon DEF FlagAt
  <2> QED
    BY <2>1, Zenon DEF FlagsOf
<1>9. [fl \in Flags |-> [b \in DOMAIN NoBits(n) |->
         {i % ByteWidth : i \in {j \in 0..(n - 1) : ByteOf(j) = b /\ r[j].set[fl]}}]] = BitsOf(g, e, n)
  BY <1>8, Zenon DEF BitsOf
<1>10. made(n, r) = FileOf(g, e, n)
  BY <1>5, <1>7, <1>9, Zenon DEF made, FileOf
<1> QED
  BY <1>3, <1>10, Zenon DEF r, e

\* What the shards have made together is what one pass over the nodes makes.
IsWhole(g, e, shs, row, bs) ==
    /\ WellFormed(g)
    /\ row = RowsOf(g, e, Len(g.targets))
    /\ \A x \in Streams : FlattenSeq([j \in 1..Cardinality(DOMAIN shs) |-> shs[j - 1].out[x]])
                            = FlattenSeq(StreamOf(g, e, Len(g.targets), x))
    /\ bs = BitsOf(g, e, Len(g.targets))

\* Every shard is at its end: the graph was well-formed, and rows, streams and bitsets are
\* those of the nodes in their order.
LEMMA EncodingEnds ==
    ASSUME NEW g, Input(g), NEW e, NEW shs, NEW row, NEW bs, Encoding(g, e, shs, row, bs),
           \A s \in DOMAIN shs : shs[s].err = "none" /\ ~(shs[s].at < ShardEnd(s, Len(g.targets)))
    PROVE  IsWhole(g, e, shs, row, bs)
<1> DEFINE n == Len(g.targets)
           L == ShardLen(n)
           C == ShardCount(n)
<1>1. n \in Nat /\ IsEncoder(g, e) /\ IsNodes(g, e.nodes) /\ DOMAIN shs = 0..(C - 1) /\ Labelled(g)
  BY Zenon DEF Input, Encoding, IsEncoder
<1>2. AreShards(n, L, C)
  BY <1>1, Shards
<1>3. L \in Nat /\ C \in Nat
  BY <1>2, Zenon DEF AreShards
<1> HIDE DEF L, C
<1>4. ASSUME NEW s \in 0..(C - 1)
      PROVE  /\ shs[s].at = ShardEnd(s, n) /\ Reached(shs[s]) = ShardEnd(s, n)
             /\ IsShard(g, e, s, shs[s], row, bs) /\ s * L \in Nat /\ ShardEnd(s, n) \in Nat
  <2>1. IsShard(g, e, s, shs[s], row, bs) /\ ~(shs[s].at < ShardEnd(s, n))
    BY <1>1, Zenon DEF Encoding
  <2>2. s * L \in Nat /\ ShardEnd(s, n) \in Nat
    BY <1>2, Zenon DEF AreShards
  <2>3. /\ shs[s].at \in Nat /\ shs[s].at <= ShardEnd(s, n)
        /\ shs[s].byte # Nil => shs[s].at < ShardEnd(s, n)
    BY <2>1, Zenon DEF IsShard
  <2>4. shs[s].at = ShardEnd(s, n)
    BY <2>1, <2>2, <2>3
  <2>5. shs[s].byte = Nil
    BY <2>1, <2>3, Zenon
  <2> QED
    BY <2>1, <2>2, <2>4, <2>5, Zenon DEF Reached
<1>5. ASSUME NEW i \in 0..(n - 1)
      PROVE  /\ TargetOk(g, TargetAt(g, e, i)) /\ row[i] = EncodeNode(g, e, i).row /\ Stored(shs, L, i)
  <2>1. PICK s \in 0..(C - 1) : s * L <= i /\ i < ShardEnd(s, n)
    BY <1>2, Zenon DEF AreShards
  <2>2. Reached(shs[s]) = ShardEnd(s, n) /\ shs[s].at = ShardEnd(s, n) /\ IsShard(g, e, s, shs[s], row, bs)
    BY <1>4, Zenon
  <2>3. i \in Nat
    BY <1>1
  <2> QED
    BY <2>1, <2>2, <2>3, <1>1, Zenon DEF IsShard, Stored, L
<1>6. WellFormed(g)
  <2>1. ASSUME NEW k \in 1..n PROVE TargetOk(g, g.targets[k])
    <3>1. PICK j \in 1..n : e.nodes[j].origIdx = k
      BY <1>1, Zenon DEF IsNodes
    <3>2. j - 1 \in 0..(n - 1) /\ (j - 1) + 1 = j
      BY <1>1
    <3>3. TargetAt(g, e, j - 1) = g.targets[k]
      BY <3>1, <3>2, Zenon DEF TargetAt
    <3> QED
      BY <3>2, <3>3, <1>5, Zenon
  <2> QED
    BY <2>1, <1>1, WellFormedTargets, Zenon
<1>7. row = RowsOf(g, e, n)
  <2>1. row = [i \in 0..(n - 1) |-> row[i]]
    BY Zenon DEF Encoding
  <2> DEFINE R(i) == EncodeNode(g, e, i).row
  <2>2. \A i \in 0..(n - 1) : row[i] = R(i)
    BY <1>5, Zenon
  <2> HIDE DEF R
  <2>3. row = [i \in 0..(n - 1) |-> R(i)]
    BY <2>1, <2>2
  <2> QED
    BY <2>3, Zenon DEF RowsOf, R
<1>8. bs = BitsOf(g, e, n)
  <2>1. bs = [fl \in Flags |-> [b \in DOMAIN NoBits(n) |-> FlagsIn(g, e, shs, fl, b)]]
    BY Zenon DEF Encoding
  <2>2. ASSUME NEW fl, NEW b PROVE FlagsIn(g, e, shs, fl, b) = FlagsOf(g, e, n, fl, b)
    <3>1. {j \in 0..(n - 1) : ByteOf(j) = b /\ Stored(shs, L, j) /\ FlagAt(g, e, fl, j)}
            = {j \in 0..(n - 1) : ByteOf(j) = b /\ FlagAt(g, e, fl, j)}
      BY <1>5, Zenon
    <3> QED
      BY <3>1, Zenon DEF FlagsIn, FlagsOf, L
  <2> QED
    BY <2>1, <2>2 DEF BitsOf
<1>9. ASSUME NEW x \in Streams
      PROVE  FlattenSeq([j \in 1..Cardinality(DOMAIN shs) |-> shs[j - 1].out[x]]) = FlattenSeq(StreamOf(g, e, n, x))
  <2> DEFINE q == NodeOuts(g, e, x)
             J == Joins(q)
             p == [j \in 1..C |-> shs[j - 1].out[x]]
             JS == Joins(p)
             E(m) == IF m = 0 THEN 0 ELSE ShardEnd(m - 1, n)
  <2>1. Cardinality(DOMAIN shs) = C
    <3>1. Cardinality(0..(C - 1)) = IF 0 > C - 1 THEN 0 ELSE (C - 1) - 0 + 1
      BY <1>3, FS_Interval
    <3> QED
      BY <3>1, <1>1, <1>3
  <2>2. /\ q \in [1..n -> Seq(Int)] /\ J[0] = <<>>
    BY <1>1, NodeOutsJoin, Zenon
  <2>3. q = StreamOf(g, e, n, x)
    <3>1. \A k \in 1..n : k - 1 \in 0..(n - 1)
      BY <1>1
    <3>2. \A k \in 1..n : NodeOut(g, e, x, k - 1) = EncodeNode(g, e, k - 1).out[x]
      BY <3>1, <1>5, Zenon DEF NodeOut
    <3> DEFINE R(k) == EncodeNode(g, e, k - 1).out[x]
    <3>3. q = [k \in 1..n |-> NodeOut(g, e, x, k - 1)] /\ StreamOf(g, e, n, x) = [k \in 1..n |-> R(k)]
      BY Zenon DEF NodeOuts, StreamOf
    <3>4. \A k \in 1..n : NodeOut(g, e, x, k - 1) = R(k)
      BY <3>2, Zenon
    <3> HIDE DEF R, q
    <3> QED
      BY <3>3, <3>4
  <2>4. ASSUME NEW s \in 0..(C - 1)
        PROVE  shs[s].out[x] \in Seq(Int) /\ J[s * L] \o shs[s].out[x] = J[ShardEnd(s, n)]
    BY <1>4, Zenon DEF IsShard, L
  <2>5. p \in [1..C -> Seq(Int)]
    <3>1. \A j \in 1..C : j - 1 \in 0..(C - 1)
      BY <1>3
    <3>2. \A j \in 1..C : shs[j - 1].out[x] \in Seq(Int)
      BY <3>1, <2>4, Zenon
    <3> QED
      BY <3>2
  <2>6. \A m \in 1..C : p[m] = shs[m - 1].out[x]
    OBVIOUS
  <2> HIDE DEF p, q
  <2>7. /\ JS[0] = <<>> /\ \A k \in 1..C : JS[k] = JS[k - 1] \o p[k]
    BY <2>5, <1>3, JoinsDef
  <2>8. FlattenSeq(p) = JS[C] /\ FlattenSeq(q) = J[n]
    BY <2>2, <2>5, <1>1, <1>3, FlattenIsJoins
  <2>9. \A m \in 0..(C - 1) : E(m) = m * L
    <3> TAKE m \in 0..(C - 1)
    <3>1. CASE m = 0
      BY <3>1, <1>3
    <3>2. CASE m # 0
      <4>1. m \in 1..(C - 1)
        BY <3>2, <1>3
      <4> QED
        BY <4>1, <3>2, <1>2, Zenon DEF AreShards
    <3> QED
      BY <3>1, <3>2
  <2>10. E(C) = n
    <3>1. CASE C = 0
      <4>1. n = 0
        <5>1. ASSUME n > 0 PROVE FALSE
          <6>1. 0 \in 0..(n - 1)
            BY <5>1, <1>1
          <6>2. PICK s \in 0..(C - 1) : TRUE
            BY <6>1, <1>2, Zenon DEF AreShards
          <6> QED
            BY <6>2, <3>1
        <5> QED
          BY <5>1, <1>1
      <4> QED
        BY <4>1, <3>1
    <3>2. CASE C # 0
      <4>1. C > 0
        BY <3>2, <1>3
      <4> QED
        BY <4>1, <3>2, <1>2, Zenon DEF AreShards
    <3> QED
      BY <3>1, <3>2
  <2>11. \A m \in 0..C : JS[m] = J[E(m)]
    <3> DEFINE T == {m \in 0..C : JS[m] = J[E(m)]}
    <3>1. 0 \in T
      BY <2>2, <2>7, <1>3
    <3>2. ASSUME NEW m \in 1..C, m - 1 \in T PROVE m \in T
      <4>1. m - 1 \in 0..(C - 1) /\ m # 0
        BY <1>3
      <4>2. JS[m] = JS[m - 1] \o shs[m - 1].out[x]
        BY <2>6, <2>7, Zenon
      <4>3. JS[m - 1] = J[(m - 1) * L]
        BY <3>2, <4>1, <2>9, Zenon
      <4>4. JS[m] = J[ShardEnd(m - 1, n)]
        BY <4>1, <4>2, <4>3, <2>4, Zenon
      <4>5. E(m) = ShardEnd(m - 1, n) /\ m \in 0..C
        BY <4>1
      <4> QED
        BY <4>4, <4>5, Zenon
    <3> HIDE DEF T, E, JS, J
    <3>3. \A m \in 0..C : m \in T
      BY <3>1, <3>2, <1>3, UpTo
    <3> QED
      BY <3>3, Zenon DEF T
  <2>12. C \in 0..C
    BY <1>3
  <2>13. FlattenSeq(p) = FlattenSeq(q)
    BY <2>8, <2>10, <2>11, <2>12, Zenon
  <2> QED
    BY <2>1, <2>3, <2>13, Zenon DEF p
<1> QED
  BY <1>6, <1>7, <1>8, <1>9, Zenon DEF IsWhole

-----------------------------------------------------------------------------
(* How a file is laid out. *)

\* What lies where in a file.
IsLaid(f, ids, cols, n) ==
    /\ Len(f) = Len(ids) + 3 /\ DOMAIN f = 1..(Len(ids) + 3)
    /\ f[1].kind = "header" /\ f[1].nodeCount = n /\ f[1].edgeCount = Totals(cols.DEG)[n]
    /\ f[1].blockSize = BlockSize /\ f[1].flags = {}
    /\ \A k \in 1..Len(ids) : f[k + 1].kind = "column" /\ f[k + 1].data = cols[ids[k]]
    /\ f[Len(ids) + 2].kind = "directory" /\ Len(f[Len(ids) + 2].entries) = Len(ids)
    /\ \A k \in 1..Len(ids) : /\ f[Len(ids) + 2].entries[k].id = ids[k]
                              /\ f[Len(ids) + 2].entries[k].offset = k + 1
                              /\ f[Len(ids) + 2].entries[k].codec = Codec(ids[k])
                              /\ f[Len(ids) + 2].entries[k].compressedSize = StoredSize(ids[k], cols[ids[k]])
                              /\ f[Len(ids) + 2].entries[k].rawSize = RawSize(ids[k], cols[ids[k]])
    /\ f[Len(ids) + 3].kind = "footer" /\ f[Len(ids) + 3].dirOffset = Len(ids) + 2
    /\ \E S : f \in Seq(S)

\* What write puts where.
LEMMA LaysOut ==
    ASSUME NEW ids, Len(ids) \in Nat, NEW cols, NEW n
    PROVE  IsLaid(Laid(ids, cols, n), ids, cols, n)
<1> DEFINE m == Len(ids)
           hdr == [kind |-> "header", nodeCount |-> n, edgeCount |-> Totals(cols.DEG)[n],
                   blockSize |-> BlockSize, flags |-> {}]
           col(k) == [kind |-> "column", data |-> cols[ids[k]]]
           ent(k) == [id |-> ids[k], codec |-> Codec(ids[k]), offset |-> k + 1,
                      compressedSize |-> StoredSize(ids[k], cols[ids[k]]),
                      rawSize |-> RawSize(ids[k], cols[ids[k]])]
           dir == [kind |-> "directory", entries |-> [k \in 1..m |-> ent(k)]]
           foot == [kind |-> "footer", dirOffset |-> m + 2]
           cs == [k \in 1..m |-> col(k)]
           S == {hdr, dir, foot} \union {col(k) : k \in 1..m}
           f == Laid(ids, cols, n)
<1>1. f = (<<hdr>> \o cs) \o <<dir, foot>>
  BY Zenon DEF Laid
<1>2. hdr \in S /\ dir \in S /\ foot \in S /\ \A k \in 1..m : col(k) \in S
  BY Zenon
<1>3. /\ hdr.kind = "header" /\ hdr.nodeCount = n /\ hdr.edgeCount = Totals(cols.DEG)[n]
      /\ hdr.blockSize = BlockSize /\ hdr.flags = {}
      /\ foot.kind = "footer" /\ foot.dirOffset = m + 2
      /\ \A k \in 1..m : col(k).kind = "column" /\ col(k).data = cols[ids[k]]
      /\ dir.kind = "directory" /\ dir.entries = [k \in 1..m |-> ent(k)]
      /\ \A k \in 1..m : /\ ent(k).id = ids[k] /\ ent(k).offset = k + 1
                         /\ ent(k).codec = Codec(ids[k])
                         /\ ent(k).compressedSize = StoredSize(ids[k], cols[ids[k]])
                         /\ ent(k).rawSize = RawSize(ids[k], cols[ids[k]])
  OBVIOUS
<1> HIDE DEF hdr, col, ent, dir, foot, S, f
<1>4. Len(dir.entries) = m /\ \A k \in 1..m : dir.entries[k] = ent(k)
  BY <1>3
<1>5. cs \in Seq(S) /\ Len(cs) = m /\ \A k \in 1..m : cs[k] = col(k)
  BY <1>2
<1> HIDE DEF cs
<1>6. <<hdr>> \in Seq(S) /\ Len(<<hdr>>) = 1 /\ <<hdr>>[1] = hdr
  BY <1>2
<1>7. <<dir, foot>> \in Seq(S) /\ Len(<<dir, foot>>) = 2 /\ <<dir, foot>>[1] = dir /\ <<dir, foot>>[2] = foot
  BY <1>2
<1> DEFINE a == <<hdr>>
           d == <<dir, foot>>
           b == a \o cs
<1>8. IsCat(S, a, cs, b)
  BY <1>5, <1>6, Cat, Zenon
<1>9. b \in Seq(S)
  BY <1>8, Zenon DEF IsCat
<1>10. IsCat(S, b, d, f)
  <2> HIDE DEF b, d
  <2>1. d \in Seq(S)
    BY <1>7, Zenon DEF d
  <2>2. f = b \o d
    BY <1>1, Zenon DEF b, d
  <2> QED
    BY <2>1, <2>2, <1>9, Cat, Zenon
<1> HIDE DEF b, a, d
<1>11. Len(a) = 1 /\ a[1] = hdr /\ Len(d) = 2 /\ d[1] = dir /\ d[2] = foot
  BY <1>6, <1>7, Zenon DEF a, d
<1>12. Len(b) = m + 1 /\ b[1] = hdr /\ \A k \in 1..m : b[k + 1] = col(k)
  <2>1. Len(b) = Len(a) + Len(cs) /\ (\A j \in 1..Len(a) : b[j] = a[j]) /\ \A j \in 1..Len(cs) : b[Len(a) + j] = cs[j]
    BY <1>8, Zenon DEF IsCat
  <2>2. \A j \in 1..m : 1 + j = j + 1
    OBVIOUS
  <2> QED
    BY <2>1, <2>2, <1>5, <1>11
<1>13. /\ f \in Seq(S) /\ Len(f) = m + 3 /\ f[1] = hdr /\ (\A k \in 1..m : f[k + 1] = col(k))
       /\ f[m + 2] = dir /\ f[m + 3] = foot
  <2>1. /\ f \in Seq(S) /\ Len(f) = Len(b) + Len(d) /\ (\A j \in 1..Len(b) : f[j] = b[j])
        /\ \A j \in 1..Len(d) : f[Len(b) + j] = d[j]
    BY <1>10, Zenon DEF IsCat
  <2>2. (m + 1) + 1 = m + 2 /\ (m + 1) + 2 = m + 3 /\ 1 \in 1..(m + 1) /\ \A k \in 1..m : k + 1 \in 1..(m + 1)
    OBVIOUS
  <2>3. f[1] = hdr /\ \A k \in 1..m : f[k + 1] = col(k)
    BY <2>1, <2>2, <1>12
  <2>4. f[m + 2] = dir /\ f[m + 3] = foot
    BY <2>1, <2>2, <1>11, <1>12
  <2>5. Len(f) = m + 3
    BY <2>1, <1>11, <1>12
  <2> QED
    BY <2>1, <2>3, <2>4, <2>5
<1>14. DOMAIN f = 1..(m + 3)
  BY <1>13
<1>15. \A k \in 1..m : /\ f[m + 2].entries[k].id = ids[k] /\ f[m + 2].entries[k].offset = k + 1
                       /\ f[m + 2].entries[k].codec = Codec(ids[k])
                       /\ f[m + 2].entries[k].compressedSize = StoredSize(ids[k], cols[ids[k]])
                       /\ f[m + 2].entries[k].rawSize = RawSize(ids[k], cols[ids[k]])
  BY <1>3, <1>4, <1>13, Zenon
<1>16. /\ f[1].kind = "header" /\ f[1].nodeCount = n /\ f[1].edgeCount = Totals(cols.DEG)[n]
       /\ f[1].blockSize = BlockSize /\ f[1].flags = {}
  BY <1>3, <1>13, Zenon
<1>17. \A k \in 1..m : f[k + 1].kind = "column" /\ f[k + 1].data = cols[ids[k]]
  BY <1>3, <1>13, Zenon
<1>18. f[m + 2].kind = "directory" /\ Len(f[m + 2].entries) = m
  BY <1>3, <1>4, <1>13, Zenon
<1>19. f[m + 3].kind = "footer" /\ f[m + 3].dirOffset = m + 2
  BY <1>3, <1>13, Zenon
<1>20. Len(f) = m + 3 /\ \E T : f \in Seq(T)
  BY <1>13, Zenon
<1>21. IsLaid(f, ids, cols, n)
  BY <1>14, <1>15, <1>16, <1>17, <1>18, <1>19, <1>20, Zenon DEF IsLaid
<1> QED
  BY <1>21, Zenon DEF f

\* Every column has an ID of its own.
IsIDs(ids) ==
    /\ Len(ids) \in Nat
    /\ \A j, k \in 1..Len(ids) : ids[j] = ids[k] => j = k

\* A column is found by its ID.
LEMMA GetsColumn ==
    ASSUME NEW ids, IsIDs(ids), NEW cols, NEW n, NEW f, IsLaid(f, ids, cols, n), NEW k \in 1..Len(ids)
    PROVE  getColumn(f, ids[k]) = cols[ids[k]] /\ rawSize(f, ids[k]) = RawSize(ids[k], cols[ids[k]])
<1> DEFINE m == Len(ids)
           dir == f[m + 2].entries
           at == {j \in 1..Len(dir) : dir[j].id = ids[k]}
<1>1. DirectoryOf(f) = dir
  <2>1. Len(f) = m + 3 /\ f[m + 3].dirOffset = m + 2
    BY Zenon DEF IsLaid
  <2>2. f[Len(f)].dirOffset = m + 2
    BY <2>1
  <2> QED
    BY <2>2, Zenon DEF DirectoryOf
<1>2. Len(dir) = m /\ \A j \in 1..m : dir[j].id = ids[j] /\ dir[j].offset = j + 1 /\ dir[j].rawSize = RawSize(ids[j], cols[ids[j]])
  BY Zenon DEF IsLaid
<1> HIDE DEF dir
<1>3. at = {k}
  BY <1>2 DEF IsIDs
<1>4. Min(at) = k /\ Max(at) = k /\ at # {}
  <2>1. k \in Int
    OBVIOUS
  <2> QED
    BY <2>1, <1>3, MaxMinOne, Zenon
<1>5. getColumn(f, ids[k]) = f[dir[Min(at)].offset].data
  BY <1>1, <1>4, Zenon DEF getColumn
<1>6. rawSize(f, ids[k]) = dir[Max(at)].rawSize
  BY <1>1, <1>4, Zenon DEF rawSize
<1>7. dir[k].offset = k + 1 /\ dir[k].rawSize = RawSize(ids[k], cols[ids[k]]) /\ f[k + 1].data = cols[ids[k]]
  BY <1>2, Zenon DEF IsLaid
<1> HIDE DEF at
<1> QED
  BY <1>4, <1>5, <1>6, <1>7, Zenon

\* A column that is not there is empty.
LEMMA LacksColumn ==
    ASSUME NEW ids, IsIDs(ids), NEW cols, NEW n, NEW f, IsLaid(f, ids, cols, n), NEW id,
           \A k \in 1..Len(ids) : ids[k] # id
    PROVE  getColumn(f, id) = <<>>
<1> DEFINE m == Len(ids)
           dir == f[m + 2].entries
           at == {j \in 1..Len(dir) : dir[j].id = id}
<1>1. DirectoryOf(f) = dir
  <2>1. Len(f) = m + 3 /\ f[m + 3].dirOffset = m + 2
    BY Zenon DEF IsLaid
  <2>2. f[Len(f)].dirOffset = m + 2
    BY <2>1
  <2> QED
    BY <2>2, Zenon DEF DirectoryOf
<1>2. Len(dir) = m /\ \A j \in 1..m : dir[j].id = ids[j]
  BY Zenon DEF IsLaid
<1> HIDE DEF dir
<1>3. at = {}
  BY <1>2
<1> QED
  BY <1>1, <1>3, Zenon DEF getColumn

\* The IDs of a file's columns.
LEMMA FileIDs ==
    ASSUME NEW files
    PROVE  /\ IsIDs(IDsOf(files))
           /\ Len(ColumnNames) = 20
           /\ \A k \in 1..20 : IDsOf(files)[k] = ColumnNames[k]
           /\ Len(IDsOf(files)) >= 20
           /\ DOMAIN files # {} => Len(IDsOf(files)) = 21 /\ IDsOf(files)[21] = "ALL_TARGETS_FILE_HASHES"
           /\ DOMAIN files = {} => \A k \in 1..Len(IDsOf(files)) : IDsOf(files)[k] # "ALL_TARGETS_FILE_HASHES"
<1> DEFINE a == ColumnNames
           A == "ALL_TARGETS_FILE_HASHES"
           S == {"PKG_DICT", "NAME_DICT", "RULETYPE_DICT", "TAG_DICT", "ATTR_NAME_DICT", "ATTR_VALUE_DICT",
                 "NODE_PKG", "NODE_NAME", "HASH", "DEG", "DEPS", "RULETYPE", "TAG_DEG", "TAGS",
                 "ATTR_DEG", "ATTR_NAME", "ATTR_VALUE", "FLAGS", "BLOCK_DIGEST", "BLOCK_START",
                 "ALL_TARGETS_FILE_HASHES"}
<1>0. Len(a) = 20
  BY DEF ColumnNames
<1>1. a \in Seq(S) /\ Len(a) = 20
  <2>1. a \in Seq(S)
    BY DEF ColumnNames
  <2> QED
    BY <2>1, <1>0
<1>2. \A j, k \in 1..20 : a[j] = a[k] => j = k
  BY DEF ColumnNames
<1>3. \A k \in 1..20 : a[k] # A
  BY DEF ColumnNames
<1> HIDE DEF a, A
<1>4. CASE DOMAIN files = {}
  <2>1. IDsOf(files) = a \o <<>>
    BY <1>4, Zenon DEF IDsOf, a
  <2>2. IDsOf(files) = a
    BY <2>1, <1>1
  <2>3. Len(IDsOf(files)) = 20 /\ \A k \in 1..20 : IDsOf(files)[k] = a[k]
    BY <2>2, <1>1
  <2>4. IsIDs(IDsOf(files))
    BY <2>3, <1>2 DEF IsIDs
  <2> HIDE DEF S
  <2>5. Len(IDsOf(files)) >= 20
    BY <2>3
  <2>6. \A k \in 1..Len(IDsOf(files)) : IDsOf(files)[k] # A
    BY <2>3, <1>3
  <2> QED
    BY <2>3, <2>4, <2>5, <2>6, <1>1, <1>4, Zenon DEF a, A
<1>5. CASE DOMAIN files # {}
  <2>1. IDsOf(files) = a \o <<A>>
    BY <1>5, Zenon DEF IDsOf, a, A
  <2>2. <<A>> \in Seq(S) /\ Len(<<A>>) = 1 /\ <<A>>[1] = A
    <3>1. A \in S
      BY DEF A
    <3> HIDE DEF S
    <3> QED
      BY <3>1
  <2> DEFINE ids == IDsOf(files)
             b == <<A>>
  <2>3. IsCat(S, a, b, ids)
    BY <2>1, <2>2, <1>1, Cat, Zenon
  <2>4. Len(b) = 1 /\ b[1] = A
    BY <2>2
  <2> HIDE DEF ids, b
  <2>5. Len(ids) = 21 /\ (\A k \in 1..20 : ids[k] = a[k]) /\ ids[21] = A
    <3>1. Len(ids) = Len(a) + Len(b) /\ (\A j \in 1..Len(a) : ids[j] = a[j]) /\ \A j \in 1..Len(b) : ids[Len(a) + j] = b[j]
      BY <2>3, Zenon DEF IsCat
    <3> QED
      BY <3>1, <2>4, <1>1
  <2>6. \A j, k \in 1..21 : ids[j] = ids[k] => j = k
    <3> SUFFICES ASSUME NEW j \in 1..21, NEW k \in 1..21, ids[j] = ids[k] PROVE j = k
      OBVIOUS
    <3>1. (j \in 1..20 \/ j = 21) /\ (k \in 1..20 \/ k = 21)
      OBVIOUS
    <3> QED
      BY <3>1, <2>5, <1>2, <1>3
  <2> QED
    BY <1>1, <1>5, <2>5, <2>6 DEF IsIDs, a, A, ids
<1> QED
  BY <1>4, <1>5

-----------------------------------------------------------------------------
(* The columns of a file. *)

\* A column of the nodes' rows, and the three bitsets one after the other.
Col(g, e, n, fld) == [k \in 1..n |-> EncodeNode(g, e, k - 1).row[fld]]

Flagged(bs) == (BytesOf(bs.root) \o BytesOf(bs.ext)) \o BytesOf(bs.empty)

\* f is the file of g: what a Reader gets for every column.
IsFile(g, e, n, f) ==
    /\ \E cols : IsLaid(f, IDsOf(g.meta.files), cols, n)
    /\ NodeCount(f) = n /\ f[1].edgeCount = Totals(Col(g, e, n, "depDeg"))[n]
    /\ getColumn(f, "PKG_DICT") = buildFrontCodedDict(e.dict.pkg)
    /\ getColumn(f, "NAME_DICT") = buildFrontCodedDict(e.dict.name)
    /\ getColumn(f, "RULETYPE_DICT") = buildFrontCodedDict(e.dict.ruleType)
    /\ getColumn(f, "TAG_DICT") = buildFrontCodedDict(e.dict.tag)
    /\ getColumn(f, "ATTR_NAME_DICT") = buildFrontCodedDict(e.dict.attrName)
    /\ getColumn(f, "ATTR_VALUE_DICT") = buildFrontCodedDict(e.dict.attrVal)
    /\ getColumn(f, "NODE_PKG") = encodeDeltas(pkgIDsOf(e.nodes))
    /\ getColumn(f, "NODE_NAME") = encodeNames(pkgIDsOf(e.nodes), Col(g, e, n, "name"))
    /\ getColumn(f, "HASH") = FlattenSeq(Col(g, e, n, "hash"))
    /\ getColumn(f, "DEG") = Col(g, e, n, "depDeg")
    /\ getColumn(f, "DEPS") = FlattenSeq(StreamOf(g, e, n, "deps"))
    /\ getColumn(f, "RULETYPE") = Col(g, e, n, "ruleType")
    /\ getColumn(f, "TAG_DEG") = Col(g, e, n, "tagDeg")
    /\ getColumn(f, "TAGS") = FlattenSeq(StreamOf(g, e, n, "tags"))
    /\ getColumn(f, "ATTR_DEG") = Col(g, e, n, "attrDeg")
    /\ getColumn(f, "ATTR_NAME") = FlattenSeq(StreamOf(g, e, n, "attrNms"))
    /\ getColumn(f, "ATTR_VALUE") = FlattenSeq(StreamOf(g, e, n, "attrVls"))
    /\ getColumn(f, "FLAGS") = Flagged(BitsOf(g, e, n))
    /\ getColumn(f, "BLOCK_DIGEST") = BlocksOf(e.nodes).digests
    /\ getColumn(f, "BLOCK_START") = encodeDeltas(BlocksOf(e.nodes).starts)
    /\ DOMAIN g.meta.files = {} => getColumn(f, "ALL_TARGETS_FILE_HASHES") = <<>>
    /\ DOMAIN g.meta.files # {} => getColumn(f, "ALL_TARGETS_FILE_HASHES") = encodeStringMap(g.meta.files)
    /\ rawSize(f, "DEG") = Len(Col(g, e, n, "depDeg"))
    /\ rawSize(f, "HASH") = Len(FlattenSeq(Col(g, e, n, "hash")))
    /\ rawSize(f, "DEPS") = Len(FlattenSeq(StreamOf(g, e, n, "deps")))
    /\ rawSize(f, "BLOCK_DIGEST") = 8 * Len(BlocksOf(e.nodes).digests)

\* What EncodeInOrder writes can be found by the IDs of the columns.
LEMMA WritesColumns ==
    ASSUME NEW g, NEW e, NEW n \in Nat, Len(e.nodes) = n
    PROVE  IsFile(g, e, n, FileOf(g, e, n))
<1> DEFINE files == g.meta.files
           ids == IDsOf(files)
           R == RowsOf(g, e, n)
           col(fld) == [k \in 1..n |-> R[k - 1][fld]]
           cols == ColumnsOf(files, n, e.dict, pkgIDsOf(e.nodes), BlocksOf(e.nodes), R, StreamsOf(g, e, n), BitsOf(g, e, n))
           f == FileOf(g, e, n)
<1>1. f = Laid(ids, cols, n)
  BY WritesFile, Zenon DEF FileOf
<1>2. /\ IsIDs(ids) /\ (\A k \in 1..20 : ids[k] = ColumnNames[k]) /\ Len(ids) >= 20
      /\ DOMAIN files # {} => Len(ids) = 21 /\ ids[21] = "ALL_TARGETS_FILE_HASHES"
      /\ DOMAIN files = {} => \A k \in 1..Len(ids) : ids[k] # "ALL_TARGETS_FILE_HASHES"
  BY FileIDs
<1> HIDE DEF ids, cols
<1>a. IsIDs(ids)
  BY <1>2, Zenon
<1>3. Len(ids) \in Nat
  BY <1>a DEF IsIDs
<1>b. Len(ids) >= 20
  BY <1>2, Zenon
<1>c. DOMAIN files = {} => \A k \in 1..Len(ids) : ids[k] # "ALL_TARGETS_FILE_HASHES"
  BY <1>2, Zenon
<1>d. DOMAIN files # {} => Len(ids) = 21 /\ ids[21] = "ALL_TARGETS_FILE_HASHES"
  BY <1>2, Zenon
<1>4. IsLaid(f, ids, cols, n)
  BY <1>1, <1>3, LaysOut, Zenon
<1> HIDE DEF f
<1>5. \A fld : col(fld) = Col(g, e, n, fld)
  <2>1. ASSUME NEW k \in 1..n PROVE R[k - 1] = EncodeNode(g, e, k - 1).row
    <3>1. k - 1 \in 0..(n - 1)
      OBVIOUS
    <3> QED
      BY <3>1 DEF RowsOf
  <2> HIDE DEF R
  <2> TAKE fld
  <2>2. \A k \in 1..n : R[k - 1][fld] = EncodeNode(g, e, k - 1).row[fld]
    BY <2>1, Zenon
  <2> QED
    BY <2>2 DEF Col
<1>6. \A x \in Streams : StreamsOf(g, e, n)[x] = FlattenSeq(StreamOf(g, e, n, x))
  BY DEF StreamsOf
<1>7. cols = [PKG_DICT |-> buildFrontCodedDict(e.dict.pkg),
             NAME_DICT |-> buildFrontCodedDict(e.dict.name),
             RULETYPE_DICT |-> buildFrontCodedDict(e.dict.ruleType),
             TAG_DICT |-> buildFrontCodedDict(e.dict.tag),
             ATTR_NAME_DICT |-> buildFrontCodedDict(e.dict.attrName),
             ATTR_VALUE_DICT |-> buildFrontCodedDict(e.dict.attrVal),
             NODE_PKG |-> encodeDeltas(pkgIDsOf(e.nodes)),
             NODE_NAME |-> encodeNames(pkgIDsOf(e.nodes), col("name")),
             HASH |-> FlattenSeq(col("hash")),
             DEG |-> col("depDeg"),
             DEPS |-> StreamsOf(g, e, n).deps,
             RULETYPE |-> col("ruleType"),
             TAG_DEG |-> col("tagDeg"),
             TAGS |-> StreamsOf(g, e, n).tags,
             ATTR_DEG |-> col("attrDeg"),
             ATTR_NAME |-> StreamsOf(g, e, n).attrNms,
             ATTR_VALUE |-> StreamsOf(g, e, n).attrVls,
             FLAGS |-> Flagged(BitsOf(g, e, n)),
             BLOCK_DIGEST |-> BlocksOf(e.nodes).digests,
             BLOCK_START |-> encodeDeltas(BlocksOf(e.nodes).starts),
             ALL_TARGETS_FILE_HASHES |-> encodeStringMap(files)]
  BY Zenon DEF cols, ColumnsOf, Flagged
<1> DEFINE c1 == buildFrontCodedDict(e.dict.pkg)
           c2 == buildFrontCodedDict(e.dict.name)
           c3 == buildFrontCodedDict(e.dict.ruleType)
           c4 == buildFrontCodedDict(e.dict.tag)
           c5 == buildFrontCodedDict(e.dict.attrName)
           c6 == buildFrontCodedDict(e.dict.attrVal)
           c7 == encodeDeltas(pkgIDsOf(e.nodes))
           c8 == encodeNames(pkgIDsOf(e.nodes), col("name"))
           c9 == FlattenSeq(col("hash"))
           c10 == col("depDeg")
           c11 == StreamsOf(g, e, n).deps
           c12 == col("ruleType")
           c13 == col("tagDeg")
           c14 == StreamsOf(g, e, n).tags
           c15 == col("attrDeg")
           c16 == StreamsOf(g, e, n).attrNms
           c17 == StreamsOf(g, e, n).attrVls
           c18 == Flagged(BitsOf(g, e, n))
           c19 == BlocksOf(e.nodes).digests
           c20 == encodeDeltas(BlocksOf(e.nodes).starts)
           c21 == encodeStringMap(files)
<1>8. cols = [PKG_DICT |-> c1, NAME_DICT |-> c2, RULETYPE_DICT |-> c3, TAG_DICT |-> c4, ATTR_NAME_DICT |-> c5, ATTR_VALUE_DICT |-> c6, NODE_PKG |-> c7, NODE_NAME |-> c8, HASH |-> c9, DEG |-> c10, DEPS |-> c11, RULETYPE |-> c12, TAG_DEG |-> c13, TAGS |-> c14, ATTR_DEG |-> c15, ATTR_NAME |-> c16, ATTR_VALUE |-> c17, FLAGS |-> c18, BLOCK_DIGEST |-> c19, BLOCK_START |-> c20, ALL_TARGETS_FILE_HASHES |-> c21]
  BY <1>7, Zenon
<1>9. /\ c1 = buildFrontCodedDict(e.dict.pkg)
      /\ c2 = buildFrontCodedDict(e.dict.name)
      /\ c3 = buildFrontCodedDict(e.dict.ruleType)
      /\ c4 = buildFrontCodedDict(e.dict.tag)
      /\ c5 = buildFrontCodedDict(e.dict.attrName)
      /\ c6 = buildFrontCodedDict(e.dict.attrVal)
      /\ c7 = encodeDeltas(pkgIDsOf(e.nodes))
      /\ c8 = encodeNames(pkgIDsOf(e.nodes), Col(g, e, n, "name"))
      /\ c9 = FlattenSeq(Col(g, e, n, "hash"))
      /\ c10 = Col(g, e, n, "depDeg")
      /\ c11 = FlattenSeq(StreamOf(g, e, n, "deps"))
      /\ c12 = Col(g, e, n, "ruleType")
      /\ c13 = Col(g, e, n, "tagDeg")
      /\ c14 = FlattenSeq(StreamOf(g, e, n, "tags"))
      /\ c15 = Col(g, e, n, "attrDeg")
      /\ c16 = FlattenSeq(StreamOf(g, e, n, "attrNms"))
      /\ c17 = FlattenSeq(StreamOf(g, e, n, "attrVls"))
      /\ c18 = Flagged(BitsOf(g, e, n))
      /\ c19 = BlocksOf(e.nodes).digests
      /\ c20 = encodeDeltas(BlocksOf(e.nodes).starts)
  <2>1. "deps" \in Streams /\ "tags" \in Streams /\ "attrNms" \in Streams /\ "attrVls" \in Streams
    BY DEF Streams
  <2> QED
    BY <2>1, <1>5, <1>6, Zenon
<1> HIDE DEF c1, c2, c3, c4, c5, c6, c7, c8, c9, c10, c11, c12, c13, c14, c15, c16, c17, c18, c19, c20, c21, col
<1>10. /\ cols["PKG_DICT"] = c1
       /\ cols["NAME_DICT"] = c2
       /\ cols["RULETYPE_DICT"] = c3
       /\ cols["TAG_DICT"] = c4
       /\ cols["ATTR_NAME_DICT"] = c5
       /\ cols["ATTR_VALUE_DICT"] = c6
       /\ cols["NODE_PKG"] = c7
       /\ cols["NODE_NAME"] = c8
       /\ cols["HASH"] = c9
       /\ cols["DEG"] = c10
       /\ cols["DEPS"] = c11
       /\ cols["RULETYPE"] = c12
       /\ cols["TAG_DEG"] = c13
       /\ cols["TAGS"] = c14
       /\ cols["ATTR_DEG"] = c15
       /\ cols["ATTR_NAME"] = c16
       /\ cols["ATTR_VALUE"] = c17
       /\ cols["FLAGS"] = c18
       /\ cols["BLOCK_DIGEST"] = c19
       /\ cols["BLOCK_START"] = c20
       /\ cols["ALL_TARGETS_FILE_HASHES"] = c21
  BY <1>8
<1>11. /\ ids[1] = "PKG_DICT"
       /\ ids[2] = "NAME_DICT"
       /\ ids[3] = "NODE_PKG"
       /\ ids[4] = "NODE_NAME"
       /\ ids[5] = "HASH"
       /\ ids[6] = "DEG"
       /\ ids[7] = "DEPS"
       /\ ids[8] = "RULETYPE"
       /\ ids[9] = "RULETYPE_DICT"
       /\ ids[10] = "TAG_DEG"
       /\ ids[11] = "TAGS"
       /\ ids[12] = "TAG_DICT"
       /\ ids[13] = "ATTR_DEG"
       /\ ids[14] = "ATTR_NAME"
       /\ ids[15] = "ATTR_VALUE"
       /\ ids[16] = "ATTR_NAME_DICT"
       /\ ids[17] = "ATTR_VALUE_DICT"
       /\ ids[18] = "FLAGS"
       /\ ids[19] = "BLOCK_DIGEST"
       /\ ids[20] = "BLOCK_START"
  BY <1>2 DEF ColumnNames
<1>12. \A k \in 1..Len(ids) : getColumn(f, ids[k]) = cols[ids[k]] /\ rawSize(f, ids[k]) = RawSize(ids[k], cols[ids[k]])
  BY <1>a, <1>4, GetsColumn, Zenon
<1>e. \A k \in 1..Len(ids) : \A id, c : ids[k] = id /\ cols[id] = c
         => getColumn(f, id) = c /\ rawSize(f, id) = RawSize(id, c)
  BY <1>12, Zenon
<1>13. /\ 1 \in 1..Len(ids)
       /\ 2 \in 1..Len(ids)
       /\ 3 \in 1..Len(ids)
       /\ 4 \in 1..Len(ids)
       /\ 5 \in 1..Len(ids)
       /\ 6 \in 1..Len(ids)
       /\ 7 \in 1..Len(ids)
       /\ 8 \in 1..Len(ids)
       /\ 9 \in 1..Len(ids)
       /\ 10 \in 1..Len(ids)
       /\ 11 \in 1..Len(ids)
       /\ 12 \in 1..Len(ids)
       /\ 13 \in 1..Len(ids)
       /\ 14 \in 1..Len(ids)
       /\ 15 \in 1..Len(ids)
       /\ 16 \in 1..Len(ids)
       /\ 17 \in 1..Len(ids)
       /\ 18 \in 1..Len(ids)
       /\ 19 \in 1..Len(ids)
       /\ 20 \in 1..Len(ids)
  BY <1>b, <1>3
<1>14. /\ getColumn(f, "PKG_DICT") = c1
       /\ getColumn(f, "NAME_DICT") = c2
       /\ getColumn(f, "RULETYPE_DICT") = c3
       /\ getColumn(f, "TAG_DICT") = c4
       /\ getColumn(f, "ATTR_NAME_DICT") = c5
       /\ getColumn(f, "ATTR_VALUE_DICT") = c6
       /\ getColumn(f, "NODE_PKG") = c7
       /\ getColumn(f, "NODE_NAME") = c8
       /\ getColumn(f, "HASH") = c9
       /\ getColumn(f, "DEG") = c10
       /\ getColumn(f, "DEPS") = c11
       /\ getColumn(f, "RULETYPE") = c12
       /\ getColumn(f, "TAG_DEG") = c13
       /\ getColumn(f, "TAGS") = c14
       /\ getColumn(f, "ATTR_DEG") = c15
       /\ getColumn(f, "ATTR_NAME") = c16
       /\ getColumn(f, "ATTR_VALUE") = c17
       /\ getColumn(f, "FLAGS") = c18
       /\ getColumn(f, "BLOCK_DIGEST") = c19
       /\ getColumn(f, "BLOCK_START") = c20
  <2>1. getColumn(f, "PKG_DICT") = c1
    <3>1. 1 \in 1..Len(ids) /\ ids[1] = "PKG_DICT" /\ cols["PKG_DICT"] = c1
      BY <1>10, <1>11, <1>13, Zenon
    <3> QED
      BY <3>1, <1>e, Zenon
  <2>2. getColumn(f, "NAME_DICT") = c2
    <3>1. 2 \in 1..Len(ids) /\ ids[2] = "NAME_DICT" /\ cols["NAME_DICT"] = c2
      BY <1>10, <1>11, <1>13, Zenon
    <3> QED
      BY <3>1, <1>e, Zenon
  <2>3. getColumn(f, "RULETYPE_DICT") = c3
    <3>1. 9 \in 1..Len(ids) /\ ids[9] = "RULETYPE_DICT" /\ cols["RULETYPE_DICT"] = c3
      BY <1>10, <1>11, <1>13, Zenon
    <3> QED
      BY <3>1, <1>e, Zenon
  <2>4. getColumn(f, "TAG_DICT") = c4
    <3>1. 12 \in 1..Len(ids) /\ ids[12] = "TAG_DICT" /\ cols["TAG_DICT"] = c4
      BY <1>10, <1>11, <1>13, Zenon
    <3> QED
      BY <3>1, <1>e, Zenon
  <2>5. getColumn(f, "ATTR_NAME_DICT") = c5
    <3>1. 16 \in 1..Len(ids) /\ ids[16] = "ATTR_NAME_DICT" /\ cols["ATTR_NAME_DICT"] = c5
      BY <1>10, <1>11, <1>13, Zenon
    <3> QED
      BY <3>1, <1>e, Zenon
  <2>6. getColumn(f, "ATTR_VALUE_DICT") = c6
    <3>1. 17 \in 1..Len(ids) /\ ids[17] = "ATTR_VALUE_DICT" /\ cols["ATTR_VALUE_DICT"] = c6
      BY <1>10, <1>11, <1>13, Zenon
    <3> QED
      BY <3>1, <1>e, Zenon
  <2>7. getColumn(f, "NODE_PKG") = c7
    <3>1. 3 \in 1..Len(ids) /\ ids[3] = "NODE_PKG" /\ cols["NODE_PKG"] = c7
      BY <1>10, <1>11, <1>13, Zenon
    <3> QED
      BY <3>1, <1>e, Zenon
  <2>8. getColumn(f, "NODE_NAME") = c8
    <3>1. 4 \in 1..Len(ids) /\ ids[4] = "NODE_NAME" /\ cols["NODE_NAME"] = c8
      BY <1>10, <1>11, <1>13, Zenon
    <3> QED
      BY <3>1, <1>e, Zenon
  <2>9. getColumn(f, "HASH") = c9
    <3>1. 5 \in 1..Len(ids) /\ ids[5] = "HASH" /\ cols["HASH"] = c9
      BY <1>10, <1>11, <1>13, Zenon
    <3> QED
      BY <3>1, <1>e, Zenon
  <2>10. getColumn(f, "DEG") = c10
    <3>1. 6 \in 1..Len(ids) /\ ids[6] = "DEG" /\ cols["DEG"] = c10
      BY <1>10, <1>11, <1>13, Zenon
    <3> QED
      BY <3>1, <1>e, Zenon
  <2>11. getColumn(f, "DEPS") = c11
    <3>1. 7 \in 1..Len(ids) /\ ids[7] = "DEPS" /\ cols["DEPS"] = c11
      BY <1>10, <1>11, <1>13, Zenon
    <3> QED
      BY <3>1, <1>e, Zenon
  <2>12. getColumn(f, "RULETYPE") = c12
    <3>1. 8 \in 1..Len(ids) /\ ids[8] = "RULETYPE" /\ cols["RULETYPE"] = c12
      BY <1>10, <1>11, <1>13, Zenon
    <3> QED
      BY <3>1, <1>e, Zenon
  <2>13. getColumn(f, "TAG_DEG") = c13
    <3>1. 10 \in 1..Len(ids) /\ ids[10] = "TAG_DEG" /\ cols["TAG_DEG"] = c13
      BY <1>10, <1>11, <1>13, Zenon
    <3> QED
      BY <3>1, <1>e, Zenon
  <2>14. getColumn(f, "TAGS") = c14
    <3>1. 11 \in 1..Len(ids) /\ ids[11] = "TAGS" /\ cols["TAGS"] = c14
      BY <1>10, <1>11, <1>13, Zenon
    <3> QED
      BY <3>1, <1>e, Zenon
  <2>15. getColumn(f, "ATTR_DEG") = c15
    <3>1. 13 \in 1..Len(ids) /\ ids[13] = "ATTR_DEG" /\ cols["ATTR_DEG"] = c15
      BY <1>10, <1>11, <1>13, Zenon
    <3> QED
      BY <3>1, <1>e, Zenon
  <2>16. getColumn(f, "ATTR_NAME") = c16
    <3>1. 14 \in 1..Len(ids) /\ ids[14] = "ATTR_NAME" /\ cols["ATTR_NAME"] = c16
      BY <1>10, <1>11, <1>13, Zenon
    <3> QED
      BY <3>1, <1>e, Zenon
  <2>17. getColumn(f, "ATTR_VALUE") = c17
    <3>1. 15 \in 1..Len(ids) /\ ids[15] = "ATTR_VALUE" /\ cols["ATTR_VALUE"] = c17
      BY <1>10, <1>11, <1>13, Zenon
    <3> QED
      BY <3>1, <1>e, Zenon
  <2>18. getColumn(f, "FLAGS") = c18
    <3>1. 18 \in 1..Len(ids) /\ ids[18] = "FLAGS" /\ cols["FLAGS"] = c18
      BY <1>10, <1>11, <1>13, Zenon
    <3> QED
      BY <3>1, <1>e, Zenon
  <2>19. getColumn(f, "BLOCK_DIGEST") = c19
    <3>1. 19 \in 1..Len(ids) /\ ids[19] = "BLOCK_DIGEST" /\ cols["BLOCK_DIGEST"] = c19
      BY <1>10, <1>11, <1>13, Zenon
    <3> QED
      BY <3>1, <1>e, Zenon
  <2>20. getColumn(f, "BLOCK_START") = c20
    <3>1. 20 \in 1..Len(ids) /\ ids[20] = "BLOCK_START" /\ cols["BLOCK_START"] = c20
      BY <1>10, <1>11, <1>13, Zenon
    <3> QED
      BY <3>1, <1>e, Zenon
  <2> QED
    BY <2>1, <2>2, <2>3, <2>4, <2>5, <2>6, <2>7, <2>8, <2>9, <2>10, <2>11, <2>12, <2>13, <2>14, <2>15, <2>16, <2>17, <2>18,
       <2>19, <2>20
<1>15. /\ rawSize(f, "DEG") = Len(c10) /\ rawSize(f, "HASH") = Len(c9) /\ rawSize(f, "DEPS") = Len(c11)
       /\ rawSize(f, "BLOCK_DIGEST") = 8 * Len(c19)
  <2>1. \A data : /\ RawSize("DEG", data) = Len(data) /\ RawSize("HASH", data) = Len(data)
                  /\ RawSize("DEPS", data) = Len(data) /\ RawSize("BLOCK_DIGEST", data) = 8 * Len(data)
    BY DEF RawSize, DictIDs
  <2>2. rawSize(f, "DEG") = RawSize("DEG", c10)
    <3>1. 6 \in 1..Len(ids) /\ ids[6] = "DEG" /\ cols["DEG"] = c10
      BY <1>10, <1>11, <1>13, Zenon
    <3> QED
      BY <3>1, <1>e, Zenon
  <2>3. rawSize(f, "HASH") = RawSize("HASH", c9)
    <3>1. 5 \in 1..Len(ids) /\ ids[5] = "HASH" /\ cols["HASH"] = c9
      BY <1>10, <1>11, <1>13, Zenon
    <3> QED
      BY <3>1, <1>e, Zenon
  <2>4. rawSize(f, "DEPS") = RawSize("DEPS", c11)
    <3>1. 7 \in 1..Len(ids) /\ ids[7] = "DEPS" /\ cols["DEPS"] = c11
      BY <1>10, <1>11, <1>13, Zenon
    <3> QED
      BY <3>1, <1>e, Zenon
  <2>5. rawSize(f, "BLOCK_DIGEST") = RawSize("BLOCK_DIGEST", c19)
    <3>1. 19 \in 1..Len(ids) /\ ids[19] = "BLOCK_DIGEST" /\ cols["BLOCK_DIGEST"] = c19
      BY <1>10, <1>11, <1>13, Zenon
    <3> QED
      BY <3>1, <1>e, Zenon
  <2> QED
    BY <2>1, <2>2, <2>3, <2>4, <2>5, Zenon
<1>16. DOMAIN files = {} => getColumn(f, "ALL_TARGETS_FILE_HASHES") = <<>>
  BY <1>a, <1>c, <1>4, LacksColumn, Zenon
<1>17. ASSUME DOMAIN files # {} PROVE getColumn(f, "ALL_TARGETS_FILE_HASHES") = encodeStringMap(files)
  <2>1. 21 \in 1..Len(ids) /\ ids[21] = "ALL_TARGETS_FILE_HASHES"
    BY <1>d, <1>17
  <2> QED
    BY <2>1, <1>10, <1>12, Zenon DEF c21
<1>18. NodeCount(f) = n /\ f[1].edgeCount = Totals(c10)[n]
  <2>1. cols.DEG = c10
    BY <1>10
  <2> QED
    BY <1>4, <2>1, Zenon DEF IsLaid, NodeCount
<1> QED
  BY <1>4, <1>9, <1>14, <1>15, <1>16, <1>17, <1>18, Zenon DEF IsFile, f, ids

-----------------------------------------------------------------------------
(* Lists in runs. *)

\* list holds the sequences seqs, of lengths degs, one after the other.
AreRuns(S, seqs, degs, list, n) ==
    /\ seqs \in [1..n -> Seq(S)] /\ degs \in [1..n -> Nat] /\ Len(degs) = n
    /\ list \in Seq(S) /\ Len(list) = Totals(degs)[n] /\ Totals(degs)[0] = 0
    /\ \A k \in 0..n : Totals(degs)[k] \in Nat
    /\ \A k \in 1..n : /\ degs[k] = Len(seqs[k])
                       /\ Totals(degs)[k] = Totals(degs)[k - 1] + degs[k]
                       /\ Totals(degs)[k] <= Len(list)
                       /\ SubSeq(list, Totals(degs)[k - 1] + 1, Totals(degs)[k]) = seqs[k]

\* Sequences that are flattened are found again between the totals of their lengths.
LEMMA FlattensRuns ==
    ASSUME NEW S, NEW n \in Nat, NEW seqs \in [1..n -> Seq(S)],
           NEW degs \in [1..n -> Nat], \A k \in 1..n : degs[k] = Len(seqs[k])
    PROVE  AreRuns(S, seqs, degs, FlattenSeq(seqs), n)
<1> DEFINE list == FlattenSeq(seqs)
           T == Totals(degs)
           J == Joins(seqs)
<1>1. list = J[n] /\ list \in Seq(S)
  BY FlattenIsJoins, Zenon
<1>2. /\ \A m \in 0..n : J[m] \in Seq(S) /\ Len(J[m]) = T[m]
      /\ \A m \in 0..n : T[m] \in Nat
      /\ \A m \in 1..n : T[m] = T[m - 1] + degs[m]
      /\ \A m \in 0..n : \A k \in 1..m : T[k] <= T[m] /\ \A j \in 1..degs[k] : J[m][T[k - 1] + j] = seqs[k][j]
      /\ T[0] = 0
  <2>1. ArePartsOf(S, n, seqs, degs, J, T)
    BY JoinsParts, Zenon
  <2> HIDE DEF J, T
  <2> QED
    BY <2>1, Zenon DEF ArePartsOf
<1> HIDE DEF list, T, J
<1>3. n \in 0..n
  OBVIOUS
<1>4. Len(list) = T[n]
  BY <1>1, <1>2, <1>3, Zenon
<1>5. ASSUME NEW k \in 1..n PROVE T[k] <= Len(list) /\ SubSeq(list, T[k - 1] + 1, T[k]) = seqs[k]
  <2>1. k - 1 \in 0..n /\ k \in 0..n
    OBVIOUS
  <2>2. T[k - 1] \in Nat /\ T[k] \in Nat /\ T[k] = T[k - 1] + degs[k] /\ degs[k] \in Nat
    BY <2>1, <1>2
  <2>3. T[k] <= T[n] /\ \A j \in 1..degs[k] : list[T[k - 1] + j] = seqs[k][j]
    BY <1>1, <1>2, <1>3, Zenon
  <2> DEFINE a == T[k - 1] + 1
             b == T[k]
             s == SubSeq(list, a, b)
  <2>4. a \in Nat /\ b \in Nat /\ 1 <= a /\ a <= b + 1 /\ b <= Len(list) /\ b - a + 1 = degs[k]
    <3>1. T[n] \in Nat
      BY <1>2, <1>3, Zenon
    <3>2. T[k] <= T[n] /\ Len(list) = T[n]
      BY <2>3, <1>4, Zenon
    <3> DEFINE x == T[k - 1]
               y == T[k]
               z == T[n]
               d == degs[k]
    <3>3. x \in Nat /\ y \in Nat /\ z \in Nat /\ d \in Nat /\ y = x + d /\ y <= z /\ Len(list) = z
      BY <3>1, <3>2, <2>2, Zenon
    <3>4. a = x + 1 /\ b = y
      OBVIOUS
    <3> HIDE DEF x, y, z, d, a, b
    <3>5. a \in Nat /\ b \in Nat /\ 1 <= a /\ a <= b + 1 /\ b <= Len(list) /\ b - a + 1 = d
      BY <3>3, <3>4
    <3> QED
      BY <3>5 DEF d
  <2>a. \A j \in 1..degs[k] : a + j - 1 = T[k - 1] + j
    BY <2>2
  <2> HIDE DEF a, b
  <2>5. IsSub(S, list, a, b, s)
    BY <2>4, <1>1, Sub, Zenon
  <2> HIDE DEF s
  <2>6. s \in Seq(S) /\ Len(s) = degs[k] /\ \A j \in 1..degs[k] : s[j] = list[a + j - 1]
    BY <2>4, <2>5 DEF IsSub
  <2>7. \A j \in 1..degs[k] : s[j] = seqs[k][j]
    BY <2>3, <2>6, <2>a, Zenon
  <2>8. seqs[k] \in Seq(S) /\ Len(seqs[k]) = degs[k]
    OBVIOUS
  <2>9. s = seqs[k]
    BY <2>6, <2>7, <2>8, SameSeq
  <2> QED
    BY <2>3, <2>9, <1>4, Zenon DEF s, a, b
<1>6. Len(degs) = n
  OBVIOUS
<1> QED
  BY <1>1, <1>2, <1>4, <1>5, <1>6, Zenon DEF AreRuns, list, T

\* The runs are found again, one by one and in one pass.
FindsRuns(seqs, degs, list, n) ==
    /\ Runs(list, degs) = seqs /\ Len(Runs(list, degs)) = n
    /\ \A i \in 0..(n - 1) : RunAt(list, RunStarts(degs, list), degs, i) = seqs[i + 1]

\* Sequences laid one after the other, with their lengths, can be read.
LEMMA ReadsRuns ==
    ASSUME NEW S, NEW n \in Nat, NEW seqs, NEW degs, NEW list, AreRuns(S, seqs, degs, list, n)
    PROVE  FindsRuns(seqs, degs, list, n)
<1> DEFINE T == Totals(degs)
<1>1. /\ seqs \in [1..n -> Seq(S)] /\ degs \in [1..n -> Nat] /\ Len(degs) = n /\ Len(list) = T[n]
      /\ \A k \in 0..n : T[k] \in Nat
  BY Zenon DEF AreRuns
<1>2. \A k \in 1..n : T[k] = T[k - 1] + degs[k] /\ SubSeq(list, T[k - 1] + 1, T[k]) = seqs[k]
  BY Zenon DEF AreRuns
<1>3. Runs(list, degs) = [k \in 1..Len(degs) |-> SubSeq(list, T[k - 1] + 1, T[k])]
  BY Zenon DEF Runs, RunStart
<1>a. \A i : RunStart(degs, i) = T[i]
  BY Zenon DEF RunStart
<1> HIDE DEF T
<1> DEFINE sub(k) == SubSeq(list, T[k - 1] + 1, T[k])
<1>4. Runs(list, degs) = seqs
  <2>1. Runs(list, degs) = [k \in 1..Len(degs) |-> sub(k)] /\ \A k \in 1..n : sub(k) = seqs[k]
    BY <1>2, <1>3, Zenon
  <2> HIDE DEF sub
  <2> QED
    BY <2>1, <1>1
<1>5. validateDegs(degs, list)
  <2>1. \A k \in 1..Len(degs) : degs[k] >= 0
    BY <1>1
  <2>2. T[Len(degs)] <= Len(list)
    BY <1>1
  <2> QED
    BY <2>1, <2>2, <1>a, Zenon DEF validateDegs
<1>6. RunStarts(degs, list) = [i \in 0..(Len(degs) - 1) |-> T[i]]
  BY <1>5, <1>a, Zenon DEF RunStarts
<1>7. ASSUME NEW i \in 0..(n - 1) PROVE RunAt(list, RunStarts(degs, list), degs, i) = seqs[i + 1]
  <2>1. i + 1 \in 1..n /\ (i + 1) - 1 = i
    OBVIOUS
  <2>2. i \in DOMAIN RunStarts(degs, list) /\ RunStarts(degs, list)[i] = T[i]
    BY <1>1, <1>6
  <2>3. RunAt(list, RunStarts(degs, list), degs, i) = SubSeq(list, T[i] + 1, T[i] + degs[i + 1])
    BY <2>2, Zenon DEF RunAt
  <2>4. T[i + 1] = T[(i + 1) - 1] + degs[i + 1] /\ SubSeq(list, T[(i + 1) - 1] + 1, T[i + 1]) = seqs[i + 1]
    BY <2>1, <1>2, Zenon
  <2> QED
    BY <2>1, <2>3, <2>4, Zenon
<1>8. Len(seqs) = n
  BY <1>1
<1> QED
  BY <1>4, <1>7, <1>8, Zenon DEF FindsRuns

-----------------------------------------------------------------------------
(* The columns of a well-formed graph. *)

\* Streams and degrees of the nodes.
HasRuns(g, e, n) ==
    /\ AreRuns(Int, StreamOf(g, e, n, "deps"), Col(g, e, n, "depDeg"), FlattenSeq(StreamOf(g, e, n, "deps")), n)
    /\ AreRuns(Int, StreamOf(g, e, n, "tags"), Col(g, e, n, "tagDeg"), FlattenSeq(StreamOf(g, e, n, "tags")), n)
    /\ AreRuns(Int, StreamOf(g, e, n, "attrNms"), Col(g, e, n, "attrDeg"), FlattenSeq(StreamOf(g, e, n, "attrNms")), n)
    /\ AreRuns(Int, StreamOf(g, e, n, "attrVls"), Col(g, e, n, "attrDeg"), FlattenSeq(StreamOf(g, e, n, "attrVls")), n)
    /\ AreRuns(Nat, Col(g, e, n, "hash"), [k \in 1..n |-> HashBytes], FlattenSeq(Col(g, e, n, "hash")), n)
    /\ \A k \in 0..n : Totals([j \in 1..n |-> HashBytes])[k] = k * HashBytes

\* Every node of a well-formed graph is encoded.
EncodesAll(g, e, n) == \A i \in 0..(n - 1) : IsEncoded(g, e, i, EncodeNode(g, e, i)) /\ TargetOk(g, TargetAt(g, e, i))

\* Every node of a well-formed graph is encoded.
LEMMA AllEncoded ==
    ASSUME NEW g, Input(g), WellFormed(g)
    PROVE  /\ EncodesAll(g, newEncoder(g), Len(g.targets)) /\ IsEncoder(g, newEncoder(g))
           /\ Labelled(g) /\ Len(g.targets) \in Nat /\ Len(newEncoder(g).nodes) = Len(g.targets)
<1> DEFINE e == newEncoder(g)
           n == Len(g.targets)
<1>1. Labelled(g) /\ (\A k \in 1..n : TargetOk(g, g.targets[k])) /\ n \in Nat
  BY WellFormedTargets, Zenon DEF Input
<1>2. IsEncoder(g, e)
  BY <1>1, NewEncoder, Zenon
<1> HIDE DEF e
<1>3. IsNodes(g, e.nodes)
  BY <1>2, Zenon DEF IsEncoder
<1>4. ASSUME NEW i \in 0..(n - 1) PROVE IsEncoded(g, e, i, EncodeNode(g, e, i)) /\ TargetOk(g, TargetAt(g, e, i))
  <2>1. i + 1 \in 1..n
    BY <1>1
  <2>2. e.nodes[i + 1].origIdx \in 1..n
    BY <2>1, <1>3, Zenon DEF IsNodes
  <2>3. TargetOk(g, TargetAt(g, e, i))
    BY <2>2, <1>1, Zenon DEF TargetAt
  <2> QED
    BY <2>3, <1>2, EncodedNode
<1> QED
  BY <1>1, <1>2, <1>3, <1>4, Zenon DEF EncodesAll, IsNodes, e

\* The list columns of a file hold the runs of its nodes, of the lengths that the degrees say.
LEMMA ColumnRuns ==
    ASSUME NEW g, NEW e, NEW n \in Nat, EncodesAll(g, e, n)
    PROVE  HasRuns(g, e, n)
<1> DEFINE r(k) == EncodeNode(g, e, k - 1)
<1>1. ASSUME NEW k \in 1..n
      PROVE  /\ r(k).row.hash \in Seq(Nat) /\ Len(r(k).row.hash) = HashBytes
             /\ r(k).out.deps \in Seq(Int) /\ r(k).row.depDeg = Len(r(k).out.deps)
             /\ r(k).out.tags \in Seq(Int) /\ r(k).row.tagDeg = Len(r(k).out.tags)
             /\ r(k).out.attrNms \in Seq(Int) /\ r(k).row.attrDeg = Len(r(k).out.attrNms)
             /\ r(k).out.attrVls \in Seq(Int) /\ r(k).row.attrDeg = Len(r(k).out.attrVls)
  <2>1. k - 1 \in 0..(n - 1)
    OBVIOUS
  <2>2. IsEncoded(g, e, k - 1, r(k))
    BY <2>1, Zenon DEF EncodesAll
  <2> HIDE DEF r
  <2> QED
    BY <2>2, Zenon DEF IsEncoded
<1>2. \A x : StreamOf(g, e, n, x) = [k \in 1..n |-> r(k).out[x]]
  BY Zenon DEF StreamOf
<1>3. \A fld : Col(g, e, n, fld) = [k \in 1..n |-> r(k).row[fld]]
  BY Zenon DEF Col
<1> HIDE DEF r
<1>4. ASSUME NEW x, NEW fld,
             \A k \in 1..n : r(k).out[x] \in Seq(Int) /\ r(k).row[fld] = Len(r(k).out[x])
      PROVE  AreRuns(Int, StreamOf(g, e, n, x), Col(g, e, n, fld), FlattenSeq(StreamOf(g, e, n, x)), n)
  <2> DEFINE seqs == StreamOf(g, e, n, x)
             degs == Col(g, e, n, fld)
  <2>1. seqs = [k \in 1..n |-> r(k).out[x]] /\ degs = [k \in 1..n |-> r(k).row[fld]]
    BY <1>2, <1>3, Zenon
  <2> HIDE DEF seqs, degs
  <2>2. seqs \in [1..n -> Seq(Int)] /\ degs \in [1..n -> Nat] /\ \A k \in 1..n : degs[k] = Len(seqs[k])
    <3>1. \A s \in Seq(Int) : Len(s) \in Nat
      OBVIOUS
    <3> QED
      BY <3>1, <2>1, <1>4
  <2>3. AreRuns(Int, seqs, degs, FlattenSeq(seqs), n)
    BY <2>2, FlattensRuns, Zenon
  <2> QED
    BY <2>3, Zenon DEF seqs, degs
<1> DEFINE hs == Col(g, e, n, "hash")
           hd == [k \in 1..n |-> HashBytes]
<1>5. AreRuns(Nat, hs, hd, FlattenSeq(hs), n) /\ \A k \in 0..n : Totals(hd)[k] = k * HashBytes
  <2>1. HashBytes \in Nat
    BY FormatAssumption
  <2>2. hs = [k \in 1..n |-> r(k).row.hash]
    BY <1>3, Zenon
  <2> HIDE DEF hs
  <2>3. hs \in [1..n -> Seq(Nat)] /\ hd \in [1..n -> Nat] /\ \A k \in 1..n : hd[k] = Len(hs[k])
    BY <2>1, <2>2, <1>1
  <2>4. \A k \in 1..n : hd[k] = HashBytes
    OBVIOUS
  <2> HIDE DEF hd
  <2>5. AreRuns(Nat, hs, hd, FlattenSeq(hs), n)
    BY <2>3, FlattensRuns, Zenon
  <2> DEFINE T == {k \in 0..n : Totals(hd)[k] = k * HashBytes}
  <2>6. 0 \in T
    <3>1. Totals(hd)[0] = 0
      BY <2>5, Zenon DEF AreRuns
    <3> QED
      BY <3>1, <2>1
  <2>7. ASSUME NEW k \in 1..n, k - 1 \in T PROVE k \in T
    <3>1. Totals(hd)[k] = Totals(hd)[k - 1] + hd[k]
      BY <2>5, Zenon DEF AreRuns
    <3>2. Totals(hd)[k - 1] = (k - 1) * HashBytes
      BY <2>7
    <3>3. (k - 1) * HashBytes + HashBytes = k * HashBytes
      BY <2>1
    <3> QED
      BY <3>1, <3>2, <3>3, <2>4
  <2> HIDE DEF T
  <2>8. \A k \in 0..n : k \in T
    BY <2>6, <2>7, UpTo
  <2> QED
    BY <2>5, <2>8, Zenon DEF T
<1>6. AreRuns(Int, StreamOf(g, e, n, "deps"), Col(g, e, n, "depDeg"), FlattenSeq(StreamOf(g, e, n, "deps")), n)
  BY <1>1, <1>4, Zenon
<1>7. AreRuns(Int, StreamOf(g, e, n, "tags"), Col(g, e, n, "tagDeg"), FlattenSeq(StreamOf(g, e, n, "tags")), n)
  BY <1>1, <1>4, Zenon
<1>8. AreRuns(Int, StreamOf(g, e, n, "attrNms"), Col(g, e, n, "attrDeg"), FlattenSeq(StreamOf(g, e, n, "attrNms")), n)
  BY <1>1, <1>4, Zenon
<1>9. AreRuns(Int, StreamOf(g, e, n, "attrVls"), Col(g, e, n, "attrDeg"), FlattenSeq(StreamOf(g, e, n, "attrVls")), n)
  BY <1>1, <1>4, Zenon
<1> QED
  BY <1>5, <1>6, <1>7, <1>8, <1>9, Zenon DEF HasRuns

-----------------------------------------------------------------------------
(* NewReader. *)

\* A file without its tail ends in no footer.
LEMMA ReaderRefusesPrefix ==
    ASSUME NEW g, NEW e, NEW n, NEW f, IsFile(g, e, n, f), NEW k \in 0..(Len(f) - 1)
    PROVE  ~NewReader(SubSeq(f, 1, k))
<1> DEFINE ids == IDsOf(g.meta.files)
           m == Len(ids)
           p == SubSeq(f, 1, k)
<1>1. PICK cols : IsLaid(f, ids, cols, n)
  BY Zenon DEF IsFile
<1>2. m \in Nat
  BY FileIDs, Zenon DEF IsIDs
<1> HIDE DEF ids
<1>3. PICK S : f \in Seq(S)
  BY <1>1, Zenon DEF IsLaid
<1>4. /\ Len(f) = m + 3 /\ f[1].kind = "header" /\ f[m + 2].kind = "directory"
      /\ \A j \in 1..m : f[j + 1].kind = "column"
  BY <1>1, Zenon DEF IsLaid
<1> HIDE DEF m
<1>5. IsSub(S, f, 1, k, p)
  <2>1. k \in Nat /\ 1 \in Nat /\ 1 <= 1 /\ 1 <= k + 1 /\ k <= Len(f)
    BY <1>2, <1>4
  <2> QED
    BY <2>1, <1>3, Sub, Zenon
<1> HIDE DEF p
<1>6. Len(p) = k /\ \A j \in 1..k : p[j] = f[j]
  <2>1. Len(p) = k - 1 + 1 /\ \A j \in 1..(k - 1 + 1) : p[j] = f[1 + j - 1]
    BY <1>5, Zenon DEF IsSub
  <2>2. k - 1 + 1 = k /\ \A j \in 1..k : 1 + j - 1 = j
    BY <1>2, <1>4
  <2> QED
    BY <2>1, <2>2
<1>7. CASE k < 2
  BY <1>6, <1>7, <1>2, <1>4 DEF NewReader, p
<1>8. CASE k >= 2
  <2>1. p[k] = f[k] /\ k \in Nat
    BY <1>8, <1>6, <1>2, <1>4
  <2>2. f[k].kind = "column" \/ f[k].kind = "directory"
    <3>1. CASE k = m + 2
      BY <3>1, <1>4
    <3>2. CASE k # m + 2
      <4>1. k - 1 \in 1..m /\ (k - 1) + 1 = k
        BY <3>2, <1>2, <1>4, <1>8
      <4> QED
        BY <4>1, <1>4
    <3> QED
      BY <3>1, <3>2
  <2>3. p[Len(p)].kind # "footer"
    BY <2>1, <2>2, <1>6
  <2> QED
    BY <2>3, Zenon DEF NewReader, p
<1>9. k \in Int
  BY <1>2, <1>4
<1> QED
  BY <1>7, <1>8, <1>9

-----------------------------------------------------------------------------
(* The invariant of Encode and of a Reader. *)

\* Columns that are kept, and columns that a goroutine has obtained, are those of the file.
IsCall(f, c) ==
    /\ DOMAIN c = {"pc", "have"} /\ DOMAIN c.have \subseteq Kept
    /\ \A x \in DOMAIN c.have : c.have[x] = DecodeKept(f, x)

\* The cache holds nothing or what the file decodes to, and so do the goroutines.
ReadersOk(f, ca, cl) ==
    /\ DOMAIN ca = Kept /\ \A c \in Kept : ca[c] = Nil \/ ca[c] = DecodeKept(f, c)
    /\ DOMAIN cl = Readers /\ \A p \in Readers : IsCall(f, cl[p])

\* Nothing is read yet.
Unread(ca, cl) == ca = [c \in Kept |-> Nil] /\ cl = [p \in Readers |-> Idle]

\* f is whole without its tail.
CutOff(f, whole) == \E k \in 0..(Len(whole) - 1) : f = SubSeq(whole, 1, k)

\* The inductive invariant: the shards are where they should be, what is refused is ill-formed, what is
\* written is the file of the graph, and what is read was decoded from it.
CodecInv ==
    /\ graph \in Graphs
    /\ status \in {"nodes", "shards", "refused", "written", "damaged", "corrupt", "open"}
    /\ status = "shards" => Encoding(graph, enc, shard, rows, bits)
    /\ status = "refused" => ~WellFormed(graph)
    /\ status \in {"written", "open"} => WellFormed(graph) /\ file = EncodeInOrder(graph)
    /\ status = "damaged" => WellFormed(graph) /\ CutOff(file, EncodeInOrder(graph))
    /\ status # "open" => Unread(cache, call)
    /\ status = "open" => ReadersOk(file, cache, call)

\* The file of a well-formed graph.
LEMMA FileIsFile ==
    ASSUME NEW g, Input(g), WellFormed(g)
    PROVE  /\ EncodesAll(g, newEncoder(g), Len(g.targets)) /\ Len(g.targets) \in Nat
           /\ IsFile(g, newEncoder(g), Len(g.targets), EncodeInOrder(g))
<1>1. /\ EncodesAll(g, newEncoder(g), Len(g.targets)) /\ Labelled(g) /\ Len(g.targets) \in Nat
      /\ Len(newEncoder(g).nodes) = Len(g.targets)
  BY AllEncoded, Zenon
<1>2. EncodeInOrder(g) = FileOf(g, newEncoder(g), Len(g.targets))
  BY <1>1, EncodesInOrder, Zenon
<1> QED
  BY <1>1, <1>2, WritesColumns, Zenon

\* What the callers give to Encode.
LEMMA InputGraph ==
    ASSUME graph \in Graphs
    PROVE  Input(graph)
  BY GraphsAssumption, Zenon

\* CodecInv holds at first.
LEMMA InitInv == Init => CodecInv
  BY DEF Init, CodecInv, Unread

\* BuildNodes refuses what has no label and starts the shards where they should start.
LEMMA BuildNodesInv == CodecInv /\ BuildNodes => CodecInv'
<1> SUFFICES ASSUME CodecInv, BuildNodes PROVE CodecInv'
  OBVIOUS
<1> DEFINE n == Len(graph.targets)
<1>1. /\ graph \in Graphs /\ status = "nodes" /\ graph' = graph /\ file' = file /\ cache' = cache /\ call' = call
      /\ Unread(cache, call)
  BY DEF CodecInv, BuildNodes, readerVars
<1>2. Input(graph)
  BY <1>1, InputGraph
<1>3. CASE ~Labelled(graph)
  <2>1. status' = "refused"
    BY <1>3, Zenon DEF BuildNodes, Labelled
  <2>2. ~WellFormed(graph)
    BY <1>3, WellFormedTargets, Zenon
  <2> QED
    BY <1>1, <2>1, <2>2 DEF CodecInv
<1>4. CASE Labelled(graph)
  <2>1. /\ status' = "shards" /\ enc' = newEncoder(graph) /\ rows' = [i \in 0..(n - 1) |-> Nil]
        /\ bits' = [fl \in Flags |-> NoBits(n)]
        /\ shard' = [s \in 0..(ShardCount(n) - 1) |->
                        [at |-> s * ShardLen(n), out |-> [x \in Streams |-> <<>>], err |-> "none", byte |-> Nil]]
    BY <1>4, Zenon DEF BuildNodes, Labelled
  <2>2. Encoding(graph, newEncoder(graph), shard', [i \in 0..(n - 1) |-> Nil], [fl \in Flags |-> NoBits(n)])
    BY <1>2, <1>4, <2>1, EncodingStarts, Zenon
  <2>3. Encoding(graph', enc', shard', rows', bits')
    BY <2>1, <2>2, <1>1, Zenon
  <2> QED
    BY <1>1, <2>1, <2>3 DEF CodecInv
<1> QED
  BY <1>3, <1>4

\* A shard appends what its next node writes, or ends with an error that the graph justifies.
LEMMA ShardEncodeInv ==
    ASSUME CodecInv, NEW s \in DOMAIN shard, ShardEncode(s)
    PROVE  CodecInv'
<1> DEFINE n == Len(graph.targets)
           i == shard[s].at
           t == TargetAt(graph, enc, i)
           r == EncodeNode(graph, enc, i)
           err == NodeError(graph, enc, t)
<1>1. /\ graph \in Graphs /\ status = "shards" /\ Encoding(graph, enc, shard, rows, bits) /\ Unread(cache, call)
      /\ shard[s].err = "none" /\ i < ShardEnd(s, n) /\ shard[s].byte = Nil
  BY DEF CodecInv, ShardEncode, Working
<1>2. /\ graph' = graph /\ enc' = enc /\ bits' = bits /\ status' = status /\ file' = file /\ cache' = cache /\ call' = call
  BY DEF ShardEncode, readerVars
<1>3. Input(graph) /\ IsEncoder(graph, enc) /\ IsShard(graph, enc, s, shard[s], rows, bits) /\ DOMAIN rows = 0..(n - 1)
  BY <1>1, InputGraph, Zenon DEF Encoding
<1>4. i \in 0..(n - 1)
  <2>1. n \in Nat /\ ShardEnd(s, n) \in Nat /\ ShardEnd(s, n) <= n
    BY <1>1, <1>3, OtherShards, Zenon
  <2>2. i \in Nat
    BY <1>3, Zenon DEF IsShard
  <2> QED
    BY <2>1, <2>2, <1>1
<1>5. IsTarget(t)
  <2>1. n \in Nat /\ IsNodes(graph, enc.nodes)
    BY <1>3, Zenon DEF Input, IsEncoder
  <2>2. i + 1 \in 1..n
    BY <2>1, <1>4
  <2>3. enc.nodes[i + 1].origIdx \in 1..n
    BY <2>1, <2>2, Zenon DEF IsNodes
  <2> QED
    BY <2>3, <1>3, Targets, Zenon DEF TargetAt
<1>6. err = "none" <=> TargetOk(graph, t)
  BY <1>3, <1>5, NodeErrors, Zenon
<1>7. DOMAIN shard[s] = {"at", "out", "err", "byte"}
  BY <1>3, Zenon DEF IsShard
<1>8. IF err # "none"
      THEN shard' = [shard EXCEPT ![s].err = err] /\ rows' = rows
      ELSE /\ rows' = [rows EXCEPT ![i] = r.row]
           /\ shard' = [shard EXCEPT ![s].out = [x \in Streams |-> @[x] \o r.out[x]],
                                     ![s].byte = [fl \in Flags |-> bits[fl][ByteOf(i)]]]
  BY Zenon DEF ShardEncode, TargetAt
<1>9. Encoding(graph, enc, shard', rows', bits)
  <2>1. CASE ~TargetOk(graph, t)
    <3>1. shard' = [shard EXCEPT ![s].err = err] /\ rows' = rows
      BY <1>6, <1>8, <2>1
    <3> HIDE DEF err
    <3>2. OnlyShard(shard, shard', s)
      BY <3>1 DEF OnlyShard
    <3>3. shard'[s].at = shard[s].at /\ shard'[s].out = shard[s].out /\ shard'[s].byte = shard[s].byte
      BY <3>1, <1>7
    <3>4. Encoding(graph, enc, shard', rows, bits)
      BY <3>2, <3>3, <2>1, <1>1, <1>3, EncodingFails, Zenon
    <3> QED
      BY <3>1, <3>4, Zenon
  <2>2. CASE TargetOk(graph, t)
    <3> DEFINE o == [x \in Streams |-> shard[s].out[x] \o r.out[x]]
               b == [fl \in Flags |-> bits[fl][ByteOf(i)]]
    <3>1. /\ rows' = [rows EXCEPT ![i] = r.row]
          /\ shard' = [shard EXCEPT ![s].out = [x \in Streams |-> @[x] \o r.out[x]], ![s].byte = b]
      BY <1>6, <1>8, <2>2
    <3>2. shard' = [shard EXCEPT ![s].out = o, ![s].byte = b]
      BY <3>1
    <3>3. \A x \in Streams : o[x] = shard[s].out[x] \o r.out[x]
      BY Zenon
    <3> HIDE DEF o, b, r, err
    <3>4. OnlyShard(shard, shard', s)
      BY <3>2, <1>7 DEF OnlyShard
    <3>5. /\ shard'[s].at = shard[s].at /\ shard'[s].err = shard[s].err
          /\ shard'[s].out = o /\ shard'[s].byte = b
      BY <3>2, <1>7
    <3>6. \A x \in Streams : shard'[s].out[x] = shard[s].out[x] \o r.out[x]
      BY <3>3, <3>5, Zenon
    <3> QED
      BY <3>1, <3>4, <3>5, <3>6, <2>2, <1>1, <1>3, EncodingLoads, Zenon DEF r, b
  <2> QED
    BY <2>1, <2>2
<1>10. Encoding(graph', enc', shard', rows', bits')
  BY <1>2, <1>9, Zenon
<1> QED
  BY <1>1, <1>2, <1>10 DEF CodecInv

\* A shard stores flags: no other shard has loaded the byte, so none is lost.
LEMMA ShardStoreInv ==
    ASSUME CodecInv, NEW s \in DOMAIN shard, ShardStore(s)
    PROVE  CodecInv'
<1> DEFINE n == Len(graph.targets)
           i == shard[s].at
<1>1. /\ graph \in Graphs /\ status = "shards" /\ Encoding(graph, enc, shard, rows, bits) /\ Unread(cache, call)
      /\ shard[s].byte # Nil
  BY DEF CodecInv, ShardStore, Working
<1>2. /\ graph' = graph /\ enc' = enc /\ rows' = rows /\ status' = status /\ file' = file /\ cache' = cache /\ call' = call
  BY DEF ShardStore, readerVars
<1>3. Input(graph) /\ IsShard(graph, enc, s, shard[s], rows, bits)
  BY <1>1, InputGraph, Zenon DEF Encoding
<1>4. DOMAIN shard[s] = {"at", "out", "err", "byte"}
  BY <1>3, Zenon DEF IsShard
<1>5. /\ bits' = [fl \in Flags |->
                     IF EncodeNode(graph, enc, i).set[fl]
                     THEN [bits[fl] EXCEPT ![ByteOf(i)] = shard[s].byte[fl] \union {i % ByteWidth}]
                     ELSE bits[fl]]
      /\ shard' = [shard EXCEPT ![s].at = i + 1, ![s].byte = Nil]
  BY Zenon DEF ShardStore
<1>6. OnlyShard(shard, shard', s)
  BY <1>4, <1>5 DEF OnlyShard
<1>7. /\ shard'[s].at = i + 1 /\ shard'[s].byte = Nil /\ shard'[s].out = shard[s].out /\ shard'[s].err = shard[s].err
  BY <1>4, <1>5
<1>8. Encoding(graph, enc, shard', rows, bits')
  <2>1. /\ Encoding(graph, enc, shard, rows, bits) /\ shard[s].byte # Nil /\ Input(graph)
        /\ OnlyShard(shard, shard', s)
        /\ shard'[s].at = shard[s].at + 1 /\ shard'[s].err = shard[s].err
        /\ shard'[s].out = shard[s].out /\ shard'[s].byte = Nil
    BY <1>1, <1>3, <1>6, <1>7, Zenon
  <2>2. bits' = WithFlags(graph, enc, bits, shard[s])
    BY <1>5, Zenon DEF WithFlags
  <2> QED
    BY <2>1, <2>2, EncodingStores, Zenon
<1>9. Encoding(graph', enc', shard', rows', bits')
  BY <1>2, <1>8, Zenon
<1> QED
  BY <1>1, <1>2, <1>9 DEF CodecInv

\* Collect joins the streams into the one file of the graph, or refuses it for good reason.
LEMMA CollectInv == CodecInv /\ Collect => CodecInv'
<1> SUFFICES ASSUME CodecInv, Collect PROVE CodecInv'
  OBVIOUS
<1> DEFINE n == Len(graph.targets)
           made == write(graph, enc, rows, [x \in Streams |-> Joined(x)], bits)
<1>1. /\ graph \in Graphs /\ status = "shards" /\ Encoding(graph, enc, shard, rows, bits) /\ Unread(cache, call)
      /\ graph' = graph /\ cache' = cache /\ call' = call
  BY DEF CodecInv, Collect
<1>2. Input(graph) /\ Labelled(graph) /\ enc = newEncoder(graph)
  BY <1>1, InputGraph, Zenon DEF Encoding
<1>3. \A s \in DOMAIN shard : ~(shard[s].err = "none" /\ shard[s].at < ShardEnd(s, n))
  BY <1>1, Zenon DEF Collect, Working
<1>4. CASE \E s \in DOMAIN shard : shard[s].err # "none"
  <2>1. PICK s \in DOMAIN shard : shard[s].err # "none"
    BY <1>4
  <2>2. ~WellFormed(graph)
    BY <2>1, <1>1, Zenon DEF Encoding, IsShard
  <2>3. status' = "refused"
    BY <1>4, Zenon DEF Collect
  <2> QED
    BY <1>1, <2>2, <2>3 DEF CodecInv
<1>5. CASE \A s \in DOMAIN shard : shard[s].err = "none"
  <2>1. status' = "written" /\ file' = made
    BY <1>5, Zenon DEF Collect
  <2>2. \A s \in DOMAIN shard : shard[s].err = "none" /\ ~(shard[s].at < ShardEnd(s, n))
    BY <1>3, <1>5, Zenon
  <2>3. /\ WellFormed(graph) /\ rows = RowsOf(graph, enc, n) /\ bits = BitsOf(graph, enc, n)
        /\ \A x \in Streams : FlattenSeq([j \in 1..Cardinality(DOMAIN shard) |-> shard[j - 1].out[x]])
                                = FlattenSeq(StreamOf(graph, enc, n, x))
    <3>1. IsWhole(graph, enc, shard, rows, bits)
      BY <2>2, <1>1, <1>2, EncodingEnds, Zenon
    <3> QED
      BY <3>1, Zenon DEF IsWhole
  <2>4. [x \in Streams |-> Joined(x)] = StreamsOf(graph, enc, n)
    <3>1. \A x \in Streams : Joined(x) = FlattenSeq(StreamOf(graph, enc, n, x))
      BY <2>3, Zenon DEF Joined
    <3> QED
      BY <3>1 DEF StreamsOf
  <2>5. made = FileOf(graph, enc, n)
    BY <2>3, <2>4, Zenon DEF FileOf
  <2>6. EncodeInOrder(graph) = FileOf(graph, enc, n)
    BY <1>2, EncodesInOrder, Zenon
  <2> HIDE DEF made
  <2>7. WellFormed(graph') /\ file' = EncodeInOrder(graph')
    BY <2>1, <2>3, <2>5, <2>6, <1>1, Zenon
  <2> QED
    BY <1>1, <2>1, <2>7 DEF CodecInv
<1> QED
  BY <1>4, <1>5

\* What is left of a file without its tail.
LEMMA LoseTailInv == CodecInv /\ LoseTail => CodecInv'
<1> SUFFICES ASSUME CodecInv, LoseTail PROVE CodecInv'
  OBVIOUS
<1>1. /\ graph \in Graphs /\ WellFormed(graph) /\ file = EncodeInOrder(graph) /\ Unread(cache, call)
      /\ graph' = graph /\ cache' = cache /\ call' = call /\ status' = "damaged"
  BY DEF CodecInv, LoseTail
<1>2. CutOff(file', file)
  BY Zenon DEF CutOff, LoseTail
<1>3. CutOff(file', EncodeInOrder(graph')) /\ WellFormed(graph')
  BY <1>1, <1>2, Zenon
<1> QED
  BY <1>1, <1>3 DEF CodecInv

\* Open accepts a whole file and refuses one without its tail.
LEMMA OpenInv == CodecInv /\ Open => CodecInv'
<1> SUFFICES ASSUME CodecInv, Open PROVE CodecInv'
  OBVIOUS
<1>1. /\ graph \in Graphs /\ Unread(cache, call) /\ status \in {"written", "damaged"} /\ WellFormed(graph)
      /\ graph' = graph /\ cache' = cache /\ call' = call /\ file' = file
      /\ status' = IF ~NewReader(file) THEN "corrupt" ELSE IF status = "written" THEN "open" ELSE "open damaged"
  BY DEF CodecInv, Open, readerVars
<1>2. CASE ~NewReader(file)
  <2>1. status' = "corrupt"
    BY <1>1, <1>2
  <2> QED
    BY <1>1, <2>1 DEF CodecInv
<1>3. CASE NewReader(file)
  <2>1. status = "written"
    <3> SUFFICES ASSUME status = "damaged" PROVE FALSE
      BY <1>1
    <3>1. CutOff(file, EncodeInOrder(graph))
      BY Zenon DEF CodecInv
    <3>2. IsFile(graph, newEncoder(graph), Len(graph.targets), EncodeInOrder(graph))
      BY <1>1, InputGraph, FileIsFile, Zenon
    <3>3. PICK k \in 0..(Len(EncodeInOrder(graph)) - 1) : file = SubSeq(EncodeInOrder(graph), 1, k)
      BY <3>1, Zenon DEF CutOff
    <3>4. ~NewReader(SubSeq(EncodeInOrder(graph), 1, k))
      BY <3>2, ReaderRefusesPrefix, Zenon
    <3> QED
      BY <3>3, <3>4, <1>3, Zenon
  <2>2. status' = "open"
    BY <1>1, <1>3, <2>1
  <2>3. file = EncodeInOrder(graph)
    BY <2>1 DEF CodecInv
  <2>4. ReadersOk(file, cache, call)
    <3>1. /\ DOMAIN cache = Kept /\ (\A c \in Kept : cache[c] = Nil)
          /\ DOMAIN call = Readers /\ \A p \in Readers : call[p] = Idle
      BY <1>1 DEF Unread
    <3>2. DOMAIN Idle = {"pc", "have"} /\ DOMAIN Idle.have = {}
      BY DEF Idle
    <3>3. IsCall(file, Idle)
      BY <3>2, Zenon DEF IsCall
    <3> QED
      BY <3>1, <3>3, Zenon DEF ReadersOk
  <2>5. ReadersOk(file', cache', call')
    BY <1>1, <2>4, Zenon
  <2>6. WellFormed(graph') /\ file' = EncodeInOrder(graph')
    BY <1>1, <2>3, Zenon
  <2> QED
    BY <1>1, <2>2, <2>5, <2>6 DEF CodecInv
<1> QED
  BY <1>2, <1>3

\* A goroutine takes the value of a kept column.
Taken(c, x, v) ==
    [pc |-> "idle", have |-> [y \in DOMAIN c.have \union {x} |-> IF y = x THEN v ELSE c.have[y]]]

\* Goroutine p takes the column c, the others keep what they have.
Takes(f, cl, cln, p, c) ==
    /\ DOMAIN cln = Readers /\ cln[p] = Taken(cl[p], c, DecodeKept(f, c))
    /\ \A q \in Readers : q # p => cln[q] = cl[q]

\* What the goroutines have was decoded from f.
CallsOk(f, cl) == DOMAIN cl = Readers /\ \A q \in Readers : IsCall(f, cl[q])

\* What it has then is still the content of the file.
LEMMA TakesColumn ==
    ASSUME NEW f, NEW cl, NEW p \in Readers, CallsOk(f, cl), NEW c \in Kept,
           NEW cln, Takes(f, cl, cln, p, c)
    PROVE  CallsOk(f, cln)
<1> DEFINE v == DecodeKept(f, c)
           D == DOMAIN cl[p].have \union {c}
           h == [x \in D |-> IF x = c THEN v ELSE cl[p].have[x]]
           w == [pc |-> "idle", have |-> h]
<1>1. DOMAIN cln = Readers /\ (\A q \in Readers : q # p => cln[q] = cl[q]) /\ cln[p] = w
  BY Zenon DEF Takes, Taken
<1>2. IsCall(f, cl[p])
  BY Zenon DEF CallsOk
<1>3. D \subseteq Kept
  BY <1>2, Zenon DEF IsCall
<1>4. \A x \in D : (IF x = c THEN v ELSE cl[p].have[x]) = DecodeKept(f, x)
  BY <1>2, Zenon DEF IsCall
<1>5. DOMAIN h = D /\ \A x \in D : h[x] = DecodeKept(f, x)
  BY <1>4, Zenon
<1> HIDE DEF h, D
<1>6. DOMAIN w = {"pc", "have"} /\ w.have = h
  OBVIOUS
<1> HIDE DEF w
<1>7. IsCall(f, w)
  BY <1>3, <1>5, <1>6, Zenon DEF IsCall
<1> QED
  <2>1. \A q \in Readers : IsCall(f, cln[q])
    <3> TAKE q \in Readers
    <3>1. IsCall(f, cl[q])
      BY Zenon DEF CallsOk
    <3> QED
      BY <3>1, <1>1, <1>7, Zenon
  <2> QED
    BY <2>1, <1>1, Zenon DEF CallsOk

\* A goroutine takes a decoded column from the cache, or notes that it has to decode it.
LEMMA LookupInv ==
    ASSUME CodecInv, NEW p \in Readers, Lookup(p)
    PROVE  CodecInv'
<1>1. /\ graph \in Graphs /\ status = "open" /\ WellFormed(graph) /\ file = EncodeInOrder(graph)
      /\ ReadersOk(file, cache, call)
      /\ graph' = graph /\ status' = status /\ file' = file /\ cache' = cache
  BY DEF CodecInv, Lookup
<1>2. /\ DOMAIN cache = Kept /\ (\A c \in Kept : cache[c] = Nil \/ cache[c] = DecodeKept(file, c))
      /\ DOMAIN call = Readers /\ \A q \in Readers : IsCall(file, call[q])
  BY <1>1, Zenon DEF ReadersOk
<1>3. PICK c \in Lacks(p) : call' = [call EXCEPT ![p] =
             IF cache[c] # Nil
             THEN [pc |-> "idle", have |-> [x \in DOMAIN @.have \union {c} |->
                                               IF x = c THEN cache[c] ELSE @.have[x]]]
             ELSE [pc |-> c, have |-> @.have]]
  BY Zenon DEF Lookup
<1>4. c \in Kept
  BY Zenon DEF Lacks
<1>5. DOMAIN call' = Readers /\ \A q \in Readers : IsCall(file, call'[q])
  <2>1. CASE cache[c] # Nil
    <3>1. cache[c] = DecodeKept(file, c)
      BY <2>1, <1>2, <1>4, Zenon
    <3>2. call' = [call EXCEPT ![p] = [pc |-> "idle", have |-> [x \in DOMAIN @.have \union {c} |->
                                               IF x = c THEN cache[c] ELSE @.have[x]]]]
      BY <1>3, <2>1, Zenon
    <3>3. call' = [call EXCEPT ![p] = Taken(call[p], c, cache[c])]
      BY <3>2 DEF Taken
    <3>4. /\ DOMAIN call' = Readers /\ call'[p] = Taken(call[p], c, cache[c])
          /\ \A q \in Readers : q # p => call'[q] = call[q]
      BY <3>3, <1>2
    <3>5. CallsOk(file, call')
      <4>1. CallsOk(file, call)
        BY <1>2, Zenon DEF CallsOk
      <4>2. Takes(file, call, call', p, c)
        BY <3>1, <3>4, Zenon DEF Takes
      <4> QED
        BY <4>1, <4>2, <1>4, TakesColumn, Zenon
    <3> QED
      BY <3>5, Zenon DEF CallsOk
  <2>2. CASE cache[c] = Nil
    <3> DEFINE w == [pc |-> c, have |-> call[p].have]
    <3>1. call' = [call EXCEPT ![p] = w]
      BY <1>3, <2>2, Zenon
    <3>2. DOMAIN w = {"pc", "have"} /\ w.have = call[p].have
      OBVIOUS
    <3>3. IsCall(file, call[p])
      BY <1>2, Zenon
    <3> HIDE DEF w
    <3>4. IsCall(file, w)
      BY <3>2, <3>3, Zenon DEF IsCall
    <3>5. DOMAIN call' = Readers /\ call'[p] = w /\ \A q \in Readers : q # p => call'[q] = call[q]
      BY <3>1, <1>2
    <3> QED
      BY <3>4, <3>5, <1>2, Zenon
  <2> QED
    BY <2>1, <2>2
<1>6. ReadersOk(file', cache', call')
  BY <1>1, <1>2, <1>5, Zenon DEF ReadersOk
<1> QED
  BY <1>1, <1>6 DEF CodecInv

\* A goroutine publishes a column outside of the mutex: whoever did so before put the same there.
LEMMA PublishInv ==
    ASSUME CodecInv, NEW p \in Readers, Publish(p)
    PROVE  CodecInv'
<1> DEFINE c == call[p].pc
           v == DecodeKept(file, c)
<1>1. /\ graph \in Graphs /\ status = "open" /\ WellFormed(graph) /\ file = EncodeInOrder(graph)
      /\ ReadersOk(file, cache, call) /\ c \in Kept
      /\ graph' = graph /\ status' = status /\ file' = file
  BY DEF CodecInv, Publish
<1>2. /\ DOMAIN cache = Kept /\ (\A x \in Kept : cache[x] = Nil \/ cache[x] = DecodeKept(file, x))
      /\ DOMAIN call = Readers /\ \A q \in Readers : IsCall(file, call[q])
  BY <1>1, Zenon DEF ReadersOk
<1>3. /\ cache' = [cache EXCEPT ![c] = v]
      /\ call' = [call EXCEPT ![p] = [pc |-> "idle", have |-> [x \in DOMAIN @.have \union {c} |->
                                              IF x = c THEN v ELSE @.have[x]]]]
  BY Zenon DEF Publish, KeptValue
<1>4. v = DecodeKept(file, c)
  OBVIOUS
<1> HIDE DEF c, v
<1>5. DOMAIN call' = Readers /\ \A q \in Readers : IsCall(file, call'[q])
  <2>1. call' = [call EXCEPT ![p] = Taken(call[p], c, v)]
    BY <1>3 DEF Taken
  <2>2. /\ DOMAIN call' = Readers /\ call'[p] = Taken(call[p], c, v)
        /\ \A q \in Readers : q # p => call'[q] = call[q]
    BY <2>1, <1>2
  <2>3. CallsOk(file, call')
    <3>1. CallsOk(file, call)
      BY <1>2, Zenon DEF CallsOk
    <3>2. Takes(file, call, call', p, c)
      BY <2>2, <1>4, Zenon DEF Takes
    <3> QED
      BY <3>1, <3>2, <1>1, TakesColumn, Zenon
  <2> QED
    BY <2>3, Zenon DEF CallsOk
<1>6. DOMAIN cache' = Kept /\ \A x \in Kept : cache'[x] = Nil \/ cache'[x] = DecodeKept(file, x)
  BY <1>1, <1>2, <1>3, <1>4
<1>7. ReadersOk(file', cache', call')
  BY <1>1, <1>5, <1>6, Zenon DEF ReadersOk
<1> QED
  BY <1>1, <1>7 DEF CodecInv

\* CodecInv holds in every reachable state.
THEOREM CodecInvariant == Spec => []CodecInv
<1>1. Init => CodecInv
  BY InitInv
<1>2. CodecInv /\ [Next]_vars => CodecInv'
  <2> SUFFICES ASSUME CodecInv, [Next]_vars PROVE CodecInv'
    OBVIOUS
  <2>1. CASE UNCHANGED vars
    BY <2>1 DEF vars, CodecInv
  <2>2. CASE Next
    BY <2>1, <2>2, BuildNodesInv, ShardEncodeInv, ShardStoreInv, CollectInv, LoseTailInv, OpenInv, LookupInv, PublishInv,
       Zenon DEF Next
  <2> QED
    BY <2>1, <2>2
<1> QED
  BY <1>1, <1>2, PTL DEF Spec

\* The file depends neither on the numbering and the order of the targets nor on the goroutines:
\* it is what one goroutine writes for the renumbered graph.
THEOREM FileCanonical == Spec => []BlobCanonical
<1>1. CodecInv => BlobCanonical
  <2> SUFFICES ASSUME CodecInv, status = "written" PROVE file = EncodeInOrder(Renumbered(graph))
    BY Zenon DEF BlobCanonical
  <2>1. graph \in Graphs /\ WellFormed(graph) /\ file = EncodeInOrder(graph)
    BY DEF CodecInv
  <2> QED
    BY <2>1, InputGraph, RenumberedFile, Zenon
<1> QED
  BY <1>1, CodecInvariant, PTL

-----------------------------------------------------------------------------
(* What is decoded is what was encoded. *)

\* Running totals of differences give the values back.
LEMMA DeltasReturn ==
    ASSUME NEW n \in Nat, NEW v \in [1..n -> Int]
    PROVE  decodeDeltaInts(encodeDeltas(v)) = v
<1> DEFINE d == encodeDeltas(v)
           T == Totals(d)
<1>1. Len(v) = n
  OBVIOUS
<1>2. d = [k \in 1..n |-> v[k] - (IF k = 1 THEN 0 ELSE v[k - 1])]
  BY <1>1 DEF encodeDeltas
<1>3. d \in [1..n -> Int] /\ \A k \in 1..n : d[k] = v[k] - (IF k = 1 THEN 0 ELSE v[k - 1])
  <2>1. \A k \in 1..n : k # 1 => k - 1 \in 1..n
    OBVIOUS
  <2> HIDE DEF d
  <2> QED
    BY <1>2, <2>1
<1> HIDE DEF d
<1>4. T \in [0..n -> Int] /\ T[0] = 0 /\ \A k \in 1..n : T[k] = T[k - 1] + d[k]
  BY <1>3, TotalsDef, Zenon
<1>5. Len(d) = n
  BY <1>3
<1>6. decodeDeltaInts(d) = [k \in 1..n |-> T[k]]
  BY <1>5 DEF decodeDeltaInts
<1> HIDE DEF T
<1> DEFINE U == {k \in 0..n : T[k] = IF k = 0 THEN 0 ELSE v[k]}
<1>7. 0 \in U
  BY <1>4
<1>8. ASSUME NEW k \in 1..n, k - 1 \in U PROVE k \in U
  <2>1. T[k] = T[k - 1] + d[k] /\ d[k] = v[k] - (IF k = 1 THEN 0 ELSE v[k - 1]) /\ v[k] \in Int
    BY <1>3, <1>4
  <2>2. T[k - 1] = IF k - 1 = 0 THEN 0 ELSE v[k - 1]
    BY <1>8
  <2>3. CASE k = 1
    BY <2>1, <2>2, <2>3
  <2>4. CASE k # 1
    <3>1. k - 1 \in 1..n
      BY <2>4
    <3>2. v[k - 1] \in Int
      BY <3>1
    <3> QED
      BY <2>1, <2>2, <2>4, <3>2
  <2> QED
    BY <2>3, <2>4
<1>9. \A k \in 0..n : k \in U
  <2> HIDE DEF U
  <2> QED
    BY <1>7, <1>8, UpTo
<1>10. \A k \in 1..n : T[k] = v[k]
  BY <1>9
<1> QED
  BY <1>6, <1>10 DEF d

\* Zigzag numbers give the integer back.
LEMMA ZigzagReturns ==
    ASSUME NEW v \in Int
    PROVE  appendZigzag(v) \in Nat /\ readZigzag(appendZigzag(v)) = v
<1>1. CASE v >= 0
  <2>1. (2 * v) % 2 = 0 /\ (2 * v) \div 2 = v
    BY <1>1
  <2> QED
    BY <1>1, <2>1 DEF appendZigzag, readZigzag
<1>2. CASE ~(v >= 0)
  <2>1. (-2 * v - 1) % 2 = 1 /\ (-2 * v - 1 + 1) \div 2 = -v /\ -2 * v - 1 \in Nat
    BY <1>2
  <2> QED
    BY <1>2, <2>1 DEF appendZigzag, readZigzag
<1> QED
  BY <1>1, <1>2

\* The dependencies of a node are read as they were written.
LEMMA DepsReturn ==
    ASSUME NEW n \in Nat, NEW v \in [1..n -> Int], NEW i \in Int
    PROVE  DecodeDepRun(i, encodeDeps(i, v)) = v
<1> DEFINE r == encodeDeps(i, v)
<1>1. Len(v) = n
  OBVIOUS
<1>2. r = [k \in 1..n |-> IF k = 1 THEN appendZigzag(v[1] - i) ELSE v[k] - v[k - 1]]
  BY <1>1 DEF encodeDeps
<1> HIDE DEF r
<1>3. Len(r) = n
  BY <1>2
<1>4. ASSUME NEW k \in 1..n
      PROVE  (IF k = 1 THEN readZigzag(r[1]) + i ELSE r[k]) = v[k] - (IF k = 1 THEN 0 ELSE v[k - 1])
  <2>1. CASE k = 1
    <3>1. r[1] = appendZigzag(v[1] - i) /\ v[1] \in Int /\ v[1] - i \in Int
      BY <1>2, <2>1
    <3>2. readZigzag(r[1]) = v[1] - i
      BY <3>1, ZigzagReturns
    <3> QED
      BY <2>1, <3>1, <3>2
  <2>2. CASE k # 1
    BY <1>2, <2>2
  <2> QED
    BY <2>1, <2>2
<1>5. [k \in 1..n |-> IF k = 1 THEN readZigzag(r[1]) + i ELSE r[k]] = encodeDeltas(v)
  <2>1. encodeDeltas(v) = [k \in 1..n |-> v[k] - (IF k = 1 THEN 0 ELSE v[k - 1])]
    BY <1>1 DEF encodeDeltas
  <2> QED
    BY <2>1, <1>4
<1>6. DecodeDepRun(i, r) = decodeDeltaInts(encodeDeltas(v))
  BY <1>3, <1>5 DEF DecodeDepRun
<1> QED
  BY <1>6, DeltasReturn DEF r

\* The names of nodes are read as they were written, given the packages.
LEMMA NamesReturn ==
    ASSUME NEW n \in Nat, NEW p, Len(p) = n, NEW v \in [1..n -> Int]
    PROVE  decodeNameIDs(encodeNames(p, v), p) = v
<1> DEFINE c == encodeNames(p, v)
           new(k) == k = 1 \/ p[k] # p[k - 1]
           Eq(f) == f = [k \in 1..n |-> IF new(k) THEN c[k] ELSE f[k - 1] + c[k]]
<1>1. c = [k \in 1..n |-> IF new(k) THEN v[k] ELSE v[k] - v[k - 1]]
  BY DEF encodeNames
<1> HIDE DEF c
<1>2. Len(c) = n
  BY <1>1
<1>3. decodeNameIDs(c, p) = CHOOSE f : Eq(f)
  BY <1>2 DEF decodeNameIDs
<1>4. \A k \in 1..n : new(k) \/ k - 1 \in 1..n
  OBVIOUS
<1>5. \A k \in 1..n : (new(k) => c[k] = v[k]) /\ (~new(k) => c[k] = v[k] - v[k - 1])
  BY <1>1
<1> HIDE DEF new
<1>6. Eq(v)
  <2>1. \A k \in 1..n : v[k] = IF new(k) THEN c[k] ELSE v[k - 1] + c[k]
    BY <1>4, <1>5
  <2> QED
    BY <2>1
<1>7. ASSUME NEW f, Eq(f) PROVE f = v
  <2>1. \A k \in 1..n : f[k] = IF new(k) THEN c[k] ELSE f[k - 1] + c[k]
    BY <1>7
  <2> DEFINE U == {k \in 0..n : k # 0 => f[k] = v[k]}
  <2>2. 0 \in U
    OBVIOUS
  <2>3. ASSUME NEW k \in 1..n, k - 1 \in U PROVE k \in U
    <3>1. CASE new(k)
      BY <3>1, <2>1, <1>5
    <3>2. CASE ~new(k)
      <4>1. k - 1 \in 1..n
        BY <3>2, <1>4
      <4>2. f[k - 1] = v[k - 1] /\ v[k - 1] \in Int /\ v[k] \in Int
        BY <4>1, <2>3
      <4>3. f[k] = f[k - 1] + c[k] /\ c[k] = v[k] - v[k - 1]
        BY <3>2, <2>1, <1>5
      <4> QED
        BY <4>2, <4>3
    <3> QED
      BY <3>1, <3>2
  <2>4. \A k \in 0..n : k \in U
    <3> HIDE DEF U
    <3> QED
      BY <2>2, <2>3, UpTo
  <2>5. \A k \in 1..n : f[k] = v[k]
    BY <2>4
  <2>6. DOMAIN f = 1..n
    BY <1>7
  <2>7. f = [k \in 1..n |-> f[k]]
    BY <1>7
  <2> QED
    BY <2>5, <2>7
<1> HIDE DEF Eq
<1> QED
  BY <1>3, <1>6, <1>7, Zenon DEF c

\* A common prefix of two strings.
LEMMA CommonPrefix ==
    ASSUME NEW a \in Seq(Nat), NEW b \in Seq(Nat)
    PROVE  /\ commonPrefixLen(a, b) \in 0..Len(a) /\ commonPrefixLen(a, b) <= Len(b)
           /\ SubSeq(a, 1, commonPrefixLen(a, b)) = SubSeq(b, 1, commonPrefixLen(a, b))
<1> DEFINE P(n) == /\ n <= Len(b) /\ SubSeq(a, 1, n) = SubSeq(b, 1, n)
                   /\ n < Len(a) /\ n < Len(b) => a[n + 1] # b[n + 1]
           T == {n \in 0..Len(a) : n = Len(a) \/ n = Len(b) \/ a[n + 1] # b[n + 1]}
<1>1. Len(a) \in T /\ T \in SUBSET Nat
  OBVIOUS
<1>2. PICK m \in T : \A k \in T : m <= k
  <2> HIDE DEF T
  <2> QED
    BY <1>1, LeastNumber, Zenon
<1>3. m \in 0..Len(a) /\ m <= Len(b)
  <2>1. m \in 0..Len(a) /\ Len(b) \in Nat
    OBVIOUS
  <2>2. CASE Len(b) < Len(a)
    <3>1. Len(b) \in T
      BY <2>2
    <3> QED
      BY <3>1, <2>1, <1>2
  <2>3. CASE ~(Len(b) < Len(a))
    BY <2>1, <2>3
  <2> QED
    BY <2>2, <2>3
<1>4. \A j \in 1..m : a[j] = b[j]
  <2> TAKE j \in 1..m
  <2>1. j - 1 \in 0..Len(a) /\ j - 1 < m /\ (j - 1) + 1 = j
    BY <1>3
  <2>2. j - 1 \notin T
    <3> HIDE DEF T
    <3>1. j - 1 \in T => m <= j - 1
      BY <1>2
    <3> QED
      BY <3>1, <2>1, <1>3
  <2> QED
    BY <2>1, <2>2
<1>5. SubSeq(a, 1, m) = SubSeq(b, 1, m)
  <2>1. m \in Nat /\ m <= Len(a) /\ 1 <= m + 1 /\ 1 \in Nat /\ 1 <= 1
    BY <1>3
  <2>2. IsSub(Nat, a, 1, m, SubSeq(a, 1, m)) /\ IsSub(Nat, b, 1, m, SubSeq(b, 1, m))
    BY <2>1, <1>3, Sub
  <2> DEFINE x == SubSeq(a, 1, m)
             y == SubSeq(b, 1, m)
  <2>3. IsSub(Nat, a, 1, m, x) /\ IsSub(Nat, b, 1, m, y)
    BY <2>2
  <2> HIDE DEF x, y
  <2>4. x \in Seq(Nat) /\ y \in Seq(Nat) /\ Len(x) = m /\ Len(y) = m /\ \A j \in 1..m : x[j] = a[j] /\ y[j] = b[j]
    BY <2>1, <2>3 DEF IsSub
  <2>5. Len(x) = Len(y) /\ \A j \in 1..Len(x) : x[j] = y[j]
    BY <2>4, <1>4
  <2>6. x = y
    BY <2>4, <2>5, SameSeq, Zenon
  <2> QED
    BY <2>6 DEF x, y
<1>6. m < Len(a) /\ m < Len(b) => a[m + 1] # b[m + 1]
  <2>1. m = Len(a) \/ m = Len(b) \/ a[m + 1] # b[m + 1]
    OBVIOUS
  <2> QED
    BY <2>1, <1>3
<1>7. P(m)
  BY <1>3, <1>5, <1>6
<1>8. commonPrefixLen(a, b) = CHOOSE n \in 0..Len(a) : P(n)
  BY Zenon DEF commonPrefixLen
<1>9. commonPrefixLen(a, b) \in 0..Len(a) /\ P(commonPrefixLen(a, b))
  <2> HIDE DEF P
  <2> QED
    BY <1>3, <1>7, <1>8, Zenon
<1> QED
  BY <1>9

\* A string is its prefix and the rest.
LEMMA PrefixAndRest ==
    ASSUME NEW s \in Seq(Nat), NEW k \in 0..Len(s)
    PROVE  SubSeq(s, 1, k) \o SubSeq(s, k + 1, Len(s)) = s
<1> DEFINE x == SubSeq(s, 1, k)
           y == SubSeq(s, k + 1, Len(s))
           z == x \o y
<1>1. k \in Nat /\ k + 1 \in Nat /\ Len(s) \in Nat /\ 1 <= k + 1 /\ k + 1 <= Len(s) + 1 /\ k <= Len(s)
  OBVIOUS
<1>2. IsSub(Nat, s, 1, k, x) /\ IsSub(Nat, s, k + 1, Len(s), y)
  BY <1>1, Sub
<1> HIDE DEF x, y
<1>3. x \in Seq(Nat) /\ y \in Seq(Nat)
  BY <1>2, Zenon DEF IsSub
<1>4. IsCat(Nat, x, y, z)
  BY <1>3, Cat, Zenon
<1> HIDE DEF z
<1>5. Len(x) = k /\ Len(y) = Len(s) - k
  BY <1>1, <1>2 DEF IsSub
<1>6. z \in Seq(Nat) /\ Len(z) = Len(x) + Len(y) /\ (\A j \in 1..Len(x) : z[j] = x[j]) /\ \A j \in 1..Len(y) : z[Len(x) + j] = y[j]
  BY <1>4, Zenon DEF IsCat
<1>7. Len(z) = Len(s)
  BY <1>1, <1>5, <1>6
<1>8. \A j \in 1..k : z[j] = s[j]
  <2> TAKE j \in 1..k
  <2>1. z[j] = x[j]
    BY <1>5, <1>6
  <2>2. x[j] = s[1 + j - 1] /\ 1 + j - 1 = j
    BY <1>1, <1>2 DEF IsSub
  <2> QED
    BY <2>1, <2>2
<1>9. \A j \in 1..(Len(s) - k) : z[k + j] = s[k + j]
  <2> TAKE j \in 1..(Len(s) - k)
  <2>1. z[k + j] = y[j]
    BY <1>5, <1>6
  <2>2. y[j] = s[k + 1 + j - 1] /\ k + 1 + j - 1 = k + j
    BY <1>1, <1>2 DEF IsSub
  <2> QED
    BY <2>1, <2>2
<1>10. \A j \in 1..Len(z) : z[j] = s[j]
  <2> TAKE j \in 1..Len(z)
  <2>1. CASE j <= k
    BY <2>1, <1>8, <1>7
  <2>2. CASE ~(j <= k)
    <3>1. j - k \in 1..(Len(s) - k) /\ k + (j - k) = j
      BY <2>2, <1>7, <1>1
    <3> QED
      BY <3>1, <1>9
  <2> QED
    BY <2>1, <2>2
<1>11. z = s
  BY <1>6, <1>7, <1>10, SameSeq
<1> QED
  BY <1>11 DEF x, y, z

\* A front-coded dictionary gives its strings back.
LEMMA FrontCodingReturns ==
    ASSUME NEW strs \in Seq(Seq(Nat))
    PROVE  EntryStrings(buildFrontCodedDict(strs)) = strs
<1> DEFINE n == Len(strs)
           d == buildFrontCodedDict(strs)
           shared(k) == IF (k - 1) % RestartInterval = 0 THEN 0 ELSE commonPrefixLen(strs[k - 1], strs[k])
           rest(k) == SubSeq(strs[k], shared(k) + 1, Len(strs[k]))
           Eq(f) == f = [k \in 1..n |->
                           (IF k = 1 THEN <<>> ELSE SubSeq(f[k - 1], 1, shared(k))) \o rest(k)]
<1>0. n \in Nat /\ \A k \in 1..n : strs[k] \in Seq(Nat)
  OBVIOUS
<1>1. ASSUME NEW k \in 1..n
      PROVE  /\ k # 1 => SubSeq(strs[k - 1], 1, shared(k)) \o rest(k) = strs[k]
             /\ k = 1 => <<>> \o rest(k) = strs[k]
  <2>1. CASE (k - 1) % RestartInterval = 0
    <3>1. shared(k) = 0
      BY <2>1
    <3>2. \A s \in Seq(Nat) : SubSeq(s, 1, 0) = <<>> /\ <<>> \o SubSeq(s, 1, Len(s)) = s
      OBVIOUS
    <3>3. rest(k) = SubSeq(strs[k], 1, Len(strs[k]))
      BY <3>1
    <3>4. k # 1 => strs[k - 1] \in Seq(Nat)
      BY <1>0
    <3> HIDE DEF shared, rest
    <3> QED
      BY <3>1, <3>2, <3>3, <3>4, <1>0
  <2>2. CASE (k - 1) % RestartInterval # 0
    <3>1. k # 1
      <4>1. RestartInterval \in Nat \ {0}
        BY FormatAssumption
      <4>2. 0 % RestartInterval = 0
        BY <4>1
      <4> QED
        BY <2>2, <4>2
    <3>2. strs[k - 1] \in Seq(Nat) /\ strs[k] \in Seq(Nat)
      BY <1>0, <3>1
    <3>3. shared(k) = commonPrefixLen(strs[k - 1], strs[k])
      BY <2>2
    <3> HIDE DEF shared
    <3>4. shared(k) <= Len(strs[k]) /\ SubSeq(strs[k - 1], 1, shared(k)) = SubSeq(strs[k], 1, shared(k))
          /\ shared(k) \in 0..Len(strs[k - 1])
      BY <3>2, <3>3, CommonPrefix
    <3>5. shared(k) \in 0..Len(strs[k])
      BY <3>2, <3>4
    <3>6. SubSeq(strs[k], 1, shared(k)) \o SubSeq(strs[k], shared(k) + 1, Len(strs[k])) = strs[k]
      BY <3>2, <3>5, PrefixAndRest, Zenon
    <3> QED
      BY <3>1, <3>4, <3>6, Zenon
  <2> QED
    BY <2>1, <2>2
<1>2. d.entries = [k \in 1..n |-> [shared |-> shared(k), suffix |-> rest(k)]]
  BY Zenon DEF buildFrontCodedDict
<1> HIDE DEF d, shared, rest
<1>3. Len(d.entries) = n /\ \A k \in 1..n : d.entries[k].shared = shared(k) /\ d.entries[k].suffix = rest(k)
  BY <1>2, <1>0
<1>4. EntryStrings(d) = CHOOSE f : Eq(f)
  <2>1. EntryStrings(d) = CHOOSE f : f = [k \in 1..n |->
                           (IF k = 1 THEN <<>> ELSE SubSeq(f[k - 1], 1, d.entries[k].shared)) \o d.entries[k].suffix]
    BY <1>3, Zenon DEF EntryStrings
  <2> DEFINE a(f, k) == (IF k = 1 THEN <<>> ELSE SubSeq(f[k - 1], 1, d.entries[k].shared)) \o d.entries[k].suffix
             b(f, k) == (IF k = 1 THEN <<>> ELSE SubSeq(f[k - 1], 1, shared(k))) \o rest(k)
  <2>3. \A f : \A k \in 1..n : a(f, k) = b(f, k)
    BY <1>3, Zenon
  <2>4. EntryStrings(d) = CHOOSE f : f = [k \in 1..n |-> a(f, k)]
    BY <2>1, Zenon
  <2>5. (CHOOSE f : Eq(f)) = CHOOSE f : f = [k \in 1..n |-> b(f, k)]
    BY Zenon
  <2> HIDE DEF a, b, Eq
  <2>6. \A f : [k \in 1..n |-> a(f, k)] = [k \in 1..n |-> b(f, k)]
    BY <2>3
  <2>7. \A f : f = [k \in 1..n |-> a(f, k)] <=> f = [k \in 1..n |-> b(f, k)]
    BY <2>6
  <2>8. (CHOOSE f : f = [k \in 1..n |-> a(f, k)]) = CHOOSE f : f = [k \in 1..n |-> b(f, k)]
    BY <2>7
  <2> QED
    BY <2>4, <2>5, <2>8, Zenon
<1>5. Eq(strs)
  <2> DEFINE v(k) == (IF k = 1 THEN <<>> ELSE SubSeq(strs[k - 1], 1, shared(k))) \o rest(k)
  <2>1. \A k \in 1..n : strs[k] = v(k)
    BY <1>1, Zenon
  <2> HIDE DEF v
  <2>2. strs = [k \in 1..n |-> v(k)]
    BY <2>1
  <2> QED
    BY <2>2 DEF v
<1>6. ASSUME NEW f, Eq(f) PROVE f = strs
  <2> DEFINE v(k) == (IF k = 1 THEN <<>> ELSE SubSeq(f[k - 1], 1, shared(k))) \o rest(k)
  <2>1. f = [k \in 1..n |-> v(k)]
    BY <1>6, Zenon
  <2>2. \A k \in 1..n : f[k] = v(k)
    <3> HIDE DEF v
    <3> QED
      BY <2>1
  <2> DEFINE U == {k \in 0..n : k # 0 => f[k] = strs[k]}
  <2>3. 0 \in U
    BY <1>0
  <2>4. ASSUME NEW k \in 1..n, k - 1 \in U PROVE k \in U
    <3>1. f[k] = strs[k]
      <4>1. CASE k = 1
        BY <4>1, <2>2, <1>1, Zenon
      <4>2. CASE k # 1
        <5>1. k - 1 # 0
          BY <4>2
        <5>2. f[k - 1] = strs[k - 1]
          BY <5>1, <2>4
        <5> QED
          BY <4>2, <5>2, <2>2, <1>1, Zenon
      <4> QED
        BY <4>1, <4>2
    <3> QED
      BY <3>1
  <2>5. \A k \in 0..n : k \in U
    <3> HIDE DEF U, n
    <3> QED
      BY <2>3, <2>4, <1>0, UpTo
  <2>6. \A k \in 1..n : f[k] = strs[k]
    BY <2>5
  <2> HIDE DEF v
  <2>7. strs = [k \in 1..n |-> strs[k]]
    OBVIOUS
  <2>8. \A k \in 1..n : strs[k] = v(k)
    BY <2>2, <2>6
  <2> QED
    BY <2>1, <2>7, <2>8
<1> HIDE DEF Eq
<1> QED
  BY <1>4, <1>5, <1>6, Zenon DEF d

-----------------------------------------------------------------------------
(* Packages, flags and the hashes of files, read from the file. *)

\* The dictionary of the packages, and the place of every node's package in it.
ArePkgs(nodes, n) ==
    /\ pkgDictOf(nodes) \in Seq(Seq(Nat))
    /\ pkgIDsOf(nodes) \in [1..n -> Int] /\ Len(pkgIDsOf(nodes)) = n
    /\ \A k \in 1..n : /\ pkgIDsOf(nodes)[k] + 1 \in 1..Len(pkgDictOf(nodes))
                       /\ pkgDictOf(nodes)[pkgIDsOf(nodes)[k] + 1] = nodes[k].pkg

\* The package of a node is found at its ID.
LEMMA PkgsReturn ==
    ASSUME NEW n \in Nat, NEW nodes, Len(nodes) = n, \A k \in 1..n : nodes[k].pkg \in Seq(Nat)
    PROVE  ArePkgs(nodes, n)
<1> DEFINE d == pkgDicts(nodes)
<1>1. ArePkgDicts(nodes, n, d)
  BY PkgDictsDef, Zenon
<1>2. /\ d \in [0..n -> Seq(Seq(Nat))] /\ d[0] = <<>>
      /\ \A k \in 1..n : IF k > 1 /\ nodes[k].pkg = nodes[k - 1].pkg
                         THEN d[k] = d[k - 1] ELSE d[k] = Append(d[k - 1], nodes[k].pkg)
  <2> HIDE DEF d
  <2> QED
    BY <1>1, Zenon DEF ArePkgDicts
<1>3. pkgDictOf(nodes) = d[n] /\ pkgIDsOf(nodes) = [k \in 1..n |-> Len(d[k]) - 1]
  BY Zenon DEF pkgDictOf, pkgIDsOf
<1> HIDE DEF d
<1>4. \A m \in 0..n : d[m] \in Seq(Seq(Nat)) /\ Len(d[m]) \in Nat
  BY <1>2
<1> DEFINE P(m) == \A k \in 1..m : Len(d[k]) \in 1..Len(d[m]) /\ d[m][Len(d[k])] = nodes[k].pkg
           U == {m \in 0..n : P(m)}
<1>5. 0 \in U
  OBVIOUS
<1>6. ASSUME NEW m \in 1..n, m - 1 \in U PROVE m \in U
  <2>0. P(m - 1) /\ m - 1 \in 0..n /\ m \in 0..n
    BY <1>6
  <2>1. CASE m > 1 /\ nodes[m].pkg = nodes[m - 1].pkg
    <3>1. d[m] = d[m - 1]
      BY <1>2, <2>1, Zenon
    <3>2. m - 1 \in 1..(m - 1)
      BY <2>1
    <3>3. Len(d[m - 1]) \in 1..Len(d[m - 1]) /\ d[m - 1][Len(d[m - 1])] = nodes[m - 1].pkg
      BY <2>0, <3>2, Zenon
    <3>4. \A k \in 1..m : k = m \/ k \in 1..(m - 1)
      OBVIOUS
    <3>5. P(m)
      BY <3>1, <3>3, <3>4, <2>0, <2>1, Zenon
    <3> QED
      BY <3>5, <2>0
  <2>2. CASE ~(m > 1 /\ nodes[m].pkg = nodes[m - 1].pkg)
    <3> DEFINE a == d[m - 1]
               p == nodes[m].pkg
    <3>1. d[m] = Append(a, p)
      BY <1>2, <2>2, Zenon
    <3>2. a \in Seq(Seq(Nat)) /\ p \in Seq(Nat)
      BY <1>4, <2>0
    <3>3. P(m - 1) = \A k \in 1..(m - 1) : Len(d[k]) \in 1..Len(a) /\ a[Len(d[k])] = nodes[k].pkg
      OBVIOUS
    <3> HIDE DEF a, p
    <3>4. Len(d[m]) = Len(a) + 1 /\ d[m][Len(a) + 1] = p /\ \A j \in 1..Len(a) : d[m][j] = a[j]
      BY <3>1, <3>2
    <3>5. ASSUME NEW k \in 1..m PROVE Len(d[k]) \in 1..Len(d[m]) /\ d[m][Len(d[k])] = nodes[k].pkg
      <4>1. CASE k = m
        <5>1. Len(d[m]) \in 1..Len(d[m]) /\ d[m][Len(d[m])] = p
          BY <3>2, <3>4
        <5> QED
          BY <4>1, <5>1 DEF p
      <4>2. CASE k # m
        <5>1. k \in 1..(m - 1)
          BY <4>2
        <5>2. Len(d[k]) \in 1..Len(a) /\ a[Len(d[k])] = nodes[k].pkg
          BY <5>1, <2>0, <3>3
        <5> QED
          BY <5>2, <3>4, <3>2
      <4> QED
        BY <4>1, <4>2
    <3> QED
      BY <3>5, <2>0
  <2> QED
    BY <2>1, <2>2
<1>7. P(n)
  <2>1. \A m \in 0..n : m \in U
    <3> HIDE DEF U
    <3> QED
      BY <1>5, <1>6, UpTo
  <2> QED
    BY <2>1
<1>8. \A k \in 1..n : k \in 0..n /\ Len(d[k]) \in Int /\ Len(d[k]) - 1 + 1 = Len(d[k]) /\ Len(d[k]) - 1 \in Int
  BY <1>4
<1>9. \A k \in 1..n : pkgIDsOf(nodes)[k] = Len(d[k]) - 1
  BY <1>3
<1>10. pkgIDsOf(nodes) \in [1..n -> Int] /\ Len(pkgIDsOf(nodes)) = n
  BY <1>3, <1>8
<1>11. \A k \in 1..n : pkgIDsOf(nodes)[k] + 1 = Len(d[k])
  BY <1>8, <1>9
<1>12. \A k \in 1..n : Len(d[k]) \in 1..Len(d[n]) /\ d[n][Len(d[k])] = nodes[k].pkg
  BY <1>7
<1> QED
  BY <1>3, <1>4, <1>10, <1>11, <1>12 DEF ArePkgs

\* The three bitsets of n nodes, one after the other.
AreFlags(f, bs, n) ==
    /\ \E B : getColumn(f, "FLAGS") \in Seq(B)
    /\ \A b \in DOMAIN NoBits(n) :
        /\ decodeFlags(f).root[b] = bs.root[b]
        /\ decodeFlags(f).ext[b] = bs.ext[b]
        /\ decodeFlags(f).empty[b] = bs.empty[b]

\* The bitsets are found again in FLAGS.
LEMMA FlagsReturn ==
    ASSUME NEW n \in Nat, NEW f, NodeCount(f) = n, NEW bs, NEW B,
           bs.root \in [DOMAIN NoBits(n) -> B], bs.ext \in [DOMAIN NoBits(n) -> B],
           bs.empty \in [DOMAIN NoBits(n) -> B],
           getColumn(f, "FLAGS") = Flagged(bs)
    PROVE  AreFlags(f, bs, n)
<1> DEFINE nb == (n + ByteWidth - 1) \div ByteWidth
           data == getColumn(f, "FLAGS")
           x == BytesOf(bs.root)
           y == BytesOf(bs.ext)
           z == BytesOf(bs.empty)
<1>1. nb \in Nat
  <2>1. ByteWidth \in Nat /\ ByteWidth > 0 /\ n + ByteWidth - 1 \in Nat
    BY FormatAssumption
  <2> QED
    BY <2>1, DivMod
<1>2. DOMAIN NoBits(n) = 0..(nb - 1)
  BY Zenon DEF NoBits
<1>3. decodeFlags(f) = [root |-> [b \in 0..(nb - 1) |-> data[0 * nb + b + 1]],
                        ext |-> [b \in 0..(nb - 1) |-> data[1 * nb + b + 1]],
                        empty |-> [b \in 0..(nb - 1) |-> data[2 * nb + b + 1]]]
  BY Zenon DEF decodeFlags
<1> HIDE DEF nb
<1>4. Cardinality(0..(nb - 1)) = nb
  <2>1. Cardinality(0..(nb - 1)) = IF 0 > nb - 1 THEN 0 ELSE (nb - 1) - 0 + 1
    BY <1>1, FS_Interval
  <2> QED
    BY <2>1, <1>1
<1>5. ASSUME NEW c \in [0..(nb - 1) -> B]
      PROVE  BytesOf(c) \in Seq(B) /\ Len(BytesOf(c)) = nb /\ \A b \in 0..(nb - 1) : BytesOf(c)[b + 1] = c[b]
  <2>1. BytesOf(c) = [k \in 1..nb |-> c[k - 1]]
    <3>1. DOMAIN c = 0..(nb - 1)
      OBVIOUS
    <3> QED
      BY <3>1, <1>4, Zenon DEF BytesOf
  <2> QED
    BY <2>1, <1>1
<1>6. bs.root \in [0..(nb - 1) -> B] /\ bs.ext \in [0..(nb - 1) -> B] /\ bs.empty \in [0..(nb - 1) -> B]
  BY <1>2, Zenon
<1>7. /\ x \in Seq(B) /\ Len(x) = nb /\ \A b \in 0..(nb - 1) : x[b + 1] = bs.root[b]
  BY <1>5, <1>6, Zenon
<1>8. /\ y \in Seq(B) /\ Len(y) = nb /\ \A b \in 0..(nb - 1) : y[b + 1] = bs.ext[b]
  BY <1>5, <1>6, Zenon
<1>9. /\ z \in Seq(B) /\ Len(z) = nb /\ \A b \in 0..(nb - 1) : z[b + 1] = bs.empty[b]
  BY <1>5, <1>6, Zenon
<1>10. data = (x \o y) \o z
  BY Zenon DEF Flagged
<1> DEFINE xy == x \o y
<1>11. data = xy \o z
  BY <1>10
<1> HIDE DEF x, y, z, data
<1>12. IsCat(B, x, y, xy)
  BY <1>7, <1>8, Cat, Zenon
<1> HIDE DEF xy
<1>13. xy \in Seq(B) /\ Len(xy) = nb + nb
  BY <1>12, <1>7, <1>8, <1>1, Zenon DEF IsCat
<1>14. IsCat(B, xy, z, data)
  BY <1>9, <1>11, <1>13, Cat, Zenon
<1>15. /\ \A j \in 1..Len(xy) : data[j] = xy[j]
       /\ \A j \in 1..Len(z) : data[Len(xy) + j] = z[j]
       /\ \A j \in 1..Len(x) : xy[j] = x[j]
       /\ \A j \in 1..Len(y) : xy[Len(x) + j] = y[j]
  BY <1>12, <1>14, Zenon DEF IsCat
<1>16. ASSUME NEW b \in 0..(nb - 1)
       PROVE  /\ data[0 * nb + b + 1] = bs.root[b] /\ data[1 * nb + b + 1] = bs.ext[b] /\ data[2 * nb + b + 1] = bs.empty[b]
  <2>1. /\ 0 * nb + b + 1 = b + 1 /\ 1 * nb + b + 1 = nb + (b + 1) /\ 2 * nb + b + 1 = (nb + nb) + (b + 1)
        /\ b + 1 \in 1..nb /\ b + 1 \in 1..(nb + nb) /\ nb + (b + 1) \in 1..(nb + nb)
    BY <1>1
  <2>2. data[b + 1] = xy[b + 1] /\ xy[b + 1] = x[b + 1] /\ x[b + 1] = bs.root[b]
    BY <2>1, <1>7, <1>13, <1>15, Zenon
  <2>3. data[nb + (b + 1)] = xy[nb + (b + 1)] /\ xy[nb + (b + 1)] = y[b + 1] /\ y[b + 1] = bs.ext[b]
    BY <2>1, <1>7, <1>8, <1>13, <1>15, Zenon
  <2>4. data[(nb + nb) + (b + 1)] = z[b + 1] /\ z[b + 1] = bs.empty[b]
    BY <2>1, <1>9, <1>13, <1>15, Zenon
  <2> QED
    BY <2>1, <2>2, <2>3, <2>4, Zenon
<1> DEFINE p0 == [b \in 0..(nb - 1) |-> data[0 * nb + b + 1]]
           p1 == [b \in 0..(nb - 1) |-> data[1 * nb + b + 1]]
           p2 == [b \in 0..(nb - 1) |-> data[2 * nb + b + 1]]
<1>17. \A b \in 0..(nb - 1) : p0[b] = bs.root[b] /\ p1[b] = bs.ext[b] /\ p2[b] = bs.empty[b]
  BY <1>16, Zenon
<1>18. decodeFlags(f).root = p0 /\ decodeFlags(f).ext = p1 /\ decodeFlags(f).empty = p2
  BY <1>3
<1>19. data \in Seq(B)
  BY <1>14, Zenon DEF IsCat
<1> QED
  BY <1>2, <1>17, <1>18, <1>19, Zenon DEF AreFlags, data

\* The bitsets of the nodes are found again.
LEMMA FlagsLaid ==
    ASSUME NEW g, NEW e, NEW n \in Nat, NEW f, NodeCount(f) = n,
           getColumn(f, "FLAGS") = Flagged(BitsOf(g, e, n))
    PROVE  AreFlags(f, BitsOf(g, e, n), n)
<1> DEFINE bs == BitsOf(g, e, n)
           B == SUBSET (0..(ByteWidth - 1))
           D == DOMAIN NoBits(n)
           F(fl, b) == FlagsOf(g, e, n, fl, b)
<1>0. ByteWidth \in Nat /\ ByteWidth > 0
  BY FormatAssumption
<1>1. \A fl, b : F(fl, b) \in B
  <2>1. \A j \in 0..(n - 1) : j % ByteWidth \in 0..(ByteWidth - 1)
    BY <1>0
  <2> QED
    BY <2>1, Zenon DEF FlagsOf
<1>2. bs.root = [b \in D |-> F("root", b)] /\ bs.ext = [b \in D |-> F("ext", b)] /\ bs.empty = [b \in D |-> F("empty", b)]
  BY DEF BitsOf, Flags
<1> HIDE DEF bs, B, F, D
<1>3. bs.root \in [D -> B] /\ bs.ext \in [D -> B] /\ bs.empty \in [D -> B]
  BY <1>1, <1>2
<1> QED
  BY <1>3, FlagsReturn, Zenon DEF bs, D

\* A flag of a node is read as it was set.
LEMMA FlagReturns ==
    ASSUME NEW g, NEW e, NEW n \in Nat, NEW f, NodeCount(f) = n,
           getColumn(f, "FLAGS") = Flagged(BitsOf(g, e, n)), NEW i \in 0..(n - 1)
    PROVE  /\ Root(f, i) <=> FlagAt(g, e, "root", i)
           /\ External(f, i) <=> FlagAt(g, e, "ext", i)
           /\ HashEmpty(f, i) <=> FlagAt(g, e, "empty", i)
<1> DEFINE bs == BitsOf(g, e, n)
           D == DOMAIN NoBits(n)
           F(fl, b) == FlagsOf(g, e, n, fl, b)
           c == ByteOf(i)
<1>0. ByteWidth \in Nat /\ ByteWidth > 0
  BY FormatAssumption
<1>2. bs.root = [b \in D |-> F("root", b)] /\ bs.ext = [b \in D |-> F("ext", b)] /\ bs.empty = [b \in D |-> F("empty", b)]
  BY DEF BitsOf, Flags
<1> HIDE DEF bs, F, D
<1>4. AreFlags(f, bs, n)
  BY FlagsLaid, Zenon DEF bs
<1>5. c \in D
  BY BytesCover, Zenon DEF D
<1>6. /\ decodeFlags(f).root[c] = F("root", c) /\ decodeFlags(f).ext[c] = F("ext", c) /\ decodeFlags(f).empty[c] = F("empty", c)
  <2>1. /\ decodeFlags(f).root[c] = bs.root[c] /\ decodeFlags(f).ext[c] = bs.ext[c] /\ decodeFlags(f).empty[c] = bs.empty[c]
    BY <1>4, <1>5, Zenon DEF AreFlags, D
  <2>2. bs.root[c] = F("root", c) /\ bs.ext[c] = F("ext", c) /\ bs.empty[c] = F("empty", c)
    BY <1>2, <1>5
  <2> QED
    BY <2>1, <2>2, Zenon
<1>7. ASSUME NEW fl PROVE i % ByteWidth \in F(fl, c) <=> FlagAt(g, e, fl, i)
  <2>1. ASSUME i % ByteWidth \in F(fl, c) PROVE FlagAt(g, e, fl, i)
    <3>1. PICK j \in 0..(n - 1) : ByteOf(j) = c /\ FlagAt(g, e, fl, j) /\ i % ByteWidth = j % ByteWidth
      BY <2>1, Zenon DEF F, FlagsOf
    <3>2. i \div ByteWidth = j \div ByteWidth
      BY <3>1, Zenon DEF ByteOf
    <3>3. i = j
      <4>1. i \in Nat /\ j \in Nat
        OBVIOUS
      <4>2. i = (i \div ByteWidth) * ByteWidth + (i % ByteWidth) /\ j = (j \div ByteWidth) * ByteWidth + (j % ByteWidth)
        BY <4>1, <1>0, DivMod
      <4> QED
        BY <4>2, <3>1, <3>2, Zenon
    <3> QED
      BY <3>1, <3>3, Zenon
  <2>2. ASSUME FlagAt(g, e, fl, i) PROVE i % ByteWidth \in F(fl, c)
    BY <2>2, Zenon DEF F, FlagsOf
  <2> QED
    BY <2>1, <2>2
<1>8. /\ Root(f, i) <=> i % ByteWidth \in F("root", c)
      /\ External(f, i) <=> i % ByteWidth \in F("ext", c)
      /\ HashEmpty(f, i) <=> i % ByteWidth \in F("empty", c)
  BY <1>6, Zenon DEF Root, External, HashEmpty, BitSet
<1> QED
  BY <1>7, <1>8, Zenon

\* The map of strings is read as it was written.
LEMMA FilesReturn ==
    ASSUME NEW m, IsFiniteSet(DOMAIN m), DOMAIN m \subseteq Seq(Nat), m \in [DOMAIN m -> Seq(Nat)]
    PROVE  /\ decodeStringMap(encodeStringMap(m)) = m
           /\ DOMAIN m = {} => decodeStringMap(<<>>) = m
           /\ \E S : encodeStringMap(m) \in Seq(S)
<1> DEFINE D == DOMAIN m
           pair(k) == [key |-> k, val |-> m[k]]
           S == {pair(k) : k \in D}
           R == {p \in S \X S : LexLess(p[1].key, p[2].key)}
           c == encodeStringMap(m)
           N == Cardinality(S)
<1>1. \A k \in D : pair(k) \in S /\ pair(k).key = k /\ pair(k).val = m[k]
  OBVIOUS
<1>2. \A x \in S : x.key \in D /\ x = pair(x.key) /\ x.val = m[x.key]
  <2> TAKE x \in S
  <2>1. PICK k \in D : x = pair(k)
    BY Zenon
  <2>2. pair(k).key = k /\ pair(k).val = m[k]
    OBVIOUS
  <2> HIDE DEF pair
  <2> QED
    BY <2>1, <2>2
<1> HIDE DEF pair
<1>3. IsFiniteSet(S)
  <2> DEFINE f == [k \in D |-> pair(k)]
  <2>1. f \in [D -> S] /\ \A x \in S : \E k \in D : f[k] = x
    OBVIOUS
  <2>2. f \in Surjection(D, S)
    <3> HIDE DEF f, S
    <3> QED
      BY <2>1 DEF Surjection
  <2> HIDE DEF f, S
  <2> QED
    BY <2>2, FS_Surjection
<1>4. \A x, y \in S : <<x, y>> \in R <=> LexLess(x.key, y.key)
  <2> HIDE DEF S
  <2> QED
    OBVIOUS
<1> HIDE DEF S, R
<1>5. \A x \in S : x.key \in Seq(Nat)
  BY <1>2
<1>6. \A x, y \in S : x.key = y.key => x = y
  BY <1>2, Zenon
<1>7. Orders(S, R)
  BY <1>3, <1>4, <1>5, <1>6, LexOrder, Zenon DEF Orders
<1> DEFINE q == Enumeration(S, R)
<1>8. Lists(q, S, R)
  BY <1>7, EnumerationLists, Zenon
<1>9. c = q
  <2> DEFINE a(k) == CHOOSE x \in S : Cardinality({y \in S : LexLess(y.key, x.key)}) = k - 1
             b(k) == CHOOSE x \in S : Rank(S, R, x) = k - 1
  <2>0. \A x \in S : {y \in S : LexLess(y.key, x.key)} = Below(S, R, x)
    BY <1>4, Zenon DEF Below
  <2>1. \A k \in 1..N : a(k) = b(k)
    BY <2>0, Zenon DEF Rank
  <2>2. c = [k \in 1..N |-> a(k)]
    BY Zenon DEF encodeStringMap, SortedSeq, S, pair
  <2>3. q = [k \in 1..N |-> b(k)]
    BY Zenon DEF Enumeration
  <2> HIDE DEF a, b, q, c
  <2> QED
    BY <2>1, <2>2, <2>3
<1> HIDE DEF q, c
<1>10. /\ N \in Nat /\ c \in [1..N -> S] /\ Len(c) = N
       /\ \A x \in S : \E k \in 1..N : c[k] = x
       /\ \A j, k \in 1..N : c[j] = c[k] => j = k
  <2>1. /\ N \in Nat /\ c \in [1..N -> S]
        /\ \A x \in S : \E k \in 1..N : c[k] = x
        /\ \A j, k \in 1..N : c[j] = c[k] => j = k
    BY <1>8, <1>9, Zenon DEF Lists
  <2> HIDE DEF N
  <2> QED
    BY <2>1
<1> HIDE DEF N
<1> DEFINE K == {c[j].key : j \in 1..Len(c)}
           last(k) == SelectLastInSeq(c, LAMBDA p : p.key = k)
<1>11. K = D
  <2>1. \A j \in 1..N : c[j] \in S
    BY <1>10
  <2>2. \A k \in D : \E j \in 1..N : c[j].key = k
    <3> TAKE k \in D
    <3>1. pair(k) \in S /\ pair(k).key = k
      BY <1>1, Zenon
    <3> QED
      BY <3>1, <1>10, Zenon
  <2>3. \A j \in 1..Len(c) : c[j].key \in D
    BY <2>1, <1>2, <1>10, Zenon
  <2>4. \A k \in D : \E j \in 1..Len(c) : k = c[j].key
    BY <2>2, <1>10, Zenon
  <2>5. K \subseteq D
    BY <2>3, Zenon
  <2>6. D \subseteq K
    BY <2>4, Zenon
  <2> QED
    BY <2>5, <2>6
<1>12. ASSUME NEW k \in D PROVE c[last(k)].val = m[k]
  <2> DEFINE I == {j \in 1..Len(c) : c[j].key = k}
  <2>1. I # {} /\ I \in SUBSET (1..N)
    <3>1. pair(k) \in S /\ pair(k).key = k
      BY <1>1, Zenon
    <3> QED
      BY <3>1, <1>10, Zenon
  <2>2. last(k) = Max(I)
    BY <2>1, Zenon DEF SelectLastInSeq
  <2>3. Max(I) \in I
    <3> HIDE DEF I
    <3>1. 1 \in Int /\ N \in Int
      BY <1>10
    <3> QED
      BY <2>1, <3>1, MaxMinInterval, Zenon
  <2>4. last(k) \in 1..N /\ c[last(k)].key = k
    BY <2>2, <2>3, <1>10, Zenon
  <2>5. c[last(k)] \in S
    <3> HIDE DEF last
    <3> QED
      BY <2>4, <1>10
  <2> QED
    BY <2>4, <2>5, <1>2, Zenon
<1>13. decodeStringMap(c) = [k \in K |-> c[last(k)].val]
  BY Zenon DEF decodeStringMap
<1> HIDE DEF last, K
<1>14. decodeStringMap(c) = m
  BY <1>11, <1>12, <1>13
<1>15. ASSUME DOMAIN m = {} PROVE decodeStringMap(<<>>) = m
  <2> DEFINE w == decodeStringMap(<<>>)
             J == {<<>>[j].key : j \in 1..Len(<<>>)}
             v(k) == <<>>[SelectLastInSeq(<<>>, LAMBDA p : p.key = k)].val
  <2>1. w = [k \in J |-> v(k)]
    BY Zenon DEF decodeStringMap
  <2>2. J = {}
    <3>1. 1..Len(<<>>) = {}
      OBVIOUS
    <3> QED
      BY <3>1, Zenon
  <2> HIDE DEF w, v, J
  <2>3. w = [k \in {} |-> v(k)] /\ m = [k \in {} |-> m[k]]
    BY <2>1, <2>2, <1>15
  <2>4. w = m
    BY <2>3
  <2> QED
    BY <2>4 DEF w
<1>16. c \in Seq(S)
  BY <1>10
<1> HIDE DEF c, S
<1>17. \E T : c \in Seq(T)
  BY <1>16, Zenon
<1> QED
  BY <1>14, <1>15, <1>17, Zenon DEF c

-----------------------------------------------------------------------------
(* What a Reader finds in the file of a well-formed graph. *)

\* The strings of a dictionary, or none where it is too large to be expanded.
DictRead(f, id, strs) == IF Expands(f, id) THEN Dict(f, id) = strs ELSE Dict(f, id) = <<>>

DictsRead(e, f) ==
    /\ DictRead(f, "PKG_DICT", e.dict.pkg) /\ DictRead(f, "NAME_DICT", e.dict.name)
    /\ DictRead(f, "RULETYPE_DICT", e.dict.ruleType) /\ DictRead(f, "TAG_DICT", e.dict.tag)
    /\ DictRead(f, "ATTR_NAME_DICT", e.dict.attrName) /\ DictRead(f, "ATTR_VALUE_DICT", e.dict.attrVal)

\* The columns that are decoded once and kept.
KeptRead(g, e, n, f) ==
    /\ DecodeKept(f, "pkg") = pkgIDsOf(e.nodes)
    /\ DecodeKept(f, "name") = Col(g, e, n, "name")
    /\ DecodeKept(f, "ruleType") = Col(g, e, n, "ruleType")

\* Dependencies, tags and attributes of the nodes, one by one and in one pass.
ListsRead(g, e, n, f) ==
    /\ decodeDepColumns(f) = [k \in 1..n |-> DepsOf(g, e, k - 1)]
    /\ decodeTagColumns(f) = [k \in 1..n |-> TagsAt(g, e, k - 1)]
    /\ Runs(getColumn(f, "ATTR_NAME"), getColumn(f, "ATTR_DEG")) = StreamOf(g, e, n, "attrNms")
    /\ Runs(getColumn(f, "ATTR_VALUE"), getColumn(f, "ATTR_DEG")) = StreamOf(g, e, n, "attrVls")
    /\ \A i \in 0..(n - 1) :
          /\ Deps(f, i) = DepsOf(g, e, i) /\ Tags(f, i) = TagsAt(g, e, i)
          /\ RunAt(getColumn(f, "ATTR_NAME"), ensureAttrOffsets(f).nm, getColumn(f, "ATTR_DEG"), i)
               = EncodeNode(g, e, i).out.attrNms
          /\ RunAt(getColumn(f, "ATTR_VALUE"), ensureAttrOffsets(f).vl, getColumn(f, "ATTR_DEG"), i)
               = EncodeNode(g, e, i).out.attrVls

\* What is kept of a hash.
HashOf(t) == IF t.hash = <<>> THEN <<>> ELSE SubSeq(t.hash, 1, HashBytes)

\* Hash and flags of a node.
NodeRead(f, i, t) ==
    /\ Root(f, i) = t.root /\ External(f, i) = t.ext /\ Hash(f, i) = HashOf(t)

\* Dictionaries are expanded to the strings they were built from.
LEMMA ReadsDicts ==
    ASSUME NEW g, NEW e, IsEncoder(g, e), NEW n \in Nat, n = Len(g.targets), NEW f, IsFile(g, e, n, f)
    PROVE  DictsRead(e, f)
<1>1. /\ e.dict.name \in Seq(Seq(Nat)) /\ e.dict.ruleType \in Seq(Seq(Nat)) /\ e.dict.tag \in Seq(Seq(Nat))
      /\ e.dict.attrName \in Seq(Seq(Nat)) /\ e.dict.attrVal \in Seq(Seq(Nat))
  BY Zenon DEF IsEncoder, IsRemap, IsDict
<1>2. e.dict.pkg \in Seq(Seq(Nat))
  <2>1. IsNodes(g, e.nodes) /\ e.dict.pkg = pkgDictOf(e.nodes)
    BY Zenon DEF IsEncoder
  <2>2. Len(e.nodes) = n /\ \A k \in 1..n : e.nodes[k].pkg \in Seq(Nat)
    BY <2>1, Zenon DEF IsNodes, IsNode
  <2>3. ArePkgs(e.nodes, n)
    BY <2>2, PkgsReturn, Zenon
  <2> QED
    BY <2>1, <2>3, Zenon DEF ArePkgs
<1>3. ASSUME NEW id, NEW strs, strs \in Seq(Seq(Nat)), getColumn(f, id) = buildFrontCodedDict(strs)
      PROVE  DictRead(f, id, strs)
  <2> DEFINE d == buildFrontCodedDict(strs)
  <2>1. EntryStrings(d) = strs
    BY <1>3, FrontCodingReturns, Zenon
  <2>2. Dict(f, id) = expandDict(d).strs /\ Expands(f, id) = expandDict(d).ok
    BY <1>3, Zenon DEF Dict, Expands
  <2>3. \/ expandDict(d) = [ok |-> FALSE, strs |-> <<>>]
        \/ expandDict(d) = [ok |-> TRUE, strs |-> strs]
    BY <2>1, Zenon DEF expandDict
  <2> HIDE DEF d
  <2> QED
    BY <2>2, <2>3 DEF DictRead
<1>4. /\ getColumn(f, "PKG_DICT") = buildFrontCodedDict(e.dict.pkg)
      /\ getColumn(f, "NAME_DICT") = buildFrontCodedDict(e.dict.name)
      /\ getColumn(f, "RULETYPE_DICT") = buildFrontCodedDict(e.dict.ruleType)
      /\ getColumn(f, "TAG_DICT") = buildFrontCodedDict(e.dict.tag)
      /\ getColumn(f, "ATTR_NAME_DICT") = buildFrontCodedDict(e.dict.attrName)
      /\ getColumn(f, "ATTR_VALUE_DICT") = buildFrontCodedDict(e.dict.attrVal)
  BY Zenon DEF IsFile
<1> QED
  BY <1>1, <1>2, <1>3, <1>4, Zenon DEF DictsRead

\* A column of the nodes' rows.
IsColumn(g, e, n, fld, S) ==
    /\ Col(g, e, n, fld) \in [1..n -> S] /\ Len(Col(g, e, n, fld)) = n
    /\ \A i \in 0..(n - 1) : Col(g, e, n, fld)[i + 1] = EncodeNode(g, e, i).row[fld]

\* A field of the rows is a column.
LEMMA ColumnType ==
    ASSUME NEW g, NEW e, NEW n \in Nat, NEW fld, NEW S,
           \A i \in 0..(n - 1) : EncodeNode(g, e, i).row[fld] \in S
    PROVE  IsColumn(g, e, n, fld, S)
<1> DEFINE v(k) == EncodeNode(g, e, k - 1).row[fld]
           c == Col(g, e, n, fld)
<1>1. \A k \in 1..n : k - 1 \in 0..(n - 1)
  OBVIOUS
<1>2. \A k \in 1..n : v(k) \in S
  BY <1>1, Zenon
<1>3. c = [k \in 1..n |-> v(k)]
  BY Zenon DEF Col
<1> HIDE DEF v, c
<1>4. c \in [1..n -> S] /\ Len(c) = n /\ \A k \in 1..n : c[k] = v(k)
  BY <1>2, <1>3
<1>5. \A i \in 0..(n - 1) : i + 1 \in 1..n /\ (i + 1) - 1 = i
  OBVIOUS
<1>6. \A i \in 0..(n - 1) : c[i + 1] = EncodeNode(g, e, i).row[fld]
  <2> TAKE i \in 0..(n - 1)
  <2>1. c[i + 1] = v(i + 1) /\ (i + 1) - 1 = i
    BY <1>4, <1>5, Zenon
  <2> QED
    BY <2>1, Zenon DEF v
<1> QED
  BY <1>4, <1>6, Zenon DEF IsColumn, c

\* The ID of a node's name and of its rule type.
LEMMA RowsIDs ==
    ASSUME NEW g, NEW e, IsEncoder(g, e), NEW n \in Nat, n = Len(g.targets), EncodesAll(g, e, n)
    PROVE  \A i \in 0..(n - 1) :
              /\ EncodeNode(g, e, i).row.name \in 0..(Len(e.dict.name) - 1)
              /\ e.dict.name[EncodeNode(g, e, i).row.name + 1] = e.nodes[i + 1].name
              /\ EncodeNode(g, e, i).row.ruleType \in 0..(Len(e.dict.ruleType) - 1)
              /\ e.dict.ruleType[EncodeNode(g, e, i).row.ruleType + 1] = g.meta.ruleTypes[TargetAt(g, e, i).ruleType]
<1> TAKE i \in 0..(n - 1)
<1> DEFINE r == EncodeNode(g, e, i)
           t == TargetAt(g, e, i)
<1>1. IsEncoded(g, e, i, r) /\ TargetOk(g, t)
  BY Zenon DEF EncodesAll
<1>2. r.row.name = e.nameIdx[e.nodes[i + 1].name] /\ r.row.ruleType = e.ruleType[t.ruleType]
  BY <1>1, Zenon DEF IsEncoded
<1>3. i + 1 \in 1..n
  OBVIOUS
<1>4. Len(e.nodes) = n
  BY Zenon DEF IsEncoder, IsNodes
<1>5. e.nodes[i + 1].name \in Names(e.nodes)
  BY <1>3, <1>4, Zenon DEF Names
<1>6. IsIndex(e.nameIdx, e.dict.name, Names(e.nodes)) /\ IsRemap(g.meta.ruleTypes, e.dict.ruleType, e.ruleType)
  BY Zenon DEF IsEncoder
<1>7. e.nameIdx[e.nodes[i + 1].name] \in 0..(Len(e.dict.name) - 1) /\ e.dict.name[e.nameIdx[e.nodes[i + 1].name] + 1] = e.nodes[i + 1].name
  BY <1>5, <1>6, Zenon DEF IsIndex
<1>8. t.ruleType \in DOMAIN g.meta.ruleTypes
  BY <1>1, Zenon DEF TargetOk
<1>9. e.ruleType[t.ruleType] \in 0..(Len(e.dict.ruleType) - 1) /\ e.dict.ruleType[e.ruleType[t.ruleType] + 1] = g.meta.ruleTypes[t.ruleType]
  BY <1>6, <1>8, Zenon DEF IsRemap
<1> QED
  BY <1>2, <1>7, <1>9, Zenon

\* The kept columns are decoded to what was encoded.
LEMMA ReadsKept ==
    ASSUME NEW g, NEW e, IsEncoder(g, e), NEW n \in Nat, n = Len(g.targets), EncodesAll(g, e, n),
           NEW f, IsFile(g, e, n, f)
    PROVE  KeptRead(g, e, n, f)
<1> DEFINE p == pkgIDsOf(e.nodes)
           m == Col(g, e, n, "name")
<1>1. p \in [1..n -> Int] /\ Len(p) = n
  <2>1. Len(e.nodes) = n /\ \A k \in 1..n : e.nodes[k].pkg \in Seq(Nat)
    BY Zenon DEF IsEncoder, IsNodes, IsNode
  <2>2. ArePkgs(e.nodes, n)
    BY <2>1, PkgsReturn, Zenon
  <2> QED
    BY <2>2, Zenon DEF ArePkgs
<1>2. m \in [1..n -> Int]
  <2>1. \A i \in 0..(n - 1) : EncodeNode(g, e, i).row.name \in 0..(Len(e.dict.name) - 1)
    BY RowsIDs, Zenon
  <2>2. \A i \in 0..(n - 1) : EncodeNode(g, e, i).row["name"] \in Int
    BY <2>1
  <2>3. IsColumn(g, e, n, "name", Int)
    BY <2>2, ColumnType, Zenon
  <2> QED
    BY <2>3, Zenon DEF IsColumn
<1>3. /\ getColumn(f, "NODE_PKG") = encodeDeltas(p) /\ getColumn(f, "NODE_NAME") = encodeNames(p, m)
      /\ getColumn(f, "RULETYPE") = Col(g, e, n, "ruleType")
  BY Zenon DEF IsFile
<1> HIDE DEF p, m
<1>4. decodeDeltaInts(encodeDeltas(p)) = p
  BY <1>1, DeltasReturn, Zenon
<1>5. decodeNameIDs(encodeNames(p, m), p) = m
  BY <1>1, <1>2, NamesReturn, Zenon
<1>6. /\ DecodeKept(f, "pkg") = decodeDeltaInts(getColumn(f, "NODE_PKG"))
      /\ DecodeKept(f, "name") = decodeNameIDs(getColumn(f, "NODE_NAME"), decodeDeltaInts(getColumn(f, "NODE_PKG")))
      /\ DecodeKept(f, "ruleType") = getColumn(f, "RULETYPE")
  BY DEF DecodeKept
<1>7. /\ DecodeKept(f, "pkg") = p /\ DecodeKept(f, "name") = m
      /\ DecodeKept(f, "ruleType") = Col(g, e, n, "ruleType")
  BY <1>3, <1>4, <1>5, <1>6, Zenon
<1> QED
  BY <1>7, Zenon DEF KeptRead, p, m

\* Dependencies and tags of a node are numbers in ascending order.
LEMMA NodeLists ==
    ASSUME NEW g, Input(g), NEW e, IsEncoder(g, e), NEW n \in Nat, n = Len(g.targets), EncodesAll(g, e, n),
           NEW i \in 0..(n - 1)
    PROVE  /\ IsTarget(TargetAt(g, e, i)) /\ IsResolved(g, e, TargetAt(g, e, i))
           /\ DepsOf(g, e, i) \in [1..Len(TargetAt(g, e, i).deps) -> Int] /\ Len(TargetAt(g, e, i).deps) \in Nat
           /\ TagsAt(g, e, i) \in [1..Len(TargetAt(g, e, i).tags) -> Int] /\ Len(TargetAt(g, e, i).tags) \in Nat
<1> DEFINE t == TargetAt(g, e, i)
<1>1. IsNodes(g, e.nodes)
  BY Zenon DEF IsEncoder
<1>2. i + 1 \in 1..n
  OBVIOUS
<1>3. e.nodes[i + 1].origIdx \in 1..n
  BY <1>1, <1>2, Zenon DEF IsNodes
<1>4. IsTarget(t)
  BY <1>3, Targets, Zenon DEF TargetAt
<1>5. TargetOk(g, t)
  BY Zenon DEF EncodesAll
<1>6. IsResolved(g, e, t)
  BY <1>4, <1>5, TargetsResolve, Zenon
<1>7. /\ IsAscending(NodeDeps(g, e, t), Len(t.deps), DepsOf(g, e, i)) /\ Len(t.deps) \in Nat
      /\ IsAscending(NodeTags(e, t), Len(t.tags), TagsAt(g, e, i)) /\ Len(t.tags) \in Nat
  BY <1>6, Zenon DEF IsResolved, DepsOf, TagsAt
<1> QED
  BY <1>4, <1>6, <1>7, Zenon DEF IsAscending

\* The lists of the nodes are found again.
LEMMA ReadsLists ==
    ASSUME NEW g, Input(g), NEW e, IsEncoder(g, e), NEW n \in Nat, n = Len(g.targets), EncodesAll(g, e, n),
           NEW f, IsFile(g, e, n, f)
    PROVE  ListsRead(g, e, n, f)
<1> DEFINE st(x) == StreamOf(g, e, n, x)
           list(x) == FlattenSeq(StreamOf(g, e, n, x))
           depDeg == Col(g, e, n, "depDeg")
           tagDeg == Col(g, e, n, "tagDeg")
           attrDeg == Col(g, e, n, "attrDeg")
<1>1. HasRuns(g, e, n)
  BY ColumnRuns, Zenon
<1>2. /\ AreRuns(Int, st("deps"), depDeg, list("deps"), n) /\ AreRuns(Int, st("tags"), tagDeg, list("tags"), n)
      /\ AreRuns(Int, st("attrNms"), attrDeg, list("attrNms"), n) /\ AreRuns(Int, st("attrVls"), attrDeg, list("attrVls"), n)
  BY <1>1, Zenon DEF HasRuns
<1>3. /\ getColumn(f, "DEG") = depDeg /\ getColumn(f, "DEPS") = list("deps")
      /\ getColumn(f, "TAG_DEG") = tagDeg /\ getColumn(f, "TAGS") = list("tags")
      /\ getColumn(f, "ATTR_DEG") = attrDeg /\ getColumn(f, "ATTR_NAME") = list("attrNms")
      /\ getColumn(f, "ATTR_VALUE") = list("attrVls")
  BY Zenon DEF IsFile
<1>4. /\ \A k \in 1..n : \A x : st(x)[k] = EncodeNode(g, e, k - 1).out[x]
      /\ \A i \in 0..(n - 1) : \A x : st(x)[i + 1] = EncodeNode(g, e, i).out[x]
  <2>1. \A k \in 1..n : \A x : st(x)[k] = EncodeNode(g, e, k - 1).out[x]
    BY Zenon DEF StreamOf
  <2>2. \A i \in 0..(n - 1) : i + 1 \in 1..n /\ (i + 1) - 1 = i
    OBVIOUS
  <2>3. ASSUME NEW i \in 0..(n - 1), NEW x PROVE st(x)[i + 1] = EncodeNode(g, e, i).out[x]
    <3>1. st(x)[i + 1] = EncodeNode(g, e, (i + 1) - 1).out[x] /\ (i + 1) - 1 = i
      BY <2>1, <2>2, Zenon
    <3> QED
      BY <3>1, Zenon
  <2> QED
    BY <2>1, <2>3, Zenon
<1>5. ASSUME NEW i \in 0..(n - 1)
      PROVE  /\ DecodeDepRun(i, EncodeNode(g, e, i).out["deps"]) = DepsOf(g, e, i)
             /\ decodeDeltaInts(EncodeNode(g, e, i).out["tags"]) = TagsAt(g, e, i)
  <2>1. IsEncoded(g, e, i, EncodeNode(g, e, i))
    BY Zenon DEF EncodesAll
  <2>2. EncodeNode(g, e, i).out.deps = encodeDeps(i, DepsOf(g, e, i)) /\ EncodeNode(g, e, i).out.tags = encodeDeltas(TagsAt(g, e, i))
    BY <2>1, Zenon DEF IsEncoded
  <2>3. i \in Int
    OBVIOUS
  <2>a. /\ DepsOf(g, e, i) \in [1..Len(TargetAt(g, e, i).deps) -> Int] /\ Len(TargetAt(g, e, i).deps) \in Nat
        /\ TagsAt(g, e, i) \in [1..Len(TargetAt(g, e, i).tags) -> Int] /\ Len(TargetAt(g, e, i).tags) \in Nat
    BY NodeLists, Zenon
  <2>4. DecodeDepRun(i, encodeDeps(i, DepsOf(g, e, i))) = DepsOf(g, e, i)
    BY <2>3, <2>a, DepsReturn, Zenon
  <2>5. decodeDeltaInts(encodeDeltas(TagsAt(g, e, i))) = TagsAt(g, e, i)
    BY <2>a, DeltasReturn, Zenon
  <2> QED
    BY <2>2, <2>4, <2>5, Zenon
<1> HIDE DEF st, list, depDeg, tagDeg, attrDeg
<1>r. /\ FindsRuns(st("deps"), depDeg, list("deps"), n) /\ FindsRuns(st("tags"), tagDeg, list("tags"), n)
      /\ FindsRuns(st("attrNms"), attrDeg, list("attrNms"), n) /\ FindsRuns(st("attrVls"), attrDeg, list("attrVls"), n)
  BY <1>2, ReadsRuns, Zenon
<1>6. /\ Runs(list("deps"), depDeg) = st("deps") /\ Len(st("deps")) = n
      /\ Runs(list("tags"), tagDeg) = st("tags") /\ Len(st("tags")) = n
      /\ Runs(list("attrNms"), attrDeg) = st("attrNms") /\ Runs(list("attrVls"), attrDeg) = st("attrVls")
  <2>1. Runs(list("deps"), depDeg) = st("deps") /\ Len(Runs(list("deps"), depDeg)) = n
    BY <1>r, Zenon DEF FindsRuns
  <2>2. Runs(list("tags"), tagDeg) = st("tags") /\ Len(Runs(list("tags"), tagDeg)) = n
    BY <1>r, Zenon DEF FindsRuns
  <2>3. Runs(list("attrNms"), attrDeg) = st("attrNms")
    BY <1>r, Zenon DEF FindsRuns
  <2>4. Runs(list("attrVls"), attrDeg) = st("attrVls")
    BY <1>r, Zenon DEF FindsRuns
  <2> QED
    BY <2>1, <2>2, <2>3, <2>4, Zenon
<1>7. ASSUME NEW i \in 0..(n - 1)
      PROVE  /\ RunAt(list("deps"), RunStarts(depDeg, list("deps")), depDeg, i) = st("deps")[i + 1]
             /\ RunAt(list("tags"), RunStarts(tagDeg, list("tags")), tagDeg, i) = st("tags")[i + 1]
             /\ RunAt(list("attrNms"), RunStarts(attrDeg, list("attrNms")), attrDeg, i) = st("attrNms")[i + 1]
             /\ RunAt(list("attrVls"), RunStarts(attrDeg, list("attrVls")), attrDeg, i) = st("attrVls")[i + 1]
  <2>1. RunAt(list("deps"), RunStarts(depDeg, list("deps")), depDeg, i) = st("deps")[i + 1]
    BY <1>r, Zenon DEF FindsRuns
  <2>2. RunAt(list("tags"), RunStarts(tagDeg, list("tags")), tagDeg, i) = st("tags")[i + 1]
    BY <1>r, Zenon DEF FindsRuns
  <2>3. RunAt(list("attrNms"), RunStarts(attrDeg, list("attrNms")), attrDeg, i) = st("attrNms")[i + 1]
    BY <1>r, Zenon DEF FindsRuns
  <2>4. RunAt(list("attrVls"), RunStarts(attrDeg, list("attrVls")), attrDeg, i) = st("attrVls")[i + 1]
    BY <1>r, Zenon DEF FindsRuns
  <2> QED
    BY <2>1, <2>2, <2>3, <2>4
<1>8. \A k \in 1..n : k - 1 \in 0..(n - 1)
  OBVIOUS
<1>9. decodeDepColumns(f) = [k \in 1..n |-> DepsOf(g, e, k - 1)]
  <2> DEFINE a(k) == DecodeDepRun(k - 1, st("deps")[k])
             b(k) == DepsOf(g, e, k - 1)
  <2>1. \A k \in 1..n : a(k) = b(k)
    BY <1>4, <1>5, <1>8, Zenon
  <2>2. decodeDepColumns(f) = [k \in 1..n |-> a(k)]
    BY <1>3, <1>6, Zenon DEF decodeDepColumns
  <2>3. decodeDepColumns(f) = [k \in 1..n |-> b(k)]
    <3> HIDE DEF a, b
    <3> QED
      BY <2>1, <2>2
  <2> QED
    BY <2>3, Zenon
<1>10. decodeTagColumns(f) = [k \in 1..n |-> TagsAt(g, e, k - 1)]
  <2> DEFINE a(k) == decodeDeltaInts(st("tags")[k])
             b(k) == TagsAt(g, e, k - 1)
  <2>1. \A k \in 1..n : a(k) = b(k)
    BY <1>4, <1>5, <1>8, Zenon
  <2>2. decodeTagColumns(f) = [k \in 1..n |-> a(k)]
    BY <1>3, <1>6, Zenon DEF decodeTagColumns
  <2>3. decodeTagColumns(f) = [k \in 1..n |-> b(k)]
    <3> HIDE DEF a, b
    <3> QED
      BY <2>1, <2>2
  <2> QED
    BY <2>3, Zenon
<1>11. ASSUME NEW i \in 0..(n - 1)
       PROVE  /\ Deps(f, i) = DepsOf(g, e, i) /\ Tags(f, i) = TagsAt(g, e, i)
              /\ RunAt(getColumn(f, "ATTR_NAME"), ensureAttrOffsets(f).nm, getColumn(f, "ATTR_DEG"), i)
                   = EncodeNode(g, e, i).out.attrNms
              /\ RunAt(getColumn(f, "ATTR_VALUE"), ensureAttrOffsets(f).vl, getColumn(f, "ATTR_DEG"), i)
                   = EncodeNode(g, e, i).out.attrVls
  <2>1. Deps(f, i) = DecodeDepRun(i, st("deps")[i + 1])
    BY <1>3, <1>7, Zenon DEF Deps, ensureDepOffsets
  <2>2. Tags(f, i) = decodeDeltaInts(st("tags")[i + 1])
    BY <1>3, <1>7, Zenon DEF Tags, ensureTagOffsets
  <2>3. /\ ensureAttrOffsets(f).nm = RunStarts(attrDeg, list("attrNms"))
        /\ ensureAttrOffsets(f).vl = RunStarts(attrDeg, list("attrVls"))
    BY <1>3 DEF ensureAttrOffsets
  <2> QED
    BY <2>1, <2>2, <2>3, <1>3, <1>4, <1>5, <1>7, Zenon
<1> QED
  BY <1>3, <1>6, <1>9, <1>10, <1>11, Zenon DEF ListsRead, st

\* Hash and flags of a node are read as they were.
LEMMA ReadsNode ==
    ASSUME NEW g, Input(g), NEW e, IsEncoder(g, e), NEW n \in Nat, n = Len(g.targets), EncodesAll(g, e, n),
           NEW f, IsFile(g, e, n, f), NEW i \in 0..(n - 1)
    PROVE  NodeRead(f, i, TargetAt(g, e, i))
<1> DEFINE t == TargetAt(g, e, i)
           r == EncodeNode(g, e, i)
           h == getColumn(f, "HASH")
<1>1. IsTarget(t)
  BY NodeLists, Zenon
<1>2. IsEncoded(g, e, i, r)
  BY Zenon DEF EncodesAll
<1>3. NodeCount(f) = n /\ getColumn(f, "FLAGS") = Flagged(BitsOf(g, e, n)) /\ h = FlattenSeq(Col(g, e, n, "hash"))
  BY Zenon DEF IsFile
<1>4. /\ Root(f, i) <=> FlagAt(g, e, "root", i)
      /\ External(f, i) <=> FlagAt(g, e, "ext", i)
      /\ HashEmpty(f, i) <=> FlagAt(g, e, "empty", i)
  BY <1>3, FlagReturns, Zenon
<1>5. r.set.root = t.root /\ r.set.ext = t.ext /\ r.set.empty = (t.hash = <<>>)
  BY <1>2, Zenon DEF IsEncoded
<1>6. t.root \in BOOLEAN /\ t.ext \in BOOLEAN
  BY <1>1, Zenon DEF IsTarget
<1>7. /\ FlagAt(g, e, "root", i) <=> (t.root = TRUE)
      /\ FlagAt(g, e, "ext", i) <=> (t.ext = TRUE)
      /\ FlagAt(g, e, "empty", i) <=> (t.hash = <<>>)
  BY <1>5, Zenon DEF FlagAt
<1>8. Root(f, i) \in BOOLEAN /\ External(f, i) \in BOOLEAN
  BY DEF Root, External, BitSet
<1>9. Root(f, i) = t.root /\ External(f, i) = t.ext
  BY <1>4, <1>6, <1>7, <1>8, Zenon
<1>10. Hash(f, i) = HashOf(t)
  <2>1. CASE t.hash = <<>>
    BY <2>1, <1>4, <1>7, Zenon DEF Hash, HashOf
  <2>2. CASE t.hash # <<>>
    <3>1. Hash(f, i) = SubSeq(h, i * HashBytes + 1, (i + 1) * HashBytes)
      BY <2>2, <1>4, <1>7, Zenon DEF Hash
    <3> DEFINE T == Totals([j \in 1..n |-> HashBytes])
    <3>2. HasRuns(g, e, n)
      BY ColumnRuns, Zenon
    <3>3. i + 1 \in 1..n /\ (i + 1) - 1 = i /\ i \in 0..n /\ i + 1 \in 0..n
      OBVIOUS
    <3>4. SubSeq(h, T[(i + 1) - 1] + 1, T[i + 1]) = Col(g, e, n, "hash")[i + 1]
      BY <3>2, <3>3, <1>3, Zenon DEF HasRuns, AreRuns
    <3>5. T[i] = i * HashBytes /\ T[i + 1] = (i + 1) * HashBytes
      BY <3>2, <3>3, Zenon DEF HasRuns
    <3>6. Col(g, e, n, "hash")[i + 1] = r.row.hash
      <4>1. \A j \in 0..(n - 1) : EncodeNode(g, e, j).row["hash"] \in Seq(Nat)
        BY Zenon DEF EncodesAll, IsEncoded
      <4>2. Col(g, e, n, "hash")[i + 1] = EncodeNode(g, e, i).row["hash"]
        <5>1. IsColumn(g, e, n, "hash", Seq(Nat))
          BY <4>1, ColumnType, Zenon
        <5> QED
          BY <5>1, Zenon DEF IsColumn
      <4> QED
        BY <4>2
    <3>7. r.row.hash = SubSeq(t.hash, 1, HashBytes)
      BY <2>2, <1>2, Zenon DEF IsEncoded
    <3> QED
      BY <3>1, <3>3, <3>4, <3>5, <3>6, <3>7, <2>2, Zenon DEF HashOf
  <2> QED
    BY <2>1, <2>2
<1> QED
  BY <1>9, <1>10, Zenon DEF NodeRead

-----------------------------------------------------------------------------
(* What NewReader accepts. *)

\* Finitely many entries.
IsList(p) == \E S : p \in Seq(S)

\* What a directory says of a column that is stored as it is or compressed.
IsPacked(id, data) ==
    \/ Codec(id) = "raw" /\ StoredSize(id, data) = RawSize(id, data)
    \/ Codec(id) = "zstd" /\ (RawSize(id, data) > 0 => StoredSize(id, data) # 0)

\* The entries of a list are finitely many.
LEMMA ListEntries ==
    ASSUME NEW p, IsList(p)
    PROVE  Cardinality(ToSet(p)) \in Nat
<1>1. PICK S : p \in Seq(S)
  BY Zenon DEF IsList
<1>2. DOMAIN p = 1..Len(p) /\ Len(p) \in Nat /\ p \in [1..Len(p) -> S]
  BY <1>1
<1>3. IsFiniteSet(DOMAIN p)
  BY <1>2, FS_Interval
<1> DEFINE T == ToSet(p)
<1>4. p \in Surjection(DOMAIN p, T)
  <2>1. p \in [DOMAIN p -> T]
    BY <1>2 DEF ToSet
  <2>2. \A t \in T : \E k \in DOMAIN p : p[k] = t
    BY DEF ToSet
  <2> HIDE DEF T
  <2> QED
    BY <2>1, <2>2 DEF Surjection
<1> HIDE DEF T
<1>5. IsFiniteSet(T)
  BY <1>3, <1>4, FS_Surjection, Zenon
<1> QED
  BY <1>5, FS_CardinalityType, Zenon DEF T

\* A list and a dictionary are packed.
LEMMA Packs ==
    ASSUME NEW id, NEW data, id \in DictIDs => IsList(data.entries), id \notin DictIDs => IsList(data)
    PROVE  IsPacked(id, data)
<1> DEFINE p == IF id \in DictIDs THEN data.entries ELSE data
           c == Cardinality(ToSet(p))
<1>1. IsList(p)
  OBVIOUS
<1>2. c \in Nat
  BY <1>1, ListEntries, Zenon
<1>3. compressZstd(id, data) = 1 + c
  BY Zenon DEF compressZstd
<1> HIDE DEF c, p
<1>4. compressZstd(id, data) # 0
  BY <1>2, <1>3
<1>5. CASE Codec(id) = "raw"
  BY <1>5, Zenon DEF StoredSize, IsPacked
<1>6. CASE Codec(id) # "raw"
  <2>1. Codec(id) = "zstd"
    BY <1>6, Zenon DEF Codec
  <2>2. ASSUME RawSize(id, data) > 0 PROVE RawSize(id, data) # 0
    BY <2>2
  <2>3. RawSize(id, data) > 0 => StoredSize(id, data) # 0
    BY <1>4, <1>6, <2>2, Zenon DEF StoredSize
  <2> QED
    BY <2>1, <2>3, Zenon DEF IsPacked
<1> QED
  BY <1>5, <1>6

\* There is a block for every node at most.
AreBlocks(b, n) ==
    /\ IsList(b.starts) /\ Len(b.starts) \in 0..n
    /\ IsList(b.digests) /\ Len(b.digests) = Len(b.starts)
    /\ IsList(encodeDeltas(b.starts))

\* What buildBlocks returns.
LEMMA BuildsBlocks ==
    ASSUME NEW labels, Len(labels) \in Nat
    PROVE  AreBlocks(buildBlocks(labels), Len(labels))
<1> DEFINE n == Len(labels)
           start[i \in 0..n] ==
             IF i = 0 THEN 0
             ELSE IF labels[i] \in CutLabels \/ i - start[i - 1] >= BlockSize * 8
                  THEN i ELSE start[i - 1]
           S == {i \in 0..(n - 1) : start[i] = i}
           N == Cardinality(S)
           at(k) == CHOOSE x \in S : Cardinality({y \in S : y < x}) = k - 1
           s == [k \in 1..N |-> at(k)]
           d(b) == SubSeq(labels, s[b] + 1, IF b = Len(s) THEN n ELSE s[b + 1])
           b == buildBlocks(labels)
<1>1. b = [starts |-> s, digests |-> [j \in 1..Len(s) |-> d(j)]]
  BY Zenon DEF buildBlocks, SortedSeq
<1>2. S \in SUBSET (0..(n - 1))
  BY Zenon
<1> HIDE DEF S
<1>3. N \in 0..n
  <2>1. IsFiniteSet(0..(n - 1)) /\ Cardinality(0..(n - 1)) = n
    <3>1. 0 \in Int /\ n - 1 \in Int
      OBVIOUS
    <3>2. IsFiniteSet(0..(n - 1)) /\ Cardinality(0..(n - 1)) = IF 0 > n - 1 THEN 0 ELSE (n - 1) - 0 + 1
      BY <3>1, FS_Interval
    <3> QED
      BY <3>2
  <2>2. IsFiniteSet(S) /\ N <= n
    BY <2>1, <1>2, FS_Subset, Zenon
  <2>3. N \in Nat
    BY <2>2, FS_CardinalityType, Zenon
  <2> QED
    BY <2>2, <2>3
<1> HIDE DEF N, at
<1>4. s \in Seq({at(k) : k \in 1..N}) /\ Len(s) = N
  BY <1>3
<1> HIDE DEF s
<1> DEFINE e == [j \in 1..Len(s) |-> d(j)]
           v(j) == s[j] - (IF j = 1 THEN 0 ELSE s[j - 1])
           f == [j \in 1..Len(s) |-> v(j)]
<1>5. e \in Seq({d(j) : j \in 1..N}) /\ Len(e) = N
  <2> HIDE DEF d
  <2> QED
    BY <1>3, <1>4
<1>6. f \in Seq({v(j) : j \in 1..N})
  <2> HIDE DEF v
  <2> QED
    BY <1>3, <1>4
<1>7. encodeDeltas(s) = f
  BY Zenon DEF encodeDeltas
<1>8. b.starts = s /\ b.digests = e
  BY <1>1
<1> HIDE DEF b, e, f
<1>9. IsList(s) /\ IsList(e) /\ IsList(f)
  BY <1>4, <1>5, <1>6, Zenon DEF IsList
<1> QED
  BY <1>3, <1>4, <1>5, <1>7, <1>8, <1>9, Zenon DEF AreBlocks, b

\* The blocks of nodes.
LEMMA NodeBlocks ==
    ASSUME NEW nodes, NEW n \in Nat, Len(nodes) = n
    PROVE  AreBlocks(BlocksOf(nodes), n)
<1> DEFINE v(k) == joinLabel(nodes[k].pkg, nodes[k].name)
           ls == LabelsOf(nodes)
<1>1. ls = [k \in 1..n |-> v(k)]
  BY Zenon DEF LabelsOf
<1> HIDE DEF v, ls
<1>2. Len(ls) = n
  BY <1>1
<1>3. AreBlocks(buildBlocks(ls), Len(ls))
  BY <1>2, BuildsBlocks, Zenon
<1> QED
  BY <1>2, <1>3, Zenon DEF BlocksOf, ls

\* A function on 1..n is a list.
LEMMA ListOf ==
    ASSUME NEW n \in Nat, NEW c, c = [k \in 1..n |-> c[k]]
    PROVE  IsList(c)
<1>1. c \in Seq({c[k] : k \in 1..n})
  OBVIOUS
<1> QED
  BY <1>1, Zenon DEF IsList

\* The IDs of columns.
AllNames ==
    {"PKG_DICT", "NAME_DICT", "RULETYPE_DICT", "TAG_DICT", "ATTR_NAME_DICT", "ATTR_VALUE_DICT",
     "NODE_PKG", "NODE_NAME", "HASH", "DEG", "DEPS", "RULETYPE", "TAG_DEG", "TAGS",
     "ATTR_DEG", "ATTR_NAME", "ATTR_VALUE", "FLAGS", "BLOCK_DIGEST", "BLOCK_START",
     "ALL_TARGETS_FILE_HASHES"}

\* A column has one of these IDs.
LEMMA NamedIDs ==
    ASSUME NEW files
    PROVE  \A k \in 1..Len(IDsOf(files)) : IDsOf(files)[k] \in AllNames
<1> DEFINE ids == IDsOf(files)
<1>1. ColumnNames \in Seq(AllNames) /\ Len(ColumnNames) = 20
  BY DEF ColumnNames, AllNames
<1>2. <<>> \in Seq(AllNames) /\ <<"ALL_TARGETS_FILE_HASHES">> \in Seq(AllNames)
  BY DEF AllNames
<1>3. ids \in Seq(AllNames)
  <2>1. CASE DOMAIN files = {}
    <3>1. ids = ColumnNames \o <<>>
      BY <2>1, Zenon DEF IDsOf
    <3> QED
      BY <3>1, <1>1, <1>2
  <2>2. CASE DOMAIN files # {}
    <3>1. ids = ColumnNames \o <<"ALL_TARGETS_FILE_HASHES">>
      BY <2>2, Zenon DEF IDsOf
    <3> QED
      BY <3>1, <1>1, <1>2
  <2> QED
    BY <2>1, <2>2
<1> HIDE DEF ids
<1>4. \A k \in 1..Len(ids) : ids[k] \in AllNames
  BY <1>3
<1> QED
  BY <1>4 DEF ids

\* Every column of a file is a list, and a dictionary has a list of entries.
Listed(id, data) == IF id \in DictIDs THEN IsList(data.entries) ELSE IsList(data)

\* A dictionary that was built.
LEMMA DictListed ==
    ASSUME NEW s, s \in Seq(Seq(Nat))
    PROVE  IsList(buildFrontCodedDict(s).entries)
<1> DEFINE v(k) == LET shared == IF (k - 1) % RestartInterval = 0 THEN 0 ELSE commonPrefixLen(s[k - 1], s[k])
                   IN  [shared |-> shared, suffix |-> SubSeq(s[k], shared + 1, Len(s[k]))]
           c == [k \in 1..Len(s) |-> v(k)]
           r == {k \in 1..Len(s) : (k - 1) % RestartInterval = 0}
<1>1. buildFrontCodedDict(s) = [restarts |-> r, entries |-> c]
  BY Zenon DEF buildFrontCodedDict
<1> HIDE DEF v, r
<1>2. Len(s) \in Nat /\ c = [k \in 1..Len(s) |-> c[k]]
  OBVIOUS
<1> HIDE DEF c
<1>3. buildFrontCodedDict(s).entries = c
  BY <1>1
<1> QED
  BY <1>2, <1>3, ListOf, Zenon

\* What Encode writes is listed.
LEMMA ColumnsListed ==
    ASSUME NEW g, Input(g), NEW e, IsEncoder(g, e), NEW n \in Nat, n = Len(g.targets), EncodesAll(g, e, n),
           NEW f, IsFile(g, e, n, f)
    PROVE  \A id \in AllNames : Listed(id, getColumn(f, id))
<1>1. /\ e.dict.name \in Seq(Seq(Nat)) /\ e.dict.ruleType \in Seq(Seq(Nat)) /\ e.dict.tag \in Seq(Seq(Nat))
      /\ e.dict.attrName \in Seq(Seq(Nat)) /\ e.dict.attrVal \in Seq(Seq(Nat))
  BY Zenon DEF IsEncoder, IsRemap, IsDict
<1>2. IsNodes(g, e.nodes) /\ e.dict.pkg = pkgDictOf(e.nodes)
  BY Zenon DEF IsEncoder
<1>3. Len(e.nodes) = n /\ \A k \in 1..n : e.nodes[k].pkg \in Seq(Nat)
  BY <1>2, Zenon DEF IsNodes, IsNode
<1>4. ArePkgs(e.nodes, n)
  BY <1>3, PkgsReturn, Zenon
<1>5. e.dict.pkg \in Seq(Seq(Nat)) /\ Len(pkgIDsOf(e.nodes)) = n
  BY <1>2, <1>4, Zenon DEF ArePkgs
<1>6. HasRuns(g, e, n)
  BY ColumnRuns, Zenon
<1>7. ASSUME NEW id \in DictIDs, NEW s, s \in Seq(Seq(Nat)), getColumn(f, id) = buildFrontCodedDict(s)
      PROVE  Listed(id, getColumn(f, id))
  BY <1>7, DictListed, Zenon DEF Listed
<1>8. \A id \in DictIDs : Listed(id, getColumn(f, id))
  <2>1. /\ getColumn(f, "PKG_DICT") = buildFrontCodedDict(e.dict.pkg)
        /\ getColumn(f, "NAME_DICT") = buildFrontCodedDict(e.dict.name)
        /\ getColumn(f, "RULETYPE_DICT") = buildFrontCodedDict(e.dict.ruleType)
        /\ getColumn(f, "TAG_DICT") = buildFrontCodedDict(e.dict.tag)
        /\ getColumn(f, "ATTR_NAME_DICT") = buildFrontCodedDict(e.dict.attrName)
        /\ getColumn(f, "ATTR_VALUE_DICT") = buildFrontCodedDict(e.dict.attrVal)
    BY Zenon DEF IsFile
  <2>2. /\ "PKG_DICT" \in DictIDs /\ "NAME_DICT" \in DictIDs /\ "RULETYPE_DICT" \in DictIDs
        /\ "TAG_DICT" \in DictIDs /\ "ATTR_NAME_DICT" \in DictIDs /\ "ATTR_VALUE_DICT" \in DictIDs
    BY Zenon DEF DictIDs
  <2>3. /\ Listed("PKG_DICT", getColumn(f, "PKG_DICT")) /\ Listed("NAME_DICT", getColumn(f, "NAME_DICT"))
        /\ Listed("RULETYPE_DICT", getColumn(f, "RULETYPE_DICT")) /\ Listed("TAG_DICT", getColumn(f, "TAG_DICT"))
        /\ Listed("ATTR_NAME_DICT", getColumn(f, "ATTR_NAME_DICT"))
        /\ Listed("ATTR_VALUE_DICT", getColumn(f, "ATTR_VALUE_DICT"))
    BY <1>1, <1>5, <1>7, <2>1, <2>2, Zenon
  <2> QED
    BY <2>3, Zenon DEF DictIDs
<1>9. IsList(getColumn(f, "NODE_PKG")) /\ IsList(getColumn(f, "NODE_NAME"))
  <2> DEFINE p == pkgIDsOf(e.nodes)
             m == Col(g, e, n, "name")
             a(k) == p[k] - (IF k = 1 THEN 0 ELSE p[k - 1])
             b(k) == IF k = 1 \/ p[k] # p[k - 1] THEN m[k] ELSE m[k] - m[k - 1]
             c == [k \in 1..n |-> a(k)]
             d == [k \in 1..n |-> b(k)]
  <2>1. encodeDeltas(p) = c /\ encodeNames(p, m) = d
    BY <1>5, Zenon DEF encodeDeltas, encodeNames
  <2> HIDE DEF a, b
  <2>2. c = [k \in 1..n |-> c[k]] /\ d = [k \in 1..n |-> d[k]]
    OBVIOUS
  <2>3. getColumn(f, "NODE_PKG") = c /\ getColumn(f, "NODE_NAME") = d
    BY <2>1, Zenon DEF IsFile
  <2> HIDE DEF c, d
  <2> QED
    BY <2>2, <2>3, ListOf, Zenon
<1>10. ASSUME NEW fld PROVE IsList(Col(g, e, n, fld))
  <2> DEFINE v(k) == EncodeNode(g, e, k - 1).row[fld]
             c == Col(g, e, n, fld)
  <2>1. c = [k \in 1..n |-> v(k)]
    BY Zenon DEF Col
  <2> HIDE DEF v, c
  <2>2. c = [k \in 1..n |-> c[k]]
    BY <2>1
  <2>3. IsList(c)
    BY <2>2, ListOf, Zenon
  <2> QED
    BY <2>3 DEF c
<1>11. /\ IsList(getColumn(f, "DEG")) /\ IsList(getColumn(f, "RULETYPE"))
       /\ IsList(getColumn(f, "TAG_DEG")) /\ IsList(getColumn(f, "ATTR_DEG"))
  BY <1>10, Zenon DEF IsFile
<1>12. /\ IsList(getColumn(f, "HASH")) /\ IsList(getColumn(f, "DEPS")) /\ IsList(getColumn(f, "TAGS"))
       /\ IsList(getColumn(f, "ATTR_NAME")) /\ IsList(getColumn(f, "ATTR_VALUE"))
  <2>1. /\ getColumn(f, "HASH") \in Seq(Nat) /\ getColumn(f, "DEPS") \in Seq(Int) /\ getColumn(f, "TAGS") \in Seq(Int)
        /\ getColumn(f, "ATTR_NAME") \in Seq(Int) /\ getColumn(f, "ATTR_VALUE") \in Seq(Int)
    BY <1>6, Zenon DEF IsFile, HasRuns, AreRuns
  <2> QED
    BY <2>1, Zenon DEF IsList
<1>13. IsList(getColumn(f, "FLAGS"))
  <2>1. NodeCount(f) = n /\ getColumn(f, "FLAGS") = Flagged(BitsOf(g, e, n))
    BY Zenon DEF IsFile
  <2>2. AreFlags(f, BitsOf(g, e, n), n)
    BY <2>1, FlagsLaid, Zenon
  <2> QED
    BY <2>2, Zenon DEF AreFlags, IsList
<1>14. IsList(getColumn(f, "BLOCK_DIGEST")) /\ IsList(getColumn(f, "BLOCK_START"))
  <2>1. AreBlocks(BlocksOf(e.nodes), n)
    BY <1>3, NodeBlocks, Zenon
  <2> QED
    BY <2>1, Zenon DEF AreBlocks, IsFile
<1>15. IsList(getColumn(f, "ALL_TARGETS_FILE_HASHES"))
  <2>1. IsFiniteSet(DOMAIN g.meta.files) /\ DOMAIN g.meta.files \subseteq Seq(Nat) /\ g.meta.files \in [DOMAIN g.meta.files -> Seq(Nat)]
    BY Zenon DEF Input
  <2>2. \E S : encodeStringMap(g.meta.files) \in Seq(S)
    BY <2>1, FilesReturn, Zenon
  <2>3. <<>> \in Seq(Nat)
    OBVIOUS
  <2>4. IsList(<<>>) /\ IsList(encodeStringMap(g.meta.files))
    BY <2>2, <2>3, Zenon DEF IsList
  <2> QED
    BY <2>4, Zenon DEF IsFile
<1>16. ASSUME NEW id \in AllNames, id \notin DictIDs PROVE IsList(getColumn(f, id))
  <2>1. id \in {"NODE_PKG", "NODE_NAME", "HASH", "DEG", "DEPS", "RULETYPE", "TAG_DEG", "TAGS", "ATTR_DEG", "ATTR_NAME",
                "ATTR_VALUE", "FLAGS", "BLOCK_DIGEST", "BLOCK_START", "ALL_TARGETS_FILE_HASHES"}
    BY <1>16, Zenon DEF AllNames, DictIDs
  <2> QED
    BY <2>1, <1>9, <1>11, <1>12, <1>13, <1>14, <1>15, Zenon
<1> QED
  BY <1>8, <1>16, Zenon DEF Listed

\* A file as Encode writes it is accepted unless it is over the budget.
LEMMA ReaderAccepts ==
    ASSUME NEW g, Input(g), NEW e, IsEncoder(g, e), NEW n \in Nat, n = Len(g.targets), EncodesAll(g, e, n),
           NEW f, IsFile(g, e, n, f)
    PROVE  NewReader(f) <=> WithinBudget(f)
<1> DEFINE ids == IDsOf(g.meta.files)
           m == Len(ids)
           dir == f[m + 2].entries
           deps == FlattenSeq(StreamOf(g, e, n, "deps"))
           degs == Col(g, e, n, "depDeg")
           hash == FlattenSeq(Col(g, e, n, "hash"))
           b == Len(BlocksOf(e.nodes).digests)
<1>1. PICK cols : IsLaid(f, ids, cols, n)
  BY Zenon DEF IsFile
<1>2. IsIDs(ids)
  BY FileIDs, Zenon
<1>3. HasRuns(g, e, n)
  BY ColumnRuns, Zenon
<1>a. \A k \in 1..m : ids[k] \in AllNames
  BY NamedIDs, Zenon
<1>b. \A id \in AllNames : Listed(id, getColumn(f, id))
  BY ColumnsListed, Zenon
<1> HIDE DEF ids
<1>4. m \in Nat /\ \A j, k \in 1..m : ids[j] = ids[k] => j = k
  BY <1>2, Zenon DEF IsIDs
<1>c. ASSUME NEW k \in 1..m PROVE IsPacked(ids[k], cols[ids[k]])
  <2>1. getColumn(f, ids[k]) = cols[ids[k]]
    BY <1>1, <1>2, GetsColumn, Zenon
  <2>2. Listed(ids[k], cols[ids[k]])
    BY <1>a, <1>b, <2>1, Zenon
  <2> QED
    BY <2>2, Packs, Zenon DEF Listed
<1>5. /\ Len(f) = m + 3 /\ f[1].kind = "header" /\ f[1].nodeCount = n
      /\ f[1].blockSize = BlockSize /\ f[1].flags = {}
      /\ f[m + 2].kind = "directory" /\ f[m + 3].kind = "footer" /\ f[m + 3].dirOffset = m + 2
      /\ Len(dir) = m /\ \A k \in 1..m : dir[k].id = ids[k] /\ dir[k].offset = k + 1
  BY <1>1, Zenon DEF IsLaid
<1>d. ASSUME NEW k \in 1..m
      PROVE  /\ dir[k].codec \in {"raw", "zstd"}
             /\ dir[k].codec = "raw" => dir[k].rawSize = dir[k].compressedSize
             /\ dir[k].codec = "zstd" /\ dir[k].rawSize > 0 => dir[k].compressedSize # 0
  <2>1. /\ dir[k].codec = Codec(ids[k]) /\ dir[k].rawSize = RawSize(ids[k], cols[ids[k]])
        /\ dir[k].compressedSize = StoredSize(ids[k], cols[ids[k]])
    BY <1>1, Zenon DEF IsLaid
  <2> HIDE DEF dir
  <2>2. "raw" # "zstd"
    OBVIOUS
  <2> QED
    BY <2>1, <2>2, <1>c, Zenon DEF IsPacked
<1> HIDE DEF dir, m
<1>6. f[Len(f)].kind = "footer" /\ f[Len(f)].dirOffset = m + 2
  BY <1>5, Zenon
<1>7. DirectoryOf(f) = dir
  BY <1>6, Zenon DEF DirectoryOf, dir
<1>8. Len(f) >= 2 /\ m + 2 \in 1..(Len(f) - 1)
  BY <1>4, <1>5
<1>9. \A j, k \in 1..Len(dir) : dir[j].id = dir[k].id => j = k
  BY <1>4, <1>5
<1>10. \A k \in 1..Len(dir) : dir[k].offset \in 2..((m + 2) - 1)
  BY <1>4, <1>5
<1>11. Len(degs) = n /\ Len(deps) = Totals(degs)[n] /\ Len(hash) = n * HashBytes
  <2>1. Len(degs) = n /\ Len(deps) = Totals(degs)[n]
    BY <1>3, Zenon DEF HasRuns, AreRuns
  <2>2. Len(hash) = Totals([k \in 1..n |-> HashBytes])[n]
    BY <1>3, Zenon DEF HasRuns, AreRuns
  <2>3. n \in 0..n
    OBVIOUS
  <2>4. Totals([k \in 1..n |-> HashBytes])[n] = n * HashBytes
    BY <2>3, <1>3, Zenon DEF HasRuns
  <2> QED
    BY <2>1, <2>2, <2>4, Zenon
<1> HIDE DEF degs, deps, hash
<1>12. rawSize(f, "DEG") = n /\ rawSize(f, "HASH") = n * HashBytes /\ rawSize(f, "DEPS") = f[1].edgeCount
  <2>1. /\ rawSize(f, "DEG") = Len(degs) /\ rawSize(f, "HASH") = Len(hash) /\ rawSize(f, "DEPS") = Len(deps)
        /\ f[1].edgeCount = Totals(degs)[n]
    BY Zenon DEF IsFile, degs, hash, deps
  <2> QED
    BY <2>1, <1>11, Zenon
<1>13. f[1].edgeCount \in Int
  <2>1. f[1].edgeCount = Totals(degs)[n] /\ Totals(degs)[n] \in Nat
    <3>1. n \in 0..n
      OBVIOUS
    <3> QED
      BY <3>1, <1>3, Zenon DEF HasRuns, AreRuns, IsFile, degs
  <2> QED
    BY <2>1
<1>e. rawSize(f, "BLOCK_DIGEST") % 8 = 0 /\ rawSize(f, "BLOCK_DIGEST") \div 8 <= n
  <2>1. rawSize(f, "BLOCK_DIGEST") = 8 * b
    BY Zenon DEF IsFile
  <2>2. b \in 0..n
    <3>1. Len(e.nodes) = n
      BY Zenon DEF IsEncoder, IsNodes
    <3>2. AreBlocks(BlocksOf(e.nodes), n)
      BY <3>1, NodeBlocks, Zenon
    <3> QED
      BY <3>2, Zenon DEF AreBlocks
  <2> HIDE DEF b
  <2>3. (8 * b) % 8 = 0 /\ (8 * b) \div 8 = b
    BY <2>2
  <2> QED
    BY <2>1, <2>2, <2>3
<1>f. PowerOfTwo(f[1].blockSize) /\ f[1].flags \subseteq {"RevCSR"}
  BY <1>5, LimitsAssumption, Zenon
<1>14. validateColumns(f) <=> WithinBudget(f)
  <2>1. \A k \in 1..Len(dir) : dir[k].offset \in 2..(f[Len(f)].dirOffset - 1)
    BY <1>6, <1>10, Zenon
  <2>2. rawSize(f, "DEG") >= f[1].nodeCount /\ rawSize(f, "HASH") = f[1].nodeCount * HashBytes
    BY <1>5, <1>12
  <2>3. rawSize(f, "DEPS") >= f[1].edgeCount
    BY <1>12, <1>13
  <2>4. \A k \in 1..Len(dir) : /\ dir[k].codec \in {"raw", "zstd"}
                               /\ dir[k].codec = "raw" => dir[k].rawSize = dir[k].compressedSize
                               /\ dir[k].codec = "zstd" /\ dir[k].rawSize > 0 => dir[k].compressedSize # 0
    BY <1>5, <1>d, Zenon
  <2>5. rawSize(f, "BLOCK_DIGEST") % 8 = 0 /\ rawSize(f, "BLOCK_DIGEST") \div 8 <= f[1].nodeCount
    BY <1>5, <1>e, Zenon
  <2> QED
    BY <2>1, <2>2, <2>3, <2>4, <2>5, <1>7, <1>f, Zenon DEF validateColumns
<1>15. f[f[Len(f)].dirOffset].kind = "directory" /\ f[Len(f)].dirOffset \in 1..(Len(f) - 1)
  BY <1>5, <1>6, <1>8, Zenon
<1>16. \A j, k \in 1..Len(DirectoryOf(f)) : DirectoryOf(f)[j].id = DirectoryOf(f)[k].id => j = k
  BY <1>7, <1>9, Zenon
<1> QED
  BY <1>5, <1>6, <1>8, <1>14, <1>15, <1>16, Zenon DEF NewReader

-----------------------------------------------------------------------------
(* Tags and attributes, as strings. *)

\* What is in ascending order is left as it is.
LEMMA AscendingStays ==
    ASSUME NEW m \in Nat, NEW t \in [1..m -> Int], \A j, k \in 1..m : j < k => t[j] <= t[k]
    PROVE  SortInts(t) = t
<1> DEFINE R == IntBefore(t, m)
           id == [k \in 1..m |-> k]
           q == Enumeration(1..m, R)
<1>1. /\ Orders(1..m, R) /\ Cardinality(1..m) = m
      /\ \A j, k \in 1..m : <<j, k>> \in R <=> t[j] < t[k] \/ (t[j] = t[k] /\ j < k)
  BY IntBeforeOrders, Zenon
<1>2. /\ id \in [1..m -> 1..m] /\ \A k \in 1..m : id[k] = k
  OBVIOUS
<1> HIDE DEF id, R
<1>3. \A j, k \in 1..m : <<j, k>> \in R <=> j < k
  <2> TAKE j, k \in 1..m
  <2>1. t[j] \in Int /\ t[k] \in Int /\ (j < k => t[j] <= t[k]) /\ (k < j => t[k] <= t[j])
    OBVIOUS
  <2>2. <<j, k>> \in R <=> t[j] < t[k] \/ (t[j] = t[k] /\ j < k)
    BY <1>1, Zenon
  <2>3. (t[j] < t[k] \/ (t[j] = t[k] /\ j < k)) <=> j < k
    BY <2>1
  <2> QED
    BY <2>2, <2>3
<1>4. Lists(id, 1..m, R)
  <2>1. /\ Cardinality(1..m) \in Nat /\ id \in [1..Cardinality(1..m) -> 1..m]
        /\ \A x \in 1..m : \E k \in 1..Cardinality(1..m) : id[k] = x
    BY <1>1, <1>2
  <2>2. \A j, k \in 1..Cardinality(1..m) : (<<id[j], id[k]>> \in R <=> j < k) /\ (id[j] = id[k] => j = k)
    BY <1>1, <1>2, <1>3, Zenon
  <2> QED
    BY <2>1, <2>2, Zenon DEF Lists
<1>5. id = q
  BY <1>1, <1>4, ListRanks, Zenon
<1> DEFINE u == SortInts(t)
<1>6. IsAscending(t, m, u)
  BY SortsInts, Zenon
<1> HIDE DEF u, q
<1>7. u \in [1..m -> Int] /\ \A k \in 1..m : u[k] = t[q[k]]
  BY <1>6, Zenon DEF IsAscending, q, R
<1>8. \A k \in 1..m : u[k] = t[k]
  BY <1>2, <1>5, <1>7, Zenon
<1>9. u = t
  BY <1>7, <1>8
<1> QED
  BY <1>9 DEF u

\* s holds the strings of the IDs v.
ByID(dict, m, v, s) ==
    /\ v \in [1..m -> Int] /\ \A k \in 1..m : v[k] \in 0..(Len(dict) - 1)
    /\ s = [k \in 1..m |-> dict[v[k] + 1]]

\* They are sorted as the IDs are.
SortedByID(dict, m, v, s) == SortStrings(s) = [p \in 1..m |-> dict[SortInts(v)[p] + 1]]

\* Strings of a dictionary are sorted as their IDs are.
LEMMA SortsByID ==
    ASSUME NEW dict, NEW S, IsDict(dict, S), NEW m \in Nat, NEW v, NEW s, ByID(dict, m, v, s)
    PROVE  SortedByID(dict, m, v, s)
<1> DEFINE R == IntBefore(v, m)
           q == Enumeration(1..m, R)
           t == SortInts(v)
           c == Cardinality(S)
<1>0. /\ v \in [1..m -> Int] /\ \A k \in 1..m : v[k] \in 0..(Len(dict) - 1)
      /\ s = [k \in 1..m |-> dict[v[k] + 1]]
  BY Zenon DEF ByID
<1>1. /\ Orders(1..m, R) /\ Cardinality(1..m) = m
      /\ \A j, k \in 1..m : <<j, k>> \in R <=> v[j] < v[k] \/ (v[j] = v[k] /\ j < k)
  BY <1>0, IntBeforeOrders, Zenon
<1>2. /\ c \in Nat /\ Len(dict) = c
      /\ \A j, k \in 1..c : LexLess(dict[j], dict[k]) <=> j < k
      /\ \A j, k \in 1..c : dict[j] = dict[k] => j = k
  BY Zenon DEF IsDict
<1>3. Len(s) = m /\ \A k \in 1..m : s[k] = dict[v[k] + 1] /\ v[k] \in Int /\ v[k] + 1 \in 1..c
  BY <1>0, <1>2
<1>4. \A j, k \in 1..m : (LexLess(s[j], s[k]) \/ (s[j] = s[k] /\ j < k)) <=> <<j, k>> \in R
  <2> TAKE j, k \in 1..m
  <2>1. LexLess(s[j], s[k]) <=> v[j] + 1 < v[k] + 1
    BY <1>2, <1>3, Zenon
  <2>2. s[j] = s[k] <=> v[j] + 1 = v[k] + 1
    BY <1>2, <1>3, Zenon
  <2>3. (v[j] + 1 < v[k] + 1 <=> v[j] < v[k]) /\ (v[j] + 1 = v[k] + 1 <=> v[j] = v[k])
    BY <1>3
  <2> QED
    BY <2>1, <2>2, <2>3, <1>1, Zenon
<1>5. SortStrings(s) = [p \in 1..m |-> s[q[p]]]
  <2> DEFINE before(k) == {j \in 1..Len(s) : LexLess(s[j], s[k]) \/ (s[j] = s[k] /\ j < k)}
             d(p) == CHOOSE k \in 1..Len(s) : Cardinality(before(k)) = p - 1
             f(p) == CHOOSE k \in 1..m : Rank(1..m, R, k) = p - 1
             w == SortStrings(s)
  <2>1. w = [p \in 1..Len(s) |-> s[d(p)]]
    BY Zenon DEF SortStrings
  <2>2. \A k \in 1..m : before(k) = Below(1..m, R, k)
    BY <1>3, <1>4, Zenon DEF Below
  <2>3. \A p \in 1..m : d(p) = f(p)
    BY <1>3, <2>2, Zenon DEF Rank
  <2>4. q = [k \in 1..m |-> f(k)]
    <3>1. q = [k \in 1..Cardinality(1..m) |-> f(k)]
      BY Zenon DEF Enumeration
    <3> HIDE DEF f, q
    <3> QED
      BY <3>1, <1>1
  <2>5. Len(s) = m
    BY <1>3
  <2> HIDE DEF w, d, f, q
  <2>6. w = [p \in 1..m |-> s[d(p)]]
    BY <2>1, <2>5, Zenon
  <2>7. w = [p \in 1..m |-> s[q[p]]]
    BY <2>3, <2>4, <2>6
  <2> QED
    BY <2>7 DEF w
<1>6. IsAscending(v, m, t)
  BY <1>0, SortsInts, Zenon
<1>7. \A p \in 1..m : q[p] \in 1..m /\ t[p] = v[q[p]]
  BY <1>6, Zenon DEF IsAscending
<1> HIDE DEF t, q
<1>8. \A p \in 1..m : s[q[p]] = dict[t[p] + 1]
  BY <1>3, <1>7, Zenon
<1> DEFINE a(p) == s[q[p]]
           b(p) == dict[t[p] + 1]
<1>9. (\A p \in 1..m : a(p) = b(p)) /\ SortStrings(s) = [p \in 1..m |-> a(p)]
  BY <1>5, <1>8, Zenon
<1>10. SortStrings(s) = [p \in 1..m |-> b(p)]
  <2> HIDE DEF a, b
  <2> QED
    BY <1>9
<1> QED
  BY <1>10, Zenon DEF t, SortedByID

-----------------------------------------------------------------------------

\* Attributes as strings: the value of each name.
AttrMeaning(names, vals, attrs) ==
    [s \in {names[a] : a \in DOMAIN attrs} |->
        vals[attrs[CHOOSE a \in DOMAIN attrs : names[a] = s]]]

\* F maps the names of the attributes to their values.
MapsAttrs(names, vals, attrs, F) ==
    /\ F = [s \in DOMAIN F |-> F[s]]
    /\ DOMAIN F = {names[a] : a \in DOMAIN attrs}
    /\ \A a \in DOMAIN attrs : F[names[a]] = vals[attrs[a]]

\* Where names are distinct there is one such function.
LEMMA AttrMeaningIs ==
    ASSUME NEW names, NEW vals, NEW attrs, \A a, b \in DOMAIN attrs : names[a] = names[b] => a = b
    PROVE  /\ MapsAttrs(names, vals, attrs, AttrMeaning(names, vals, attrs))
           /\ \A F : MapsAttrs(names, vals, attrs, F) => F = AttrMeaning(names, vals, attrs)
<1> DEFINE A == AttrMeaning(names, vals, attrs)
           D == {names[a] : a \in DOMAIN attrs}
           v(s) == vals[attrs[CHOOSE a \in DOMAIN attrs : names[a] = s]]
<1>1. A = [s \in D |-> v(s)]
  BY Zenon DEF AttrMeaning
<1>2. \A a \in DOMAIN attrs : names[a] \in D /\ v(names[a]) = vals[attrs[a]]
  <2> TAKE a \in DOMAIN attrs
  <2> DEFINE c == CHOOSE b \in DOMAIN attrs : names[b] = names[a]
  <2>1. c \in DOMAIN attrs /\ names[c] = names[a]
    BY Zenon
  <2>2. c = a
    <3> HIDE DEF c
    <3> QED
      BY <2>1, Zenon
  <2>3. v(names[a]) = vals[attrs[c]]
    BY Zenon
  <2> HIDE DEF c, v
  <2> QED
    BY <2>2, <2>3, Zenon
<1> HIDE DEF v, A
<1>3. DOMAIN A = D /\ A = [s \in DOMAIN A |-> A[s]] /\ \A s \in D : A[s] = v(s)
  <2> HIDE DEF D
  <2> QED
    BY <1>1
<1>4. MapsAttrs(names, vals, attrs, A)
  BY <1>2, <1>3, Zenon DEF MapsAttrs
<1>5. ASSUME NEW F, MapsAttrs(names, vals, attrs, F) PROVE F = A
  <2>1. F = [s \in DOMAIN F |-> F[s]] /\ DOMAIN F = D /\ \A a \in DOMAIN attrs : F[names[a]] = vals[attrs[a]]
    BY <1>5, Zenon DEF MapsAttrs
  <2>2. \A s \in D : F[s] = A[s]
    <3> TAKE s \in D
    <3>1. PICK a \in DOMAIN attrs : s = names[a]
      OBVIOUS
    <3>2. F[s] = vals[attrs[a]] /\ A[s] = vals[attrs[a]]
      BY <3>1, <2>1, <1>2, <1>3, Zenon
    <3> QED
      BY <3>2
  <2> HIDE DEF D
  <2> QED
    BY <2>1, <2>2, <1>3
<1> QED
  BY <1>4, <1>5 DEF A

\* nms and vls are the runs of a target's attributes.
AttrRuns(e, t, nms, vls) ==
    /\ Len(nms) = Len(SortedAttrs(e, t)) /\ DOMAIN nms = 1..Len(nms)
    /\ \A k \in 1..Len(SortedAttrs(e, t)) :
          nms[k] = SortedAttrs(e, t)[k].name /\ vls[k] = SortedAttrs(e, t)[k].val

\* The runs of the attributes as a function from IDs to IDs.
AttrIDs(nms, vls) == [a \in ToSet(nms) |-> vls[Max({j \in 1..Len(nms) : nms[j] = a})]]

\* A maps the IDs of the target's attributes.
MapsIDs(e, t, A) ==
    /\ DOMAIN A = {e.attrName[a] : a \in DOMAIN t.attrs}
    /\ \A a \in DOMAIN t.attrs : A[e.attrName[a]] = e.attrVal[t.attrs[a]]

\* The IDs of the attributes of a target, found again.
LEMMA ReadsAttrIDs ==
    ASSUME NEW e, NEW t, IsAttrs(e, t, SortedAttrs(e, t)), NEW nms, NEW vls, AttrRuns(e, t, nms, vls)
    PROVE  MapsIDs(e, t, AttrIDs(nms, vls))
<1> DEFINE kvs == SortedAttrs(e, t)
           n == Len(nms)
           A == AttrIDs(nms, vls)
           I(x) == {j \in 1..Len(nms) : nms[j] = x}
           D == {e.attrName[a] : a \in DOMAIN t.attrs}
<1>1. /\ n \in Nat
      /\ \A k \in 1..n : \E a \in DOMAIN t.attrs : kvs[k].name = e.attrName[a] /\ kvs[k].val = e.attrVal[t.attrs[a]]
      /\ \A a \in DOMAIN t.attrs : \E k \in 1..n : kvs[k].name = e.attrName[a] /\ kvs[k].val = e.attrVal[t.attrs[a]]
      /\ \A j, k \in 1..n : kvs[j].name = kvs[k].name => j = k
  BY Zenon DEF IsAttrs, AttrRuns
<1>2. DOMAIN nms = 1..n /\ \A k \in 1..n : nms[k] = kvs[k].name /\ vls[k] = kvs[k].val
  BY Zenon DEF AttrRuns
<1>3. ToSet(nms) = {nms[k] : k \in 1..n}
  BY <1>2, Zenon DEF ToSet
<1> HIDE DEF kvs
<1>4. ToSet(nms) = D
  <2>1. \A k \in 1..n : nms[k] \in D
    <3> TAKE k \in 1..n
    <3>1. PICK a \in DOMAIN t.attrs : kvs[k].name = e.attrName[a]
      BY <1>1, Zenon
    <3>2. nms[k] = e.attrName[a]
      BY <3>1, <1>2, Zenon
    <3> QED
      BY <3>2, Zenon
  <2>2. \A a \in DOMAIN t.attrs : \E k \in 1..n : e.attrName[a] = nms[k]
    <3> TAKE a \in DOMAIN t.attrs
    <3>1. PICK k \in 1..n : kvs[k].name = e.attrName[a]
      BY <1>1, Zenon
    <3>2. e.attrName[a] = nms[k]
      BY <3>1, <1>2, Zenon
    <3> QED
      BY <3>2, Zenon
  <2>3. {nms[k] : k \in 1..n} \subseteq D
    BY <2>1, Zenon
  <2>4. D \subseteq {nms[k] : k \in 1..n}
    BY <2>2, Zenon
  <2> QED
    BY <2>3, <2>4, <1>3, Zenon
<1>5. A = [a \in ToSet(nms) |-> vls[Max(I(a))]]
  BY Zenon DEF AttrIDs
<1> DEFINE w(a) == vls[Max(I(a))]
<1>6. ASSUME NEW a \in DOMAIN t.attrs PROVE w(e.attrName[a]) = e.attrVal[t.attrs[a]]
  <2>1. PICK k \in 1..n : kvs[k].name = e.attrName[a] /\ kvs[k].val = e.attrVal[t.attrs[a]]
    BY <1>1, Zenon
  <2>2. I(e.attrName[a]) = {k}
    <3>1. \A j \in 1..n : nms[j] = e.attrName[a] <=> j = k
      <4> TAKE j \in 1..n
      <4>1. nms[j] = kvs[j].name /\ nms[k] = kvs[k].name
        BY <1>2, Zenon
      <4>2. kvs[j].name = kvs[k].name => j = k
        BY <1>1, Zenon
      <4> QED
        BY <2>1, <4>1, <4>2, Zenon
    <3> QED
      BY <3>1, Zenon
  <2>3. Max({k}) = k
    <3>1. k \in Int
      BY <1>1
    <3> QED
      BY <3>1, MaxMinOne, Zenon
  <2> QED
    BY <2>1, <2>2, <2>3, <1>2, Zenon
<1>7. A = [a \in D |-> w(a)]
  BY <1>4, <1>5, Zenon
<1> HIDE DEF w, A
<1>8. DOMAIN A = D /\ \A x \in D : A[x] = w(x)
  <2> HIDE DEF D
  <2> QED
    BY <1>7
<1>9. \A a \in DOMAIN t.attrs : A[e.attrName[a]] = e.attrVal[t.attrs[a]]
  BY <1>6, <1>8, Zenon
<1> QED
  BY <1>8, <1>9 DEF A, MapsIDs

-----------------------------------------------------------------------------
(* Labels and rule types of the nodes. *)

\* A goroutine obtained the kept columns.
HasKept(f, ids) ==
    /\ ids.pkg = DecodeKept(f, "pkg") /\ ids.name = DecodeKept(f, "name")
    /\ ids.ruleType = DecodeKept(f, "ruleType")

\* The label of the target that is node i.
NodeLabel(g, e, i) == LabelAt(g, e.nodes[i + 1].origIdx)

\* Packages and names can be expanded.
Splits(f) == Expands(f, "PKG_DICT") /\ Expands(f, "NAME_DICT")

\* Labels and rule types are those of the nodes, where the dictionaries expand.
LabelsRead(g, e, n, f, ids) ==
    \A i \in 0..(n - 1) :
        /\ Splits(f) => SplitLabel(f, ids, i) = [pkg |-> e.nodes[i + 1].pkg, name |-> e.nodes[i + 1].name]
        /\ ~Splits(f) => SplitLabel(f, ids, i) = [pkg |-> <<>>, name |-> <<>>]
        /\ Splits(f) => Label(f, ids, i) = NodeLabel(g, e, i)
        /\ ids.ruleType[i + 1] \in 0..(Len(e.dict.ruleType) - 1)
        /\ e.dict.ruleType[ids.ruleType[i + 1] + 1] = g.meta.ruleTypes[TargetAt(g, e, i).ruleType]
        /\ Expands(f, "RULETYPE_DICT") => RuleType(f, ids, i) = g.meta.ruleTypes[TargetAt(g, e, i).ruleType]

\* An ID of the dictionary stands for its string.
LEMMA EntryRead ==
    ASSUME NEW dict, Len(dict) \in Nat, NEW id \in 0..(Len(dict) - 1)
    PROVE  Entry(dict, id) = dict[id + 1]
BY DEF Entry

\* Whoever obtained the kept columns reads the nodes' labels and rule types.
LEMMA ReadsLabels ==
    ASSUME NEW g, NEW e, IsEncoder(g, e), NEW n \in Nat, n = Len(g.targets), EncodesAll(g, e, n),
           NEW f, IsFile(g, e, n, f), NEW ids, HasKept(f, ids)
    PROVE  LabelsRead(g, e, n, f, ids)
<1>1. DictsRead(e, f) /\ KeptRead(g, e, n, f)
  BY ReadsDicts, ReadsKept, Zenon
<1>2. /\ ids.pkg = pkgIDsOf(e.nodes) /\ ids.name = Col(g, e, n, "name") /\ ids.ruleType = Col(g, e, n, "ruleType")
  BY <1>1, Zenon DEF KeptRead, HasKept
<1>3. IsNodes(g, e.nodes) /\ e.dict.pkg = pkgDictOf(e.nodes)
  BY Zenon DEF IsEncoder
<1>4. ArePkgs(e.nodes, n)
  <2>1. Len(e.nodes) = n /\ \A k \in 1..n : e.nodes[k].pkg \in Seq(Nat)
    BY <1>3, Zenon DEF IsNodes, IsNode
  <2> QED
    BY <2>1, PkgsReturn, Zenon
<1>5. ASSUME NEW i \in 0..(n - 1)
      PROVE  /\ Splits(f) => SplitLabel(f, ids, i) = [pkg |-> e.nodes[i + 1].pkg, name |-> e.nodes[i + 1].name]
             /\ ~Splits(f) => SplitLabel(f, ids, i) = [pkg |-> <<>>, name |-> <<>>]
             /\ Splits(f) => Label(f, ids, i) = NodeLabel(g, e, i)
             /\ ids.ruleType[i + 1] \in 0..(Len(e.dict.ruleType) - 1)
             /\ e.dict.ruleType[ids.ruleType[i + 1] + 1] = g.meta.ruleTypes[TargetAt(g, e, i).ruleType]
             /\ Expands(f, "RULETYPE_DICT") => RuleType(f, ids, i) = g.meta.ruleTypes[TargetAt(g, e, i).ruleType]
  <2>1. i + 1 \in 1..n
    OBVIOUS
  <2>2. /\ EncodeNode(g, e, i).row.name \in 0..(Len(e.dict.name) - 1)
        /\ e.dict.name[EncodeNode(g, e, i).row.name + 1] = e.nodes[i + 1].name
        /\ EncodeNode(g, e, i).row.ruleType \in 0..(Len(e.dict.ruleType) - 1)
        /\ e.dict.ruleType[EncodeNode(g, e, i).row.ruleType + 1] = g.meta.ruleTypes[TargetAt(g, e, i).ruleType]
    BY RowsIDs, Zenon
  <2>3. /\ ids.pkg[i + 1] = pkgIDsOf(e.nodes)[i + 1] /\ e.dict.pkg[pkgIDsOf(e.nodes)[i + 1] + 1] = e.nodes[i + 1].pkg
        /\ pkgIDsOf(e.nodes)[i + 1] \in Int /\ pkgIDsOf(e.nodes)[i + 1] + 1 \in 1..Len(e.dict.pkg)
        /\ e.dict.pkg \in Seq(Seq(Nat))
    <3>1. /\ pkgIDsOf(e.nodes) \in [1..n -> Int] /\ e.dict.pkg \in Seq(Seq(Nat))
      BY <1>3, <1>4, Zenon DEF ArePkgs
    <3>2. pkgIDsOf(e.nodes)[i + 1] \in Int
      BY <3>1, <2>1
    <3> QED
      BY <3>1, <3>2, <1>2, <1>3, <1>4, <2>1, Zenon DEF ArePkgs
  <2>4. ids.name[i + 1] = EncodeNode(g, e, i).row.name /\ ids.ruleType[i + 1] = EncodeNode(g, e, i).row.ruleType
    <3> DEFINE a(k) == EncodeNode(g, e, k - 1).row["name"]
               b(k) == EncodeNode(g, e, k - 1).row["ruleType"]
    <3>1. Col(g, e, n, "name") = [k \in 1..n |-> a(k)] /\ Col(g, e, n, "ruleType") = [k \in 1..n |-> b(k)]
      BY Zenon DEF Col
    <3>2. (i + 1) - 1 = i
      OBVIOUS
    <3>3. a(i + 1) = EncodeNode(g, e, i).row["name"] /\ b(i + 1) = EncodeNode(g, e, i).row["ruleType"]
      BY <3>2, Zenon
    <3> HIDE DEF a, b
    <3>4. ids.name[i + 1] = a(i + 1) /\ ids.ruleType[i + 1] = b(i + 1)
      BY <3>1, <2>1, <1>2
    <3> QED
      BY <3>3, <3>4
  <2>5. /\ Len(e.dict.pkg) \in Nat /\ Len(e.dict.name) \in Nat /\ Len(e.dict.ruleType) \in Nat
        /\ ids.pkg[i + 1] \in 0..(Len(e.dict.pkg) - 1)
    <3>1. e.dict.name \in Seq(Seq(Nat)) /\ e.dict.ruleType \in Seq(Seq(Nat))
      BY Zenon DEF IsEncoder, IsRemap, IsDict
    <3>2. \A s \in Seq(Seq(Nat)) : Len(s) \in Nat
      OBVIOUS
    <3>3. Len(e.dict.pkg) \in Nat /\ Len(e.dict.name) \in Nat /\ Len(e.dict.ruleType) \in Nat
      BY <2>3, <3>1, <3>2, Zenon
    <3> QED
      BY <2>3, <3>3
  <2>6. /\ Entry(e.dict.pkg, ids.pkg[i + 1]) = e.nodes[i + 1].pkg
        /\ Entry(e.dict.name, ids.name[i + 1]) = e.nodes[i + 1].name
        /\ Entry(e.dict.ruleType, ids.ruleType[i + 1]) = g.meta.ruleTypes[TargetAt(g, e, i).ruleType]
    BY <2>2, <2>3, <2>4, <2>5, EntryRead, Zenon
  <2>7. ASSUME Splits(f)
        PROVE  /\ SplitLabel(f, ids, i) = [pkg |-> e.nodes[i + 1].pkg, name |-> e.nodes[i + 1].name]
               /\ Label(f, ids, i) = NodeLabel(g, e, i)
    <3>1. Dict(f, "PKG_DICT") = e.dict.pkg /\ Dict(f, "NAME_DICT") = e.dict.name
      BY <1>1, <2>7, Zenon DEF DictsRead, DictRead, Splits
    <3>2. SplitLabel(f, ids, i) = [pkg |-> e.nodes[i + 1].pkg, name |-> e.nodes[i + 1].name]
      BY <2>6, <2>7, <3>1, Zenon DEF SplitLabel, Splits
    <3>3. SplitLabel(f, ids, i).pkg = e.nodes[i + 1].pkg /\ SplitLabel(f, ids, i).name = e.nodes[i + 1].name
      BY <3>2
    <3>4. joinLabel(e.nodes[i + 1].pkg, e.nodes[i + 1].name) = NodeLabel(g, e, i)
      BY <1>3, <2>1, Zenon DEF IsNodes, NodeLabel
    <3>5. Label(f, ids, i) = NodeLabel(g, e, i)
      BY <3>3, <3>4, Zenon DEF Label
    <3> QED
      BY <3>2, <3>5, Zenon
  <2>8. ~Splits(f) => SplitLabel(f, ids, i) = [pkg |-> <<>>, name |-> <<>>]
    BY Zenon DEF SplitLabel, Splits
  <2>9. ASSUME Expands(f, "RULETYPE_DICT") PROVE RuleType(f, ids, i) = g.meta.ruleTypes[TargetAt(g, e, i).ruleType]
    <3>1. Dict(f, "RULETYPE_DICT") = e.dict.ruleType
      BY <1>1, <2>9, Zenon DEF DictsRead, DictRead
    <3> QED
      BY <2>6, <3>1, Zenon DEF RuleType
  <2> QED
    BY <2>2, <2>4, <2>7, <2>8, <2>9, Zenon
<1> QED
  BY <1>5, Zenon DEF LabelsRead

-----------------------------------------------------------------------------
(* What a graph says, target by target. *)

\* Dependencies, tags and attributes of a target as strings.
DepLabels(g, t) == {LabelOf(g, d) : d \in ToSet(t.deps)}

TagStrings(g, t) == SortStrings([k \in 1..Len(t.tags) |-> g.meta.tags[t.tags[k]]])

AttrStrings(g, t) == AttrMeaning(g.meta.attrNames, g.meta.attrVals, t.attrs)

\* What a target says, its IDs resolved by the metadata of g.
TargetMeaning(g, t) ==
    [hash |-> HashOf(t), ruleType |-> g.meta.ruleTypes[t.ruleType], root |-> t.root, ext |-> t.ext,
     deps |-> DepLabels(g, t), tags |-> TagStrings(g, t), attrs |-> AttrStrings(g, t)]

\* M gives for the label of every node what its target says.
IsMeaning(g, e, n, M) ==
    /\ M = [l \in DOMAIN M |-> M[l]]
    /\ DOMAIN M = {NodeLabel(g, e, i) : i \in 0..(n - 1)}
    /\ \A i \in 0..(n - 1) : M[NodeLabel(g, e, i)] = TargetMeaning(g, TargetAt(g, e, i))

\* There is one such function.
LEMMA OneMeaning ==
    ASSUME NEW g, NEW e, NEW n, NEW M, IsMeaning(g, e, n, M), NEW N, IsMeaning(g, e, n, N)
    PROVE  M = N
<1> DEFINE D == {NodeLabel(g, e, i) : i \in 0..(n - 1)}
<1>1. /\ M = [l \in DOMAIN M |-> M[l]] /\ DOMAIN M = D
      /\ N = [l \in DOMAIN N |-> N[l]] /\ DOMAIN N = D
  BY Zenon DEF IsMeaning
<1>2. \A l \in D : M[l] = N[l]
  <2> TAKE l \in D
  <2>1. PICK i \in 0..(n - 1) : l = NodeLabel(g, e, i)
    OBVIOUS
  <2>2. M[NodeLabel(g, e, i)] = N[NodeLabel(g, e, i)]
    BY Zenon DEF IsMeaning
  <2> QED
    BY <2>1, <2>2, Zenon
<1> HIDE DEF D
<1> QED
  BY <1>1, <1>2

\* Meaning(g) as a function of labels that are distinct.
LEMMA MeaningValues ==
    ASSUME NEW g, \A j, k \in 1..Len(g.targets) : LabelAt(g, j) = LabelAt(g, k) => j = k
    PROVE  /\ Meaning(g) = [l \in DOMAIN Meaning(g) |-> Meaning(g)[l]]
           /\ DOMAIN Meaning(g) = {LabelAt(g, k) : k \in 1..Len(g.targets)}
           /\ \A k \in 1..Len(g.targets) : Meaning(g)[LabelAt(g, k)] = TargetMeaning(g, g.targets[k])
<1> DEFINE D == {LabelAt(g, k) : k \in 1..Len(g.targets)}
           v(l) == TargetMeaning(g, g.targets[TargetOf(g, l)])
           M == Meaning(g)
<1>1. M = [l \in D |-> v(l)]
  BY Zenon DEF Meaning, LabelAt, LabelOf, TargetMeaning, HashOf, DepLabels, TagStrings, AttrStrings, AttrMeaning
<1>2. ASSUME NEW k \in 1..Len(g.targets) PROVE LabelAt(g, k) \in D /\ v(LabelAt(g, k)) = TargetMeaning(g, g.targets[k])
  <2> DEFINE c == TargetOf(g, LabelAt(g, k))
  <2>1. c \in 1..Len(g.targets) /\ LabelAt(g, c) = LabelAt(g, k)
    BY Zenon DEF TargetOf, LabelOf, LabelAt
  <2> HIDE DEF c
  <2>2. c = k
    BY <2>1, Zenon
  <2> QED
    BY <2>2, Zenon DEF c
<1> HIDE DEF D, v, M
<1>3. DOMAIN M = D /\ M = [l \in DOMAIN M |-> M[l]] /\ \A l \in D : M[l] = v(l)
  BY <1>1
<1>4. \A k \in 1..Len(g.targets) : M[LabelAt(g, k)] = TargetMeaning(g, g.targets[k])
  BY <1>2, <1>3, Zenon
<1> QED
  BY <1>3, <1>4 DEF M, D

\* The graph given to Encode, by the order of its nodes.
LEMMA MeaningByNodes ==
    ASSUME NEW g, Input(g), Labelled(g), NEW e, IsEncoder(g, e), NEW n \in Nat, n = Len(g.targets)
    PROVE  IsMeaning(g, e, n, Meaning(g))
<1> DEFINE M == Meaning(g)
<1>1. \A j, k \in 1..n : LabelAt(g, j) = LabelAt(g, k) => j = k
  BY LabelsAt, Zenon
<1>2. /\ M = [l \in DOMAIN M |-> M[l]] /\ DOMAIN M = {LabelAt(g, k) : k \in 1..n}
      /\ \A k \in 1..n : M[LabelAt(g, k)] = TargetMeaning(g, g.targets[k])
  BY <1>1, MeaningValues, Zenon
<1> HIDE DEF M
<1>3. /\ \A k \in 1..n : e.nodes[k].origIdx \in 1..n
      /\ \A m \in 1..n : \E k \in 1..n : e.nodes[k].origIdx = m
  BY Zenon DEF IsEncoder, IsNodes
<1>4. (\A i \in 0..(n - 1) : i + 1 \in 1..n) /\ (\A k \in 1..n : k - 1 \in 0..(n - 1) /\ (k - 1) + 1 = k)
  OBVIOUS
<1>5. ASSUME NEW i \in 0..(n - 1)
      PROVE  /\ M[NodeLabel(g, e, i)] = TargetMeaning(g, TargetAt(g, e, i))
             /\ NodeLabel(g, e, i) \in {LabelAt(g, k) : k \in 1..n}
  <2>1. e.nodes[i + 1].origIdx \in 1..n
    BY <1>3, <1>4, Zenon
  <2> QED
    BY <2>1, <1>2, Zenon DEF NodeLabel, TargetAt
<1>6. ASSUME NEW m \in 1..n PROVE LabelAt(g, m) \in {NodeLabel(g, e, i) : i \in 0..(n - 1)}
  <2>1. PICK k \in 1..n : e.nodes[k].origIdx = m
    BY <1>3, Zenon
  <2>2. NodeLabel(g, e, k - 1) = LabelAt(g, m)
    BY <2>1, <1>4, Zenon DEF NodeLabel
  <2>3. k - 1 \in 0..(n - 1)
    BY <1>4, Zenon
  <2> QED
    BY <2>2, <2>3, Zenon
<1>7. {LabelAt(g, k) : k \in 1..n} \subseteq {NodeLabel(g, e, i) : i \in 0..(n - 1)}
  BY <1>6, Zenon
<1>8. {NodeLabel(g, e, i) : i \in 0..(n - 1)} \subseteq {LabelAt(g, k) : k \in 1..n}
  BY <1>5, Zenon
<1>9. DOMAIN M = {NodeLabel(g, e, i) : i \in 0..(n - 1)}
  BY <1>2, <1>7, <1>8, Zenon
<1>10. IsMeaning(g, e, n, M)
  BY <1>2, <1>5, <1>9, Zenon DEF IsMeaning
<1> QED
  BY <1>10 DEF M

-----------------------------------------------------------------------------
(* What the target of a node says, in the terms of the file. *)

\* The dependencies of a node are nodes; their labels are those of the target's dependencies.
LEMMA NodeDepLabels ==
    ASSUME NEW g, NEW e, NEW i, IsResolved(g, e, TargetAt(g, e, i)), TargetAt(g, e, i).deps \in Seq(Nat),
           Len(g.targets) \in Nat
    PROVE  /\ ToSet(DepsOf(g, e, i)) \subseteq 0..(Len(g.targets) - 1)
           /\ DepLabels(g, TargetAt(g, e, i)) = {NodeLabel(g, e, d) : d \in ToSet(DepsOf(g, e, i))}
<1> DEFINE t == TargetAt(g, e, i)
           n == Len(g.targets)
           v == NodeDeps(g, e, t)
           w == DepsOf(g, e, i)
           m == Len(t.deps)
           q == Enumeration(1..m, IntBefore(v, m))
<1>1. /\ m \in Nat /\ \A k \in 1..m : v[k] \in 0..(n - 1) /\ TargetAt(g, e, v[k]).id = t.deps[k]
      /\ IsAscending(v, m, w)
  BY Zenon DEF IsResolved, DepsOf
<1>2. /\ w \in [1..m -> Int]
      /\ \A k \in 1..m : q[k] \in 1..m /\ w[k] = v[q[k]]
      /\ \A j \in 1..m : \E k \in 1..m : w[k] = v[j]
  BY <1>1, Zenon DEF IsAscending
<1>3. DOMAIN t.deps = 1..m
  OBVIOUS
<1> HIDE DEF t, v, w, m, q
<1>4. DOMAIN w = 1..m
  BY <1>2
<1>5. ToSet(t.deps) = {t.deps[k] : k \in 1..m} /\ ToSet(w) = {w[k] : k \in 1..m}
  BY <1>3, <1>4, Zenon DEF ToSet
<1>6. \A k \in 1..m : LabelOf(g, t.deps[k]) = NodeLabel(g, e, v[k])
  <2> TAKE k \in 1..m
  <2>1. TargetAt(g, e, v[k]).id = t.deps[k]
    BY <1>1, Zenon
  <2> QED
    BY <2>1, Zenon DEF LabelOf, NodeLabel, LabelAt, TargetAt
<1>7. ToSet(w) \subseteq 0..(n - 1)
  <2>1. \A k \in 1..m : w[k] \in 0..(n - 1)
    BY <1>1, <1>2, Zenon
  <2> QED
    BY <1>5, <2>1, Zenon
<1> DEFINE A == {LabelOf(g, d) : d \in ToSet(t.deps)}
           B == {NodeLabel(g, e, d) : d \in ToSet(w)}
<1>8. A \subseteq B
  <2> SUFFICES ASSUME NEW d \in ToSet(t.deps) PROVE LabelOf(g, d) \in B
    BY Zenon
  <2>1. PICK k \in 1..m : d = t.deps[k]
    BY <1>5, Zenon
  <2>2. PICK p \in 1..m : w[p] = v[k]
    BY <1>2, Zenon
  <2>3. w[p] \in ToSet(w) /\ LabelOf(g, d) = NodeLabel(g, e, w[p])
    BY <1>5, <1>6, <2>1, <2>2, Zenon
  <2> QED
    BY <2>3, Zenon
<1>9. B \subseteq A
  <2> SUFFICES ASSUME NEW d \in ToSet(w) PROVE NodeLabel(g, e, d) \in A
    BY Zenon
  <2>1. PICK p \in 1..m : d = w[p]
    BY <1>5, Zenon
  <2>2. q[p] \in 1..m /\ w[p] = v[q[p]]
    BY <1>2, Zenon
  <2>3. t.deps[q[p]] \in ToSet(t.deps) /\ LabelOf(g, t.deps[q[p]]) = NodeLabel(g, e, d)
    BY <1>5, <1>6, <2>1, <2>2, Zenon
  <2> QED
    BY <2>3, Zenon
<1>10. A = B
  BY <1>8, <1>9, Zenon
<1> QED
  BY <1>7, <1>10, Zenon DEF DepLabels, t, w

\* The tags of a node's target, by the dictionary.
TagsByID(g, e, i) ==
    /\ TagStrings(g, TargetAt(g, e, i))
         = [p \in 1..Len(TargetAt(g, e, i).tags) |-> e.dict.tag[TagsAt(g, e, i)[p] + 1]]
    /\ \A p \in 1..Len(TargetAt(g, e, i).tags) :
          /\ TagsAt(g, e, i)[p] \in 0..(Len(e.dict.tag) - 1)
          /\ \E k \in 1..Len(TargetAt(g, e, i).tags) :
                e.dict.tag[TagsAt(g, e, i)[p] + 1] = g.meta.tags[TargetAt(g, e, i).tags[k]]

\* The tags of a node, as strings, are those of its target.
LEMMA NodeTagStrings ==
    ASSUME NEW g, NEW e, IsEncoder(g, e), NEW i, IsResolved(g, e, TargetAt(g, e, i))
    PROVE  TagsByID(g, e, i)
<1> DEFINE t == TargetAt(g, e, i)
           v == NodeTags(e, t)
           w == TagsAt(g, e, i)
           m == Len(t.tags)
           d == e.dict.tag
           q == Enumeration(1..m, IntBefore(v, m))
           s == [k \in 1..m |-> g.meta.tags[t.tags[k]]]
<1>1. /\ m \in Nat /\ v \in [1..m -> Int]
      /\ \A k \in 1..m : v[k] \in 0..(Len(d) - 1) /\ d[v[k] + 1] = g.meta.tags[t.tags[k]]
      /\ IsAscending(v, m, w) /\ w = SortInts(v)
  BY Zenon DEF IsResolved, TagsAt
<1>2. /\ \A k \in 1..m : q[k] \in 1..m /\ w[k] = v[q[k]]
  BY <1>1, Zenon DEF IsAscending
<1>3. IsDict(d, Strings(g.meta.tags))
  BY Zenon DEF IsEncoder, IsRemap
<1>4. TagStrings(g, t) = SortStrings(s)
  BY Zenon DEF TagStrings
<1> DEFINE a(k) == g.meta.tags[t.tags[k]]
           b(k) == d[v[k] + 1]
<1>5. s = [k \in 1..m |-> a(k)] /\ \A k \in 1..m : b(k) = a(k)
  BY <1>1, Zenon
<1> HIDE DEF t, v, w, m, d, q, s
<1>6. s = [k \in 1..m |-> b(k)]
  <2> HIDE DEF a, b
  <2> QED
    BY <1>5
<1>7. SortStrings(s) = [p \in 1..m |-> d[SortInts(v)[p] + 1]]
  <2>1. m \in Nat /\ v \in [1..m -> Int] /\ \A k \in 1..m : v[k] \in 0..(Len(d) - 1)
    BY <1>1, Zenon
  <2>2. s = [k \in 1..m |-> d[v[k] + 1]]
    BY <1>6, Zenon
  <2>3. ByID(d, m, v, s)
    BY <2>1, <2>2, Zenon DEF ByID
  <2>4. SortedByID(d, m, v, s)
    BY <2>1, <2>3, <1>3, SortsByID, Zenon
  <2> QED
    BY <2>4, Zenon DEF SortedByID
<1>8. SortStrings(s) = [p \in 1..m |-> d[w[p] + 1]]
  BY <1>1, <1>7, Zenon
<1>9. ASSUME NEW p \in 1..m
      PROVE  w[p] \in 0..(Len(d) - 1) /\ \E k \in 1..m : d[w[p] + 1] = g.meta.tags[t.tags[k]]
  <2>1. q[p] \in 1..m /\ w[p] = v[q[p]]
    BY <1>2, Zenon
  <2>2. v[q[p]] \in 0..(Len(d) - 1) /\ d[v[q[p]] + 1] = g.meta.tags[t.tags[q[p]]]
    BY <2>1, <1>1, Zenon
  <2> QED
    BY <2>1, <2>2, Zenon
<1> QED
  BY <1>4, <1>8, <1>9, Zenon DEF t, w, m, d, TagsByID

\* Strings of attributes read through names and values: F maps what the target's attributes say.
LEMMA NodeAttrStrings ==
    ASSUME NEW g, Input(g), NEW t, TargetOk(g, t)
    PROVE  /\ MapsAttrs(g.meta.attrNames, g.meta.attrVals, t.attrs, AttrStrings(g, t))
           /\ \A F : MapsAttrs(g.meta.attrNames, g.meta.attrVals, t.attrs, F) => F = AttrStrings(g, t)
<1>1. \A a \in DOMAIN t.attrs : a \in DOMAIN g.meta.attrNames
  BY Zenon DEF TargetOk
<1>2. Distinct(g.meta.attrNames)
  BY Zenon DEF Input
<1>3. \A a, b \in DOMAIN t.attrs : g.meta.attrNames[a] = g.meta.attrNames[b] => a = b
  BY <1>1, <1>2, Zenon DEF Distinct
<1> QED
  BY <1>3, AttrMeaningIs, Zenon DEF AttrStrings

-----------------------------------------------------------------------------
(* The graph that is decoded in bulk. *)

\* A target that was decoded, against the target of node i.
IsDecodedTarget(g, e, i, u) ==
    /\ u.id = i /\ u.hash = HashOf(TargetAt(g, e, i))
    /\ u.ruleType \in 0..(Len(e.dict.ruleType) - 1)
    /\ e.dict.ruleType[u.ruleType + 1] = g.meta.ruleTypes[TargetAt(g, e, i).ruleType]
    /\ u.deps = DepsOf(g, e, i) /\ u.tags = TagsAt(g, e, i)
    /\ u.attrs = AttrIDs(EncodeNode(g, e, i).out.attrNms, EncodeNode(g, e, i).out.attrVls)
    /\ u.root = TargetAt(g, e, i).root /\ u.ext = TargetAt(g, e, i).ext

\* A table that was decoded: the ID of a string is its place in the dictionary.
IsTableOf(dict, m) == \A k \in 0..(Len(dict) - 1) : m[k] = dict[k + 1]

\* A graph that was decoded, against the graph that was encoded.
IsDecoded(g, e, n, h) ==
    /\ Len(h.targets) = n
    /\ \A i \in 0..(n - 1) : IsDecodedTarget(g, e, i, h.targets[i + 1]) /\ h.meta.targets[i] = NodeLabel(g, e, i)
    /\ IsTableOf(e.dict.ruleType, h.meta.ruleTypes) /\ IsTableOf(e.dict.tag, h.meta.tags)
    /\ IsTableOf(e.dict.attrName, h.meta.attrNames) /\ IsTableOf(e.dict.attrVal, h.meta.attrVals)
    /\ h.meta.files = g.meta.files

\* The parts of DecodeGraph.
DecodedTarget(f, ids, k) ==
    [id |-> k - 1, hash |-> Hash(f, k - 1), ruleType |-> ids.ruleType[k],
     deps |-> decodeDepColumns(f)[k], tags |-> decodeTagColumns(f)[k], attrs |-> decodeAttrColumns(f)[k],
     root |-> Root(f, k - 1), ext |-> External(f, k - 1)]

\* A dictionary as a table, the metadata that DecodeGraph gives, and the columns it decodes.
TableOf(dict) == [k \in 0..(Len(dict) - 1) |-> dict[k + 1]]

\* A dictionary as a table.
LEMMA TablesOf ==
    ASSUME NEW dict PROVE IsTableOf(dict, TableOf(dict))
BY Zenon DEF IsTableOf, TableOf

DecodedMeta(f, ids) ==
    [targets |-> [i \in 0..(NodeCount(f) - 1) |-> Label(f, ids, i)],
     ruleTypes |-> TableOf(Dict(f, "RULETYPE_DICT")), tags |-> TableOf(Dict(f, "TAG_DICT")),
     attrNames |-> TableOf(Dict(f, "ATTR_NAME_DICT")), attrVals |-> TableOf(Dict(f, "ATTR_VALUE_DICT")),
     files |-> AllTargetsFileHashes(f)]

KeptOf(f) == [c \in Kept |-> DecodeKept(f, c)]

\* Dictionaries that are all expanded hold their strings, and labels can be split.
AllDictsRead(e, f) ==
    /\ Splits(f) /\ Expands(f, "RULETYPE_DICT")
    /\ Dict(f, "RULETYPE_DICT") = e.dict.ruleType /\ Dict(f, "TAG_DICT") = e.dict.tag
    /\ Dict(f, "ATTR_NAME_DICT") = e.dict.attrName /\ Dict(f, "ATTR_VALUE_DICT") = e.dict.attrVal

\* expandAllDicts leaves no dictionary out.
LEMMA ReadsAllDicts ==
    ASSUME NEW e, NEW f, DictsRead(e, f), expandAllDicts(f)
    PROVE  AllDictsRead(e, f)
<1>1. /\ Expands(f, "PKG_DICT") /\ Expands(f, "NAME_DICT") /\ Expands(f, "RULETYPE_DICT")
      /\ Expands(f, "TAG_DICT") /\ Expands(f, "ATTR_NAME_DICT") /\ Expands(f, "ATTR_VALUE_DICT")
  BY Zenon DEF expandAllDicts, DictIDs
<1> QED
  BY <1>1, Zenon DEF AllDictsRead, DictsRead, DictRead, Splits

\* DecodeGraph by its parts.
LEMMA DecodesParts ==
    ASSUME NEW f
    PROVE  /\ expandAllDicts(f) =>
                DecodeGraph(f) = [targets |-> [k \in 1..NodeCount(f) |-> DecodedTarget(f, KeptOf(f), k)],
                                meta |-> DecodedMeta(f, KeptOf(f))]
           /\ HasKept(f, KeptOf(f))
<1>1. expandAllDicts(f) =>
        DecodeGraph(f) = [targets |-> [k \in 1..NodeCount(f) |-> DecodedTarget(f, KeptOf(f), k)],
                        meta |-> DecodedMeta(f, KeptOf(f))]
  BY Zenon DEF DecodeGraph, DecodedTarget, DecodedMeta, KeptOf, TableOf
<1>2. \A c \in Kept : KeptOf(f)[c] = DecodeKept(f, c)
  BY Zenon DEF KeptOf
<1>3. "pkg" \in Kept /\ "name" \in Kept /\ "ruleType" \in Kept
  BY DEF Kept
<1>4. HasKept(f, KeptOf(f))
  BY <1>2, <1>3, Zenon DEF HasKept
<1> QED
  BY <1>1, <1>4

\* The attributes in one pass over the columns.
LEMMA DecodesAttrs ==
    ASSUME NEW g, NEW e, NEW n \in Nat, NEW f, ListsRead(g, e, n, f)
    PROVE  \A k \in 1..n : decodeAttrColumns(f)[k]
                             = AttrIDs(EncodeNode(g, e, k - 1).out["attrNms"], EncodeNode(g, e, k - 1).out["attrVls"])
<1> DEFINE nms == StreamOf(g, e, n, "attrNms")
           vls == StreamOf(g, e, n, "attrVls")
           a(k) == AttrIDs(nms[k], vls[k])
           d == decodeAttrColumns(f)
<1>1. /\ Runs(getColumn(f, "ATTR_NAME"), getColumn(f, "ATTR_DEG")) = nms
      /\ Runs(getColumn(f, "ATTR_VALUE"), getColumn(f, "ATTR_DEG")) = vls
  BY Zenon DEF ListsRead
<1>2. d = [k \in 1..Len(nms) |-> a(k)]
  BY <1>1, Zenon DEF decodeAttrColumns, AttrIDs
<1>3. Len(nms) = n /\ \A k \in 1..n : /\ nms[k] = EncodeNode(g, e, k - 1).out["attrNms"]
                                      /\ vls[k] = EncodeNode(g, e, k - 1).out["attrVls"]
  <2> DEFINE p(k) == EncodeNode(g, e, k - 1).out["attrNms"]
             r(k) == EncodeNode(g, e, k - 1).out["attrVls"]
  <2>1. nms = [k \in 1..n |-> p(k)] /\ vls = [k \in 1..n |-> r(k)]
    BY Zenon DEF StreamOf
  <2> HIDE DEF p, r, nms, vls
  <2>2. Len(nms) = n /\ \A k \in 1..n : nms[k] = p(k) /\ vls[k] = r(k)
    BY <2>1
  <2> QED
    BY <2>2, Zenon DEF p, r
<1> HIDE DEF nms, vls, d
<1>4. d = [k \in 1..n |-> a(k)]
  BY <1>2, <1>3, Zenon
<1> HIDE DEF a
<1>5. \A k \in 1..n : d[k] = a(k)
  BY <1>4
<1> QED
  BY <1>3, <1>5, Zenon DEF a, d

\* DecodeGraph gives a graph that was decoded.
LEMMA DecodesGraph ==
    ASSUME NEW g, Input(g), NEW e, IsEncoder(g, e), NEW n \in Nat, n = Len(g.targets), EncodesAll(g, e, n),
           NEW f, IsFile(g, e, n, f), expandAllDicts(f)
    PROVE  IsDecoded(g, e, n, DecodeGraph(f))
<1> DEFINE ids == KeptOf(f)
           h == DecodeGraph(f)
           T(k) == DecodedTarget(f, ids, k)
           L(i) == Label(f, ids, i)
<1>0. DictsRead(e, f)
  BY ReadsDicts, Zenon
<1>1. /\ AllDictsRead(e, f) /\ ListsRead(g, e, n, f) /\ HasKept(f, ids)
  BY <1>0, ReadsAllDicts, ReadsLists, DecodesParts, Zenon
<1>2. LabelsRead(g, e, n, f, ids)
  BY <1>1, ReadsLabels, Zenon
<1>3. NodeCount(f) = n
  BY Zenon DEF IsFile
<1>4. h = [targets |-> [k \in 1..n |-> T(k)], meta |-> DecodedMeta(f, ids)]
  BY <1>3, DecodesParts, Zenon
<1> HIDE DEF ids, h
<1>5. /\ Len(h.targets) = n /\ (\A k \in 1..n : h.targets[k] = T(k)) /\ h.meta = DecodedMeta(f, ids)
  <2> HIDE DEF T
  <2> QED
    BY <1>4
<1>6. /\ h.meta.targets = [i \in 0..(n - 1) |-> L(i)]
      /\ h.meta.ruleTypes = TableOf(e.dict.ruleType) /\ h.meta.tags = TableOf(e.dict.tag)
      /\ h.meta.attrNames = TableOf(e.dict.attrName) /\ h.meta.attrVals = TableOf(e.dict.attrVal)
      /\ h.meta.files = AllTargetsFileHashes(f)
  <2>1. /\ Dict(f, "RULETYPE_DICT") = e.dict.ruleType /\ Dict(f, "TAG_DICT") = e.dict.tag
        /\ Dict(f, "ATTR_NAME_DICT") = e.dict.attrName /\ Dict(f, "ATTR_VALUE_DICT") = e.dict.attrVal
    BY <1>1, Zenon DEF AllDictsRead
  <2> DEFINE a == [i \in 0..(n - 1) |-> L(i)]
  <2>2. h.meta = [targets |-> a,
                  ruleTypes |-> TableOf(Dict(f, "RULETYPE_DICT")), tags |-> TableOf(Dict(f, "TAG_DICT")),
                  attrNames |-> TableOf(Dict(f, "ATTR_NAME_DICT")), attrVals |-> TableOf(Dict(f, "ATTR_VALUE_DICT")),
                  files |-> AllTargetsFileHashes(f)]
    BY <1>5, <1>3, Zenon DEF DecodedMeta
  <2> HIDE DEF a
  <2>3. /\ h.meta.targets = a
        /\ h.meta.ruleTypes = TableOf(Dict(f, "RULETYPE_DICT")) /\ h.meta.tags = TableOf(Dict(f, "TAG_DICT"))
        /\ h.meta.attrNames = TableOf(Dict(f, "ATTR_NAME_DICT")) /\ h.meta.attrVals = TableOf(Dict(f, "ATTR_VALUE_DICT"))
        /\ h.meta.files = AllTargetsFileHashes(f)
    BY <2>2
  <2> QED
    BY <2>1, <2>3, Zenon DEF a
<1>7. \A i \in 0..(n - 1) : h.meta.targets[i] = NodeLabel(g, e, i)
  <2>1. \A i \in 0..(n - 1) : h.meta.targets[i] = L(i)
    <3> HIDE DEF L
    <3> QED
      BY <1>6
  <2>2. \A i \in 0..(n - 1) : L(i) = NodeLabel(g, e, i)
    BY <1>1, <1>2, Zenon DEF LabelsRead, AllDictsRead
  <2> QED
    BY <2>1, <2>2, Zenon
<1>8. ASSUME NEW i \in 0..(n - 1) PROVE IsDecodedTarget(g, e, i, h.targets[i + 1])
  <2>1. i + 1 \in 1..n /\ (i + 1) - 1 = i
    OBVIOUS
  <2> DEFINE k == i + 1
             u == h.targets[k]
  <2>2. u = T(k)
    BY <1>5, <2>1, Zenon
  <2>3. /\ u.id = k - 1 /\ u.hash = Hash(f, k - 1) /\ u.ruleType = ids.ruleType[k]
        /\ u.deps = decodeDepColumns(f)[k] /\ u.tags = decodeTagColumns(f)[k] /\ u.attrs = decodeAttrColumns(f)[k]
        /\ u.root = Root(f, k - 1) /\ u.ext = External(f, k - 1)
    <3> HIDE DEF k, u
    <3> QED
      BY <2>2, Zenon DEF DecodedTarget
  <2> HIDE DEF k, u
  <2>4. k \in 1..n /\ k - 1 = i /\ k = i + 1
    BY <2>1 DEF k
  <2>5. NodeRead(f, i, TargetAt(g, e, i))
    BY ReadsNode, Zenon
  <2>6. /\ u.id = i /\ u.hash = HashOf(TargetAt(g, e, i))
        /\ u.root = TargetAt(g, e, i).root /\ u.ext = TargetAt(g, e, i).ext
    BY <2>3, <2>4, <2>5, Zenon DEF NodeRead
  <2>7. /\ u.ruleType \in 0..(Len(e.dict.ruleType) - 1)
        /\ e.dict.ruleType[u.ruleType + 1] = g.meta.ruleTypes[TargetAt(g, e, i).ruleType]
    <3>1. /\ ids.ruleType[i + 1] \in 0..(Len(e.dict.ruleType) - 1)
          /\ e.dict.ruleType[ids.ruleType[i + 1] + 1] = g.meta.ruleTypes[TargetAt(g, e, i).ruleType]
      BY <1>2, Zenon DEF LabelsRead
    <3> QED
      BY <3>1, <2>3, <2>4, Zenon
  <2>8. u.deps = DepsOf(g, e, i) /\ u.tags = TagsAt(g, e, i)
    <3> DEFINE a(j) == DepsOf(g, e, j - 1)
               b(j) == TagsAt(g, e, j - 1)
    <3>1. decodeDepColumns(f) = [j \in 1..n |-> a(j)] /\ decodeTagColumns(f) = [j \in 1..n |-> b(j)]
      BY <1>1, Zenon DEF ListsRead
    <3> HIDE DEF a, b
    <3>2. u.deps = a(k) /\ u.tags = b(k)
      BY <3>1, <2>3, <2>4
    <3> QED
      BY <3>2, <2>4, Zenon DEF a, b
  <2>9. u.attrs = AttrIDs(EncodeNode(g, e, i).out.attrNms, EncodeNode(g, e, i).out.attrVls)
    <3>1. decodeAttrColumns(f)[k] = AttrIDs(EncodeNode(g, e, k - 1).out["attrNms"], EncodeNode(g, e, k - 1).out["attrVls"])
      BY <1>1, <2>4, DecodesAttrs, Zenon
    <3> QED
      BY <3>1, <2>3, <2>4, Zenon
  <2>10. IsDecodedTarget(g, e, i, u)
    BY <2>6, <2>7, <2>8, <2>9, Zenon DEF IsDecodedTarget
  <2> QED
    BY <2>10 DEF u, k
<1>9. AllTargetsFileHashes(f) = g.meta.files
  <2>1. IsFiniteSet(DOMAIN g.meta.files) /\ DOMAIN g.meta.files \subseteq Seq(Nat) /\ g.meta.files \in [DOMAIN g.meta.files -> Seq(Nat)]
    BY Zenon DEF Input
  <2>2. /\ decodeStringMap(encodeStringMap(g.meta.files)) = g.meta.files
        /\ DOMAIN g.meta.files = {} => decodeStringMap(<<>>) = g.meta.files
    BY <2>1, FilesReturn, Zenon
  <2>3. /\ DOMAIN g.meta.files = {} => getColumn(f, "ALL_TARGETS_FILE_HASHES") = <<>>
        /\ DOMAIN g.meta.files # {} => getColumn(f, "ALL_TARGETS_FILE_HASHES") = encodeStringMap(g.meta.files)
    BY Zenon DEF IsFile
  <2> QED
    BY <2>2, <2>3, Zenon DEF AllTargetsFileHashes
<1>10. /\ IsTableOf(e.dict.ruleType, h.meta.ruleTypes) /\ IsTableOf(e.dict.tag, h.meta.tags)
       /\ IsTableOf(e.dict.attrName, h.meta.attrNames) /\ IsTableOf(e.dict.attrVal, h.meta.attrVals)
  BY <1>6, TablesOf, Zenon
<1>11. IsDecoded(g, e, n, h)
  BY <1>5, <1>6, <1>7, <1>8, <1>9, <1>10, Zenon DEF IsDecoded
<1> QED
  BY <1>11 DEF h

-----------------------------------------------------------------------------
(* The decoded graph says what the encoded one said. *)

\* What is kept of a hash is kept as it is.
LEMMA HashKept ==
    ASSUME NEW t, IsTarget(t), HashOk(t.hash), NEW u, u.hash = HashOf(t)
    PROVE  HashOf(u) = HashOf(t)
<1>1. CASE t.hash = <<>>
  <2>1. HashOf(t) = <<>>
    BY <1>1, Zenon DEF HashOf
  <2> QED
    BY <2>1, Zenon DEF HashOf
<1>2. CASE t.hash # <<>>
  <2>1. t.hash \in Seq(Nat) /\ Len(t.hash) >= HashBytes
    BY <1>2, Zenon DEF HashOk, IsTarget
  <2>2. HashBytes \in Nat \ {0}
    BY FormatAssumption, Zenon
  <2> DEFINE c == SubSeq(t.hash, 1, HashBytes)
  <2>3. u.hash = c /\ HashOf(t) = c
    BY <1>2, Zenon DEF HashOf
  <2>4. IsSub(Nat, t.hash, 1, HashBytes, c)
    <3>1. HashBytes \in Nat /\ 1 \in Nat /\ 1 <= 1 /\ 1 <= HashBytes + 1 /\ HashBytes <= Len(t.hash)
      BY <2>1, <2>2
    <3> QED
      BY <2>1, <3>1, Sub, Zenon
  <2> HIDE DEF c
  <2>5. c \in Seq(Nat) /\ Len(c) = HashBytes
    <3>1. c \in Seq(Nat) /\ Len(c) = HashBytes - 1 + 1
      BY <2>4, Zenon DEF IsSub
    <3> QED
      BY <3>1, <2>2
  <2>6. c # <<>>
    BY <2>5, <2>2
  <2>7. SubSeq(c, 1, HashBytes) = c
    BY <2>5, <2>2
  <2> QED
    BY <2>3, <2>6, <2>7, Zenon DEF HashOf
<1> QED
  BY <1>1, <1>2

\* The runs of attributes that a node writes.
LEMMA NodeAttrRuns ==
    ASSUME NEW g, NEW e, NEW i, IsEncoded(g, e, i, EncodeNode(g, e, i))
    PROVE  AttrRuns(e, TargetAt(g, e, i), EncodeNode(g, e, i).out.attrNms, EncodeNode(g, e, i).out.attrVls)
<1> DEFINE nms == EncodeNode(g, e, i).out.attrNms
           vls == EncodeNode(g, e, i).out.attrVls
           kvs == SortedAttrs(e, TargetAt(g, e, i))
<1>1. /\ nms \in Seq(Int) /\ Len(nms) = Len(kvs)
      /\ \A k \in 1..Len(kvs) : nms[k] = kvs[k].name /\ vls[k] = kvs[k].val
  BY Zenon DEF IsEncoded, AttrsAt
<1>2. DOMAIN nms = 1..Len(nms)
  <2> HIDE DEF nms
  <2> QED
    BY <1>1
<1> QED
  BY <1>1, <1>2, Zenon DEF AttrRuns

\* Decoded attributes and decoded tags of a target say what the encoded ones said.
SaysAttrs(g, t, hn, hv, A) == AttrMeaning(hn, hv, A) = AttrStrings(g, t)

SaysTags(g, t, h, u) == TagStrings(h, u) = TagStrings(g, t)

\* Attributes by decoded IDs and tables say what the target's attributes say.
LEMMA DecodedAttrs ==
    ASSUME NEW g, Input(g), NEW e, IsEncoder(g, e), NEW t, TargetOk(g, t), IsAttrs(e, t, SortedAttrs(e, t)),
           NEW nms, NEW vls, AttrRuns(e, t, nms, vls),
           NEW hn, IsTableOf(e.dict.attrName, hn), NEW hv, IsTableOf(e.dict.attrVal, hv)
    PROVE  SaysAttrs(g, t, hn, hv, AttrIDs(nms, vls))
<1> DEFINE A == AttrIDs(nms, vls)
           F == AttrMeaning(hn, hv, A)
           dn == e.dict.attrName
           dv == e.dict.attrVal
           gn == g.meta.attrNames
           gv == g.meta.attrVals
<1>1. /\ DOMAIN A = {e.attrName[a] : a \in DOMAIN t.attrs}
      /\ \A a \in DOMAIN t.attrs : A[e.attrName[a]] = e.attrVal[t.attrs[a]]
  <2>1. MapsIDs(e, t, A)
    BY ReadsAttrIDs, Zenon
  <2> QED
    BY <2>1, Zenon DEF MapsIDs
<1>2. IsRemap(gn, dn, e.attrName) /\ IsRemap(gv, dv, e.attrVal)
  BY Zenon DEF IsEncoder
<1>3. \A a \in DOMAIN t.attrs : a \in DOMAIN gn /\ t.attrs[a] \in DOMAIN gv
  BY Zenon DEF TargetOk
<1>4. ASSUME NEW a \in DOMAIN t.attrs
      PROVE  /\ e.attrName[a] \in 0..(Len(dn) - 1)
             /\ hn[e.attrName[a]] = gn[a] /\ hv[e.attrVal[t.attrs[a]]] = gv[t.attrs[a]]
  <2>1. e.attrName[a] \in 0..(Len(dn) - 1) /\ dn[e.attrName[a] + 1] = gn[a]
    BY <1>2, <1>3, Zenon DEF IsRemap
  <2>2. e.attrVal[t.attrs[a]] \in 0..(Len(dv) - 1) /\ dv[e.attrVal[t.attrs[a]] + 1] = gv[t.attrs[a]]
    BY <1>2, <1>3, Zenon DEF IsRemap
  <2> QED
    BY <2>1, <2>2, Zenon DEF IsTableOf
<1> HIDE DEF A, F
<1>5. \A x, y \in DOMAIN A : hn[x] = hn[y] => x = y
  <2> TAKE x, y \in DOMAIN A
  <2>1. PICK a \in DOMAIN t.attrs : x = e.attrName[a]
    BY <1>1, Zenon
  <2>2. PICK b \in DOMAIN t.attrs : y = e.attrName[b]
    BY <1>1, Zenon
  <2>3. hn[x] = gn[a] /\ hn[y] = gn[b] /\ a \in DOMAIN gn /\ b \in DOMAIN gn
    BY <2>1, <2>2, <1>3, <1>4, Zenon
  <2>4. gn[a] = gn[b] <=> e.attrName[a] = e.attrName[b]
    BY <2>3, <1>2, Zenon DEF IsRemap
  <2> QED
    BY <2>1, <2>2, <2>3, <2>4, Zenon
<1>6. MapsAttrs(hn, hv, A, F)
  BY <1>5, AttrMeaningIs, Zenon DEF F
<1>7. /\ F = [s \in DOMAIN F |-> F[s]] /\ DOMAIN F = {hn[x] : x \in DOMAIN A}
      /\ \A x \in DOMAIN A : F[hn[x]] = hv[A[x]]
  BY <1>6, Zenon DEF MapsAttrs
<1>8. ASSUME NEW a \in DOMAIN t.attrs PROVE F[gn[a]] = gv[t.attrs[a]] /\ gn[a] \in DOMAIN F
  <2>1. e.attrName[a] \in DOMAIN A
    BY <1>1, Zenon
  <2>2. F[hn[e.attrName[a]]] = hv[A[e.attrName[a]]] /\ hn[e.attrName[a]] \in DOMAIN F
    BY <2>1, <1>7, Zenon
  <2> QED
    BY <2>2, <1>1, <1>4, Zenon
<1>9. DOMAIN F = {gn[a] : a \in DOMAIN t.attrs}
  <2>1. {gn[a] : a \in DOMAIN t.attrs} \subseteq DOMAIN F
    BY <1>8, Zenon
  <2>2. ASSUME NEW x \in DOMAIN A PROVE hn[x] \in {gn[a] : a \in DOMAIN t.attrs}
    <3>1. PICK a \in DOMAIN t.attrs : x = e.attrName[a]
      BY <1>1, Zenon
    <3>2. hn[x] = gn[a]
      BY <3>1, <1>4, Zenon
    <3> QED
      BY <3>2, Zenon
  <2>3. {hn[x] : x \in DOMAIN A} \subseteq {gn[a] : a \in DOMAIN t.attrs}
    BY <2>2, Zenon
  <2> QED
    BY <2>1, <2>3, <1>7, Zenon
<1>10. MapsAttrs(gn, gv, t.attrs, F)
  BY <1>7, <1>8, <1>9, Zenon DEF MapsAttrs
<1>11. F = AttrStrings(g, t)
  BY <1>10, NodeAttrStrings, Zenon
<1> QED
  BY <1>11 DEF F, A, SaysAttrs

\* Tags by decoded IDs and tables: they are in ascending order already.
LEMMA DecodedTags ==
    ASSUME NEW g, NEW e, IsEncoder(g, e), NEW i, IsResolved(g, e, TargetAt(g, e, i)),
           NEW h, IsTableOf(e.dict.tag, h.meta.tags), NEW u, u.tags = TagsAt(g, e, i)
    PROVE  SaysTags(g, TargetAt(g, e, i), h, u)
<1> DEFINE m == Len(TargetAt(g, e, i).tags)
           w == TagsAt(g, e, i)
           d == e.dict.tag
           s == [k \in 1..m |-> d[w[k] + 1]]
           a(k) == h.meta.tags[w[k]]
           b(k) == d[w[k] + 1]
<1>1. /\ TagStrings(g, TargetAt(g, e, i)) = s
      /\ \A p \in 1..m : w[p] \in 0..(Len(d) - 1)
  <2>1. TagsByID(g, e, i)
    BY NodeTagStrings, Zenon
  <2> QED
    BY <2>1, Zenon DEF TagsByID
<1>2. m \in Nat /\ IsAscending(NodeTags(e, TargetAt(g, e, i)), m, w)
  BY Zenon DEF IsResolved, TagsAt
<1>3. /\ w \in [1..m -> Int] /\ Len(w) = m /\ \A j, k \in 1..m : j < k => w[j] <= w[k]
  BY <1>2, Zenon DEF IsAscending
<1>4. TagStrings(h, u) = SortStrings([k \in 1..m |-> a(k)])
  <2>1. Len(u.tags) = m
    BY <1>3, Zenon
  <2> QED
    BY <2>1, Zenon DEF TagStrings
<1>5. \A k \in 1..m : a(k) = b(k)
  BY <1>1, Zenon DEF IsTableOf
<1>6. s = [k \in 1..m |-> b(k)]
  BY Zenon
<1>7. IsDict(d, Strings(g.meta.tags))
  BY Zenon DEF IsEncoder, IsRemap
<1> HIDE DEF m, w, d, s
<1>8. [k \in 1..m |-> a(k)] = s
  <2> HIDE DEF a, b
  <2> QED
    BY <1>5, <1>6
<1>9. SortInts(w) = w
  BY <1>2, <1>3, AscendingStays
<1>10. ByID(d, m, w, s)
  BY <1>1, <1>3, <1>6, Zenon DEF ByID
<1>11. SortedByID(d, m, w, s)
  BY <1>2, <1>7, <1>10, SortsByID, Zenon
<1>12. SortStrings(s) = [p \in 1..m |-> d[SortInts(w)[p] + 1]]
  BY <1>11, Zenon DEF SortedByID
<1>13. SortStrings(s) = s
  BY <1>6, <1>9, <1>12, Zenon
<1> QED
  BY <1>1, <1>4, <1>8, <1>13, Zenon DEF SaysTags

\* A decoded target says what the target of its node says.
LEMMA DecodedTargetSays ==
    ASSUME NEW g, Input(g), NEW e, IsEncoder(g, e), NEW n \in Nat, n = Len(g.targets), EncodesAll(g, e, n),
           NEW h, IsDecoded(g, e, n, h), NEW i \in 0..(n - 1)
    PROVE  TargetMeaning(h, h.targets[i + 1]) = TargetMeaning(g, TargetAt(g, e, i))
<1> DEFINE t == TargetAt(g, e, i)
           u == h.targets[i + 1]
<1>1. IsTarget(t) /\ IsResolved(g, e, t)
  BY NodeLists, Zenon
<1>2. IsEncoded(g, e, i, EncodeNode(g, e, i)) /\ TargetOk(g, t)
  BY Zenon DEF EncodesAll
<1>3. /\ IsDecodedTarget(g, e, i, u) /\ \A j \in 0..(n - 1) : h.meta.targets[j] = NodeLabel(g, e, j)
      /\ IsTableOf(e.dict.ruleType, h.meta.ruleTypes) /\ IsTableOf(e.dict.tag, h.meta.tags)
      /\ IsTableOf(e.dict.attrName, h.meta.attrNames) /\ IsTableOf(e.dict.attrVal, h.meta.attrVals)
  BY Zenon DEF IsDecoded
<1> HIDE DEF u
<1>4. HashOf(u) = HashOf(t)
  <2>1. u.hash = HashOf(t) /\ HashOk(t.hash)
    BY <1>2, <1>3, Zenon DEF IsDecodedTarget, TargetOk
  <2> QED
    BY <1>1, <2>1, HashKept, Zenon
<1>5. h.meta.ruleTypes[u.ruleType] = g.meta.ruleTypes[t.ruleType]
  BY <1>3, Zenon DEF IsDecodedTarget, IsTableOf
<1>6. u.root = t.root /\ u.ext = t.ext
  BY <1>3, Zenon DEF IsDecodedTarget
<1>7. DepLabels(h, u) = DepLabels(g, t)
  <2> DEFINE D == ToSet(DepsOf(g, e, i))
  <2>1. t.deps \in Seq(Nat)
    BY <1>1, Zenon DEF IsTarget
  <2>2. D \subseteq 0..(n - 1) /\ DepLabels(g, t) = {NodeLabel(g, e, d) : d \in D}
    BY <1>1, <2>1, NodeDepLabels, Zenon
  <2>3. DepLabels(h, u) = {LabelOf(h, d) : d \in D}
    BY <1>3, Zenon DEF DepLabels, IsDecodedTarget
  <2> HIDE DEF D
  <2>4. \A d \in D : LabelOf(h, d) = NodeLabel(g, e, d)
    BY <1>3, <2>2, Zenon DEF LabelOf
  <2>5. {LabelOf(h, d) : d \in D} = {NodeLabel(g, e, d) : d \in D}
    BY <2>4, Zenon
  <2> QED
    BY <2>2, <2>3, <2>5, Zenon
<1>8. TagStrings(h, u) = TagStrings(g, t)
  <2>1. u.tags = TagsAt(g, e, i)
    BY <1>3, Zenon DEF IsDecodedTarget
  <2>2. SaysTags(g, t, h, u)
    BY <2>1, <1>1, <1>3, DecodedTags, Zenon
  <2> QED
    BY <2>2, Zenon DEF SaysTags
<1>9. AttrStrings(h, u) = AttrStrings(g, t)
  <2> DEFINE nms == EncodeNode(g, e, i).out.attrNms
             vls == EncodeNode(g, e, i).out.attrVls
  <2>1. AttrRuns(e, t, nms, vls)
    BY <1>2, NodeAttrRuns, Zenon
  <2>2. u.attrs = AttrIDs(nms, vls)
    BY <1>3, Zenon DEF IsDecodedTarget
  <2>3. IsAttrs(e, t, SortedAttrs(e, t))
    BY <1>1, Zenon DEF IsResolved
  <2> HIDE DEF nms, vls
  <2>4. SaysAttrs(g, t, h.meta.attrNames, h.meta.attrVals, AttrIDs(nms, vls))
    BY <1>2, <1>3, <2>1, <2>3, DecodedAttrs, Zenon
  <2> QED
    BY <2>2, <2>4, Zenon DEF AttrStrings, SaysAttrs
<1>10. TargetMeaning(h, u) = TargetMeaning(g, t)
  BY <1>4, <1>5, <1>6, <1>7, <1>8, <1>9, Zenon DEF TargetMeaning
<1> QED
  BY <1>10 DEF u

\* A decoded graph says what the encoded one says.
LEMMA DecodedSays ==
    ASSUME NEW g, Input(g), Labelled(g), NEW e, IsEncoder(g, e), NEW n \in Nat, n = Len(g.targets),
           EncodesAll(g, e, n), NEW h, IsDecoded(g, e, n, h)
    PROVE  Meaning(h) = Meaning(g)
<1> DEFINE M == Meaning(h)
<1>1. (\A i \in 0..(n - 1) : i + 1 \in 1..n) /\ (\A k \in 1..n : k - 1 \in 0..(n - 1) /\ (k - 1) + 1 = k)
  OBVIOUS
<1>2. Len(h.targets) = n
  BY Zenon DEF IsDecoded
<1>3. ASSUME NEW i \in 0..(n - 1) PROVE LabelAt(h, i + 1) = NodeLabel(g, e, i)
  <2>1. h.targets[i + 1].id = i /\ h.meta.targets[i] = NodeLabel(g, e, i)
    BY Zenon DEF IsDecoded, IsDecodedTarget
  <2> QED
    BY <2>1, Zenon DEF LabelAt
<1>4. \A k \in 1..n : LabelAt(h, k) = NodeLabel(g, e, k - 1)
  <2> TAKE k \in 1..n
  <2>1. LabelAt(h, (k - 1) + 1) = NodeLabel(g, e, k - 1) /\ (k - 1) + 1 = k
    BY <1>1, <1>3, Zenon
  <2> QED
    BY <2>1, Zenon
<1>5. \A j, k \in 1..n : LabelAt(h, j) = LabelAt(h, k) => j = k
  <2> TAKE j, k \in 1..n
  <2>1. /\ \A x, y \in 1..n : LabelAt(g, x) = LabelAt(g, y) => x = y
        /\ \A x \in 1..n : e.nodes[x].origIdx \in 1..n
        /\ \A x, y \in 1..n : e.nodes[x].origIdx = e.nodes[y].origIdx => x = y
    <3>1. \A x, y \in 1..n : LabelAt(g, x) = LabelAt(g, y) => x = y
      BY LabelsAt, Zenon
    <3>2. /\ \A x \in 1..n : e.nodes[x].origIdx \in 1..n
          /\ \A x, y \in 1..n : e.nodes[x].origIdx = e.nodes[y].origIdx => x = y
      BY Zenon DEF IsEncoder, IsNodes
    <3> QED
      BY <3>1, <3>2, Zenon
  <2>2. LabelAt(h, j) = LabelAt(g, e.nodes[j].origIdx) /\ LabelAt(h, k) = LabelAt(g, e.nodes[k].origIdx)
    BY <1>1, <1>4, Zenon DEF NodeLabel
  <2> QED
    BY <2>1, <2>2, Zenon
<1>6. /\ M = [l \in DOMAIN M |-> M[l]] /\ DOMAIN M = {LabelAt(h, k) : k \in 1..n}
      /\ \A k \in 1..n : M[LabelAt(h, k)] = TargetMeaning(h, h.targets[k])
  BY <1>2, <1>5, MeaningValues, Zenon
<1> HIDE DEF M
<1>7. DOMAIN M = {NodeLabel(g, e, i) : i \in 0..(n - 1)}
  <2>1. {LabelAt(h, k) : k \in 1..n} \subseteq {NodeLabel(g, e, i) : i \in 0..(n - 1)}
    BY <1>1, <1>4, Zenon
  <2>2. \A i \in 0..(n - 1) : NodeLabel(g, e, i) \in {LabelAt(h, k) : k \in 1..n}
    <3> TAKE i \in 0..(n - 1)
    <3>1. LabelAt(h, i + 1) = NodeLabel(g, e, i) /\ i + 1 \in 1..n
      BY <1>1, <1>3, Zenon
    <3> QED
      BY <3>1, Zenon
  <2>3. {NodeLabel(g, e, i) : i \in 0..(n - 1)} \subseteq {LabelAt(h, k) : k \in 1..n}
    BY <2>2, Zenon
  <2> QED
    BY <2>1, <2>3, <1>6, Zenon
<1>8. ASSUME NEW i \in 0..(n - 1) PROVE M[NodeLabel(g, e, i)] = TargetMeaning(g, TargetAt(g, e, i))
  <2>1. M[LabelAt(h, i + 1)] = TargetMeaning(h, h.targets[i + 1])
    BY <1>1, <1>6, Zenon
  <2>2. TargetMeaning(h, h.targets[i + 1]) = TargetMeaning(g, TargetAt(g, e, i))
    BY DecodedTargetSays, Zenon
  <2> QED
    BY <2>1, <2>2, <1>3, Zenon
<1>9. IsMeaning(g, e, n, M)
  BY <1>6, <1>7, <1>8, Zenon DEF IsMeaning
<1>10. IsMeaning(g, e, n, Meaning(g))
  BY MeaningByNodes, Zenon
<1>11. M = Meaning(g)
  BY <1>9, <1>10, OneMeaning, Zenon
<1> QED
  BY <1>11 DEF M

\* What Encode writes is turned away for its size only, and read as the graph or not at all.
THEOREM EncodeLossless == Spec => []LosslessOrRefused
<1>1. CodecInv => LosslessOrRefused
  <2> SUFFICES ASSUME CodecInv PROVE LosslessOrRefused
    OBVIOUS
  <2>1. /\ graph \in Graphs
        /\ status \in {"nodes", "shards", "refused", "written", "damaged", "corrupt", "open"}
        /\ status = "refused" => ~WellFormed(graph)
        /\ status = "written" => WellFormed(graph) /\ file = EncodeInOrder(graph)
    BY Zenon DEF CodecInv
  <2>2. status # "open damaged"
    BY <2>1
  <2>3. Input(graph)
    BY <2>1, InputGraph
  <2>4. ASSUME status = "written"
        PROVE  /\ WellFormed(graph) /\ (NewReader(file) <=> WithinBudget(file))
               /\ expandAllDicts(file) => /\ Meaning(DecodeGraph(file)) = Meaning(graph)
                                          /\ DecodeGraph(file).meta.files = graph.meta.files
    <3> DEFINE e == newEncoder(graph)
               n == Len(graph.targets)
               h == DecodeGraph(file)
    <3>1. WellFormed(graph) /\ file = EncodeInOrder(graph)
      BY <2>1, <2>4, Zenon
    <3>2. /\ EncodesAll(graph, e, n) /\ n \in Nat /\ IsFile(graph, e, n, file)
      BY <2>3, <3>1, FileIsFile, Zenon
    <3>3. IsEncoder(graph, e) /\ Labelled(graph)
      BY <2>3, <3>1, AllEncoded, Zenon
    <3> HIDE DEF e
    <3>4. NewReader(file) <=> WithinBudget(file)
      BY <2>3, <3>2, <3>3, ReaderAccepts, Zenon
    <3>5. ASSUME expandAllDicts(file) PROVE Meaning(h) = Meaning(graph) /\ h.meta.files = graph.meta.files
      <4>1. IsDecoded(graph, e, n, h)
        BY <2>3, <3>2, <3>3, <3>5, DecodesGraph, Zenon
      <4>2. Meaning(h) = Meaning(graph)
        BY <2>3, <3>2, <3>3, <4>1, DecodedSays, Zenon
      <4>3. h.meta.files = graph.meta.files
        BY <4>1, Zenon DEF IsDecoded
      <4> QED
        BY <4>2, <4>3
    <3> QED
      BY <3>1, <3>4, <3>5, Zenon
  <2> QED
    BY <2>1, <2>2, <2>4, Zenon DEF LosslessOrRefused
<1> QED
  BY <1>1, CodecInvariant, PTL

-----------------------------------------------------------------------------
(* FindNode. *)

\* Node i of the file comes before nd.
Before(f, ids, nd, i) == NodeLess(SplitLabel(f, ids, i), nd)

\* The first node that does not come before nd.
IsFirst(f, ids, nd, n, at) ==
    /\ at \in 0..n
    /\ \A i \in 0..(n - 1) : i < at => Before(f, ids, nd, i)
    /\ \A i \in 0..(n - 1) : at <= i => ~Before(f, ids, nd, i)

\* Nodes that come before nd are not preceded by others.
Monotone(f, ids, nd, n) ==
    \A i, j \in 0..(n - 1) : i < j /\ Before(f, ids, nd, j) => Before(f, ids, nd, i)

\* What the search ends with.
FoundAt(f, ids, nd, n, at) == IF at < n /\ SplitLabel(f, ids, at) = nd THEN at ELSE -1

\* sort.Search ends at the first node that does not come before nd, within as many rounds as there are nodes.
LEMMA Searches ==
    ASSUME NEW f, NEW ids, NEW nd, NEW n \in Nat, NodeCount(f) = n, Monotone(f, ids, nd, n)
    PROVE  \E at : IsFirst(f, ids, nd, n, at) /\ FindNode(f, ids, nd) = FoundAt(f, ids, nd, n, at)
<1> DEFINE reached(i) == ~Before(f, ids, nd, i)
           next(x) == IF x[1] >= x[2] THEN <<x[1], x[2]>>
                      ELSE IF reached((x[1] + x[2]) \div 2) THEN <<x[1], (x[1] + x[2]) \div 2>>
                      ELSE <<(x[1] + x[2]) \div 2 + 1, x[2]>>
           Eq(b) == b = [k \in 0..n |-> IF k = 0 THEN <<0, n>> ELSE next(b[k - 1])]
           c == CHOOSE b : Eq(b)
<1>1. FindNode(f, ids, nd) = FoundAt(f, ids, nd, n, c[n][1])
  <2> DEFINE EqN(b, m) == b = [k \in 0..m |-> IF k = 0 THEN <<0, m>> ELSE next(b[k - 1])]
             S(m) == (CHOOSE b : EqN(b, m))[m][1]
  <2>1. FindNode(f, ids, nd) = IF S(NodeCount(f)) < NodeCount(f) /\ SplitLabel(f, ids, S(NodeCount(f))) = nd
                               THEN S(NodeCount(f)) ELSE -1
    BY DEF FindNode, Search, Before
  <2>2. S(NodeCount(f)) = S(n) /\ S(n) = c[n][1]
    BY Zenon
  <2> HIDE DEF S, c
  <2> QED
    BY <2>1, <2>2, Zenon DEF FoundAt
<1>2. \E b : Eq(b)
  <2> DEFINE X == Int \X Int
             base == <<0, n>>
             step == [p \in X \X (1..n) |-> next(p[1])]
  <2>1. \A x \in X : next(x) \in X
    <3> HIDE DEF reached
    <3> QED
      OBVIOUS
  <2>2. base \in X
    OBVIOUS
  <2> HIDE DEF next, X
  <2>3. step \in [X \X (1..n) -> X] /\ \A x \in X : \A k \in 1..n : step[<<x, k>>] = next(x)
    BY <2>1
  <2> HIDE DEF step
  <2>4. PICK b : StepByStep(b, X, n, base, step)
    BY <2>2, <2>3, Recursion, Zenon
  <2>5. b \in [0..n -> X] /\ b[0] = base /\ \A k \in 1..n : b[k] = step[<<b[k - 1], k>>]
    BY <2>4, Zenon DEF StepByStep
  <2>6. \A k \in 1..n : b[k] = next(b[k - 1])
    <3> TAKE k \in 1..n
    <3>1. b[k - 1] \in X
      BY <2>5
    <3> QED
      BY <3>1, <2>3, <2>5, Zenon
  <2>7. \A k \in 0..n : b[k] = IF k = 0 THEN base ELSE next(b[k - 1])
    <3> HIDE DEF base
    <3> QED
      BY <2>5, <2>6
  <2>8. b = [k \in 0..n |-> IF k = 0 THEN base ELSE next(b[k - 1])]
    <3> HIDE DEF base
    <3> QED
      BY <2>5, <2>7
  <2> QED
    BY <2>8
<1>3. Eq(c)
  BY <1>2, Zenon
<1> HIDE DEF c
<1>4. c[0] = <<0, n>> /\ \A k \in 1..n : c[k] = next(c[k - 1])
  <2> HIDE DEF next
  <2> QED
    BY <1>3
<1> DEFINE P(k, x) == /\ x[1] \in Nat /\ x[2] \in Nat /\ x[1] <= x[2] /\ x[2] <= n /\ x[2] - x[1] <= n - k
                      /\ \A i \in 0..(n - 1) : i < x[1] => ~reached(i)
                      /\ \A i \in 0..(n - 1) : x[2] <= i => reached(i)
<1>5. \A i, j \in 0..(n - 1) : i < j /\ reached(i) => reached(j)
  BY Zenon DEF Monotone
<1>6. P(0, c[0])
  <2> HIDE DEF reached
  <2> QED
    BY <1>4
<1>7. ASSUME NEW k \in 1..n, P(k - 1, c[k - 1]) PROVE P(k, c[k])
  <2> DEFINE lo == c[k - 1][1]
             hi == c[k - 1][2]
             mid == (lo + hi) \div 2
  <2>0. c[k] = next(c[k - 1])
    BY <1>4, Zenon
  <2> HIDE DEF reached
  <2>1. /\ lo \in Nat /\ hi \in Nat /\ lo <= hi /\ hi <= n /\ hi - lo <= n - (k - 1)
        /\ \A i \in 0..(n - 1) : i < lo => ~reached(i)
        /\ \A i \in 0..(n - 1) : hi <= i => reached(i)
    BY <1>7, Zenon
  <2>2. CASE lo >= hi
    <3>1. c[k] = <<lo, hi>>
      BY <2>0, <2>2, Zenon
    <3> HIDE DEF lo, hi
    <3>2. c[k][1] = lo /\ c[k][2] = hi
      BY <3>1
    <3> QED
      BY <3>2, <2>1, <2>2
  <2>3. CASE lo < hi /\ reached(mid)
    <3>0. ~(lo >= hi)
      <4> HIDE DEF lo, hi
      <4> QED
        BY <2>1, <2>3
    <3>1. c[k] = <<lo, mid>>
      BY <2>0, <2>3, <3>0, Zenon
    <3> HIDE DEF lo, hi
    <3>a. mid \in Nat /\ lo <= mid /\ mid < hi
      BY <2>1, <2>3
    <3> HIDE DEF mid
    <3>2. c[k][1] = lo /\ c[k][2] = mid
      BY <3>1
    <3>3. \A i \in 0..(n - 1) : mid <= i => reached(i)
      <4> TAKE i \in 0..(n - 1)
      <4>1. CASE i = mid
        BY <2>3, <4>1
      <4>2. CASE mid < i
        <5>1. mid \in 0..(n - 1)
          BY <3>a, <4>2
        <5> QED
          BY <4>2, <5>1, <2>3, <1>5
      <4> QED
        BY <4>1, <4>2, <3>a
    <3> QED
      BY <3>2, <3>3, <3>a, <2>1
  <2>4. CASE lo < hi /\ ~reached(mid)
    <3>0. ~(lo >= hi)
      <4> HIDE DEF lo, hi
      <4> QED
        BY <2>1, <2>4
    <3>1. c[k] = <<mid + 1, hi>>
      BY <2>0, <2>4, <3>0, Zenon
    <3> HIDE DEF lo, hi
    <3>a. mid \in Nat /\ lo <= mid /\ mid < hi
      BY <2>1, <2>4
    <3> HIDE DEF mid
    <3>2. c[k][1] = mid + 1 /\ c[k][2] = hi
      BY <3>1
    <3>3. \A i \in 0..(n - 1) : i < mid + 1 => ~reached(i)
      <4> TAKE i \in 0..(n - 1)
      <4>1. CASE i = mid
        BY <2>4, <4>1
      <4>2. CASE i < mid
        <5>1. mid \in 0..(n - 1)
          BY <3>a, <2>1
        <5> QED
          BY <4>2, <5>1, <2>4, <1>5
      <4> QED
        BY <4>1, <4>2, <3>a
    <3> QED
      BY <3>2, <3>3, <3>a, <2>1
  <2> QED
    <3> HIDE DEF lo, hi
    <3> QED
      BY <2>1, <2>2, <2>3, <2>4
<1> DEFINE T == {k \in 0..n : P(k, c[k])}
<1>8. 0 \in T /\ \A k \in 1..n : k - 1 \in T => k \in T
  <2> HIDE DEF P
  <2> QED
    BY <1>6, <1>7
<1>9. n \in T
  <2>1. \A k \in 0..n : k \in T
    <3> HIDE DEF T
    <3> QED
      BY <1>8, UpTo
  <2> QED
    BY <2>1
<1>10. P(n, c[n])
  <2> HIDE DEF P
  <2> QED
    BY <1>9
<1> DEFINE at == c[n][1]
<1>11. at \in 0..n /\ (\A i \in 0..(n - 1) : i < at => ~reached(i)) /\ (\A i \in 0..(n - 1) : at <= i => reached(i))
  <2> HIDE DEF reached
  <2>1. c[n][2] = at /\ at \in Nat
    BY <1>10
  <2> QED
    BY <1>10, <2>1
<1>12. IsFirst(f, ids, nd, n, at)
  <2> HIDE DEF at
  <2> QED
    BY <1>11, Zenon DEF IsFirst
<1> QED
  BY <1>1, <1>12, Zenon

\* FindNode of the label l gives its node, or -1 where no node has it.
Finds(g, e, n, l, r) ==
    /\ \A i \in 0..(n - 1) : l = NodeLabel(g, e, i) => r = i
    /\ (\A i \in 0..(n - 1) : l # NodeLabel(g, e, i)) => r = -1

\* Where packages or names cannot be expanded, every node has the same empty label and none is found.
LEMMA FindsNone ==
    ASSUME NEW g, NEW e, NEW n \in Nat, NEW f, NodeCount(f) = n, ~Splits(f),
           NEW ids, LabelsRead(g, e, n, f, ids), NEW l, IsLabel(l)
    PROVE  FindNode(f, ids, splitLabel(l)) = -1
<1> DEFINE nd == splitLabel(l)
           z == [pkg |-> <<>>, name |-> <<>>]
<1>1. joinLabel(nd.pkg, nd.name) = l /\ l # <<>>
  BY SplitJoin, Zenon DEF IsLabel
<1> HIDE DEF nd
<1>2. \A i \in 0..(n - 1) : SplitLabel(f, ids, i) = z
  BY Zenon DEF LabelsRead
<1>3. nd # z
  <2> SUFFICES ASSUME nd = z PROVE FALSE
    OBVIOUS
  <2>1. nd.pkg = <<>> /\ nd.name = <<>>
    OBVIOUS
  <2>2. joinLabel(<<>>, <<>>) = <<>>
    BY Zenon DEF joinLabel
  <2> QED
    BY <1>1, <2>1, <2>2, Zenon
<1> HIDE DEF z
<1>4. Monotone(f, ids, nd, n)
  <2> SUFFICES ASSUME NEW i \in 0..(n - 1), NEW j \in 0..(n - 1), i < j, Before(f, ids, nd, j) PROVE Before(f, ids, nd, i)
    BY Zenon DEF Monotone
  <2>1. SplitLabel(f, ids, i) = SplitLabel(f, ids, j)
    BY <1>2, Zenon
  <2> QED
    BY <2>1, Zenon DEF Before
<1>5. PICK at : IsFirst(f, ids, nd, n, at) /\ FindNode(f, ids, nd) = FoundAt(f, ids, nd, n, at)
  BY <1>4, Searches, Zenon
<1>6. ~(at < n /\ SplitLabel(f, ids, at) = nd)
  <2> SUFFICES ASSUME at < n, SplitLabel(f, ids, at) = nd PROVE FALSE
    OBVIOUS
  <2>1. at \in 0..n
    BY <1>5, Zenon DEF IsFirst
  <2>2. at \in 0..(n - 1)
    BY <2>1
  <2> QED
    BY <2>2, <1>2, <1>3, Zenon
<1>7. FindNode(f, ids, nd) = -1
  BY <1>5, <1>6, Zenon DEF FoundAt
<1> QED
  BY <1>7 DEF nd

\* Where they can, the search ends at the node.
LEMMA FindsNode ==
    ASSUME NEW g, Input(g), Labelled(g), NEW e, IsEncoder(g, e), NEW n \in Nat, n = Len(g.targets),
           NEW f, NodeCount(f) = n, Splits(f), NEW ids, LabelsRead(g, e, n, f, ids), NEW l, IsLabel(l)
    PROVE  Finds(g, e, n, l, FindNode(f, ids, splitLabel(l)))
<1> DEFINE nd == splitLabel(l)
           s(i) == SplitLabel(f, ids, i)
<1>1. IsNode(nd) /\ joinLabel(nd.pkg, nd.name) = l /\ nd = [pkg |-> nd.pkg, name |-> nd.name]
  BY SplitJoin, Zenon DEF IsNode
<1>2. ASSUME NEW i \in 0..(n - 1)
      PROVE  /\ i + 1 \in 1..n
             /\ s(i) = [pkg |-> e.nodes[i + 1].pkg, name |-> e.nodes[i + 1].name]
             /\ s(i).pkg = e.nodes[i + 1].pkg /\ s(i).name = e.nodes[i + 1].name
             /\ IsNode(s(i))
             /\ joinLabel(s(i).pkg, s(i).name) = NodeLabel(g, e, i)
             /\ s(i).pkg = splitLabel(NodeLabel(g, e, i)).pkg /\ s(i).name = splitLabel(NodeLabel(g, e, i)).name
  <2>1. i + 1 \in 1..n
    OBVIOUS
  <2>2. s(i) = [pkg |-> e.nodes[i + 1].pkg, name |-> e.nodes[i + 1].name]
    BY Zenon DEF LabelsRead
  <2>3. s(i).pkg = e.nodes[i + 1].pkg /\ s(i).name = e.nodes[i + 1].name
    <3> HIDE DEF s
    <3> QED
      BY <2>2
  <2>4. /\ IsNode(e.nodes[i + 1])
        /\ e.nodes[i + 1].pkg = splitLabel(NodeLabel(g, e, i)).pkg
        /\ e.nodes[i + 1].name = splitLabel(NodeLabel(g, e, i)).name
        /\ joinLabel(e.nodes[i + 1].pkg, e.nodes[i + 1].name) = NodeLabel(g, e, i)
    BY <2>1, Zenon DEF IsEncoder, IsNodes, NodeLabel
  <2>5. IsNode(s(i))
    BY <2>3, <2>4, Zenon DEF IsNode
  <2> QED
    BY <2>1, <2>2, <2>3, <2>4, <2>5, Zenon
<1>3. ASSUME NEW i \in 0..(n - 1), NEW j \in 0..(n - 1), i < j PROVE NodeLess(s(i), s(j))
  <2>1. i + 1 < j + 1
    BY <1>3
  <2>2. NodeLess(e.nodes[i + 1], e.nodes[j + 1])
    BY <1>2, <2>1, Zenon DEF IsEncoder, IsNodes
  <2>3. /\ s(i).pkg = e.nodes[i + 1].pkg /\ s(i).name = e.nodes[i + 1].name
        /\ s(j).pkg = e.nodes[j + 1].pkg /\ s(j).name = e.nodes[j + 1].name
    BY <1>2, Zenon
  <2> HIDE DEF s
  <2> QED
    BY <2>2, <2>3, Zenon DEF NodeLess
<1> HIDE DEF nd
<1>4. Monotone(f, ids, nd, n)
  <2> SUFFICES ASSUME NEW i \in 0..(n - 1), NEW j \in 0..(n - 1), i < j, NodeLess(s(j), nd) PROVE NodeLess(s(i), nd)
    BY Zenon DEF Monotone, Before
  <2>1. NodeLess(s(i), s(j)) /\ IsNode(s(i)) /\ IsNode(s(j))
    BY <1>2, <1>3, Zenon
  <2> HIDE DEF s
  <2> QED
    BY <1>1, <2>1, NodeOrder, Zenon
<1>5. PICK at : IsFirst(f, ids, nd, n, at) /\ FindNode(f, ids, nd) = FoundAt(f, ids, nd, n, at)
  BY <1>4, Searches, Zenon
<1>6. /\ at \in 0..n
      /\ \A i \in 0..(n - 1) : i < at => NodeLess(s(i), nd)
      /\ \A i \in 0..(n - 1) : at <= i => ~NodeLess(s(i), nd)
  BY <1>5, Zenon DEF IsFirst, Before
<1>7. FindNode(f, ids, nd) = IF at < n /\ s(at) = nd THEN at ELSE -1
  BY <1>5, Zenon DEF FoundAt
<1>8. ASSUME NEW i \in 0..(n - 1), l = NodeLabel(g, e, i) PROVE FindNode(f, ids, nd) = i
  <2>1. s(i) = nd
    <3>1. s(i).pkg = nd.pkg /\ s(i).name = nd.name
      BY <1>2, <1>8, Zenon DEF nd
    <3>2. s(i) = [pkg |-> s(i).pkg, name |-> s(i).name]
      <4>1. /\ s(i) = [pkg |-> e.nodes[i + 1].pkg, name |-> e.nodes[i + 1].name]
            /\ s(i).pkg = e.nodes[i + 1].pkg /\ s(i).name = e.nodes[i + 1].name
        BY <1>2, Zenon
      <4> HIDE DEF s
      <4> QED
        BY <4>1, Zenon
    <3> HIDE DEF s
    <3> QED
      BY <3>1, <3>2, <1>1, Zenon
  <2>2. ~NodeLess(s(i), nd)
    BY <1>1, <2>1, NodeOrder, Zenon
  <2>3. ~(i < at)
    BY <1>6, <2>2, Zenon
  <2>4. ~(at < i)
    <3> SUFFICES ASSUME at < i PROVE FALSE
      OBVIOUS
    <3>1. at \in 0..(n - 1) /\ at <= at
      BY <1>6
    <3>2. NodeLess(s(at), s(i)) /\ ~NodeLess(s(at), nd)
      BY <3>1, <1>3, <1>6, Zenon
    <3> QED
      BY <3>2, <2>1, Zenon
  <2>5. at = i /\ at < n
    BY <2>3, <2>4, <1>6
  <2> HIDE DEF s
  <2> QED
    BY <2>1, <2>5, <1>7, Zenon
<1>9. ASSUME \A i \in 0..(n - 1) : l # NodeLabel(g, e, i) PROVE FindNode(f, ids, nd) = -1
  <2>1. ~(at < n /\ s(at) = nd)
    <3> SUFFICES ASSUME at < n, s(at) = nd PROVE FALSE
      BY Zenon
    <3>1. at \in 0..(n - 1)
      BY <1>6
    <3>2. joinLabel(s(at).pkg, s(at).name) = NodeLabel(g, e, at)
      BY <3>1, <1>2, Zenon
    <3> HIDE DEF s
    <3> QED
      BY <3>1, <3>2, <1>1, <1>9, Zenon
  <2> HIDE DEF s
  <2> QED
    BY <2>1, <1>7, Zenon
<1> QED
  BY <1>8, <1>9, Zenon DEF Finds, nd

\* A goroutine that lacks nothing obtained the kept columns.
LEMMA ObtainedAll ==
    ASSUME CodecInv, AllRead, NEW p \in Readers
    PROVE  HasKept(file, call[p].have)
<1>1. ReadersOk(file, cache, call)
  BY Zenon DEF CodecInv, AllRead
<1>2. IsCall(file, call[p])
  BY <1>1, Zenon DEF ReadersOk
<1>3. Kept \ DOMAIN call[p].have = {}
  BY Zenon DEF AllRead, Lacks
<1>4. "pkg" \in Kept /\ "name" \in Kept /\ "ruleType" \in Kept
  BY DEF Kept
<1>5. \A c \in Kept : c \in DOMAIN call[p].have
  BY <1>3, Zenon
<1>6. \A c \in Kept : call[p].have[c] = DecodeKept(file, c)
  BY <1>2, <1>5, Zenon DEF IsCall
<1> QED
  BY <1>4, <1>6, Zenon DEF HasKept

\* The file that is open is the file of the graph, and the goroutines read its labels.
OpenFile(e, n) ==
    /\ Input(graph) /\ Labelled(graph) /\ IsEncoder(graph, e) /\ n \in Nat /\ n = Len(graph.targets)
    /\ EncodesAll(graph, e, n) /\ IsFile(graph, e, n, file) /\ NodeCount(file) = n
    /\ \A p \in Readers : LabelsRead(graph, e, n, file, call[p].have)

\* Once all is read the file that is open is that of the graph.
LEMMA OpensFile ==
    ASSUME CodecInv, AllRead
    PROVE  OpenFile(newEncoder(graph), Len(graph.targets))
<1> DEFINE e == newEncoder(graph)
           n == Len(graph.targets)
<1>1. graph \in Graphs /\ WellFormed(graph) /\ file = EncodeInOrder(graph)
  <2>1. status = "open"
    BY Zenon DEF AllRead
  <2>2. status \in {"written", "open"}
    BY <2>1, Zenon
  <2> QED
    BY <2>2, Zenon DEF CodecInv
<1>2. Input(graph)
  BY <1>1, InputGraph, Zenon
<1>3. EncodesAll(graph, e, n) /\ n \in Nat /\ IsFile(graph, e, n, file)
  BY <1>1, <1>2, FileIsFile, Zenon
<1>4. IsEncoder(graph, e) /\ Labelled(graph)
  BY <1>1, <1>2, AllEncoded, Zenon
<1>5. NodeCount(file) = n
  BY <1>3, Zenon DEF IsFile
<1> HIDE DEF e
<1>6. ASSUME NEW p \in Readers PROVE LabelsRead(graph, e, n, file, call[p].have)
  <2>1. HasKept(file, call[p].have)
    BY ObtainedAll, Zenon
  <2> QED
    BY <2>1, <1>3, <1>4, ReadsLabels, Zenon
<1>7. OpenFile(e, n)
  BY <1>2, <1>3, <1>4, <1>5, <1>6, Zenon DEF OpenFile
<1> QED
  BY <1>7, Zenon DEF e

\* Every label of a graph that may be encoded is the label of one of its targets or of another graph's,
\* and begins with no colon.
LEMMA LabelsAreLabels ==
    ASSUME NEW l \in Labels PROVE IsLabel(l)
<1>1. PICK g \in Graphs : l \in {g.meta.targets[id] : id \in DOMAIN g.meta.targets}
  BY Zenon DEF Labels
<1>2. PICK id \in DOMAIN g.meta.targets : l = g.meta.targets[id]
  BY <1>1, Zenon
<1>3. Input(g)
  BY GraphsAssumption, Zenon
<1>4. Table(g.meta.targets) /\ g.meta.targets[id] # <<>> /\ g.meta.targets[id][1] # Colon
  BY <1>3, <1>2, Zenon DEF Input
<1>5. g.meta.targets[id] \in Seq(Nat)
  BY <1>4, Zenon DEF Table
<1> QED
  BY <1>2, <1>4, <1>5, Zenon DEF IsLabel

\* FindNode gives the node of every label of the graph and none for any other, and never a wrong one.
THEOREM FindsExactly == Spec => []FindNodeExact
<1>1. CodecInv => FindNodeExact
  <2> SUFFICES ASSUME CodecInv, AllRead, NEW p \in Readers, NEW l \in Labels
               PROVE  LET i == FindNode(file, call[p].have, splitLabel(l))
                      IN  IF l \in DOMAIN Meaning(graph) /\ Splits(file)
                          THEN i >= 0 /\ Label(file, call[p].have, i) = l
                          ELSE i = -1
    BY Zenon DEF FindNodeExact, Splits
  <2> DEFINE e == newEncoder(graph)
             n == Len(graph.targets)
             ids == call[p].have
             r == FindNode(file, ids, splitLabel(l))
  <2>1. OpenFile(e, n)
    BY OpensFile, Zenon
  <2> HIDE DEF e
  <2>2. /\ Input(graph) /\ Labelled(graph) /\ IsEncoder(graph, e) /\ n \in Nat /\ NodeCount(file) = n
        /\ LabelsRead(graph, e, n, file, ids)
    BY <2>1, Zenon DEF OpenFile
  <2>3. IsLabel(l)
    BY LabelsAreLabels, Zenon
  <2>4. Splits(file) => Finds(graph, e, n, l, r)
    BY <2>2, <2>3, FindsNode, Zenon
  <2>9. ~Splits(file) => r = -1
    BY <2>2, <2>3, FindsNone, Zenon
  <2>5. DOMAIN Meaning(graph) = {NodeLabel(graph, e, i) : i \in 0..(n - 1)}
    <3>1. IsMeaning(graph, e, n, Meaning(graph))
      BY <2>2, MeaningByNodes, Zenon
    <3> QED
      BY <3>1, Zenon DEF IsMeaning
  <2> HIDE DEF r, ids
  <2>6. CASE l \in DOMAIN Meaning(graph) /\ Splits(file)
    <3>1. PICK i \in 0..(n - 1) : l = NodeLabel(graph, e, i)
      BY <2>5, <2>6, Zenon
    <3>2. r = i
      BY <3>1, <2>4, <2>6, Zenon DEF Finds
    <3>3. Label(file, ids, i) = l
      BY <3>1, <2>2, <2>6, Zenon DEF LabelsRead
    <3>4. i >= 0
      BY <2>2
    <3> QED
      BY <2>6, <3>2, <3>3, <3>4, Zenon DEF r, ids
  <2>7. CASE l \notin DOMAIN Meaning(graph) /\ Splits(file)
    <3>1. \A i \in 0..(n - 1) : l # NodeLabel(graph, e, i)
      BY <2>5, <2>7, Zenon
    <3>2. r = -1
      BY <3>1, <2>4, <2>7, Zenon DEF Finds
    <3> QED
      BY <2>7, <3>2, Zenon DEF r, ids
  <2>8. CASE ~Splits(file)
    BY <2>8, <2>9, Zenon DEF r, ids
  <2> QED
    BY <2>6, <2>7, <2>8
<1> QED
  BY <1>1, CodecInvariant, PTL

-----------------------------------------------------------------------------
(* The accessors of a Reader, against each other and against the graph. *)

\* Where no name is empty all are kept.
LEMMA KeepsTags ==
    ASSUME NEW S, NEW names \in Seq(S), \A k \in 1..Len(names) : names[k] # <<>>
    PROVE  keptTags(names) = names
<1> DEFINE n == Len(names)
           next(x, k) == IF names[k] = <<>> THEN x ELSE Append(x, names[k])
           Eq(b) == b = [k \in 0..n |-> IF k = 0 THEN <<>> ELSE next(b[k - 1], k)]
           c == CHOOSE b : Eq(b)
           d == [k \in 0..n |-> SubSeq(names, 1, k)]
<1>0. n \in Nat
  OBVIOUS
<1>1. keptTags(names) = c[n]
  BY DEF keptTags
<1>2. \A k \in 1..n : next(SubSeq(names, 1, k - 1), k) = SubSeq(names, 1, k)
  <2> TAKE k \in 1..n
  <2>1. next(SubSeq(names, 1, k - 1), k) = Append(SubSeq(names, 1, k - 1), names[k])
    BY Zenon
  <2>2. Append(SubSeq(names, 1, k - 1), names[k]) = SubSeq(names, 1, k)
    <3> DEFINE a == SubSeq(names, 1, k - 1)
               z == Append(a, names[k])
               y == SubSeq(names, 1, k)
    <3>1. a \in Seq(S) /\ Len(a) = k - 1 /\ \A j \in 1..(k - 1) : a[j] = names[j]
      BY <1>0
    <3>2. y \in Seq(S) /\ Len(y) = k /\ \A j \in 1..k : y[j] = names[j]
      BY <1>0
    <3> HIDE DEF a, y
    <3>3. z \in Seq(S) /\ Len(z) = k /\ \A j \in 1..k : z[j] = names[j]
      <4>1. names[k] \in S
        BY <1>0
      <4>2. z \in Seq(S) /\ Len(z) = k
        BY <3>1, <4>1
      <4>3. \A j \in 1..(k - 1) : z[j] = a[j]
        BY <3>1
      <4>4. z[k] = names[k]
        BY <3>1
      <4>5. \A j \in 1..k : j \in 1..(k - 1) \/ j = k
        BY <1>0
      <4> QED
        BY <4>2, <4>3, <4>4, <4>5, <3>1, Zenon
    <3> HIDE DEF z
    <3>4. z = y
      BY <3>2, <3>3, SameSeq
    <3> QED
      BY <3>4 DEF z, y, a
  <2> QED
    BY <2>1, <2>2, Zenon
<1>3. SubSeq(names, 1, 0) = <<>> /\ SubSeq(names, 1, n) = names
  OBVIOUS
<1> HIDE DEF next
<1>4. Eq(d)
  <2>1. \A k \in 0..n : d[k] = SubSeq(names, 1, k)
    BY <1>0
  <2>2. \A k \in 0..n : SubSeq(names, 1, k) = IF k = 0 THEN <<>> ELSE next(d[k - 1], k)
    <3> TAKE k \in 0..n
    <3>1. CASE k = 0
      BY <3>1, <1>3, Zenon
    <3>2. CASE k # 0
      <4>1. k \in 1..n /\ k - 1 \in 0..n
        BY <3>2, <1>0
      <4>2. d[k - 1] = SubSeq(names, 1, k - 1)
        BY <4>1, <2>1, Zenon
      <4> QED
        BY <3>2, <4>1, <4>2, <1>2, Zenon
    <3> QED
      BY <3>1, <3>2
  <2> DEFINE a(k) == SubSeq(names, 1, k)
             b(k) == IF k = 0 THEN <<>> ELSE next(d[k - 1], k)
  <2>3. (\A k \in 0..n : a(k) = b(k)) /\ d = [k \in 0..n |-> a(k)]
    BY <2>2, Zenon
  <2> HIDE DEF d
  <2>4. d = [k \in 0..n |-> b(k)]
    <3> HIDE DEF a, b
    <3> QED
      BY <2>3
  <2> QED
    BY <2>4
<1>5. Eq(c)
  <2> HIDE DEF d
  <2> QED
    BY <1>4, Zenon
<1> HIDE DEF c
<1>6. c[0] = <<>> /\ \A k \in 1..n : c[k] = next(c[k - 1], k)
  <2>1. \A k \in 0..n : c[k] = IF k = 0 THEN <<>> ELSE next(c[k - 1], k)
    BY <1>5
  <2> QED
    BY <2>1, <1>0
<1> DEFINE T == {k \in 0..n : c[k] = SubSeq(names, 1, k)}
<1>7. 0 \in T
  <2>1. 0 \in 0..n
    BY <1>0
  <2> QED
    BY <2>1, <1>3, <1>6, Zenon
<1>8. ASSUME NEW k \in 1..n, k - 1 \in T PROVE k \in T
  <2>1. c[k - 1] = SubSeq(names, 1, k - 1)
    BY <1>8, Zenon
  <2>2. c[k] = SubSeq(names, 1, k)
    BY <2>1, <1>2, <1>6, Zenon
  <2>3. k \in 0..n
    BY <1>0
  <2> QED
    BY <2>2, <2>3, Zenon
<1>9. n \in T
  <2> HIDE DEF T
  <2>1. \A k \in 0..n : k \in T
    BY <1>0, <1>7, <1>8, UpTo
  <2> QED
    BY <2>1, <1>0
<1> QED
  BY <1>1, <1>3, <1>9, Zenon

\* Names and values by the dictionaries; a repeated name would keep its last value.
StringAttrs(dn, dv, nms, vls) ==
    [s \in {Entry(dn, nms[k]) : k \in 1..Len(nms)} |->
        Entry(dv, vls[Max({k \in 1..Len(nms) : Entry(dn, nms[k]) = s})])]

\* Attributes read one node at a time say what the target's attributes say.
LEMMA ReadsStringAttrs ==
    ASSUME NEW g, Input(g), NEW e, IsEncoder(g, e), NEW t, TargetOk(g, t), IsAttrs(e, t, SortedAttrs(e, t)),
           NEW nms, NEW vls, AttrRuns(e, t, nms, vls)
    PROVE  MapsAttrs(g.meta.attrNames, g.meta.attrVals, t.attrs,
                     StringAttrs(e.dict.attrName, e.dict.attrVal, nms, vls))
<1> DEFINE kvs == SortedAttrs(e, t)
           n == Len(nms)
           dn == e.dict.attrName
           dv == e.dict.attrVal
           gn == g.meta.attrNames
           gv == g.meta.attrVals
           F == StringAttrs(dn, dv, nms, vls)
           name(k) == Entry(dn, nms[k])
           D == {name(k) : k \in 1..n}
           I(s) == {k \in 1..n : name(k) = s}
           w(s) == Entry(dv, vls[Max(I(s))])
<1>1. /\ n \in Nat
      /\ \A k \in 1..n : \E a \in DOMAIN t.attrs : kvs[k].name = e.attrName[a] /\ kvs[k].val = e.attrVal[t.attrs[a]]
      /\ \A a \in DOMAIN t.attrs : \E k \in 1..n : kvs[k].name = e.attrName[a] /\ kvs[k].val = e.attrVal[t.attrs[a]]
      /\ \A j, k \in 1..n : kvs[j].name = kvs[k].name => j = k
  BY Zenon DEF IsAttrs, AttrRuns
<1>2. \A k \in 1..n : nms[k] = kvs[k].name /\ vls[k] = kvs[k].val
  BY Zenon DEF AttrRuns
<1>3. IsRemap(gn, dn, e.attrName) /\ IsRemap(gv, dv, e.attrVal)
  BY Zenon DEF IsEncoder
<1>4. \A a \in DOMAIN t.attrs : a \in DOMAIN gn /\ t.attrs[a] \in DOMAIN gv
  BY Zenon DEF TargetOk
<1>5. \A a \in DOMAIN t.attrs : Entry(dn, e.attrName[a]) = gn[a] /\ Entry(dv, e.attrVal[t.attrs[a]]) = gv[t.attrs[a]]
  <2>1. \A a \in DOMAIN t.attrs : /\ e.attrName[a] \in 0..(Len(dn) - 1) /\ dn[e.attrName[a] + 1] = gn[a]
                                  /\ e.attrVal[t.attrs[a]] \in 0..(Len(dv) - 1) /\ dv[e.attrVal[t.attrs[a]] + 1] = gv[t.attrs[a]]
    BY <1>3, <1>4, Zenon DEF IsRemap
  <2>2. dn \in Seq(Seq(Nat)) /\ dv \in Seq(Seq(Nat))
    BY <1>3, Zenon DEF IsRemap, IsDict
  <2>3. Len(dn) \in Nat /\ Len(dv) \in Nat
    BY <2>2
  <2> QED
    BY <2>1, <2>3, EntryRead, Zenon
<1>6. \A a, b \in DOMAIN t.attrs : gn[a] = gn[b] => a = b
  <2>1. Distinct(gn)
    BY Zenon DEF Input
  <2> QED
    BY <2>1, <1>4, Zenon DEF Distinct
<1>7. F = [s \in D |-> w(s)]
  BY Zenon DEF StringAttrs
<1> HIDE DEF kvs, dn, dv, gn, gv
<1>k. \A k \in 1..n : \E a \in DOMAIN t.attrs : kvs[k].name = e.attrName[a]
  BY <1>1, Zenon
<1>8. ASSUME NEW k \in 1..n, NEW a \in DOMAIN t.attrs, kvs[k].name = e.attrName[a] PROVE name(k) = gn[a]
  BY <1>2, <1>5, <1>8, Zenon
<1>9. ASSUME NEW a \in DOMAIN t.attrs PROVE gn[a] \in D /\ w(gn[a]) = gv[t.attrs[a]]
  <2>1. PICK k \in 1..n : kvs[k].name = e.attrName[a] /\ kvs[k].val = e.attrVal[t.attrs[a]]
    BY <1>1, Zenon
  <2>2. name(k) = gn[a]
    BY <2>1, <1>8, Zenon
  <2>3. \A j \in 1..n : name(j) = gn[a] <=> j = k
    <3> TAKE j \in 1..n
    <3>1. PICK b \in DOMAIN t.attrs : kvs[j].name = e.attrName[b]
      BY <1>k, Zenon
    <3>2. name(j) = gn[b]
      BY <3>1, <1>8, Zenon
    <3>3. ASSUME name(j) = gn[a] PROVE j = k
      <4>1. b = a
        BY <3>2, <3>3, <1>6, Zenon
      <4>2. kvs[j].name = kvs[k].name
        BY <4>1, <3>1, <2>1, Zenon
      <4> QED
        BY <4>2, <1>1, Zenon
    <3> QED
      BY <3>3, <2>2, Zenon
  <2>4. I(gn[a]) = {k}
    BY <2>3, Zenon
  <2>5. Max({k}) = k
    <3>1. k \in Int
      BY <1>1
    <3> QED
      BY <3>1, MaxMinOne, Zenon
  <2>6. w(gn[a]) = Entry(dv, kvs[k].val)
    BY <2>4, <2>5, <1>2, Zenon
  <2> QED
    BY <2>1, <2>2, <2>6, <1>5, Zenon
<1>10. D = {gn[a] : a \in DOMAIN t.attrs}
  <2>1. {gn[a] : a \in DOMAIN t.attrs} \subseteq D
    BY <1>9, Zenon
  <2>2. ASSUME NEW k \in 1..n PROVE name(k) \in {gn[a] : a \in DOMAIN t.attrs}
    <3>1. PICK a \in DOMAIN t.attrs : kvs[k].name = e.attrName[a]
      BY <1>1, Zenon
    <3>2. name(k) = gn[a]
      BY <3>1, <1>8, Zenon
    <3> QED
      BY <3>2, Zenon
  <2>3. D \subseteq {gn[a] : a \in DOMAIN t.attrs}
    BY <2>2, Zenon
  <2> QED
    BY <2>1, <2>3, Zenon
<1> HIDE DEF D, w, F
<1>11. DOMAIN F = D /\ F = [s \in DOMAIN F |-> F[s]] /\ \A s \in D : F[s] = w(s)
  BY <1>7
<1>12. \A a \in DOMAIN t.attrs : F[gn[a]] = gv[t.attrs[a]]
  BY <1>9, <1>11, Zenon
<1>13. MapsAttrs(gn, gv, t.attrs, F)
  BY <1>10, <1>11, <1>12, Zenon DEF MapsAttrs
<1> QED
  BY <1>13 DEF F, gn, gv, dn, dv

\* The target of a node, materialized, says what the target of the graph says.
LEMMA Materializes ==
    ASSUME NEW g, Input(g), NEW e, IsEncoder(g, e), NEW n \in Nat, n = Len(g.targets), EncodesAll(g, e, n),
           NEW f, IsFile(g, e, n, f), expandAllDicts(f), NEW ids, LabelsRead(g, e, n, f, ids), NEW i \in 0..(n - 1)
    PROVE  materializeTarget(f, ids, i, Nil) = TargetMeaning(g, TargetAt(g, e, i))
<1> DEFINE t == TargetAt(g, e, i)
<1>1. IsTarget(t) /\ IsResolved(g, e, t)
  BY NodeLists, Zenon
<1>2. IsEncoded(g, e, i, EncodeNode(g, e, i)) /\ TargetOk(g, t)
  BY Zenon DEF EncodesAll
<1>0. DictsRead(e, f)
  BY ReadsDicts, Zenon
<1>3. AllDictsRead(e, f) /\ ListsRead(g, e, n, f) /\ NodeRead(f, i, t)
  BY <1>0, ReadsAllDicts, ReadsLists, ReadsNode, Zenon
<1>4. /\ Deps(f, i) = DepsOf(g, e, i) /\ Tags(f, i) = TagsAt(g, e, i)
      /\ RunAt(getColumn(f, "ATTR_NAME"), ensureAttrOffsets(f).nm, getColumn(f, "ATTR_DEG"), i)
           = EncodeNode(g, e, i).out.attrNms
      /\ RunAt(getColumn(f, "ATTR_VALUE"), ensureAttrOffsets(f).vl, getColumn(f, "ATTR_DEG"), i)
           = EncodeNode(g, e, i).out.attrVls
  BY <1>3, Zenon DEF ListsRead
<1>5. /\ Dict(f, "TAG_DICT") = e.dict.tag
      /\ Dict(f, "ATTR_NAME_DICT") = e.dict.attrName /\ Dict(f, "ATTR_VALUE_DICT") = e.dict.attrVal
  BY <1>3, Zenon DEF AllDictsRead
<1>6. Hash(f, i) = HashOf(t) /\ Root(f, i) = t.root /\ External(f, i) = t.ext
  BY <1>3, Zenon DEF NodeRead
<1>7. RuleType(f, ids, i) = g.meta.ruleTypes[t.ruleType]
  BY <1>3, Zenon DEF LabelsRead, AllDictsRead
<1>8. {Label(f, ids, d) : d \in ToSet(Deps(f, i))} = DepLabels(g, t)
  <2> DEFINE D == ToSet(DepsOf(g, e, i))
  <2>1. t.deps \in Seq(Nat)
    BY <1>1, Zenon DEF IsTarget
  <2>2. D \subseteq 0..(n - 1) /\ DepLabels(g, t) = {NodeLabel(g, e, d) : d \in D}
    BY <1>1, <2>1, NodeDepLabels, Zenon
  <2>3. ToSet(Deps(f, i)) = D
    BY <1>4, Zenon
  <2> HIDE DEF D
  <2>4. \A d \in D : Label(f, ids, d) = NodeLabel(g, e, d)
    BY <1>3, <2>2, Zenon DEF LabelsRead, AllDictsRead
  <2>5. {Label(f, ids, d) : d \in D} = {NodeLabel(g, e, d) : d \in D}
    BY <2>4, Zenon
  <2> QED
    BY <2>2, <2>3, <2>5, Zenon
<1>9. keptTags([k \in 1..Len(Tags(f, i)) |-> TagName(f, Tags(f, i)[k])]) = TagStrings(g, t)
  <2> DEFINE m == Len(t.tags)
             v == TagsAt(g, e, i)
             d == e.dict.tag
             a(k) == TagName(f, v[k])
             b(k) == d[v[k] + 1]
             s == [k \in 1..m |-> b(k)]
  <2>1. TagsByID(g, e, i)
    BY <1>1, NodeTagStrings, Zenon
  <2>2. /\ TagStrings(g, t) = s
        /\ \A p \in 1..m : v[p] \in 0..(Len(d) - 1) /\ \E k \in 1..m : b(p) = g.meta.tags[t.tags[k]]
    BY <2>1, Zenon DEF TagsByID
  <2>3. m \in Nat /\ Len(v) = m
    BY <1>1, Zenon DEF IsResolved, IsAscending, TagsAt
  <2>4. \A k \in 1..m : a(k) = b(k)
    BY <2>2, <1>5, Zenon DEF TagName
  <2>5. \A k \in 1..m : b(k) # <<>> /\ b(k) \in Seq(Nat)
    <3> TAKE k \in 1..m
    <3>1. PICK j \in 1..m : b(k) = g.meta.tags[t.tags[j]]
      BY <2>2, Zenon
    <3>2. t.tags[j] \in ToSet(t.tags)
      <4>1. t.tags \in Seq(Nat)
        BY <1>1, Zenon DEF IsTarget
      <4>2. j \in DOMAIN t.tags
        BY <4>1
      <4> QED
        BY <4>2, Zenon DEF ToSet
    <3>3. t.tags[j] \in DOMAIN g.meta.tags
      BY <3>2, <1>2, Zenon DEF TargetOk
    <3>4. g.meta.tags[t.tags[j]] # <<>> /\ Table(g.meta.tags)
      BY <3>3, Zenon DEF Input
    <3>5. g.meta.tags[t.tags[j]] \in Seq(Nat)
      BY <3>3, <3>4, Zenon DEF Table
    <3> QED
      BY <3>1, <3>4, <3>5, Zenon
  <2>6. [k \in 1..Len(Tags(f, i)) |-> TagName(f, Tags(f, i)[k])] = [k \in 1..m |-> a(k)]
    BY <1>4, <2>3, Zenon
  <2>7. [k \in 1..m |-> a(k)] = s
    <3> HIDE DEF a, b, m
    <3> QED
      BY <2>4
  <2>8. s \in Seq(Seq(Nat)) /\ Len(s) = m /\ \A k \in 1..m : s[k] = b(k)
    <3> HIDE DEF b, m
    <3> QED
      BY <2>3, <2>5
  <2> HIDE DEF s
  <2>9. \A k \in 1..Len(s) : s[k] # <<>>
    BY <2>5, <2>8, Zenon
  <2>10. keptTags(s) = s
    BY <2>8, <2>9, KeepsTags, Zenon
  <2> QED
    BY <2>2, <2>6, <2>7, <2>10, Zenon
<1>10. Attrs(f, i) = AttrStrings(g, t)
  <2> DEFINE nms == EncodeNode(g, e, i).out.attrNms
             vls == EncodeNode(g, e, i).out.attrVls
             F == StringAttrs(e.dict.attrName, e.dict.attrVal, nms, vls)
  <2>1. AttrRuns(e, t, nms, vls)
    BY <1>2, NodeAttrRuns, Zenon
  <2>2. IsAttrs(e, t, SortedAttrs(e, t))
    BY <1>1, Zenon DEF IsResolved
  <2>3. Attrs(f, i) = F
    BY <1>4, <1>5, Zenon DEF Attrs, StringAttrs
  <2> HIDE DEF nms, vls
  <2>4. MapsAttrs(g.meta.attrNames, g.meta.attrVals, t.attrs, F)
    BY <2>1, <2>2, <1>2, ReadsStringAttrs, Zenon
  <2>5. F = AttrStrings(g, t)
    <3> HIDE DEF F
    <3> QED
      BY <2>4, <1>2, NodeAttrStrings, Zenon
  <2> QED
    BY <2>3, <2>5, Zenon
<1>11. [s \in {x \in DOMAIN Attrs(f, i) : Nil = Nil \/ x \in Nil} |-> Attrs(f, i)[s]] = AttrStrings(g, t)
  <2> DEFINE F == AttrStrings(g, t)
  <2>1. {x \in DOMAIN Attrs(f, i) : Nil = Nil \/ x \in Nil} = DOMAIN F
    BY <1>10, Zenon
  <2>2. F = [s \in DOMAIN F |-> F[s]]
    BY <1>2, NodeAttrStrings, Zenon DEF MapsAttrs
  <2> HIDE DEF F
  <2> QED
    BY <2>1, <2>2, <1>10, Zenon DEF F
<1> QED
  BY <1>6, <1>7, <1>8, <1>9, <1>11, Zenon DEF materializeTarget, TargetMeaning

\* The semantic graph says what the graph says.
LEMMA SemanticSays ==
    ASSUME NEW g, Input(g), Labelled(g), NEW e, IsEncoder(g, e), NEW n \in Nat, n = Len(g.targets),
           EncodesAll(g, e, n), NEW f, IsFile(g, e, n, f), NodeCount(f) = n,
           expandAllDicts(f), NEW ids, LabelsRead(g, e, n, f, ids)
    PROVE  SemanticGraph(f, ids, Nil) = Meaning(g)
<1> DEFINE M == SemanticGraph(f, ids, Nil)
           D == {Label(f, ids, i) : i \in 0..(n - 1)}
           v(l) == materializeTarget(f, ids, FindNode(f, ids, splitLabel(l)), Nil)
<1>1. M = [l \in D |-> v(l)]
  BY Zenon DEF SemanticGraph
<1>0. Splits(f)
  <2>1. DictsRead(e, f)
    BY ReadsDicts, Zenon
  <2> QED
    BY <2>1, ReadsAllDicts, Zenon DEF AllDictsRead
<1>2. D = {NodeLabel(g, e, i) : i \in 0..(n - 1)}
  <2>1. \A i \in 0..(n - 1) : Label(f, ids, i) = NodeLabel(g, e, i)
    BY <1>0, Zenon DEF LabelsRead
  <2> QED
    BY <2>1, Zenon
<1>3. ASSUME NEW i \in 0..(n - 1) PROVE v(NodeLabel(g, e, i)) = TargetMeaning(g, TargetAt(g, e, i))
  <2>1. IsLabel(NodeLabel(g, e, i))
    <3>1. i + 1 \in 1..n
      OBVIOUS
    <3>2. e.nodes[i + 1].origIdx \in 1..n
      BY <3>1, Zenon DEF IsEncoder, IsNodes
    <3> QED
      BY <3>2, LabelsAt, Zenon DEF NodeLabel
  <2>2. Finds(g, e, n, NodeLabel(g, e, i), FindNode(f, ids, splitLabel(NodeLabel(g, e, i))))
    BY <1>0, <2>1, FindsNode, Zenon
  <2>3. FindNode(f, ids, splitLabel(NodeLabel(g, e, i))) = i
    BY <2>2, Zenon DEF Finds
  <2>4. materializeTarget(f, ids, i, Nil) = TargetMeaning(g, TargetAt(g, e, i))
    BY Materializes, Zenon
  <2> QED
    BY <2>3, <2>4, Zenon
<1> HIDE DEF M, D, v
<1>4. DOMAIN M = D /\ M = [l \in DOMAIN M |-> M[l]] /\ \A l \in D : M[l] = v(l)
  BY <1>1
<1>5. ASSUME NEW i \in 0..(n - 1) PROVE M[NodeLabel(g, e, i)] = TargetMeaning(g, TargetAt(g, e, i))
  <2>1. NodeLabel(g, e, i) \in D
    BY <1>2, Zenon
  <2> QED
    BY <2>1, <1>3, <1>4, Zenon
<1>6. IsMeaning(g, e, n, M)
  BY <1>2, <1>4, <1>5, Zenon DEF IsMeaning
<1>7. IsMeaning(g, e, n, Meaning(g))
  BY MeaningByNodes, Zenon
<1>8. M = Meaning(g)
  BY <1>6, <1>7, OneMeaning, Zenon
<1> QED
  BY <1>8 DEF M

\* The three ways to read the dependencies of node i.
DepsAgree(f, i) ==
    /\ Deps(f, i) = decodeDepColumns(f)[i + 1]
    /\ Deps(f, i) = SubSeq(DepsCSR(f).targets, DepsCSR(f).offsets[i + 1] + 1, DepsCSR(f).offsets[i + 2])

\* They agree: the offsets of the flat form are the totals of the lengths.
LEMMA DepsAgreeing ==
    ASSUME NEW g, Input(g), NEW e, IsEncoder(g, e), NEW n \in Nat, n = Len(g.targets), EncodesAll(g, e, n),
           NEW f, IsFile(g, e, n, f), NEW i \in 0..(n - 1)
    PROVE  DepsAgree(f, i)
<1> DEFINE lists == decodeDepColumns(f)
           a(k) == DepsOf(g, e, k - 1)
           degs == [j \in 1..Len(lists) |-> Len(lists[j])]
           csr == DepsCSR(f)
<1>1. ListsRead(g, e, n, f)
  BY ReadsLists, Zenon
<1>2. lists = [k \in 1..n |-> a(k)] /\ Deps(f, i) = DepsOf(g, e, i)
  BY <1>1, Zenon DEF ListsRead
<1>3. ASSUME NEW j \in 0..(n - 1) PROVE DepsOf(g, e, j) \in Seq(Int)
  <2>1. IsResolved(g, e, TargetAt(g, e, j))
    BY NodeLists, Zenon
  <2>2. IsAscending(NodeDeps(g, e, TargetAt(g, e, j)), Len(TargetAt(g, e, j).deps), DepsOf(g, e, j))
    BY <2>1, Zenon DEF IsResolved, DepsOf
  <2> QED
    BY <2>2, Zenon DEF IsAscending
<1>4. (\A k \in 1..n : k - 1 \in 0..(n - 1)) /\ i + 1 \in 1..n /\ (i + 1) - 1 = i /\ (i + 2) - 1 = i + 1
      /\ i + 1 \in 1..(n + 1) /\ i + 2 \in 1..(n + 1)
  OBVIOUS
<1>5. \A k \in 1..n : a(k) \in Seq(Int)
  BY <1>3, <1>4, Zenon
<1>6. a(i + 1) = DepsOf(g, e, i)
  BY <1>4, Zenon
<1>7. csr = [offsets |-> [k \in 1..(Len(lists) + 1) |-> Totals(degs)[k - 1]], targets |-> FlattenSeq(lists)]
  BY Zenon DEF DepsCSR
<1> HIDE DEF a, lists, csr
<1>8. lists \in [1..n -> Seq(Int)] /\ Len(lists) = n /\ lists[i + 1] = a(i + 1)
  BY <1>2, <1>4, <1>5
<1>9. degs \in [1..n -> Nat] /\ \A k \in 1..n : degs[k] = Len(lists[k])
  BY <1>8
<1> HIDE DEF degs
<1>10. AreRuns(Int, lists, degs, FlattenSeq(lists), n)
  BY <1>8, <1>9, FlattensRuns
<1>11. SubSeq(FlattenSeq(lists), Totals(degs)[(i + 1) - 1] + 1, Totals(degs)[i + 1]) = lists[i + 1]
  BY <1>4, <1>10, Zenon DEF AreRuns
<1>12. /\ csr.targets = FlattenSeq(lists)
       /\ csr.offsets[i + 1] = Totals(degs)[(i + 1) - 1] /\ csr.offsets[i + 2] = Totals(degs)[(i + 2) - 1]
  <2> DEFINE o(k) == Totals(degs)[k - 1]
             off == [k \in 1..(n + 1) |-> o(k)]
             flat == FlattenSeq(lists)
  <2>1. csr = [offsets |-> off, targets |-> flat]
    BY <1>7, <1>8, Zenon
  <2> HIDE DEF o, flat
  <2>2. off[i + 1] = o(i + 1) /\ off[i + 2] = o(i + 2)
    BY <1>4
  <2> HIDE DEF off
  <2>3. csr.targets = flat /\ csr.offsets = off
    BY <2>1
  <2> QED
    BY <2>2, <2>3, Zenon DEF o, flat
<1>13. Deps(f, i) = lists[i + 1]
  BY <1>2, <1>6, <1>8, Zenon
<1>14. Deps(f, i) = SubSeq(csr.targets, csr.offsets[i + 1] + 1, csr.offsets[i + 2])
  BY <1>4, <1>11, <1>12, <1>13, Zenon
<1> QED
  BY <1>13, <1>14, Zenon DEF DepsAgree, lists, csr

\* The rule type of node i as a string and as an ID.
RuleTypesAgree(f, ids, i) ==
    \A s \in ToSet(Dict(f, "RULETYPE_DICT")) :
        RuleType(f, ids, i) = s <=> ids.ruleType[i + 1] = RuleTypeDictID(f, s)

\* They agree: the strings of a dictionary are distinct.
LEMMA RuleTypesAgreeing ==
    ASSUME NEW g, NEW e, IsEncoder(g, e), NEW n \in Nat, n = Len(g.targets), NEW f, IsFile(g, e, n, f),
           NEW ids, LabelsRead(g, e, n, f, ids), NEW i \in 0..(n - 1)
    PROVE  RuleTypesAgree(f, ids, i)
<1> DEFINE d == e.dict.ruleType
           m == Len(d)
           x == ids.ruleType[i + 1]
<1>0. DictRead(f, "RULETYPE_DICT", d)
  BY ReadsDicts, Zenon DEF DictsRead
<1>1. CASE ~Expands(f, "RULETYPE_DICT")
  <2>1. Dict(f, "RULETYPE_DICT") = <<>>
    BY <1>0, <1>1, Zenon DEF DictRead
  <2>2. ToSet(<<>>) = {}
    BY DEF ToSet
  <2> QED
    BY <2>1, <2>2, Zenon DEF RuleTypesAgree
<1> SUFFICES ASSUME Expands(f, "RULETYPE_DICT") PROVE RuleTypesAgree(f, ids, i)
  BY <1>1, Zenon
<1>2. Dict(f, "RULETYPE_DICT") = d
  BY <1>0, Zenon DEF DictRead
<1>3. IsDict(d, Strings(g.meta.ruleTypes))
  BY Zenon DEF IsEncoder, IsRemap
<1>4. m \in Nat /\ d \in Seq(Seq(Nat)) /\ \A j, k \in 1..m : d[j] = d[k] => j = k
  BY <1>3, Zenon DEF IsDict
<1>5. x \in 0..(m - 1) /\ RuleType(f, ids, i) = d[x + 1]
  <2>1. x \in 0..(m - 1)
    BY Zenon DEF LabelsRead
  <2> QED
    BY <1>2, <1>4, <2>1, EntryRead, Zenon DEF RuleType
<1> SUFFICES ASSUME NEW s \in ToSet(d) PROVE RuleType(f, ids, i) = s <=> x = RuleTypeDictID(f, s)
  BY <1>2, Zenon DEF RuleTypesAgree
<1> DEFINE at == {k \in 1..m : d[k] = s}
<1>6. RuleTypeDictID(f, s) = IF at = {} THEN -1 ELSE Min(at) - 1
  BY <1>2, Zenon DEF RuleTypeDictID
<1> HIDE DEF d, x
<1>7. PICK k \in 1..m : s = d[k]
  <2>1. DOMAIN d = 1..m
    BY <1>4
  <2> QED
    BY <2>1, Zenon DEF ToSet
<1>8. at = {k}
  BY <1>4, <1>7, Zenon
<1>9. Min({k}) = k /\ k \in Int
  <2>1. k \in Int
    BY <1>4
  <2> QED
    BY <2>1, MaxMinOne, Zenon
<1>10. {k} # {}
  OBVIOUS
<1>11. RuleTypeDictID(f, s) = k - 1
  BY <1>6, <1>8, <1>9, <1>10, Zenon
<1>12. x + 1 \in 1..m
  BY <1>4, <1>5
<1>13. d[x + 1] = s <=> x + 1 = k
  BY <1>4, <1>7, <1>12, Zenon
<1>14. x + 1 = k <=> x = k - 1
  BY <1>4, <1>5, <1>9
<1> QED
  BY <1>5, <1>11, <1>13, <1>14, Zenon

\* Whatever a goroutine of the reader obtained, from the cache or by decoding, it reads the graph.
THEOREM ReadersAgree == Spec => []AccessorsAgree
<1>1. CodecInv => AccessorsAgree
  <2> SUFFICES ASSUME CodecInv, AllRead, NEW p \in Readers
               PROVE  /\ expandAllDicts(file) => SemanticGraph(file, call[p].have, Nil) = Meaning(graph)
                      /\ \A i \in 0..(NodeCount(file) - 1) :
                            RuleTypesAgree(file, call[p].have, i) /\ DepsAgree(file, i)
    BY Zenon DEF AccessorsAgree, RuleTypesAgree, DepsAgree
  <2> DEFINE e == newEncoder(graph)
             n == Len(graph.targets)
             ids == call[p].have
  <2>1. OpenFile(e, n)
    BY OpensFile, Zenon
  <2> HIDE DEF e
  <2>2. /\ Input(graph) /\ Labelled(graph) /\ IsEncoder(graph, e) /\ n \in Nat /\ EncodesAll(graph, e, n)
        /\ IsFile(graph, e, n, file) /\ NodeCount(file) = n /\ LabelsRead(graph, e, n, file, ids)
    BY <2>1, Zenon DEF OpenFile
  <2>3. expandAllDicts(file) => SemanticGraph(file, ids, Nil) = Meaning(graph)
    BY <2>2, SemanticSays, Zenon
  <2>4. ASSUME NEW i \in 0..(n - 1) PROVE RuleTypesAgree(file, ids, i) /\ DepsAgree(file, i)
    <3>1. RuleTypesAgree(file, ids, i)
      BY <2>2, RuleTypesAgreeing, Zenon
    <3>2. DepsAgree(file, i)
      BY <2>2, DepsAgreeing, Zenon
    <3> QED
      BY <3>1, <3>2
  <2> QED
    BY <2>2, <2>3, <2>4, Zenon
<1> QED
  BY <1>1, CodecInvariant, PTL

=============================================================================
