---------------------------- MODULE TgbAlignState ----------------------------
(***************************************************************************)
(* What TgbAlign works on and what it promises: the labels of the nodes    *)
(* that are paired, where blocks of them are cut, the state of align and   *)
(* bisectHashRun, and what is true of it when they return.  A label is a   *)
(* number, its place in the order of (package, name) tuples that all       *)
(* graphs are sorted by.                                                   *)
(***************************************************************************)
EXTENDS Integers, FiniteSets, Sequences, Functions

CONSTANTS Labels,    \* a set of numbers
          CutSets,   \* the sets of labels whose own hash may ask for a cut after them
          ForceAt    \* nodes after which a block is cut in any case

ASSUME LabelAssumption ==
    /\ Labels \subseteq Nat /\ IsFiniteSet(Labels)
    /\ ForceAt \in Nat \ {0}

\* The members of a finite set of numbers in ascending order.
Sorted(S) ==
    [i \in 1..Cardinality(S) |-> CHOOSE x \in S : Cardinality({y \in S : y < x}) = i - 1]

VARIABLES
    stage,     \* the next step
    cuts,      \* the labels that ask for a cut
    bLabels, aLabels,   \* the labels of the two graphs, sorted
    differ,    \* the labels that have another hash in the later graph
    block,     \* the block of the earlier graph that is looked up next
    pairs,     \* matched ranges, in the order they are found
    matched,   \* the pairs that blocks gave, from when all are looked up
    gap,       \* the gap between them that is joined next
    at,        \* at.b, at.a: the cursors of the merge-join
    deleted, inserted,   \* positions without a partner
    rest,      \* the pairs that are not yet part of a run
    runs,      \* maximal aligned runs
    todo,      \* the ranges whose hashes are to be compared, the next one first
    marked     \* positions of the later graph marked as changed

\* Where the ranges of a pair end.
BEnd(p) == p.b + p.n
AEnd(p) == p.a + p.n

-----------------------------------------------------------------------------

\* Positions paired by a set of ranges.
Paired(ps) == UNION {{<<p.b + i, p.a + i>> : i \in 0..p.n - 1} : p \in ps}

\* Where the same label stands in the two graphs.
SameLabel == {q \in (DOMAIN bLabels) \X (DOMAIN aLabels) : bLabels[q[1]] = aLabels[q[2]]}

\* What align returns: its runs pair exactly the nodes that carry the same
\* label, each once, in the order of both graphs and in as few runs as can
\* be, and every other node is deleted or inserted.
AlignmentExact ==
    stage \in {"bisect", "done"} =>
        /\ Paired(Range(runs)) = SameLabel
        /\ deleted = {i \in DOMAIN bLabels : \A j \in DOMAIN aLabels : bLabels[i] # aLabels[j]}
        /\ inserted = {j \in DOMAIN aLabels : \A i \in DOMAIN bLabels : bLabels[i] # aLabels[j]}
        /\ \A i \in 1..Len(runs) - 1 :
             /\ BEnd(runs[i]) <= runs[i + 1].b
             /\ AEnd(runs[i]) <= runs[i + 1].a
             /\ ~(runs[i + 1].b = BEnd(runs[i]) /\ runs[i + 1].a = AEnd(runs[i]))

\* What the bisection leaves marked: the nodes in both graphs whose hashes
\* differ, however the digests of the blocks they lie in agreed.
ChangedExact ==
    stage = "done" => marked = {j \in DOMAIN aLabels : aLabels[j] \in differ}
=============================================================================
