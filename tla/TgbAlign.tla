------------------------------- MODULE TgbAlign -------------------------------
(***************************************************************************)
(* Phases 0 and 1 of tgbdiff.Compare (align and bisectHashRun of           *)
(* internal/tgbdiff/compare.go) over the blocks that tgb.Encode cuts       *)
(* (buildBlocks of internal/tgb/encode.go): pair the nodes of two graphs   *)
(* that carry the same label, block by block where digests agree and by a  *)
(* merge-join of the gaps between, then bisect the paired runs for nodes   *)
(* whose hashes differ.                                                    *)
(*                                                                         *)
(* A digest is taken to be injective.  Positions start at 1 and ranges     *)
(* leave their end out.                                                    *)
(***************************************************************************)
EXTENDS TgbAlignState

inputVars == <<cuts, bLabels, aLabels, differ>>
alignVars == <<block, pairs, matched, gap, at, deleted, inserted>>
vars == <<stage, inputVars, alignVars, rest, runs, todo, marked>>

Pair(b, a, n) == [b |-> b, a |-> a, n |-> n]

-----------------------------------------------------------------------------
(* buildBlocks: a block ends after a label that asks for it, when it has    *)
(* grown to ForceAt nodes, and at the last node.                            *)

BlockEnds(s) ==
    LET size[i \in 0..Len(s)] ==
          IF i = 0 THEN 0
          ELSE IF i > 1 /\ (s[i - 1] \in cuts \/ size[i - 1] >= ForceAt) THEN 1 ELSE size[i - 1] + 1
    IN {i \in 1..Len(s) : s[i] \in cuts \/ size[i] >= ForceAt \/ i = Len(s)}

BlockCount(s) == Cardinality(BlockEnds(s))
BlockEnd(s, k) == Sorted(BlockEnds(s))[k] + 1
BlockStart(s, k) == IF k = 1 THEN 1 ELSE BlockEnd(s, k - 1)
\* blockDigest: the labels of a block in their order.
BlockDigest(s, k) == SubSeq(s, BlockStart(s, k), BlockEnd(s, k) - 1)

-----------------------------------------------------------------------------

\* Two graphs: every label is in neither, in one, or in both, there with the
\* same hash or with another.
Init ==
    /\ cuts \in CutSets
    /\ \E where \in [Labels -> {"neither", "before", "after", "same", "differ"}] :
         /\ bLabels = Sorted({l \in Labels : where[l] \in {"before", "same", "differ"}})
         /\ aLabels = Sorted({l \in Labels : where[l] \in {"after", "same", "differ"}})
         /\ differ = {l \in Labels : where[l] = "differ"}
    /\ stage = "match"
    /\ block = 1
    /\ pairs = << >> /\ matched = << >>
    /\ gap = 1
    /\ at = [b |-> 1, a |-> 1]
    /\ deleted = {} /\ inserted = {}
    /\ rest = {} /\ runs = << >> /\ todo = << >> /\ marked = {}

\* afterPos: blocks of the later graph behind it are not matched any more.
AfterPos == IF pairs = << >> THEN 1 ELSE AEnd(pairs[Len(pairs)])

\* Blocks of the later graph that the k-th of the earlier one may pair with.
\* Labels do not repeat, so that there is one block at most for a digest.
Candidates(k) ==
    {j \in 1..BlockCount(aLabels) : /\ BlockDigest(aLabels, j) = BlockDigest(bLabels, k)
                                  /\ BlockStart(aLabels, j) >= AfterPos}

\* Pair the next block of the earlier graph by its digest, if that can be.
MatchBlock ==
    /\ stage = "match"
    /\ block <= BlockCount(bLabels)
    /\ block' = block + 1
    /\ \/ /\ Candidates(block) = {}
          /\ UNCHANGED pairs
       \/ \E j \in Candidates(block) :
            pairs' = Append(pairs, Pair(BlockStart(bLabels, block), BlockStart(aLabels, j),
                                        Len(BlockDigest(bLabels, block))))
    /\ UNCHANGED <<stage, inputVars, matched, gap, at, deleted, inserted, rest, runs, todo, marked>>

\* All blocks are looked up.  A graph without nodes has no blocks, and all
\* of the other graph is one gap.
MatchDone ==
    /\ stage = "match"
    /\ block > BlockCount(bLabels)
    /\ stage' = "join"
    /\ matched' = pairs
    /\ UNCHANGED <<inputVars, block, pairs, gap, at, deleted, inserted, rest, runs, todo, marked>>

-----------------------------------------------------------------------------
(* mergeGap, over the gaps before, between and after the matched pairs.     *)

GapBEnd(k) == IF k <= Len(matched) THEN matched[k].b ELSE Len(bLabels) + 1
GapAEnd(k) == IF k <= Len(matched) THEN matched[k].a ELSE Len(aLabels) + 1
GapBStart(k) == IF k = 1 THEN 1 ELSE BEnd(matched[k - 1])
GapAStart(k) == IF k = 1 THEN 1 ELSE AEnd(matched[k - 1])

InGapB == at.b < GapBEnd(gap)
InGapA == at.a < GapAEnd(gap)

JoinSame ==
    /\ stage = "join"
    /\ InGapB /\ InGapA /\ bLabels[at.b] = aLabels[at.a]
    /\ pairs' = Append(pairs, Pair(at.b, at.a, 1))
    /\ at' = [b |-> at.b + 1, a |-> at.a + 1]
    /\ UNCHANGED <<stage, inputVars, block, matched, gap, deleted, inserted, rest, runs, todo, marked>>

JoinDeleted ==
    /\ stage = "join"
    /\ InGapB /\ (InGapA => bLabels[at.b] < aLabels[at.a])
    /\ deleted' = deleted \cup {at.b}
    /\ at' = [at EXCEPT !.b = @ + 1]
    /\ UNCHANGED <<stage, inputVars, block, pairs, matched, gap, inserted, rest, runs, todo, marked>>

JoinInserted ==
    /\ stage = "join"
    /\ InGapA /\ (InGapB => aLabels[at.a] < bLabels[at.b])
    /\ inserted' = inserted \cup {at.a}
    /\ at' = [at EXCEPT !.a = @ + 1]
    /\ UNCHANGED <<stage, inputVars, block, pairs, matched, gap, deleted, rest, runs, todo, marked>>

NextGap ==
    /\ stage = "join"
    /\ ~InGapB /\ ~InGapA /\ gap <= Len(matched)
    /\ gap' = gap + 1
    /\ at' = [b |-> GapBStart(gap'), a |-> GapAStart(gap')]
    /\ UNCHANGED <<stage, inputVars, block, pairs, matched, deleted, inserted, rest, runs, todo, marked>>

-----------------------------------------------------------------------------
(* The runs, and the comparison of the hash columns along them.             *)

\* All gaps are joined; the pairs are sorted by their place in the earlier graph.
JoinDone ==
    /\ stage = "join"
    /\ ~InGapB /\ ~InGapA /\ gap > Len(matched)
    /\ stage' = "merge"
    /\ rest' = Range(pairs)
    /\ UNCHANGED <<inputVars, alignVars, runs, todo, marked>>

\* Broken variant: only the earlier graph is looked at.
AdjacentBefore(prev, cur) == cur.b = BEnd(prev)

\* cur goes on where prev ends, on both sides.
Adjacent(prev, cur) == cur.b = BEnd(prev) /\ cur.a = AEnd(prev)

Merge(run, cur) == Pair(run.b, run.a, run.n + cur.n)

\* The next pair in that order.
NextPair == CHOOSE p \in rest : \A q \in rest : p.b <= q.b

\* It makes the last run longer or begins one.
MergePair ==
    /\ stage = "merge"
    /\ rest # {}
    /\ rest' = rest \ {NextPair}
    /\ \/ /\ runs # << >> /\ Adjacent(runs[Len(runs)], NextPair)
          /\ runs' = [runs EXCEPT ![Len(runs)] = Merge(@, NextPair)]
       \/ /\ ~(runs # << >> /\ Adjacent(runs[Len(runs)], NextPair))
          /\ runs' = Append(runs, NextPair)
    /\ UNCHANGED <<stage, inputVars, alignVars, todo, marked>>

MergeDone ==
    /\ stage = "merge"
    /\ rest = {}
    /\ stage' = "bisect"
    /\ todo' = runs
    /\ UNCHANGED <<inputVars, alignVars, rest, runs, marked>>

\* The bytes of the hash columns differ on a range.
BytesDiffer(p) == \E i \in 0..p.n - 1 : bLabels[p.b + i] \in differ

LeftHalf(p) == Pair(p.b, p.a, p.n \div 2)

\* Broken variant: the right half is as long as the left one.
RightHalfShort(p) == Pair(p.b + p.n \div 2, p.a + p.n \div 2, p.n \div 2)

RightHalf(p) == Pair(p.b + p.n \div 2, p.a + p.n \div 2, p.n - p.n \div 2)

\* Compare a range, and if it differs call bisectHashRun: it records a single node
\* or goes on with the two halves, the left one first.
Bisect ==
    /\ stage = "bisect"
    /\ todo # << >>
    /\ LET p == Head(todo)
       IN \/ /\ ~BytesDiffer(p)
             /\ todo' = Tail(todo)
             /\ UNCHANGED marked
          \/ /\ BytesDiffer(p) /\ p.n = 1
             /\ todo' = Tail(todo)
             /\ marked' = marked \cup {p.a}
          \/ /\ BytesDiffer(p) /\ p.n > 1
             /\ todo' = <<LeftHalf(p), RightHalf(p)>> \o Tail(todo)
             /\ UNCHANGED marked
    /\ UNCHANGED <<stage, inputVars, alignVars, rest, runs>>

BisectDone ==
    /\ stage = "bisect"
    /\ todo = << >>
    /\ stage' = "done"
    /\ UNCHANGED <<inputVars, alignVars, rest, runs, todo, marked>>

Next ==
    \/ MatchBlock \/ MatchDone
    \/ JoinSame \/ JoinDeleted \/ JoinInserted \/ NextGap \/ JoinDone
    \/ MergePair \/ MergeDone \/ Bisect \/ BisectDone

Spec == Init /\ [][Next]_vars
=============================================================================
