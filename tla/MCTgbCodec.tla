----------------------------- MODULE MCTgbCodec -----------------------------
(* Families of graphs over five labels for TLC.  The characters are '/' = 1, *)
(* ':' = 2 and letters above, so that the order of nodes ("a:t" before       *)
(* "a/b:t") differs from that of labels.                                     *)
EXTENDS TgbCodec

LabelList == << <<3, 2, 5>>, <<3, 1, 4, 2, 5>>, <<3, 2, 4>>, <<4, 2, 5>>, <<5>> >>

RuleTypes == (1 :> <<5, 3>>) @@ (2 :> <<5, 4>>)
TagStrings == (1 :> <<5>>) @@ (2 :> <<4, 4>>) @@ (3 :> <<4, 3>>)
AttrNames == (1 :> <<4>>) @@ (2 :> <<3>>)
AttrVals == (1 :> <<3, 3>>) @@ (2 :> <<3, 4>>)

\* What the targets of the five labels carry besides flags and dependencies.
TagsOf == << <<1, 2>>, <<>>, <<3, 3, 1>>, <<2>>, <<>> >>
AttrsOf == << 1 :> 2, <<>>, (1 :> 2) @@ (2 :> 1), 2 :> 2, <<>> >>
HashOf == << <<1, 2>>, <<0, 0>>, <<>>, <<2, 1>>, <<1, 1>> >>

\* The graph of the labels in order, with the given IDs and dependencies.
G(order, id, deps, roots, exts) ==
    [targets |-> [k \in 1..Len(order) |->
        LET l == order[k]
        IN  [id |-> id[l], hash |-> HashOf[l], ruleType |-> 1 + (l % 2),
             deps |-> [j \in 1..Len(deps[l]) |-> id[deps[l][j]]],
             tags |-> TagsOf[l], attrs |-> AttrsOf[l],
             root |-> l \in roots, ext |-> l \in exts]],
     meta |-> [targets |-> [x \in {id[order[k]] : k \in 1..Len(order)} |->
                   LabelList[CHOOSE l \in 1..5 : id[l] = x]],
               ruleTypes |-> RuleTypes, tags |-> TagStrings,
               attrNames |-> AttrNames, attrVals |-> AttrVals,
               files |-> IF 1 \in roots THEN (<<5>> :> <<1>>) @@ (<<4, 1>> :> <<2>>) ELSE <<>>]]

Dense == <<1, 2, 3, 4, 5>>
Sparse == <<70, 3, 41, 8, 1>>

Chain == << <<2>>, <<3>>, <<>>, <<3, 1>>, <<1>> >>
Diamond == << <<2, 3>>, <<4>>, <<4, 4>>, <<>>, <<>> >>
Cycle == << <<2>>, <<1, 4>>, <<3>>, <<2, 3>>, <<>> >>

Orders4 == {o \in [1..4 -> 1..4] : \A j, k \in 1..4 : o[j] = o[k] => j = k}

Shuffled == {G(o, id, Chain, {1, 4}, {2}) : o \in Orders4, id \in {Dense, Sparse}}

Shaped == {G(<<2, 4, 1, 3>>, Dense, d, r, {1, 2, 3, 4} \ r) :
              d \in {Diamond, Cycle}, r \in SUBSET (1..4)}

Sized == {G(<<1>>, Dense, << <<>> >>, {}, {}), G(<<>>, Dense, <<>>, {}, {}),
          G(<<3, 1, 2>>, Sparse, Chain, {1, 2, 3}, {1, 2, 3}),
          G(<<5, 4, 3, 2, 1>>, Dense, Cycle, {1, 5}, {2, 4, 5})}

\* One target spoilt: what Encode refuses.
Spoil(g, k) ==
    {[g EXCEPT !.targets[k].ruleType = 9], [g EXCEPT !.targets[k].hash = <<1>>],
     [g EXCEPT !.targets[k].hash = Nil], [g EXCEPT !.targets[k].deps = <<2, 9>>],
     [g EXCEPT !.targets[k].tags = <<1, 9>>], [g EXCEPT !.targets[k].attrs = 9 :> 1],
     [g EXCEPT !.targets[k].attrs = 1 :> 9], [g EXCEPT !.targets[k].id = 9]}

Spoilt == UNION {Spoil(G(<<1, 2, 3, 4>>, Dense, [l \in 1..5 |-> <<>>], {1}, {2}), k) : k \in 1..4}

\* Two targets with the given labels, and tags in addition: what compresses or
\* front-codes so well that a reader refuses it.
Pair(labels, tags) ==
    [G(<<1, 2>>, Dense, [l \in 1..5 |-> IF l = 1 THEN <<2, 2>> ELSE <<>>], {1}, {2}) EXCEPT
        !.meta.targets = labels, !.meta.tags = tags @@ @]

TwoPackages == << <<3, 2, 5>>, <<4, 2, 5>> >>
DeepPackages == << <<3, 3, 3, 3, 3, 3, 2, 5>>, <<3, 3, 3, 3, 3, 3, 4, 2, 5>> >>
DeepTags == << <<3, 3, 3, 3, 3, 3, 3, 3, 3, 3>>, <<3, 3, 3, 3, 3, 3, 3, 3, 3, 3, 4>> >>
LongTag(len) == << [k \in 1..len |-> 3] >>

Large == {Pair(TwoPackages, <<>>), Pair(DeepPackages, <<>>), Pair(TwoPackages, DeepTags),
          Pair(TwoPackages, LongTag(30)), Pair(TwoPackages, LongTag(60))}

MCGraphs == Shuffled \union Shaped \union Sized \union Spoilt \union Large

MCCutLabels == {LabelList[1], LabelList[4]}

Symmetry == Permutations(Readers)
============================================================================
