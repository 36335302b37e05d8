----------------------------- MODULE DiffRequests -----------------------------
(***************************************************************************)
(* Pairs of small graphs to compare.                                       *)
(*                                                                         *)
(* Edits: over three names, every way to add, delete, modify or keep each  *)
(* target, under every dependency relation of the later graph, with one    *)
(* source file, changed dependency list or changed attribute anywhere; the *)
(* hash of one target goes from all zeroes to empty.                       *)
(* Shapes: every dependency relation over four names that follows their    *)
(* order, kept as it is, with any targets modified.                        *)
(* Detours: a short and a long way from one target to another, or part of  *)
(* them, with the first target touched, what depends on it modified, and   *)
(* one target that is excluded, so that its hash is empty.                 *)
(***************************************************************************)
EXTENDS DiffGraphs, Sequences, Functions

CONSTANTS n1, n2, n3, n4, n5, Limits

Three == {n1, n2, n3}
Four == <<n1, n2, n3, n4>>

Target(hash, source, deps, attrs) ==
    [hash |-> hash, source |-> source, deps |-> deps, attrs |-> attrs]

Request(b, a, limit) == [before |-> b, after |-> a, maxDistance |-> limit]

\* At most one target is a source file, depends on something else, or has
\* another attribute than before.
Marks ==
    {[source |-> {}, moved |-> {}, attr |-> {}]} \cup
    UNION {{[source |-> {n}, moved |-> {}, attr |-> {}],
            [source |-> {}, moved |-> {n}, attr |-> {}],
            [source |-> {}, moved |-> {}, attr |-> {n}]} : n \in Three}

Edit(status, deps, mark) ==
    LET inBefore == {n \in Three : status[n] # "new"}
        inAfter == {n \in Three : status[n] # "deleted"}
    IN Request(
         [n \in inBefore |->
            Target("00", n \in mark.source,
                   IF n \in mark.moved THEN {} ELSE deps[n] \cap inBefore, "a0")],
         [n \in inAfter |->
            Target(IF status[n] # "modified" THEN "00" ELSE IF n = n1 THEN "" ELSE "h1", n \in mark.source,
                   deps[n] \cap inAfter, IF n \in mark.attr THEN "a1" ELSE "a0")],
         -1)

Edits ==
    {Edit(status, deps, mark) :
       status \in [Three -> {"same", "modified", "new", "deleted"}],
       deps \in {d \in [Three -> SUBSET Three] : \A n \in Three : n \notin d[n]},
       mark \in Marks}

Ordered ==
    LET pairs == UNION {{<<Four[i], Four[j]>> : j \in 1..(i - 1)} : i \in DOMAIN Four}
    IN {[n \in Range(Four) |-> {m \in Range(Four) : <<n, m>> \in edges}] : edges \in SUBSET pairs}

Shape(deps, old, new, limit) ==
    Request([n \in DOMAIN deps |-> Target(old[n], FALSE, deps[n], "a0")],
            [n \in DOMAIN deps |-> Target(new[n], FALSE, deps[n], "a0")], limit)

Shapes ==
    {Shape(deps, [n \in DOMAIN deps |-> "00"], [n \in DOMAIN deps |-> IF n \in modified THEN "h1" ELSE "00"], limit) :
       deps \in Ordered, modified \in SUBSET Range(Four), limit \in Limits}

Detour(deps, excluded) ==
    LET graph == [n \in Names |-> [deps |-> deps[n]]]
        above == Within(graph, Names \ {excluded}, {n1})[Cardinality(Names)]
    IN Shape(deps, [n \in Names |-> IF n = excluded THEN "" ELSE "00"],
             [n \in Names |-> IF n = excluded THEN "" ELSE IF n \in above THEN "h1" ELSE "00"], -1)

Ways == {<<n2, n1>>, <<n5, n2>>, <<n3, n1>>, <<n4, n3>>, <<n5, n4>>}

Detours ==
    {Detour([n \in Names |-> {m \in Names : <<n, m>> \in edges}], excluded) :
       edges \in SUBSET Ways, excluded \in Names \ {n1}}
=============================================================================
