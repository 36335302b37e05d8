---------------------------- MODULE ShadowCompare ----------------------------
(***************************************************************************)
(* compareTargetGraphsTGB and shadowCompareTGB (controller/                *)
(* getchangedtargets.go): a request is answered from tgbdiff.Compare       *)
(* (TgbDiff), and with ShadowCompare on a goroutine that nobody waits for  *)
(* runs targetdiff.Compare (TargetDiff) over the same two graphs and       *)
(* counts a match, a mismatch or an error.  The client's context ends the  *)
(* first, the end of the server the second.                                *)
(***************************************************************************)
EXTENDS TargetDiff

CONSTANTS Gone, Nil

ASSUME MarkAssumption == Gone \notin Names /\ Nil \notin Targets

VARIABLES
    tphase, tchanged, tseeds, tdistance, tdistArr, tqueue, tvisited,   \* of TgbDiff
    answer,    \* the result of the request, or Nil
    shadow     \* what became of the goroutine

tgbVars == <<tphase, tchanged, tseeds, tdistance, tdistArr, tqueue, tvisited>>
oracleVars == <<phase, changed, seeds, distance, queue, visited>>
allVars == <<vars, tgbVars, answer, shadow>>

Tgb == INSTANCE TgbDiff WITH phase <- tphase, changed <- tchanged, seeds <- tseeds,
                             distance <- tdistance, distArr <- tdistArr,
                             queue <- tqueue, visited <- tvisited

ShadowInit ==
    /\ Init
    /\ tphase = "hashes"
    /\ tchanged = << >> /\ tseeds = {} /\ tdistance = << >>
    /\ tdistArr = << >> /\ tqueue = << >> /\ tvisited = {}
    /\ answer = Nil
    /\ shadow = "none"

-----------------------------------------------------------------------------

\* A result: what changed, how, how far from a change of its own, and the target
\* of either graph.  Materialize looks the targets up again by their labels.
Entry(kind, d, n) ==
    [changeType |-> kind, distance |-> d,
     before |-> IF kind = "new" THEN Nil ELSE before[n],
     after |-> IF kind = "deleted" THEN Nil ELSE after[n]]

Materialize == [n \in DOMAIN tchanged |-> Entry(tchanged[n], tdistance[n], n)]

OracleResult == [n \in DOMAIN changed |-> Entry(changed[n], distance[n], n)]

\* ResultsEquivalent orders both results by label, and dependencies and tags
\* within a target, before it compares them: here they are functions and sets.
ResultsEquivalent(a, b) ==
    /\ DOMAIN a = DOMAIN b
    /\ \A n \in DOMAIN a : a[n] = b[n]

TgbCompare ==
    /\ answer = Nil
    /\ Tgb!HashDiff \/ Tgb!SeedClassify \/ Tgb!Enqueue \/ Tgb!Walk \/ Tgb!Finish \/ Tgb!Cancelled
    /\ UNCHANGED <<oracleVars, answer, shadow>>

\* The answer is built and the goroutine started, if the repository asks for it.
Answer ==
    /\ tphase = "done"
    /\ answer = Nil
    /\ answer' = Materialize
    /\ shadow' \in {"off", "running"}
    /\ UNCHANGED <<request, oracleVars, tgbVars>>

Oracle ==
    /\ shadow = "running"
    /\ Compare \/ Cancelled
    /\ UNCHANGED <<tgbVars, answer, shadow>>

Judge ==
    /\ shadow = "running"
    /\ phase \in {"done", "cancelled"}
    /\ shadow' = IF phase = "cancelled" THEN "error"
                 ELSE IF ResultsEquivalent(answer, OracleResult) THEN "match" ELSE "mismatch"
    /\ UNCHANGED <<request, oracleVars, tgbVars, answer>>

Over ==
    /\ tphase = "cancelled" \/ shadow \in {"off", "match", "mismatch", "error"}
    /\ UNCHANGED allVars

ShadowNext == TgbCompare \/ Answer \/ Oracle \/ Judge \/ Over

ShadowSpec == ShadowInit /\ [][ShadowNext]_allVars

-----------------------------------------------------------------------------
(* Correctness. *)

\* tgbdiff/compare.go:395-447: what is served, for every pair of graphs: the changes
\* and seeds of the reference, at the distance of the shortest path over all targets
\* of the later graph.  It is not what targetdiff computes where that path leads
\* through a target that did not change: see IdenticalOutput.
DistancesOverGraph == Tgb!SameClassification /\ Tgb!DistancesOverGraph

\* getchangedtargets.go:452-457, adapt.go:160-164 "Everything else must match exactly":
\* the oracle agrees with what was served whenever the hashes of the two graphs cover
\* what the targets depend on.
ShadowAgrees == HashesCover(before, after) => shadow # "mismatch"

\* Where they do not, a mismatch is about distances only, and what was served is the
\* nearer one: the walk of tgbdiff also goes through targets that did not change.
MismatchExplained ==
    shadow = "mismatch" =>
      /\ ~HashesCover(before, after)
      /\ DOMAIN answer = DOMAIN OracleResult
      /\ \A n \in DOMAIN answer :
           /\ answer[n].changeType = OracleResult[n].changeType
           /\ OracleResult[n].distance >= 0 => answer[n].distance \in 0..OracleResult[n].distance

\* tgbdiff/compare.go:15-20 "hold the two implementations to identical output",
\* docs/tgb/tgb.md:65 "exactly the same DiffResult", rapid_test.go:184-190 "for arbitrary
\* generated before/after graph pairs", as they say it: there is no mismatch.
IdenticalOutput == shadow # "mismatch"
=============================================================================
