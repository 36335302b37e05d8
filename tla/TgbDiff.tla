------------------------------- MODULE TgbDiff -------------------------------
(***************************************************************************)
(* tgbdiff.Compare (internal/tgbdiff/compare.go), phases 1 to 3: the same  *)
(* comparison as TargetDiff over two encoded graphs.  Phase 0, which pairs *)
(* the nodes that carry the same label, is taken from TgbAlign by its      *)
(* promise, so that a node goes by its label here and beforeToAfter maps a *)
(* label to itself, or to Gone if the later graph does not have it.        *)
(*                                                                         *)
(* What differs from targetdiff is kept: hashes are compared as bytes of a *)
(* column, in which the empty hash looks like an all-zero one, with a      *)
(* bitset to tell the two apart; and the walk goes over every node of the  *)
(* later graph.  In which order the nodes of a column come is left open.   *)
(***************************************************************************)
EXTENDS DiffGraphs, Sequences

CONSTANTS Requests,   \* records of two graphs and a limit on the distance
          Gone        \* -1 in beforeToAfter

VARIABLES
    phase,     \* the next step
    request,   \* before, after and MaxDistance
    changed,   \* changedList: a kind for each changed node
    seeds,
    distance,  \* the distance fields of changedList
    distArr,   \* the distances of the walk, over all nodes
    queue,
    visited

vars == <<phase, request, changed, seeds, distance, distArr, queue, visited>>

before == request.before
after == request.after
Kinds == {"new", "deleted", "changed"}

Init ==
    /\ phase = "hashes"
    /\ request \in Requests
    /\ changed = << >>
    /\ seeds = {}
    /\ distance = << >>
    /\ distArr = << >>
    /\ queue = << >>
    /\ visited = {}

-----------------------------------------------------------------------------
(* Phase 1 *)

ZeroHash == "00"

\* The hash column stores the empty hash as zero bytes and sets a bit for it.
HashColumn(g, n) == IF g[n].hash = "" THEN ZeroHash ELSE g[n].hash
EmptyBit(g, n) == g[n].hash = ""

HashDiffers(n) ==
    \/ HashColumn(before, n) # HashColumn(after, n)
    \/ EmptyBit(before, n) # EmptyBit(after, n)

\* Nodes without a partner, and aligned nodes whose hashes differ.
HashDiff ==
    /\ phase = "hashes"
    /\ phase' = "classify"
    /\ LET deletedBefore == DOMAIN before \ DOMAIN after
           insertedAfter == DOMAIN after \ DOMAIN before
           differ == {n \in DOMAIN before \cap DOMAIN after : HashDiffers(n)}
       IN changed' = [n \in deletedBefore \cup insertedAfter \cup differ |->
                        IF n \in deletedBefore THEN "deleted"
                        ELSE IF n \in insertedAfter THEN "new" ELSE "changed"]
    /\ UNCHANGED <<request, seeds, distance, distArr, queue, visited>>

-----------------------------------------------------------------------------
(* Phase 2 *)

BeforeToAfter(d) == IF d \in DOMAIN after THEN d ELSE Gone

\* changedDepStatusIdx
AnyChanged(n) == \E d \in after[n].deps : d \in DOMAIN changed /\ changed[d] = "changed"

\* Broken variant: a dependency that is gone is skipped.
DepsChangedSkipsGone(n) ==
    \E d \in before[n].deps : BeforeToAfter(d) # Gone /\ BeforeToAfter(d) \notin after[n].deps

DepsChanged(n) ==
    \/ Cardinality(before[n].deps) # Cardinality(after[n].deps)
    \/ \E d \in before[n].deps : BeforeToAfter(d) = Gone \/ BeforeToAfter(d) \notin after[n].deps

\* hasChangedSrcFileDepIdx
HasChangedSrcFileDep(n) == \E d \in after[n].deps : d \in DOMAIN changed /\ after[d].source

AttrsChanged(n) == before[n].attrs # after[n].attrs

SeedClassify ==
    /\ phase = "classify"
    /\ phase' = "enqueue"
    /\ seeds' = {n \in DOMAIN changed :
                   \/ changed[n] \in {"new", "deleted"}
                   \/ after[n].source
                   \/ ~AnyChanged(n) \/ DepsChanged(n)
                   \/ HasChangedSrcFileDep(n)
                   \/ AttrsChanged(n)}
    /\ UNCHANGED <<request, changed, distance, distArr, queue, visited>>

-----------------------------------------------------------------------------
(* Phase 3: buildReverseCSR is Dependents. *)

Listings(S) ==
    {s \in [1..Cardinality(S) -> S] : \A x \in S : \E i \in DOMAIN s : s[i] = x}

\* The seeds that the later graph has fill the queue.
Enqueue ==
    /\ phase = "enqueue"
    /\ phase' = "walk"
    /\ distance' = [n \in DOMAIN changed |-> IF n \in seeds THEN 0 ELSE -1]
    /\ distArr' = [n \in DOMAIN after |-> IF n \in seeds THEN 0 ELSE -1]
    /\ queue' \in Listings(seeds \cap DOMAIN after)
    /\ visited' = seeds \cap DOMAIN after
    /\ UNCHANGED <<request, changed, seeds>>

WithinLimit(d) == request.maxDistance < 0 \/ d <= request.maxDistance

\* Broken variant: the node is marked when it leaves the queue.
WalkMarksLate ==
    /\ phase = "walk"
    /\ queue # << >>
    /\ LET d == distArr[Head(queue)] + 1
           found == {n \in Dependents(after, Head(queue)) : n \notin visited /\ WithinLimit(d)}
       IN
       /\ visited' = visited \cup {Head(queue)}
       /\ \E s \in Listings(found) : queue' = Tail(queue) \o s
       /\ distArr' = [n \in DOMAIN after |-> IF n \in found THEN d ELSE distArr[n]]
       /\ distance' = [n \in DOMAIN changed |-> IF n \in found THEN d ELSE distance[n]]
    /\ UNCHANGED <<phase, request, changed, seeds>>

Walk ==
    /\ phase = "walk"
    /\ queue # << >>
    /\ LET d == distArr[Head(queue)] + 1
           found == {n \in Dependents(after, Head(queue)) : n \notin visited /\ WithinLimit(d)}
       IN
       /\ visited' = visited \cup found
       /\ \E s \in Listings(found) : queue' = Tail(queue) \o s
       /\ distArr' = [n \in DOMAIN after |-> IF n \in found THEN d ELSE distArr[n]]
       /\ distance' = [n \in DOMAIN changed |-> IF n \in found THEN d ELSE distance[n]]
    /\ UNCHANGED <<phase, request, changed, seeds>>

Finish ==
    /\ phase = "walk"
    /\ queue = << >>
    /\ phase' = "done"
    /\ UNCHANGED <<request, changed, seeds, distance, distArr, queue, visited>>

\* The context is looked at between phases and now and then in the walk.
Cancelled ==
    /\ phase \notin {"done", "cancelled"}
    /\ phase' = "cancelled"
    /\ UNCHANGED <<request, changed, seeds, distance, distArr, queue, visited>>

Returned == phase \in {"done", "cancelled"} /\ UNCHANGED vars

Next == HashDiff \/ SeedClassify \/ Enqueue \/ Walk \/ Finish \/ Cancelled \/ Returned

Spec == Init /\ [][Next]_vars

-----------------------------------------------------------------------------
(* Correctness. *)

\* compare.go:15-20: the changes and the seeds are those of targetdiff, also for
\* a target whose hash goes from empty to all zeroes and for a dependency whose
\* label the later graph no longer has.
SameClassification ==
    phase = "done" =>
      /\ DOMAIN changed = ChangedIn(before, after)
      /\ \A n \in DOMAIN changed :
           changed[n] = IF n \notin DOMAIN before THEN "new" ELSE IF n \notin DOMAIN after THEN "deleted" ELSE "changed"
      /\ seeds = SeedsIn(before, after)

\* compare.go:395-447: a distance is that of the shortest path over all targets
\* of the later graph, changed or not.
DistancesOverGraph ==
    phase = "done" =>
      LET all == Shortest(after, DOMAIN before \cup DOMAIN after, SeedsIn(before, after), request.maxDistance)
      IN distance = [n \in DOMAIN changed |-> all[n]]
=============================================================================
