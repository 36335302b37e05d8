------------------------------ MODULE TargetDiff ------------------------------
(***************************************************************************)
(* targetdiff.Compare (internal/targetdiff/compare.go): classify what      *)
(* differs between two target graphs, pick the seeds, the targets that     *)
(* changed by themselves, and walk the reverse dependencies of the later   *)
(* graph breadth first to give every changed target its distance from the  *)
(* nearest seed.                                                           *)
(*                                                                         *)
(* Each loop over a Go map is one step: its passes write their own entry   *)
(* only.  The order of such a loop matters where it fills the queue, and   *)
(* there any order may come out.                                           *)
(***************************************************************************)
EXTENDS DiffGraphs, Sequences

CONSTANTS Requests   \* records of two graphs and a limit on the distance

ASSUME RequestAssumption ==
    \A r \in Requests : IsGraph(r.before) /\ IsGraph(r.after) /\ r.maxDistance \in Int

VARIABLES
    phase,     \* the next step
    request,   \* before, after and maxDistance
    changed,   \* changedByName: a change type for each changed name
    seeds,
    distance,  \* the Distance fields of changedByName
    queue,
    visited

vars == <<phase, request, changed, seeds, distance, queue, visited>>

before == request.before
after == request.after

ChangeTypes == {"new", "deleted", "changed"}

TypeOK ==
    /\ phase \in {"after", "classify", "before", "enqueue", "walk", "done", "cancelled"}
    /\ IsGraph(before) /\ IsGraph(after) /\ request.maxDistance \in Int
    /\ DOMAIN changed \subseteq Names
    /\ \A n \in DOMAIN changed : changed[n] \in ChangeTypes
    /\ seeds \subseteq DOMAIN changed
    /\ DOMAIN distance \subseteq DOMAIN changed
    /\ \A n \in DOMAIN distance : distance[n] \in Int
    /\ queue \in Seq(DOMAIN distance)
    /\ visited \subseteq DOMAIN distance

Init ==
    /\ phase = "after"
    /\ request \in Requests
    /\ changed = << >>
    /\ seeds = {}
    /\ distance = << >>
    /\ queue = << >>
    /\ visited = {}

-----------------------------------------------------------------------------

\* Names of the later graph: new ones, and those with another hash.
ScanAfter ==
    /\ phase = "after"
    /\ phase' = "classify"
    /\ changed' = [n \in {m \in DOMAIN after : m \in DOMAIN before => before[m].hash # after[m].hash} |->
                     IF n \in DOMAIN before THEN "changed" ELSE "new"]
    /\ seeds' = {n \in DOMAIN after :
                   \/ n \notin DOMAIN before
                   \/ before[n].hash # after[n].hash /\ after[n].source}
    /\ UNCHANGED <<request, distance, queue, visited>>

\* changedDependencyStatus
AnyChanged(n) == \E d \in after[n].deps : d \in DOMAIN changed /\ changed[d] = "changed"

DependenciesChanged(n) ==
    \/ Cardinality(before[n].deps) # Cardinality(after[n].deps)
    \/ \E d \in before[n].deps : d \notin after[n].deps

HasChangedSourceFileDependency(n) ==
    \E d \in after[n].deps : d \in DOMAIN changed /\ d \in DOMAIN after /\ after[d].source

AttributesChanged(n) == before[n].attrs # after[n].attrs

BecomesSeed(n) ==
    \/ ~AnyChanged(n) \/ DependenciesChanged(n)
    \/ HasChangedSourceFileDependency(n)
    \/ AttributesChanged(n)

ClassifySeeds ==
    /\ phase = "classify"
    /\ phase' = "before"
    /\ seeds' = seeds \cup {n \in DOMAIN changed : changed[n] = "changed" /\ n \notin seeds /\ BecomesSeed(n)}
    /\ UNCHANGED <<request, changed, distance, queue, visited>>

\* Names that only the earlier graph has.
ScanBefore ==
    /\ phase = "before"
    /\ phase' = "enqueue"
    /\ LET deleted == DOMAIN before \ DOMAIN after IN
       /\ changed' = [n \in DOMAIN changed \cup deleted |-> IF n \in deleted THEN "deleted" ELSE changed[n]]
       /\ seeds' = seeds \cup deleted
    /\ UNCHANGED <<request, distance, queue, visited>>

\* The sequences that list each member of S once: some order of a loop over S.
Listings(S) ==
    {s \in [1..Cardinality(S) -> S] : \A x \in S : \E i \in DOMAIN s : s[i] = x}

\* Every changed target gets its first distance; the seeds fill the queue.
Enqueue ==
    /\ phase = "enqueue"
    /\ phase' = "walk"
    /\ distance' = [n \in DOMAIN changed |-> IF n \in seeds THEN 0 ELSE -1]
    /\ queue' \in Listings(seeds)
    /\ visited' = seeds
    /\ UNCHANGED <<request, changed, seeds>>

Reachable(d) == request.maxDistance < 0 \/ d <= request.maxDistance

\* The changed dependents of n that were not seen before, if the limit allows.
Found(n) ==
    {m \in Dependents(after, n) :
       m \in DOMAIN changed /\ m \notin visited /\ Reachable(distance[n] + 1)}

\* Broken variant: the dependents go to the front of the queue.
WalkDepthFirst ==
    /\ phase = "walk"
    /\ queue # << >>
    /\ LET found == Found(Head(queue)) IN
       /\ visited' = visited \cup found
       /\ \E s \in Listings(found) : queue' = s \o Tail(queue)
       /\ distance' = [n \in DOMAIN distance |-> IF n \in found THEN distance[Head(queue)] + 1 ELSE distance[n]]
    /\ UNCHANGED <<phase, request, changed, seeds>>

\* Broken variant: one pass too many within the limit.
WalkPastLimit ==
    /\ phase = "walk"
    /\ queue # << >>
    /\ LET n == Head(queue)
           found == {m \in Dependents(after, n) : m \in DOMAIN changed /\ m \notin visited /\ Reachable(distance[n])}
       IN
       /\ visited' = visited \cup found
       /\ \E s \in Listings(found) : queue' = Tail(queue) \o s
       /\ distance' = [m \in DOMAIN distance |-> IF m \in found THEN distance[n] + 1 ELSE distance[m]]
    /\ UNCHANGED <<phase, request, changed, seeds>>

Walk ==
    /\ phase = "walk"
    /\ queue # << >>
    /\ LET found == Found(Head(queue)) IN
       /\ visited' = visited \cup found
       /\ \E s \in Listings(found) : queue' = Tail(queue) \o s
       /\ distance' = [n \in DOMAIN distance |-> IF n \in found THEN distance[Head(queue)] + 1 ELSE distance[n]]
    /\ UNCHANGED <<phase, request, changed, seeds>>

Finish ==
    /\ phase = "walk"
    /\ queue = << >>
    /\ phase' = "done"
    /\ UNCHANGED <<request, changed, seeds, distance, queue, visited>>

\* Every loop looks at the context now and then; Compare returns its error.
Cancelled ==
    /\ phase \notin {"done", "cancelled"}
    /\ phase' = "cancelled"
    /\ UNCHANGED <<request, changed, seeds, distance, queue, visited>>

Compare == ScanAfter \/ ClassifySeeds \/ ScanBefore \/ Enqueue \/ Walk \/ Finish
Returned == phase \in {"done", "cancelled"} /\ UNCHANGED vars

Next == Compare \/ Cancelled \/ Returned

Spec == Init /\ [][Next]_vars

-----------------------------------------------------------------------------
(* Correctness. *)

\* compare.go:87-88: the changes, the seeds and the distances that come out are
\* those of the reference, in whatever order the maps were gone through.
ResultIsReference ==
    phase = "done" =>
      /\ DOMAIN changed = ChangedIn(before, after)
      /\ seeds = SeedsIn(before, after)
      /\ distance = Shortest(after, ChangedIn(before, after), SeedsIn(before, after), request.maxDistance)

\* compare.go:284-306: the distances are right where one edge can tell.  A seed
\* has 0; any other distance is one more than that of a changed dependency; and
\* no changed dependent within the limit is left out or could have been nearer.
DistancesTight ==
    phase = "done" =>
      /\ \A n \in DOMAIN changed : distance[n] = 0 <=> n \in seeds
      /\ \A n \in DOMAIN changed : distance[n] > 0 =>
           /\ Reachable(distance[n])
           /\ \E m \in DOMAIN changed : n \in Dependents(after, m) /\ distance[n] = distance[m] + 1
      /\ \A m \in DOMAIN changed : \A n \in Dependents(after, m) :
           n \in DOMAIN changed /\ distance[m] >= 0 /\ Reachable(distance[m] + 1) =>
             distance[n] \in 0..(distance[m] + 1)
=============================================================================
