--------------------------------- MODULE Itg ---------------------------------
(***************************************************************************)
(* core/itg: the graph of a revision is kept in a form that can be updated *)
(* to a later revision, from the packages that changed, instead of being   *)
(* computed from nothing.  The cache finds the graph of a commit, the      *)
(* change analyzer says whether an update is possible, UpdateGraph removes,*)
(* inserts and invalidates targets and hashes again what was invalidated.  *)
(*                                                                         *)
(* Nothing in the repository calls these packages together yet: the caller *)
(* (Commit, Base, Plan) is a model of the one their comments describe.     *)
(***************************************************************************)
EXTENDS TargetHasher

CONSTANTS SequentialHashTargets,   \* sequentialHashTargets of update.go
          CriticalFiles,           \* files that criticalFilePatterns match
          CommitTime,              \* when the two revisions were committed
          Others                   \* sets of keys under which others may have cached graphs

ASSUME TimeAssumption == CommitTime[1] <= CommitTime[2]

VARIABLES cache,    \* storage: from keys to graphs
          graph,    \* the OptimizedGraph that is updated
          update    \* progress of the update

itgVars == <<cache, graph, update>>

-----------------------------------------------------------------------------
(* graph.go.  IDs of targets are never used again; the dictionaries of rule *)
(* types, tags and attributes only grow, and their strings stand here for   *)
(* the numbers.  ext holds the repository rules: Nil where the entry is the *)
(* one of targets, else the hash of a copy.                                 *)

Name(g, id) == CHOOSE l \in DOMAIN g.idOf : g.idOf[l] = id
ByName(g, ids) == LET names == SortedSet({Name(g, id) : id \in ids}) IN [i \in DOMAIN names |-> g.idOf[names[i]]]

getOrGenerateTargetID(g, l) ==
    IF l \in DOMAIN g.idOf THEN g
    ELSE [g EXCEPT !.next = @ + 1, !.idOf = (l :> g.next) @@ @]

WithIDs(g, ls) == FoldLeft(getOrGenerateTargetID, g, ls)

Optimized(g, t) ==
    [hash |-> t.hash, hashWithoutDeps |-> t.hashWithoutDeps, ruleType |-> t.ruleType,
     deps |-> {g.idOf[d] : d \in ToSet(t.deps)}, reverseDeps |-> {}, tags |-> t.tags,
     root |-> t.ruleType # "external rule" /\ t.root, external |-> t.external]

AddTarget(g, t, l) ==
    LET h == WithIDs(g, <<l>> \o t.deps)
    IN [h EXCEPT !.targets = (h.idOf[l] :> Optimized(h, t)) @@ @,
                 !.ext = IF t.ruleType = "external rule" THEN (h.idOf[l] :> Nil) @@ @ ELSE @]

OptimizeGraph(ts, ls) ==
    LET empty == [targets |-> << >>, ext |-> << >>, next |-> 0, idOf |-> << >>]
        g == FoldLeft(LAMBDA h, l : AddTarget(h, ts[l], l), empty, ls)
    IN [g EXCEPT !.targets = [id \in DOMAIN @ |->
                                [@[id] EXCEPT !.reverseDeps = {m \in DOMAIN g.targets : id \in g.targets[m].deps}]]]

\* Copy: the repository rules are copied twice and no longer shared.
Copy(g) == [g EXCEPT !.ext = [id \in DOMAIN @ |-> g.targets[id].hash]]

\* What gob loses: an empty hash comes back as nil, which Get mends for targets only.
Decoded(g) ==
    [Copy(g) EXCEPT !.targets = [id \in DOMAIN @ |->
       [@[id] EXCEPT !.hash = IF @ = Nil THEN << >> ELSE @,
                     !.hashWithoutDeps = IF @ = << >> THEN Nil ELSE @]]]

OptimizedTargetToTarget(g, id) ==
    LET t == g.targets[id]
    IN [ruleType |-> t.ruleType, hash |-> t.hash, deps |-> {Name(g, d) : d \in t.deps},
        tags |-> t.tags, root |-> t.root, external |-> t.external]

ExternalHash(g, id) == IF g.ext[id] = Nil THEN g.targets[id].hash ELSE g.ext[id]

-----------------------------------------------------------------------------
(* invalidate.go *)

RECURSIVE invalidateHashRecursively(_, _, _)
invalidateHashRecursively(g, ids, invalidated) ==
    LET valid == {id \in ids \cap DOMAIN g.targets : g.targets[id].hash # Nil}
        h == [g EXCEPT !.targets = [id \in DOMAIN @ |-> IF id \in valid THEN [@[id] EXCEPT !.hash = Nil] ELSE @[id]]]
    IN IF valid = {} THEN [graph |-> g, invalidated |-> invalidated]
       ELSE invalidateHashRecursively(h, UNION {g.targets[id].reverseDeps : id \in valid}, invalidated \cup valid)

\* Broken variant: a target that loses its last dependent is no root yet.
ReleasedNoRoot(g, ids, id) ==
    [g EXCEPT !.targets = [d \in DOMAIN @ |-> IF d \in ids THEN [@[d] EXCEPT !.reverseDeps = @ \ {id}] ELSE @[d]]]

\* Targets lose a dependent; one that loses its last may be a root.
Released(g, ids, id) ==
    [g EXCEPT !.targets =
       [d \in DOMAIN @ |->
          IF d \notin ids THEN @[d]
          ELSE [@[d] EXCEPT !.reverseDeps = @ \ {id},
                            !.root = @ \/ (g.targets[d].reverseDeps \subseteq {id} /\ CanBeRoot(g.targets[d].ruleType))]]]

removeTarget(g, id, invalidated) ==
    LET t == g.targets[id]
        forgotten == [g EXCEPT !.targets = [r \in DOMAIN @ |->
                        IF r \in t.reverseDeps THEN [@[r] EXCEPT !.deps = @ \ {id}] ELSE @[r]]]
        h == Released(forgotten, t.deps \ {id}, id)
        gone == [h EXCEPT !.targets = [d \in DOMAIN @ \ {id} |-> @[d]],
                          !.ext = [d \in DOMAIN @ \ {id} |-> @[d]],
                          !.idOf = [l \in DOMAIN @ \ {Name(g, id)} |-> @[l]]]
    IN invalidateHashRecursively(gone, t.reverseDeps, invalidated \ {id})

CanRemove(g, id) == g.targets[id].reverseDeps \cup g.targets[id].deps \subseteq DOMAIN g.targets

getPackage(l) == LabelOf[l].pkg

\* checkDeletedTargets: what a changed package no longer has.
DeletedTargets(g, plan, queried) ==
    {id \in DOMAIN g.targets :
       LET l == Name(g, id)
       IN getPackage(l) \in plan.deletedPkgs \/ (getPackage(l) \in plan.changedPkgs /\ l \notin queried)}

CanUpsert(g, t) == \A d \in ToSet(t.deps) : d \in DOMAIN g.idOf /\ g.idOf[d] \in DOMAIN g.targets

upsertTarget(g, l, t, invalidated) ==
    LET h == getOrGenerateTargetID(g, l)
        id == h.idOf[l]
        depIDs == {h.idOf[d] : d \in ToSet(t.deps)}
        claimed == [h EXCEPT !.targets = [d \in DOMAIN @ |->
                      IF d \in depIDs THEN [@[d] EXCEPT !.reverseDeps = @ \cup {id}, !.root = FALSE] ELSE @[d]]]
        old == claimed.targets[id]
        released == Released(claimed, old.deps \ depIDs, id)
        put == IF id \in DOMAIN h.targets
               THEN [released EXCEPT !.targets[id] =
                       [Optimized(h, t) EXCEPT !.reverseDeps = released.targets[id].reverseDeps,
                                               !.root = released.targets[id].root]]
               ELSE [claimed EXCEPT !.targets = (id :> [Optimized(h, t) EXCEPT !.root = CanBeRoot(t.ruleType)]) @@ @]
        result == invalidateHashRecursively(put, put.targets[id].reverseDeps, invalidated)
    IN [result EXCEPT !.invalidated = IF t.hash = Nil THEN @ \cup {id} ELSE @]

-----------------------------------------------------------------------------
(* update.go *)

upsertExternalRuleTarget(g, l, t, invalidated) ==
    LET h == WithIDs(g, <<l>> \o t.deps)
        id == h.idOf[l]
    IN IF id \in DOMAIN h.targets
       THEN invalidateHashRecursively(
              [h EXCEPT !.targets[id] = [Optimized(h, t) EXCEPT !.ruleType = h.targets[id].ruleType,
                                           !.reverseDeps = h.targets[id].reverseDeps,
                                           !.tags = h.targets[id].tags, !.root = h.targets[id].root]],
              h.targets[id].reverseDeps, invalidated)
       ELSE [graph |-> [h EXCEPT !.targets = (id :> Optimized(h, t)) @@ @, !.ext = (id :> Nil) @@ @],
             invalidated |-> invalidated]

\* The repository rules of the graph join the targets of the query.
ExternalTargets(g, ts) ==
    [l \in {Name(g, id) : id \in DOMAIN g.ext} \ DOMAIN ts |->
       [Unhashed("external rule", l, SortedSet({Name(g, d) : d \in g.targets[g.idOf[l]].deps})) EXCEPT
          !.hash = ExternalHash(g, g.idOf[l]), !.hashWithoutDeps = g.targets[g.idOf[l]].hashWithoutDeps,
          !.external = g.targets[g.idOf[l]].external]]

\* A rule that was made up for a label has no rule: its own hash is that of none.
computeAvailableHashes(w, ts) ==
    [l \in DOMAIN ts |->
       CASE ts[l].ruleType = "package group" -> [ts[l] EXCEPT !.hash = Sha(Text(l))]
         [] ts[l].ruleType = "source file" -> [ts[l] EXCEPT !.hash = HashSourceFile(w, l, ts[l].visibility)]
         [] ts[l].ruleType = "unknown rule" -> [ts[l] EXCEPT !.hashWithoutDeps = Sha(<< <<"no rule">> >>)]
         [] OTHER -> ts[l]]

RECURSIVE computeHashes(_, _), WriteHashes(_, _, _)

computeHashes(g, id) ==
    LET t == g.targets[id]
        visited == [g EXCEPT !.targets[id].hash = << >>]
        body == IF t.ruleType = "generated file" THEN computeHashes(visited, CHOOSE d \in t.deps : TRUE)
                ELSE WriteHashes(visited, ByName(g, t.deps), t.hashWithoutDeps)
    IN IF id \in DOMAIN g.ext THEN [graph |-> g, hash |-> ExternalHash(g, id), failed |-> FALSE]
       ELSE IF id \notin DOMAIN g.targets THEN [graph |-> g, hash |-> Nil, failed |-> TRUE]
       ELSE IF t.hash # Nil THEN [graph |-> g, hash |-> t.hash, failed |-> FALSE]
       ELSE IF \/ t.ruleType \in {"source file", "package group"}
               \/ t.ruleType # "generated file" /\ t.hashWithoutDeps = Nil
       THEN [graph |-> g, hash |-> Nil, failed |-> TRUE]
       ELSE IF body.failed THEN body
       ELSE [body EXCEPT !.graph.targets[id].hash = body.hash]

WriteHashes(g, ids, written) ==
    IF ids = << >> THEN [graph |-> g, hash |-> Sha(written), failed |-> FALSE]
    ELSE LET first == computeHashes(g, Head(ids))
         IN IF first.failed THEN first
            ELSE WriteHashes(first.graph, Tail(ids), IF first.hash = Nil THEN written ELSE written \o first.hash)

\* First the targets that may close cycles, then roots, then the rest, by name.
computeInvalidatedHashes(g, invalidated) ==
    LET first == SelectSeq(ByName(g, invalidated), LAMBDA id : Name(g, id) \in SequentialHashTargets)
        roots == SelectSeq(ByName(g, invalidated),
                           LAMBDA id : id \in DOMAIN g.targets /\ g.targets[id].reverseDeps = {})
    IN FoldLeft(LAMBDA r, id : IF r.failed THEN r ELSE computeHashes(r.graph, id),
                [graph |-> g, hash |-> Nil, failed |-> FALSE], first \o roots \o ByName(g, invalidated))

-----------------------------------------------------------------------------
(* changeanalyzer.go *)

\* DiffWithStatus: the files of the main repository that differ.
FilesOf(w) == {l \in DOMAIN w.disk : LabelOf[l].form = "main" /\ (l \in w.tracked \/ w.disk[l].kind = "dir")}
PackageOf(w, pkg) == [l \in {m \in DOMAIN w.protos : getPackage(m) = pkg} |-> w.protos[l]]
Packages(w) == {getPackage(l) : l \in {m \in DOMAIN w.protos : LabelOf[m].form = "main"}}

Status(inOld, inNew) == IF ~inOld THEN "A" ELSE IF ~inNew THEN "D" ELSE "M"
Change(kind, of, status) == [kind |-> kind, of |-> of, status |-> status]

DiffWithStatus(w, v) ==
    {Change("file", l, Status(l \in FilesOf(w), l \in FilesOf(v))) :
       l \in {m \in FilesOf(w) \cup FilesOf(v) :
                ~(m \in FilesOf(w) /\ m \in FilesOf(v) /\ w.disk[m] = v.disk[m])}}
    \cup (IF w.macros # v.macros THEN {Change("macro", "", "M")}
          ELSE {Change("build", p, Status(p \in Packages(w), p \in Packages(v))) :
                  p \in {q \in Packages(w) \cup Packages(v) : PackageOf(w, q) # PackageOf(v, q)}})
    \cup (IF w.notes # v.notes THEN {Change("notes", "", "M")} ELSE {})
    \cup (IF PackageOf(w, "external") # PackageOf(v, "external") \/ w.markers # v.markers
          THEN {Change("workspace", "", "M")} ELSE {})

GetFileCategory(c) ==
    CASE c.kind = "workspace" \/ c.of \in CriticalFiles -> "critical"
      [] c.kind = "notes" -> "ignored"
      [] c.kind = "build" -> "build"
      [] c.kind = "macro" -> "extension"
      [] OTHER -> "regular"

AnalyzeChange(changes) ==
    LET categories == {GetFileCategory(c) : c \in changes}
    IN IF categories \subseteq {"ignored"} THEN "NoChange"
       ELSE IF "critical" \in categories THEN "FullCalculationRequired"
       ELSE IF \A c \in changes : GetFileCategory(c) = "regular" /\ c.status = "M" THEN "RegularFilesModificationOnly"
       ELSE IF categories \subseteq {"regular", "build", "ignored"} THEN "ReparsePackagesNeeded"
       ELSE "Unknown"

-----------------------------------------------------------------------------
(* cache.go *)

CompareKeyFunc(a, b) == a.time < b.time \/ (a.time = b.time /\ Rank[a.sha] < Rank[b.sha])

\* Broken variant: the key at the place that the search stops at.
FloorKeyAtPlace(keys, time) ==
    LET sorted == SetToSortSeq(keys, CompareKeyFunc)
        idx == CHOOSE i \in DOMAIN sorted : sorted[i].time >= time /\ \A j \in 1..(i - 1) : sorted[j].time < time
    IN IF sorted = << >> \/ sorted[1].time > time THEN Nil
       ELSE IF Last(sorted).time <= time THEN Last(sorted) ELSE sorted[idx]

FloorKey(keys, time) ==
    LET sorted == SetToSortSeq(keys, CompareKeyFunc)
        idx == CHOOSE i \in DOMAIN sorted :    \* binarySearch: the first that is not earlier
                 sorted[i].time >= time /\ \A j \in 1..(i - 1) : sorted[j].time < time
    IN IF sorted = << >> \/ sorted[1].time > time THEN Nil
       ELSE IF Last(sorted).time <= time THEN Last(sorted)
       ELSE IF sorted[idx].time = time THEN sorted[idx] ELSE sorted[idx - 1]

-----------------------------------------------------------------------------
(* An update *)

NoPlan == [changedPkgs |-> {}, deletedPkgs |-> {}, deletedFiles |-> {}, query |-> << >>]
NoUpdate == [phase |-> "none", key |-> Nil, plan |-> NoPlan, targets |-> << >>, todo |-> << >>,
             invalidated |-> {}, dropped |-> {}]

ItgInit == HasherInit /\ cache = << >> /\ graph = Nil /\ update = NoUpdate

Step(next) == update' = next /\ UNCHANGED <<input, hashing, results, cache>>

\* The graph of the first revision goes into the cache, unless somebody else put it
\* there; graphs of other commits may be there too.
Put ==
    /\ BothDone
    /\ ~config.useBzlmod /\ config.excluded = {} /\ config.sequentialHashTargets = SequentialHashTargets
    /\ LET key == [time |-> CommitTime[1], sha |-> "t1"]
           names == SortedSet(DOMAIN results[1].targets)
           mine == OptimizeGraph(results[1].targets, names)
           theirs == OptimizeGraph(results[1].targets, Reverse(names))
       IN /\ \E others \in Others :
               cache' = (key :> IF key \in others THEN theirs ELSE mine) @@ [k \in others |-> Nil]
          /\ graph' = Copy(mine)
    /\ hashing' = [hashing EXCEPT !.phase = "update"]
    /\ update' = [NoUpdate EXCEPT !.phase = "put"]
    /\ UNCHANGED <<input, results>>

\* FloorKey, and Get of its answer; the caller may also have the graph at hand.
Get ==
    /\ update.phase = "put"
    /\ LET key == FloorKey(DOMAIN cache, CommitTime[2])
       IN /\ \/ key # Nil /\ cache[key] # Nil /\ graph' = Decoded(cache[key])
             \/ UNCHANGED graph
          /\ Step([update EXCEPT !.phase = "diff", !.key = key])

\* A commit that is not there is fetched, once.
FetchAndRetry ==
    /\ update.phase = "diff"
    /\ UNCHANGED graph
    /\ \E next \in {"retry", "failed"} : Step([update EXCEPT !.phase = next])

DiffFails ==
    /\ update.phase = "retry"
    /\ UNCHANGED graph
    /\ Step([update EXCEPT !.phase = "failed"])

PlanFor(w, v, changes, complexity, rules) ==
    LET files == {c \in changes : c.kind = "file"}
        Pkg(c) == IF c.kind = "file" THEN getPackage(c.of) ELSE c.of
        deleted == {c.of : c \in {d \in changes : d.kind = "build" /\ d.status = "D"}}
        changed == IF complexity = "RegularFilesModificationOnly" THEN {}
                   ELSE {Pkg(c) : c \in {d \in changes : d.kind = "build" \/ (d.kind = "file" /\ d.status # "M")}} \ deleted
        asked == {l \in DOMAIN v.protos : getPackage(l) \in changed \/ \E c \in files : c.of = l /\ c.status = "M"}
    IN [changedPkgs |-> changed, deletedPkgs |-> deleted,
        deletedFiles |-> {c.of : c \in {d \in files : d.status = "D"}},
        query |-> [l \in asked \cup rules |-> v.protos[l]]]

\* What to ask of bazel: the packages that changed, the files that were modified,
\* perhaps the repository rules.
Analyze ==
    /\ update.phase \in {"diff", "retry"}
    /\ LET w == input.revisions[1]
           v == input.revisions[2]
           changes == DiffWithStatus(w, v)
           complexity == AnalyzeChange(changes)
           rules == {l \in DOMAIN v.protos : isRepositoryRule(l)}
       IN IF complexity = "NoChange" THEN Step([update EXCEPT !.phase = "done"])
          ELSE IF complexity \in {"FullCalculationRequired", "Unknown"} THEN Step([update EXCEPT !.phase = "full"])
          ELSE \E asked \in {{}, rules} :
                 Step([update EXCEPT !.phase = "query", !.plan = PlanFor(w, v, changes, complexity, asked)])
    /\ UNCHANGED graph

\* UpdateGraph: the targets of the query, and HashExternalTargets among them.
Translate ==
    /\ update.phase = "query"
    /\ LET v == input.revisions[2]
           query == update.plan.query
           rules == DOMAIN query \ InternalLabels(query)
           ts == convertProtosToTargets(query, rules) @@ GetInternalTargetsWithoutHashAndRootInfo(query)
           p == [workspace |-> v, useBzlmod |-> FALSE, fullHashRepos |-> config.fullHashRepos, excluded |-> {}]
           outcome == HashAll(ts, p, QueryOrder(v, rules))
       IN Step(IF outcome.failed THEN [update EXCEPT !.phase = "failed"]
               ELSE [update EXCEPT !.phase = "rules", !.targets = outcome.targets, !.todo = SortedSet(rules)])
    /\ UNCHANGED graph

Apply(outcome, next) ==
    /\ graph' = outcome.graph
    /\ Step([next EXCEPT !.invalidated = outcome.invalidated])

\* In any order, as everywhere where a map is iterated.
UpsertExternalRule ==
    /\ update.phase = "rules"
    /\ \E i \in DOMAIN update.todo :
         LET l == update.todo[i]
         IN Apply(upsertExternalRuleTarget(graph, l, update.targets[l], update.invalidated),
                  [update EXCEPT !.todo = RemoveAt(@, i)])

ComputeAvailable ==
    /\ update.phase = "rules"
    /\ update.todo = << >>
    /\ Step([update EXCEPT !.phase = "remove",
               !.targets = computeAvailableHashes(input.revisions[2], ExternalTargets(graph, @) @@ @)])
    /\ UNCHANGED graph

Deletable ==
    LET files == {graph.idOf[l] : l \in update.plan.deletedFiles \cap DOMAIN graph.idOf}
    IN IF files # {} THEN files ELSE DeletedTargets(graph, update.plan, DOMAIN update.targets)

RemoveNext ==
    /\ update.phase = "remove"
    /\ \E id \in Deletable :
         IF CanRemove(graph, id) THEN Apply(removeTarget(graph, id, update.invalidated), update)
         ELSE Step([update EXCEPT !.phase = "failed"]) /\ UNCHANGED graph

\* topoSort: what only a cycle within the query leads to is dropped.
Sort ==
    /\ update.phase = "remove"
    /\ Deletable = {}
    /\ LET sorted == Toposort(update.targets, GetTopologicalRoots(update.targets))
       IN Step([update EXCEPT !.phase = "upsert", !.todo = sorted.names,
                              !.dropped = DOMAIN update.targets \ ToSet(sorted.names)])
    /\ UNCHANGED graph

UpsertNext ==
    /\ update.phase = "upsert"
    /\ update.todo # << >>
    /\ LET l == Head(update.todo)
       IN IF CanUpsert(graph, update.targets[l])
          THEN Apply(upsertTarget(graph, l, update.targets[l], update.invalidated),
                     [update EXCEPT !.todo = Tail(@)])
          ELSE Step([update EXCEPT !.phase = "failed"]) /\ UNCHANGED graph

Rehash ==
    /\ update.phase = "upsert"
    /\ update.todo = << >>
    /\ LET outcome == computeInvalidatedHashes(graph, update.invalidated)
       IN /\ graph' = outcome.graph
          /\ Step([update EXCEPT !.phase = IF outcome.failed THEN "failed" ELSE "done"])

Idle ==
    /\ \/ update.phase \in {"done", "full", "failed"}
       \/ update.phase = "none" /\ ~InProgress
    /\ UNCHANGED <<hasherVars, itgVars>>

ItgNext ==
    \/ HasherNext /\ UNCHANGED itgVars
    \/ Put \/ Get \/ FetchAndRetry \/ DiffFails \/ Analyze \/ Translate \/ UpsertExternalRule
    \/ ComputeAvailable \/ RemoveNext \/ Sort \/ UpsertNext \/ Rehash \/ Idle

ItgSpec == ItgInit /\ [][ItgNext]_<<hasherVars, itgVars>>

-----------------------------------------------------------------------------
(* Correctness *)

\* Some target is on or below a cycle that nothing leads to.
Rootless(w) ==
    LET roots == {l \in DOMAIN w.protos : \A m \in DOMAIN w.protos : l \notin Reads(w, m)}
    IN ~(DOMAIN w.protos \subseteq Below(w, roots, {}))

\* All that leads to a target, and by which steps.
LedTo(w, c) == {<<m, Reads(w, m)>> : m \in {k \in DOMAIN w.protos : c \in Below(w, {k}, {})}}

\* The update left a cycle below l alone although other targets lead to it now: the
\* cycle keeps the hashes that it got when it was entered where it was entered first.
EntryMoved(l) ==
    LET w == input.revisions[1]
        v == input.revisions[2]
    IN \E c \in OnCycle(v, {}) \cap Below(v, {l}, {}) :
         graph.idOf[c] \notin update.invalidated /\ LedTo(w, c) # LedTo(v, c)

\* update.go:40-150, invalidate.go:33-65: a graph that was updated is the graph that
\* is computed from nothing: the same targets (but for external ones that nothing
\* needs any more), hashes, dependencies and roots, and dependents that mirror the
\* dependencies.  An update that fails says so.  What it does not say:
\*  - the hash of a target on or above a cycle that the update left alone although
\*    what leads to the cycle changed (UpdatedHashesAreFull says it, and is false);
\*  - anything when the query held a cycle that no target of the query leads to;
\*  - which targets are roots, of repository rules, and where a cycle has no root;
\*  - anything with bzlmod, with excluded targets (UpdateGraph knows of none) or
\*    where the full hash starts from other sequential targets: Put asks for that;
\*  - anything when a repository rule or a module changed, since the analyzer then
\*    wants a full calculation: the rules of the query are those of the graph.
IncrementalIsFull ==
    update.phase = "done" /\ update.dropped = {} =>
      LET full == results[2].targets
          names == DOMAIN graph.idOf
          T(l) == OptimizedTargetToTarget(graph, graph.idOf[l])
      IN /\ DOMAIN full \subseteq names
         /\ \A l \in names \ DOMAIN full : isExternalTarget(l)
         /\ \A l \in DOMAIN full :
              /\ T(l).hash = full[l].hash \/ EntryMoved(l)
              /\ T(l).deps = ToSet(full[l].deps)
              /\ T(l).tags = full[l].tags
              /\ \/ Rootless(input.revisions[1]) \/ Rootless(input.revisions[2]) \/ isRepositoryRule(l)
                 \/ T(l).root = full[l].root
         /\ \A i, j \in DOMAIN graph.targets : j \in graph.targets[i].deps <=> i \in graph.targets[j].reverseDeps

\* update.go:105-106, 124-125 and update_test.go:342, as they say it: an update walks in
\* the order of full hashing, and so preserves the entry points of rooted cycles; every
\* hash of the updated graph is the one that is computed from nothing.
UpdatedHashesAreFull ==
    update.phase = "done" /\ update.dropped = {} /\ ~Rootless(input.revisions[1]) /\ ~Rootless(input.revisions[2]) =>
      \A l \in DOMAIN results[2].targets : graph.targets[graph.idOf[l]].hash = results[2].targets[l].hash

\* cache.go:120-160: the graph an update starts from is the latest that is not of a
\* later commit than the revision it leads to.
NearestBase ==
    update.phase = "diff" =>
      /\ update.key # Nil
      /\ update.key.time <= CommitTime[2]
      /\ \A k \in DOMAIN cache : k.time <= CommitTime[2] => k.time <= update.key.time
=============================================================================
