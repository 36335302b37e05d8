---------------------------- MODULE TargetHasher ----------------------------
(***************************************************************************)
(* core/targethasher: FromProto turns the output of a bazel query into a   *)
(* graph of targets, each with a hash of all that its build reads.  The    *)
(* state is the graph while it is hashed; each step is a phase of          *)
(* fromProto, or one target of a phase whose order the code leaves open    *)
(* (the order of the query's output, the iteration of a Go map).           *)
(*                                                                         *)
(* A digest is a sequence of units, and so is what is written into one:    *)
(* an empty digest (an excluded target, or one that is being visited)      *)
(* leaves no trace in what is computed from it.                            *)
(***************************************************************************)
EXTENDS Naturals, FiniteSets, SequencesExt

CONSTANTS Order,      \* labels, repositories and other strings, as strings.Compare orders them
          LabelOf,    \* labels.Parse: form, repository and package of a label
          Doubled,    \* labels that repeat their package: no file has them
          Inputs,     \* what may be hashed: two revisions and a configuration
          Nil         \* no hash yet

ASSUME OrderAssumption == \A i, j \in DOMAIN Order : Order[i] = Order[j] => i = j

VARIABLES input,      \* a member of Inputs
          hashing,    \* the graph of the revision that is being hashed
          results     \* of FromProto, one for each revision

hasherVars == <<input, hashing, results>>

-----------------------------------------------------------------------------
(* Labels *)

Rank == [l \in ToSet(Order) |-> CHOOSE i \in DOMAIN Order : Order[i] = l]
Sorted(s) == SortSeq(s, LAMBDA k, l : Rank[k] < Rank[l])
SortedSet(S) == SelectSeq(Order, LAMBDA l : l \in S)

isRepositoryRule(l) == LabelOf[l].form = "external"                 \* //external:repo
isExternalTarget(l) == LabelOf[l].form \in {"apparent", "canonical"} \* @repo//, @@repo//
Repo(l) == IF isExternalTarget(l) THEN LabelOf[l].repo ELSE ""

\* @repo//package:target -> //external:repo, if there is such a label at all
externalTargetForRule(l) ==
    LET rules == {e \in DOMAIN LabelOf : isRepositoryRule(e) /\ LabelOf[e].repo = LabelOf[l].repo}
    IN IF rules = {} THEN Nil ELSE CHOOSE e \in rules : TRUE

isExcluded(l, excluded) == l \in excluded

-----------------------------------------------------------------------------
(* Digests of files, directories and rules *)

Sha(bytes) == << <<"sha", bytes>> >>
Text(s) == << <<"text", s>> >>

hashFile(content) == Sha(<< <<"blob", content>> >>)

\* A link is read relative to its directory, wherever it was written to lead from.
stableSymlinkTarget(entry) == entry.to

DirectoryEntry(entry) ==
    CASE entry.kind = "link" -> << <<"link", entry.name, stableSymlinkTarget(entry)>> >>
      [] entry.kind = "dir" -> << <<"dir", entry.name>> >>
      [] OTHER -> << <<"file", entry.name>> >> \o hashFile(entry.to)

\* The entries of the whole tree, in the order of filepath.WalkDir.
hashDir(entries) == Sha(FlattenSeq([i \in DOMAIN entries |-> DirectoryEntry(entries[i])]))

filterVisibilityLabels(labels) == SelectSeq(labels, LAMBDA v : v # "//visibility:private")

\* Broken variant: what git knows is enough, whoever may see the file.
HashSourceFileTracked(w, l, visibility) ==
    IF l \in w.tracked THEN hashFile(w.disk[l].content)
    ELSE IF l \notin DOMAIN w.disk THEN Sha(Text(l))
    ELSE Sha(Text(l) \o (IF w.disk[l].kind = "dir" THEN hashDir(w.disk[l].content) ELSE hashFile(w.disk[l].content)))

\* Nil stands for an error: a directory with an entry that is no file, link or directory.
HashSourceFile(w, l, visibility) ==
    LET others == filterVisibilityLabels(visibility)
        node == w.disk[l]
    IN IF l \in w.tracked /\ others = << >> THEN hashFile(node.content)
       ELSE IF l \notin DOMAIN w.disk THEN Sha(Text(l))
       ELSE IF node.kind = "dir" /\ \E i \in DOMAIN node.content : node.content[i].kind = "other" THEN Nil
       ELSE Sha(Text(l) \o (IF node.kind = "dir" THEN hashDir(node.content) ELSE hashFile(node.content))
                        \o FlattenSeq([i \in DOMAIN others |-> Text(others[i])]))

\* The encoding of each field says which field it is, whether it is there and how long
\* it is, so it keeps what a tuple keeps; what is a list is sorted first.
encodeEntry(entry) == <<entry.key, Sorted(entry.value)>>

\* Broken variant: lists as bazel prints them.
encodeAttributeAsPrinted(a) == <<a.name, a.type, a.string, a.list, {encodeEntry(a.dict[i]) : i \in DOMAIN a.dict}>>

encodeAttribute(a) ==
    <<a.name, a.type, a.string, Sorted(a.list), {encodeEntry(a.dict[i]) : i \in DOMAIN a.dict}>>

encodeRule(l, rule) ==
    LET attributes == {a \in ToSet(rule.attrs) : a.name # "generator_location"}
    IN <<"rule", l, rule.class, {encodeAttribute(a) : a \in attributes}, Sorted(rule.input)>>

HashRuleCommon(l, rule) == Sha(<<encodeRule(l, rule)>>)

removeURLAttrs(rule) ==
    IF \E a \in ToSet(rule.attrs) : a.name \in {"sha256", "integrity"}
    THEN [rule EXCEPT !.attrs = SelectSeq(@, LAMBDA a : a.name \notin {"url", "urls"})]
    ELSE rule

TagsFromRule(rule) ==
    LET tags == SelectSeq(rule.attrs, LAMBDA a : a.type = "STRING_LIST" /\ a.name = "tags")
    IN IF tags = << >> THEN << >> ELSE Head(tags).list

\* Marker files: the first line and the lines about inputs of the main repository.
readMarkerHash(lines) ==
    LET stable == SelectSeq([i \in DOMAIN lines |-> <<i, lines[i]>>],
                            LAMBDA l : l[1] = 1 \/ l[2].kind = "local")
    IN IF stable = << >> THEN Nil
       ELSE Sha([i \in DOMAIN stable |-> <<"line", stable[i][2].text>>])

ReadRepoMarkerHashes(w) ==
    LET repos == {r \in DOMAIN w.markers : readMarkerHash(w.markers[r]) # Nil}
    IN [r \in repos |-> readMarkerHash(w.markers[r])]

-----------------------------------------------------------------------------
(* Targets *)

Unhashed(type, l, deps) ==
    [ruleType |-> type, hash |-> Nil, hashWithoutDeps |-> Nil, deps |-> deps, tags |-> << >>,
     root |-> FALSE, external |-> isExternalTarget(l), visibility |-> << >>]

toTarget(l, proto) ==
    LET deps == Sorted(SelectSeq(proto.input, LAMBDA d : d \notin Doubled))
    IN CASE proto.type = "rule" /\ isRepositoryRule(l) ->
              [Unhashed("external rule", l, deps) EXCEPT
                 !.hashWithoutDeps = HashRuleCommon(l, removeURLAttrs(proto)), !.external = TRUE]
         [] proto.type = "rule" ->
              [Unhashed(proto.class, l, deps) EXCEPT
                 !.hashWithoutDeps = HashRuleCommon(l, proto), !.tags = TagsFromRule(proto)]
         [] proto.type = "source file" ->
              [Unhashed("source file", l, << >>) EXCEPT !.visibility = proto.visibility]
         [] proto.type = "generated file" -> Unhashed("generated file", l, <<proto.generator>>)
         [] OTHER -> Unhashed("package group", l, << >>)

\* Other types of targets (environment groups) end the conversion with an error.
Convertible(protos) ==
    \A l \in DOMAIN protos : protos[l].type \in {"rule", "source file", "generated file", "package group"}

convertProtosToTargets(protos, ls) == [l \in ls |-> toTarget(l, protos[l])]

InternalLabels(protos) == {l \in DOMAIN protos : ~(protos[l].type = "rule" /\ isRepositoryRule(l))}

GetInternalTargetsWithoutHashAndRootInfo(protos) == convertProtosToTargets(protos, InternalLabels(protos))

\* The order in which bazel prints targets is its own affair.
QueryOrder(w, ls) == IF w.reversed THEN Reverse(SortedSet(ls)) ELSE SortedSet(ls)

CanBeRoot(type) == type \notin {"source file", "package group"}

GetTopologicalRoots(ts) == SortedSet(DOMAIN ts \ UNION {ToSet(ts[l].deps) : l \in DOMAIN ts})

MarkRoots(ts) ==
    [l \in DOMAIN ts |->
       [ts[l] EXCEPT !.root = @ \/ (l \in ToSet(GetTopologicalRoots(ts)) /\ CanBeRoot(ts[l].ruleType))]]

-----------------------------------------------------------------------------
(* Hashing: p says what is hashed, in which way; ts are the targets. *)

Hashed(ts, hash) == [targets |-> ts, hash |-> hash, failed |-> FALSE]
Failed(ts) == [targets |-> ts, hash |-> Nil, failed |-> TRUE]

\* A file of a repository whose files are not hashed one by one has the hash of the
\* rule that fetches the repository; what is no rule or is not known is such a file.
Collapses(ts, p, l) ==
    /\ ~p.useBzlmod
    /\ isExternalTarget(l)
    /\ Repo(l) \notin p.fullHashRepos
    /\ l \in DOMAIN ts => ts[l].ruleType \in {"source file", "generated file", "package group"}

\* The target of a label that stands for the repository, once its rule has a hash.
Translated(ts, rule, replace, l) ==
    LET made == [Unhashed("unknown rule", l, << >>) EXCEPT
                   !.hash = ts[rule].hash, !.hashWithoutDeps = ts[rule].hashWithoutDeps,
                   !.external = ts[rule].external]
    IN IF l \in DOMAIN ts /\ ~replace
       THEN [ts EXCEPT ![l].hash = ts[rule].hash, ![l].hashWithoutDeps = ts[rule].hashWithoutDeps]
       ELSE (l :> made) @@ ts

ExcludedTarget(l) ==
    [Unhashed("external rule", l, << >>) EXCEPT !.hash = << >>, !.hashWithoutDeps = << >>, !.external = FALSE]

RECURSIVE HashRecursively(_, _, _), HashBody(_, _, _), HashDeps(_, _, _, _)

HashRecursively(ts, p, l) ==
    LET collapses == Collapses(ts, p, l)
        rule == externalTargetForRule(l)
        subject == IF collapses THEN rule ELSE l
        known == IF subject \in DOMAIN ts THEN ts ELSE (l :> Unhashed("source file", l, << >>)) @@ ts
    IN IF l \in DOMAIN ts /\ ts[l].hash # Nil THEN Hashed(ts, ts[l].hash)
       ELSE IF collapses /\ rule \notin DOMAIN ts
       THEN IF isExcluded(l, p.excluded) THEN Hashed((l :> ExcludedTarget(l)) @@ ts, << >>) ELSE Failed(ts)
       ELSE IF ~collapses /\ l \notin DOMAIN ts /\ Repo(l) # "" THEN Failed(ts)
       ELSE IF known[subject].hash # Nil THEN Hashed(Translated(ts, rule, FALSE, l), ts[rule].hash)
       ELSE IF isExcluded(l, p.excluded)
       THEN Hashed([known EXCEPT ![l].hash = << >>, ![l].hashWithoutDeps = << >>], << >>)
       ELSE LET body == HashBody([known EXCEPT ![subject].hash = << >>], p, subject)
                done == [body.targets EXCEPT ![subject].hash = body.hash]
            IN IF body.failed THEN body
               ELSE Hashed(IF subject = l THEN done ELSE Translated(done, rule, TRUE, l), body.hash)

\* The digest of a target that is marked as visited.
HashBody(ts, p, l) ==
    CASE ts[l].ruleType = "source file" ->
           LET h == HashSourceFile(p.workspace, l, ts[l].visibility)
           IN IF h = Nil THEN Failed(ts) ELSE Hashed(ts, h)
      [] ts[l].ruleType = "generated file" -> HashRecursively(ts, p, ts[l].deps[1])
      [] ts[l].ruleType = "package group" -> Hashed(ts, Sha(Text(l)))
      [] OTHER -> HashDeps(ts, p, ts[l].deps, ts[l].hashWithoutDeps)

HashDeps(ts, p, deps, written) ==
    IF deps = << >> THEN Hashed(ts, Sha(written))
    ELSE LET first == HashRecursively(ts, p, Head(deps))
         IN IF first.failed THEN first
            ELSE HashDeps(first.targets, p, Tail(deps), written \o first.hash)

HashAll(ts, p, ls) ==
    FoldLeft(LAMBDA r, l : IF r.failed THEN r ELSE HashRecursively(r.targets, p, l), Hashed(ts, Nil), ls)

RECURSIVE ToposortRecursively(_, _, _)

\* Broken variant: a target before what it depends on.
ToposortRecursivelyDown(ts, sorted, l) ==
    IF l \in sorted.visited THEN sorted
    ELSE IF l \notin DOMAIN ts THEN [sorted EXCEPT !.visited = @ \cup {l}]
    ELSE FoldLeft(LAMBDA s, d : ToposortRecursively(ts, s, d),
                  [names |-> Append(sorted.names, l), visited |-> sorted.visited \cup {l}], Sorted(ts[l].deps))

\* Dependencies first.  A name without a target is visited and not listed.
ToposortRecursively(ts, sorted, l) ==
    IF l \in sorted.visited THEN sorted
    ELSE LET visited == [sorted EXCEPT !.visited = @ \cup {l}]
             below == FoldLeft(LAMBDA s, d : ToposortRecursively(ts, s, d), visited, Sorted(ts[l].deps))
         IN IF l \notin DOMAIN ts THEN visited ELSE [below EXCEPT !.names = Append(@, l)]

Toposort(ts, roots) ==
    FoldLeft(LAMBDA s, l : ToposortRecursively(ts, s, l), [names |-> << >>, visited |-> {}], roots)

\* HashExternalTargetsBzlmod: files of a repository get the hash of its marker file.
resolveBzlmodRepo(l, config) ==
    CASE LabelOf[l].form = "canonical" -> LabelOf[l].repo
      [] LabelOf[l].form = "apparent" /\ LabelOf[l].repo \in DOMAIN config.repoMapping ->
           config.repoMapping[LabelOf[l].repo]
      [] OTHER -> ""

shouldCollapseToBzlmodRepo(ts, l, config) ==
    /\ resolveBzlmodRepo(l, config) # ""
    /\ {resolveBzlmodRepo(l, config), Repo(l)} \cap config.fullHashRepos = {}
    /\ ts[l].ruleType \in {"source file", "generated file"}
    /\ ts[l].hash = Nil
    /\ ~isExcluded(l, config.excluded)

HashExternalTargetsBzlmod(ts, config, markers) ==
    LET files == {l \in DOMAIN ts : shouldCollapseToBzlmodRepo(ts, l, config)}
        marked == {l \in files : resolveBzlmodRepo(l, config) \in DOMAIN markers}
        Repository(l) == Sha(markers[resolveBzlmodRepo(l, config)])
    IN IF \E l \in files \ marked : LabelOf[l].form = "canonical" THEN Failed(ts)
       ELSE Hashed([l \in DOMAIN ts |-> IF l \notin marked THEN ts[l]
                                         ELSE [ts[l] EXCEPT !.hash = Repository(l), !.hashWithoutDeps = Repository(l)]],
                   Nil)

-----------------------------------------------------------------------------
(* nativeGraphRunner.Compute and fromProto *)

Revision == Len(results) + 1
Workspace == input.revisions[Revision]
config == input.config

Param(excluded) ==
    [workspace |-> Workspace, useBzlmod |-> config.useBzlmod,
     fullHashRepos |-> config.fullHashRepos, excluded |-> excluded]

Waiting == [phase |-> "query", targets |-> << >>, todo |-> << >>, roots |-> << >>]

HasherInit ==
    /\ input \in Inputs
    /\ hashing = Waiting
    /\ results = << >>

InProgress == Len(results) < 2 /\ \A r \in DOMAIN results : ~results[r].failed

End(result) ==
    /\ results' = Append(results, result)
    /\ hashing' = Waiting
    /\ UNCHANGED input

EmptyResult == [failed |-> TRUE, names |-> << >>, targets |-> << >>, files |-> << >>]

Go(outcome, phase, todo) ==
    IF outcome.failed THEN End(EmptyResult)
    ELSE /\ hashing' = [hashing EXCEPT !.phase = phase, !.targets = outcome.targets, !.todo = todo]
         /\ UNCHANGED <<input, results>>

\* The query, the hashes of git and the marker files; then the targets without hashes.
Compute ==
    /\ InProgress
    /\ hashing.phase = "query"
    /\ LET protos == Workspace.protos
           ok == Convertible(protos) /\ (config.useBzlmod => DOMAIN ReadRepoMarkerHashes(Workspace) # {})
           outcome == Hashed(GetInternalTargetsWithoutHashAndRootInfo(protos), Nil)
       IN Go(IF ok THEN outcome ELSE Failed(<< >>), IF config.useBzlmod THEN "collapse" ELSE "external", << >>)

\* HashExternalTargets: the repository rules join, and are hashed in the query's order.
AddExternalRules ==
    /\ hashing.phase = "external"
    /\ LET rules == DOMAIN Workspace.protos \ InternalLabels(Workspace.protos)
       IN Go(Hashed(convertProtosToTargets(Workspace.protos, rules) @@ hashing.targets, Nil),
             "rules", QueryOrder(Workspace, rules))

HashExternalRule ==
    /\ hashing.phase = "rules"
    /\ hashing.todo # << >>
    /\ Go(HashRecursively(hashing.targets, Param({}), Head(hashing.todo)), "rules", Tail(hashing.todo))

CollapseBzlmod ==
    /\ hashing.phase = "collapse"
    /\ Go(HashExternalTargetsBzlmod(hashing.targets, config, ReadRepoMarkerHashes(Workspace)), "rules", << >>)

IdentifyRoots ==
    /\ hashing.phase = "rules"
    /\ hashing.todo = << >>
    /\ hashing' = [hashing EXCEPT !.phase = "sequential", !.targets = MarkRoots(@),
                     !.roots = GetTopologicalRoots(hashing.targets),
                     !.todo = SortedSet(config.sequentialHashTargets \cap DOMAIN hashing.targets)]
    /\ UNCHANGED <<input, results>>

\* In any order: ToSlice follows the iteration of a map.
HashSequentialTarget ==
    /\ hashing.phase = "sequential"
    /\ \E i \in DOMAIN hashing.todo :
         Go(HashRecursively(hashing.targets, Param(config.excluded), hashing.todo[i]),
            "sequential", RemoveAt(hashing.todo, i))

HashRoots ==
    /\ hashing.phase = "sequential"
    /\ hashing.todo = << >>
    /\ Go(HashAll(hashing.targets, Param(config.excluded), hashing.roots), "sort", << >>)

\* Targets that no root leads to are listed last and count as roots.
ListTargets ==
    /\ hashing.phase = "sort"
    /\ LET sorted == Toposort(hashing.targets, hashing.roots)
           cyclic == SortedSet(DOMAIN hashing.targets \ sorted.visited)
           marked == [l \in DOMAIN hashing.targets |->
                        [hashing.targets[l] EXCEPT !.root = @ \/ l \in ToSet(cyclic)]]
           outcome == HashAll(marked, Param(config.excluded), cyclic)
       IN End(IF outcome.failed THEN EmptyResult
              ELSE [failed |-> FALSE, names |-> sorted.names \o cyclic, targets |-> outcome.targets,
                    files |-> [f \in config.allTargetsFiles |->
                                 IF f \in Workspace.tracked THEN hashFile(Workspace.disk[f].content) ELSE << >>]])

\* The context is checked at every target; the query and git fail likewise.
Cancel ==
    /\ InProgress
    /\ End(EmptyResult)

HasherNext ==
    \/ Compute \/ AddExternalRules \/ HashExternalRule \/ CollapseBzlmod \/ IdentifyRoots
    \/ HashSequentialTarget \/ HashRoots \/ ListTargets \/ Cancel

-----------------------------------------------------------------------------
(* Correctness, against a definition that follows no order: what a target's  *)
(* build reads is what it and everything below it read.                      *)

\* A file whose repository stands for it.
Stands(w, l) ==
    /\ ~config.useBzlmod /\ isExternalTarget(l) /\ Repo(l) \notin config.fullHashRepos
    /\ l \in DOMAIN w.protos => w.protos[l].type # "rule"

Marked(w, l) ==
    /\ config.useBzlmod /\ l \in DOMAIN w.protos \ config.excluded
    /\ w.protos[l].type \in {"source file", "generated file"}
    /\ resolveBzlmodRepo(l, config) \in DOMAIN w.markers
    /\ {resolveBzlmodRepo(l, config), Repo(l)} \cap config.fullHashRepos = {}

Reads(w, l) ==
    IF Stands(w, l) THEN {externalTargetForRule(l)}
    ELSE IF Marked(w, l) \/ l \notin DOMAIN w.protos THEN {}
    ELSE IF w.protos[l].type = "rule" THEN ToSet(w.protos[l].input) \ Doubled
    ELSE IF w.protos[l].type = "generated file" THEN {w.protos[l].generator}
    ELSE {}

RECURSIVE Found(_, _, _, _)
Found(w, found, last, stop) ==
    LET next == UNION {Reads(w, l) : l \in last \ stop} \ found
    IN IF next = {} THEN found ELSE Found(w, found \cup next, next, stop)

\* What is read from ls on, not looking below what is in stop.
Below(w, ls, stop) == Found(w, ls, ls, stop)

\* What an exclusion takes out: not what a repository rule reads.
Excluded(w) ==
    LET rules == {l \in DOMAIN w.protos : isRepositoryRule(l)}
    IN {l \in config.excluded \ Below(w, rules, {}) : ~Stands(w, l)}

\* What a target reads by itself.
Own(w, l, excluded) ==
    LET rule == w.protos[l]
        attrs == IF isRepositoryRule(l) THEN ToSet(removeURLAttrs(rule).attrs) ELSE ToSet(rule.attrs)
        others == IF l \in DOMAIN w.protos THEN filterVisibilityLabels(rule.visibility) ELSE << >>
        lines == w.markers[resolveBzlmodRepo(l, config)]
    IN IF l \in excluded THEN <<"excluded">>
       ELSE IF Stands(w, l) THEN <<"repository">>
       ELSE IF Marked(w, l)
       THEN <<"marker", {<<i, lines[i].text>> : i \in {j \in DOMAIN lines : j = 1 \/ lines[j].kind = "local"}}>>
       ELSE IF l \in DOMAIN w.protos /\ rule.type \in {"generated file", "package group"} THEN <<rule.type>>
       ELSE IF l \in DOMAIN w.protos /\ rule.type = "rule"
       THEN <<"rule", rule.class, ToBag(rule.input),
              {<<a.name, a.type, a.string, ToBag(a.list), {<<e.key, ToBag(e.value)>> : e \in ToSet(a.dict)}>> :
                 a \in {b \in attrs : b.name # "generator_location"}}>>
       ELSE IF l \notin DOMAIN w.disk THEN <<"absent">>
       ELSE IF w.disk[l].kind = "dir"
       THEN <<"dir", [i \in DOMAIN w.disk[l].content |->
                        LET e == w.disk[l].content[i] IN <<e.kind, e.name, e.to>>], others>>
       ELSE <<"file", w.disk[l].content, others, others # << >> \/ l \notin w.tracked>>

Footprint(w, l, excluded) == {<<m, Own(w, m, excluded)>> : m \in Below(w, {l}, excluded)}

OnCycle(w, excluded) == {l \in DOMAIN w.protos \ excluded : l \in Below(w, Reads(w, l), excluded)}

BothDone == hashing.phase = "query" /\ Len(results) = 2 /\ ~results[1].failed /\ ~results[2].failed
Common == DOMAIN results[1].targets \cap DOMAIN results[2].targets

\* graph.go:713-890: between two revisions the hash of a target changes if and only
\* if something it reads, directly or not, does: neither the order of the query's
\* output, nor where things are on disk, nor an excluded target matters.
HashTracksInputs ==
    BothDone =>
      LET w == input.revisions[1]
          v == input.revisions[2]
          out == <<Excluded(w), Excluded(v)>>
          cyclic == OnCycle(w, out[1]) \cup OnCycle(v, out[2])
          Hashes(l) == {results[r].targets[l].hash : r \in 1..2}
      IN \A l \in {m \in Common : Nil \notin Hashes(m)} :
           (Below(w, {l}, out[1]) \cup Below(v, {l}, out[2])) \cap cyclic = {} =>
             (Cardinality(Hashes(l)) = 1 <=> Footprint(w, l, out[1]) = Footprint(v, l, out[2]))

\* graph.go:533-540, 70-74: of equal revisions every hash is the same, on cycles
\* too, unless two of the targets that are hashed first are on one cycle.
HashesRepeatable ==
    BothDone =>
      LET w == input.revisions[1]
          v == input.revisions[2]
          out == Excluded(w)
          Together(l, m) == l # m /\ l \in Below(w, {m}, {}) /\ m \in Below(w, {l}, {})
      IN (/\ DOMAIN w.protos = DOMAIN v.protos
          /\ \A l \in DOMAIN w.protos : Footprint(w, l, out) = Footprint(v, l, out)
          /\ ~\E l, m \in config.sequentialHashTargets : Together(l, m)) =>
            /\ DOMAIN results[1].targets = DOMAIN results[2].targets
            /\ \A l \in Common : results[1].targets[l].hash = results[2].targets[l].hash

\* graph.go:605-648: every target is listed once, and hashed unless only excluded
\* targets lead to it.  It comes after what it depends on unless on a cycle.  What no root leads to comes last, by name; an
\* undeclared file that only such targets read is found too late for the list.
NamesComplete ==
    \A r \in DOMAIN results : hashing.phase = "query" /\ ~results[r].failed =>
      LET names == results[r].names
          ts == results[r].targets
          At(l) == CHOOSE i \in DOMAIN names : names[i] = l
          w == input.revisions[r]
          roots == {l \in DOMAIN w.protos : \A m \in DOMAIN w.protos : l \notin Reads(w, m)}
          out == Excluded(w)
          rooted == Below(w, roots, out)
      IN /\ \A l \in DOMAIN ts : ts[l].hash = Nil => l \in Below(w, out, {}) \ rooted
         /\ Cardinality(ToSet(names)) = Len(names)
         /\ ToSet(names) \subseteq DOMAIN ts
         /\ \A l \in DOMAIN ts \ ToSet(names) : l \notin DOMAIN w.protos \cup rooted
         /\ \A l \in ToSet(names) \cap rooted : \A d \in ToSet(ts[l].deps) \cap ToSet(names) :
              At(d) < At(l) \/ l \in Below(w, {d}, {})
=============================================================================
