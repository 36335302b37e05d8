------------------------------ MODULE Delivery ------------------------------
(***************************************************************************)
(* How an answer travels: the result of the hasher becomes numbered targets*)
(* in messages of bounded size, the messages one TGB blob, the blob again  *)
(* numbered messages or one side of a comparison, whose changes get numbers*)
(* of their own, are split, cached, filtered and sent, one by one, to a    *)
(* client that puts them together.  Every map on the way is iterated in an *)
(* order of its own, every write and send can fail.                        *)
(*                                                                         *)
(* TgbCodec is about the bytes of a blob and ShadowCompare about the       *)
(* comparison; here a blob keeps what it was given, by name, and the       *)
(* distance of a change is part of the input.                              *)
(***************************************************************************)
EXTENDS Integers, FiniteSets, SequencesExt

CONSTANTS Orders,   \* orders in which a map may be iterated: all strings, each once
          Lexical,  \* the one of strings.Compare
          Width,    \* bytes of a string
          Inputs,   \* revisions, distances, formats, limits and requests
          Nil

ASSUME OrdersAssumption == \A o \in Orders \cup {Lexical} : ToSet(o) = DOMAIN Width /\ Len(o) = Cardinality(ToSet(o))

VARIABLES input,      \* a member of Inputs
          phase,
          chunks,     \* the messages of each revision, as far as they were made
          blobs,      \* the TGB blob of each revision
          responses,  \* what the controller gave to the handler
          received,   \* what the client has
          outcome     \* what the client was told

vars == <<input, phase, chunks, blobs, responses, received, outcome>>

In(order, S) == SelectSeq(order, LAMBDA s : s \in S)

-----------------------------------------------------------------------------
(* idmapper.  IDs count the names in the order of their first use, from 1:   *)
(* the sequence of the names is the map from IDs to names.                   *)

Mapper(names) == FoldLeft(LAMBDA m, s : IF s \in ToSet(m) THEN m ELSE Append(m, s), << >>, names)

ID(m, s) == CHOOSE i \in DOMAIN m : m[i] = s

NoMetadata == [targets |-> << >>, ruleTypes |-> << >>, tags |-> << >>, attrNames |-> << >>, attrVals |-> << >>,
               files |-> << >>]

\* A target with the names that it refers to replaced by IDs; no type has the ID 0.
Optimized(m, l, t) ==
    LET attrs == DOMAIN t.attrs
    IN [id |-> ID(m.targets, l), hash |-> t.hash, root |-> t.root, external |-> t.external,
        ruleType |-> IF t.ruleType = "" THEN 0 ELSE ID(m.ruleTypes, t.ruleType),
        deps |-> [i \in DOMAIN t.deps |-> ID(m.targets, t.deps[i])],
        tags |-> [i \in DOMAIN t.tags |-> ID(m.tags, t.tags[i])],
        attrs |-> [n \in {ID(m.attrNames, a) : a \in attrs} |-> ID(m.attrVals, t.attrs[m.attrNames[n]])]]

\* The IDs for the fields of targets, as they are visited one after the other.
FieldIDs(targets, order) ==
    LET Attrs(t) == In(order, DOMAIN t.attrs)
        Each(Op(_)) == FlattenSeq([i \in DOMAIN targets |-> Op(targets[i])])
    IN [NoMetadata EXCEPT
          !.ruleTypes = Mapper(Each(LAMBDA t : IF t.ruleType = "" THEN << >> ELSE <<t.ruleType>>)),
          !.tags = Mapper(Each(LAMBDA t : t.tags)),
          !.attrNames = Mapper(Each(Attrs)),
          !.attrVals = Mapper(Each(LAMBDA t : [i \in DOMAIN Attrs(t) |-> t.attrs[Attrs(t)[i]]]))]

\* Dependencies that are not listed are dropped.
ResultToTargetGraph(result, order) ==
    LET names == SelectSeq(result.names, LAMBDA l : l \in DOMAIN result.targets)
        Kept(l) == [result.targets[l] EXCEPT !.deps = SelectSeq(@, LAMBDA d : d \in ToSet(result.names))]
        meta == [FieldIDs([i \in DOMAIN names |-> Kept(names[i])], order) EXCEPT
                   !.targets = result.names, !.files = result.files]
    IN [targets |-> [i \in DOMAIN names |-> Optimized(meta, names[i], Kept(names[i]))], meta |-> meta]

-----------------------------------------------------------------------------
(* streaming *)

Size(t) == 1 + Width[t.hash] + Len(t.deps) + Len(t.tags) + Cardinality(DOMAIN t.attrs)

ChangedSize(c) ==
    LET Of(t) == IF t = Nil THEN 0 ELSE Size(t)
    IN 1 + Of(c.old) + Of(c.new)

mapEntryWireSize(m, id) == 1 + Width[m[id]]

\* The sizes of the items of a sequence.
Sizes(items) == [x \in ToSet(items) |-> IF "type" \in DOMAIN x THEN ChangedSize(x) ELSE Size(x)]

Total(items, size) == FoldLeft(LAMBDA n, x : n + size[x], 0, items)

\* Consecutive runs: an item begins a new one if it does not fit.
Groups(items, size, maxBytes) ==
    LET Place(groups, x) ==
          IF groups = << >> \/ Total(Last(groups), size) + size[x] > maxBytes THEN Append(groups, <<x>>)
          ELSE [groups EXCEPT ![Len(groups)] = Append(@, x)]
    IN FoldLeft(Place, << >>, items)

SplitBySize(items, maxBytes) == IF items = << >> THEN << << >> >> ELSE Groups(items, Sizes(items), maxBytes)

\* The IDs of a map as the map is iterated.
Iterated(m, order) ==
    LET names == In(order, {m[id] : id \in DOMAIN m})
    IN [i \in DOMAIN names |-> ID(m, names[i])]

\* Broken variant: only the bytes of the names count, not those that frame an entry.
splitMapByLength(m, maxBytes, order) ==
    LET groups == Groups(Iterated(m, order), [id \in DOMAIN m |-> Width[m[id]]], maxBytes)
    IN [i \in DOMAIN groups |-> [id \in ToSet(groups[i]) |-> m[id]]]

splitMapByBytes(m, maxBytes, order) ==
    LET groups == Groups(Iterated(m, order), [id \in DOMAIN m |-> mapEntryWireSize(m, id)], maxBytes)
    IN [i \in DOMAIN groups |-> [id \in ToSet(groups[i]) |-> m[id]]]

\* Broken variant: the small maps go with the last message that has names of targets.
SplitMetadataNames(meta, maxBytes, order) ==
    LET names == splitMapByBytes(meta.targets, maxBytes, order)
        metas == [i \in DOMAIN names |-> [NoMetadata EXCEPT !.targets = names[i]]]
    IN IF metas = << >> THEN <<meta>>
       ELSE [metas EXCEPT ![Len(metas)].ruleTypes = meta.ruleTypes, ![Len(metas)].tags = meta.tags,
                          ![Len(metas)].attrNames = meta.attrNames]

SplitMetadata(meta, maxBytes, order) ==
    LET names == splitMapByBytes(meta.targets, maxBytes, order)
        values == splitMapByBytes(meta.attrVals, maxBytes, order)
        split == [i \in DOMAIN names |-> [NoMetadata EXCEPT !.targets = names[i]]]
                 \o [i \in DOMAIN values |-> [NoMetadata EXCEPT !.attrVals = values[i]]]
        metas == IF split = << >> THEN <<NoMetadata>> ELSE split
    IN [metas EXCEPT ![1].ruleTypes = meta.ruleTypes, ![1].tags = meta.tags, ![1].attrNames = meta.attrNames]

\* A message has either targets (or changes) or metadata.
Items(groups) == [i \in DOMAIN groups |-> [items |-> groups[i], meta |-> Nil]]
Metas(metas) == [i \in DOMAIN metas |-> [items |-> << >>, meta |-> metas[i]]]

ResultToGraphChunks(result, maxBytes, order) ==
    LET graph == ResultToTargetGraph(result, order)
        metas == SplitMetadata(graph.meta, maxBytes, order)
    IN Items(SplitBySize(graph.targets, maxBytes)) \o Metas([metas EXCEPT ![1].files = graph.meta.files])

-----------------------------------------------------------------------------
(* Putting messages together: a later target replaces an earlier one.        *)

Union(f, g) == [x \in DOMAIN f \cup DOMAIN g |-> IF x \in DOMAIN g THEN g[x] ELSE f[x]]

MergedMetadata(messages) ==
    LET Merge(m, message) ==
          IF message.meta = Nil THEN m ELSE [k \in DOMAIN m |-> Union(m[k], message.meta[k])]
    IN FoldLeft(Merge, NoMetadata, messages)

MergedTargets(messages) ==
    FoldLeft(LAMBDA ts, t : Union(ts, [i \in {t.id} |-> t]), << >>,
             FlattenSeq([i \in DOMAIN messages |-> messages[i].items]))

\* What an ID stands for, "" if nothing.
At(m, id) == IF id \in DOMAIN m THEN m[id] ELSE ""

Named(t, meta, seedAttrs) ==
    LET Names(m, ids) == SelectSeq([i \in DOMAIN ids |-> At(m, ids[i])], LAMBDA s : s # "")
        attrs == {n \in DOMAIN t.attrs :
                    At(meta.attrNames, n) # "" /\ (seedAttrs = Nil \/ At(meta.attrNames, n) \in seedAttrs)}
    IN [hash |-> t.hash, ruleType |-> At(meta.ruleTypes, t.ruleType), root |-> t.root,
        external |-> t.external, deps |-> Names(meta.targets, t.deps), tags |-> Names(meta.tags, t.tags),
        attrs |-> [a \in {meta.attrNames[n] : n \in attrs} |-> At(meta.attrVals, t.attrs[ID(meta.attrNames, a)])]]

\* Targets without a name are left out.
toDiffGraph(targets, meta, seedAttrs) ==
    LET ids == {i \in DOMAIN targets : At(meta.targets, i) # ""}
    IN [l \in {meta.targets[i] : i \in ids} |-> Named(targets[ID(meta.targets, l)], meta, seedAttrs)]

-----------------------------------------------------------------------------
(* TGB blobs *)

\* A target without a name or a type, or a dependency without a target, is refused.
Encodable(targets, meta) ==
    \A i \in DOMAIN targets :
      /\ At(meta.targets, i) # ""
      /\ targets[i].ruleType \in DOMAIN meta.ruleTypes
      /\ ToSet(targets[i].deps) \subseteq DOMAIN targets

EncodeChunks(messages) ==
    LET targets == MergedTargets(messages)
        meta == MergedMetadata(messages)
    IN IF ~Encodable(targets, meta) THEN Nil
       ELSE [targets |-> toDiffGraph(targets, meta, Nil), files |-> meta.files]

\* IDs are places in the order of the labels, and of the dictionaries, from 0.
DecodeGraph(blob) ==
    LET Dict(S) == LET s == In(Lexical, S) IN [i \in 0..(Len(s) - 1) |-> s[i + 1]]
        ts == blob.targets
        Sorted(s) == SortSeq(s, LAMBDA a, b : ID(Lexical, a) < ID(Lexical, b))
        meta == [targets |-> Dict(DOMAIN ts), ruleTypes |-> Dict({ts[l].ruleType : l \in DOMAIN ts}),
                 tags |-> Dict(UNION {ToSet(ts[l].tags) : l \in DOMAIN ts}),
                 attrNames |-> Dict(UNION {DOMAIN ts[l].attrs : l \in DOMAIN ts}),
                 attrVals |-> Dict(UNION {{ts[l].attrs[a] : a \in DOMAIN ts[l].attrs} : l \in DOMAIN ts}),
                 files |-> blob.files]
        names == In(Lexical, DOMAIN ts)
    IN [targets |-> [i \in DOMAIN names |->
                       Optimized(meta, names[i], [ts[names[i]] EXCEPT !.deps = Sorted(@), !.tags = Sorted(@)])],
        meta |-> meta]

\* The messages of a blob; they do not have the hashes of the files.
build(blob, maxBytes, order) ==
    LET graph == DecodeGraph(blob)
    IN Items(SplitBySize(graph.targets, maxBytes)) \o Metas(SplitMetadata(graph.meta, maxBytes, order))

-----------------------------------------------------------------------------
(* controller *)

Change(type, old, new, distance) == [type |-> type, old |-> old, new |-> new, distance |-> distance]

\* The changes between two graphs, from names.
Compare(before, after, distance) ==
    [l \in {m \in DOMAIN before \cup DOMAIN after :
              ~(m \in DOMAIN before /\ m \in DOMAIN after /\ before[m].hash = after[m].hash)} |->
       CASE l \notin DOMAIN before -> Change("new", Nil, after[l], distance[l])
         [] l \notin DOMAIN after -> Change("deleted", before[l], Nil, distance[l])
         [] OTHER -> Change("changed", before[l], after[l], distance[l])]

allTargetsChanged(before, after) ==
    [l \in DOMAIN before \cup DOMAIN after |->
       CASE l \notin DOMAIN before -> Change("new", Nil, after[l], 0)
         [] l \notin DOMAIN after -> Change("deleted", before[l], Nil, 0)
         [] OTHER -> Change("changed", before[l], after[l], 0)]

seedAttributesFor(allowlist) == IF allowlist = {} THEN Nil ELSE allowlist

allTargetsFileChanged(first, second) == first.files # second.files

\* Each change in IDs of this answer.
resultToResponses(result, maxBytes, order) ==
    LET names == In(order, DOMAIN result)
        Sides(l) == SelectSeq(<<result[l].old, result[l].new>>, LAMBDA t : t # Nil)
        sides == FlattenSeq([i \in DOMAIN names |-> Sides(names[i])])
        visits == FlattenSeq([i \in DOMAIN names |->
                                FlattenSeq([j \in DOMAIN Sides(names[i]) |-> <<names[i]>> \o Sides(names[i])[j].deps])])
        meta == [FieldIDs(sides, order) EXCEPT !.targets = Mapper(visits)]
        transpose(l, t) == IF t = Nil THEN Nil ELSE Optimized(meta, l, t)
        changed == [i \in DOMAIN names |->
                      [result[names[i]] EXCEPT !.old = transpose(names[i], @), !.new = transpose(names[i], @)]]
    IN Items(SplitBySize(changed, maxBytes)) \o Metas(SplitMetadata(meta, maxBytes, order))

allTargetsChangedFromGraph(before, beforeMeta, after, afterMeta) ==
    allTargetsChanged(toDiffGraph(before, beforeMeta, Nil), toDiffGraph(after, afterMeta, Nil))

allTargetsChangedFromTGB(first, second) ==
    LET before == DecodeGraph(first)
        after == DecodeGraph(second)
        ByID(graph) == MergedTargets(Items(<<graph.targets>>))
    IN allTargetsChangedFromGraph(ByID(before), before.meta, ByID(after), after.meta)

\* Two chunk streams, one of which may have been a blob.
compareTargetGraphs(first, second, seedAttrs, distance) ==
    LET before == MergedTargets(first)
        after == MergedTargets(second)
        beforeMeta == MergedMetadata(first)
        afterMeta == MergedMetadata(second)
    IN IF allTargetsFileChanged(beforeMeta, afterMeta)
       THEN allTargetsChangedFromGraph(before, beforeMeta, after, afterMeta)
       ELSE Compare(toDiffGraph(before, beforeMeta, seedAttrs), toDiffGraph(after, afterMeta, seedAttrs), distance)

Seeded(blob, seedAttrs) ==
    [l \in DOMAIN blob.targets |->
       [blob.targets[l] EXCEPT !.attrs = [a \in {b \in DOMAIN @ : seedAttrs # Nil => b \in seedAttrs} |-> @[a]]]]

compareTargetGraphsTGB(first, second, seedAttrs, distance) ==
    Compare(Seeded(first, seedAttrs), Seeded(second, seedAttrs), distance)

-----------------------------------------------------------------------------
(* handler.  cfg is Nil if the client sent no OutputConfig.                  *)

Includes(cfg, field) == cfg # Nil /\ cfg[field]

applyOptimizedTargetOutputConfig(t, cfg) ==
    IF t = Nil THEN Nil
    ELSE [t EXCEPT !.hash = IF Includes(cfg, "hashes") THEN @ ELSE "",
                   !.tags = IF Includes(cfg, "tags") THEN @ ELSE << >>,
                   !.attrs = IF Includes(cfg, "attributes") THEN @ ELSE << >>]

applyMetadataOutputConfig(meta, cfg) ==
    [meta EXCEPT !.tags = IF Includes(cfg, "tags") THEN @ ELSE << >>,
                 !.attrNames = IF Includes(cfg, "attributes") THEN @ ELSE << >>,
                 !.attrVals = IF Includes(cfg, "attributes") THEN @ ELSE << >>]

MaxDist(cfg) == IF cfg = Nil THEN -1 ELSE cfg.maxDistance

filterChangedTargetsByDistance(changes, maxDist) ==
    IF maxDist < 0 THEN changes ELSE SelectSeq(changes, LAMBDA c : c.distance >= 0 /\ c.distance <= maxDist)

\* The wire has no hashes of files.
ToProto(message) == IF message.meta = Nil THEN message ELSE [message EXCEPT !.meta.files = << >>]

Trimmed(message, request) ==
    LET cfg == request.cfg
        Strip(x) == IF request.rpc = "graph" THEN applyOptimizedTargetOutputConfig(x, cfg)
                    ELSE [x EXCEPT !.old = applyOptimizedTargetOutputConfig(@, cfg),
                                   !.new = applyOptimizedTargetOutputConfig(@, cfg)]
        kept == IF request.rpc = "graph" THEN message.items
                ELSE filterChangedTargetsByDistance(message.items, MaxDist(cfg))
    IN IF message.meta # Nil THEN [ToProto(message) EXCEPT !.meta = applyMetadataOutputConfig(@, cfg)]
       ELSE [message EXCEPT !.items = [i \in DOMAIN kept |-> Strip(kept[i])]]

-----------------------------------------------------------------------------
(* Requests.  A build has the fields that a client filled in, or is Nil.     *)

ProtoToBuildDescription(desc) ==
    desc # Nil /\ desc.remote # "" /\ desc.baseSha # "" /\ desc.strategy \in {"unset", "shell", "native"}

ProtoToGetTargetGraphRequest(request) == ProtoToBuildDescription(request.builds[1])

ProtoToGetChangedTargetsRequest(request) ==
    /\ \A r \in 1..2 : ProtoToBuildDescription(request.builds[r])
    /\ request.builds[1].remote = request.builds[2].remote

\* The configuration of the repository, or Nil for the error of a user.
resolveRequestRepository(request, config) ==
    LET valid == IF request.rpc = "graph" THEN ProtoToGetTargetGraphRequest(request)
                 ELSE ProtoToGetChangedTargetsRequest(request)
    IN IF valid /\ request.builds[1].remote \in DOMAIN config THEN config[request.builds[1].remote] ELSE Nil

\* The code on the wire: context.Canceled anywhere in the chain, else the class it was given.
toWireError(err) == IF err.canceled THEN "cancelled" ELSE err.class

Revisions == IF input.request.rpc = "graph" THEN {1} ELSE {1, 2}

\* The graph of a revision can be read.
Fetched(r) == chunks[r] # Nil /\ (input.formats[r] = "tgb" => blobs[r] # Nil)

Fail(err) == phase' = "done" /\ outcome' = toWireError(err)

-----------------------------------------------------------------------------
Init ==
    /\ input \in Inputs
    /\ phase = "accept"
    /\ chunks = [r \in 1..2 |-> Nil]
    /\ blobs = [r \in 1..2 |-> Nil]
    /\ responses = Nil
    /\ received = << >>
    /\ outcome = Nil

Accept ==
    /\ phase = "accept"
    /\ IF resolveRequestRepository(input.request, input.config) = Nil
       THEN Fail([canceled |-> FALSE, class |-> "user"])
       ELSE phase' = "graphs" /\ UNCHANGED outcome
    /\ UNCHANGED <<input, chunks, blobs, responses, received>>

\* The hasher's result of revision r is mapped and split.
Produce(r) ==
    /\ phase = "graphs" /\ chunks[r] = Nil
    /\ \E order \in Orders :
         chunks' = [chunks EXCEPT ![r] = ResultToGraphChunks(input.results[r], input.maxBytes, order)]
    /\ UNCHANGED <<input, phase, blobs, responses, received, outcome>>

\* The error of Put goes before that of the encoder, and nothing is stored with either.
WriteTGBGraph(r) ==
    /\ phase = "graphs" /\ input.formats[r] = "tgb" /\ chunks[r] # Nil /\ blobs[r] = Nil
    /\ \E put \in BOOLEAN :
         LET blob == EncodeChunks(chunks[r])
         IN IF put /\ blob # Nil THEN blobs' = [blobs EXCEPT ![r] = blob] /\ UNCHANGED <<phase, outcome>>
            ELSE Fail([canceled |-> FALSE, class |-> "infra"]) /\ UNCHANGED blobs
    /\ UNCHANGED <<input, chunks, responses, received>>

\* The messages of revision r, as its reader gives them.
materializeChunks(r, order) ==
    IF input.formats[r] = "tgb" THEN build(blobs[r], input.maxBytes, order) ELSE chunks[r]

GetTargetGraph ==
    /\ phase = "graphs" /\ input.request.rpc = "graph" /\ Fetched(1)
    /\ \E order \in Orders : responses' = materializeChunks(1, order)
    /\ phase' = "send"
    /\ UNCHANGED <<input, chunks, blobs, received, outcome>>

compareFetchedGraphs ==
    /\ phase = "graphs" /\ input.request.rpc = "changes" /\ \A r \in 1..2 : Fetched(r)
    /\ \E order \in Orders :
         LET seedAttrs == seedAttributesFor(resolveRequestRepository(input.request, input.config))
             result ==
               IF \E r \in 1..2 : input.formats[r] # "tgb"
               THEN compareTargetGraphs(materializeChunks(1, order), materializeChunks(2, order), seedAttrs, input.distance)
               ELSE IF allTargetsFileChanged(blobs[1], blobs[2]) THEN allTargetsChangedFromTGB(blobs[1], blobs[2])
               ELSE compareTargetGraphsTGB(blobs[1], blobs[2], seedAttrs, input.distance)
         IN responses' = resultToResponses(result, input.maxBytes, order)
    /\ phase' = "send"
    /\ UNCHANGED <<input, chunks, blobs, received, outcome>>

\* The client goes away before there is an answer.
Cancel ==
    /\ phase = "graphs"
    /\ Fail([canceled |-> TRUE, class |-> "infra"])
    /\ UNCHANGED <<input, chunks, blobs, responses, received>>

Send ==
    /\ phase = "send" /\ Len(received) < Len(responses)
    /\ received' = Append(received, Trimmed(responses[Len(received) + 1], input.request))
    /\ UNCHANGED <<input, phase, chunks, blobs, responses, outcome>>

\* stream.Send fails, or the stream's context has ended.
SendFails ==
    /\ phase = "send" /\ Len(received) < Len(responses)
    /\ \E canceled \in BOOLEAN : Fail([canceled |-> canceled, class |-> "infra"])
    /\ UNCHANGED <<input, chunks, blobs, responses, received>>

Finish ==
    /\ phase = "send" /\ Len(received) = Len(responses)
    /\ phase' = "done" /\ outcome' = "ok"
    /\ UNCHANGED <<input, chunks, blobs, responses, received>>

Answered == phase = "done" /\ UNCHANGED vars

Next ==
    \/ Accept \/ GetTargetGraph \/ compareFetchedGraphs \/ Cancel \/ Send \/ SendFails \/ Finish \/ Answered
    \/ \E r \in Revisions : Produce(r) \/ WriteTGBGraph(r)

Spec == Init /\ [][Next]_vars

-----------------------------------------------------------------------------
(* What the client should get, from the results of the hasher.               *)

Bag(s) == [x \in ToSet(s) |-> Cardinality({i \in DOMAIN s : s[i] = x})]

\* The order of dependencies and tags does not count.
Plain(t) == [t EXCEPT !.deps = Bag(@), !.tags = Bag(@)]

Shown(t) ==
    LET cfg == input.request.cfg
    IN Plain([t EXCEPT !.hash = IF cfg # Nil /\ cfg.hashes THEN @ ELSE "",
                       !.tags = IF cfg # Nil /\ cfg.tags THEN @ ELSE << >>,
                       !.attrs = IF cfg # Nil /\ cfg.attributes THEN @ ELSE [a \in {} |-> ""]])

Listed(r) ==
    LET result == input.results[r]
    IN [l \in ToSet(result.names) \cap DOMAIN result.targets |->
          [result.targets[l] EXCEPT !.deps = SelectSeq(@, LAMBDA d : d \in ToSet(result.names))]]

WantedGraph == {<<l, Shown(Listed(1)[l])>> : l \in DOMAIN Listed(1)}

\* With the trigger every target is a change at distance 0, with all of its attributes.
WantedChanges(trigger) ==
    LET before == Listed(1)
        after == Listed(2)
        allowed == input.config[input.request.builds[1].remote]
        Attrs(t) == {a \in DOMAIN t.attrs : trigger \/ allowed = {} \/ a \in allowed}
        Side(g, l) == IF l \notin DOMAIN g THEN Nil
                      ELSE Shown([g[l] EXCEPT !.attrs = [a \in Attrs(g[l]) |-> @[a]]])
        Type(l) == CASE l \notin DOMAIN before -> "new" [] l \notin DOMAIN after -> "deleted" [] OTHER -> "changed"
        Distance(l) == IF trigger THEN 0 ELSE input.distance[l]
        same == {l \in DOMAIN before \cap DOMAIN after : ~trigger /\ before[l].hash = after[l].hash}
        cfg == input.request.cfg
        far == {l \in DOMAIN before \cup DOMAIN after :
                  cfg # Nil /\ cfg.maxDistance >= 0 /\ Distance(l) \notin 0..cfg.maxDistance}
    IN {<<l, Type(l), Side(before, l), Side(after, l), Distance(l)>> :
          l \in (DOMAIN before \cup DOMAIN after) \ (same \cup far)}

\* The hashes of the trigger files as the comparison sees them: build leaves them out,
\* so that a blob compared with a stream has none.
SeenFiles(r) ==
    IF input.formats[1] # input.formats[2] /\ input.formats[r] = "tgb" THEN << >> ELSE input.results[r].files

\* What a client makes of the messages it got, with the metadata it looks IDs up in.
Recovers(meta) ==
    LET items == FlattenSeq([i \in DOMAIN received |-> received[i].items])
        Look(t) == IF t = Nil THEN Nil ELSE Plain(Named(t, meta, Nil))
        Id(c) == IF c.new = Nil THEN c.old.id ELSE c.new.id
        gotGraph == {<<At(meta.targets, items[i].id), Look(items[i])>> : i \in DOMAIN items}
        gotChanges == {<<At(meta.targets, Id(items[i])), items[i].type, Look(items[i].old), Look(items[i].new),
                         items[i].distance>> : i \in DOMAIN items}
    IN IF input.request.rpc = "graph"
       THEN gotGraph = WantedGraph /\ Len(items) = Cardinality(gotGraph)
       ELSE /\ gotChanges = WantedChanges(SeenFiles(1) # SeenFiles(2))
            /\ Len(items) = Cardinality(gotChanges)
            /\ \A i \in DOMAIN items : Nil \notin {items[i].old, items[i].new} => items[i].old.id = items[i].new.id

\* A client that takes the ID 0 for a field that was not set.
Without0(meta) == [k \in DOMAIN meta |-> [id \in DOMAIN meta[k] \ {0} |-> meta[k][id]]]

\* A client that was told that the answer is complete can put it together: the
\* messages it got, their metadata merged and every ID looked up, are the
\* graph or the changes that were asked for, with the fields that OutputConfig
\* includes and no target twice; both sides of a change have one ID.  This
\* crosses ResultToGraphChunks, EncodeChunks, build, the comparison,
\* resultToResponses and the output filters, which number and split anew.  The
\* IDs of idmapper leave 0 free (idmapper.go:19-23), so that a client that takes 0
\* for "unset" gets the same; only a graph that was a blob is numbered from 0.
ClientRecovers ==
    outcome = "ok" =>
      LET meta == MergedMetadata(received)
          fromBlob == input.request.rpc = "graph" /\ input.formats[1] = "tgb" /\ DOMAIN Listed(1) # {}
      IN Recovers(meta) /\ (Recovers(Without0(meta)) <=> ~fromBlob)

\* The bytes that frame an item of a repeated field, which Size leaves out.
Frame == 2

\* The bytes of a message: framed items, or the entries of all of its maps.
WireSize(message) ==
    LET Entries(m) == MapThenSumSet(LAMBDA id : mapEntryWireSize(m, id), DOMAIN m)
        meta == message.meta
    IN IF meta = Nil THEN Total(message.items, Sizes(message.items)) + Frame * Len(message.items)
       ELSE Entries(meta.targets) + Entries(meta.ruleTypes) + Entries(meta.tags)
            + Entries(meta.attrNames) + Entries(meta.attrVals)

\* What may come on top of the limit: the frames of the items, and in the first
\* message with metadata the maps that are not split.
OnTop(s, i) ==
    LET first == s[i].meta # Nil /\ \A j \in 1..(i - 1) : s[j].meta = Nil
        small == IF s[i].meta = Nil THEN Nil ELSE [s[i].meta EXCEPT !.targets = << >>, !.attrVals = << >>]
    IN IF s[i].meta = Nil THEN Frame * Len(s[i].items)
       ELSE IF first THEN WireSize([s[i] EXCEPT !.meta = small]) ELSE 0

Single(message) ==
    IF message.meta = Nil THEN Len(message.items) = 1
    ELSE Cardinality(DOMAIN message.meta.targets) + Cardinality(DOMAIN message.meta.attrVals) = 1

\* What a change refers to: the IDs of each map.
Referred(sides) ==
    [targets |-> UNION {{t.id} \cup ToSet(t.deps) : t \in sides},
     ruleTypes |-> {t.ruleType : t \in sides} \ {0},
     tags |-> UNION {ToSet(t.tags) : t \in sides},
     attrNames |-> UNION {DOMAIN t.attrs : t \in sides},
     attrVals |-> UNION {{t.attrs[n] : n \in DOMAIN t.attrs} : t \in sides}]

SidesOf(messages) ==
    UNION {UNION {{messages[i].items[j].old, messages[i].items[j].new} : j \in DOMAIN messages[i].items} :
             i \in DOMAIN messages} \ {Nil}

\* A message is within maxBytes, or has a single item, name or value, up to what
\* the splitting does not count (SplitBySize the frames, SplitMetadata the small
\* maps, which all go with the first).  The metadata of changes names what they
\* refer to and nothing else (resultToResponses: "pruned to what the changed targets
\* reference"); what is sent names all that the changes sent refer to, and nothing
\* more if no change was too far away for the client.
MessagesLean ==
    LET streams == {s \in {chunks[1], chunks[2], responses} : s # Nil}
        Names(messages) ==
          LET meta == MergedMetadata(messages)
          IN [k \in {"targets", "ruleTypes", "tags", "attrNames", "attrVals"} |-> DOMAIN meta[k]]
        all == Referred(SidesOf(responses))
        sent == Referred(SidesOf(received))
        Far(c) == MaxDist(input.request.cfg) >= 0 /\ c.distance \notin 0..MaxDist(input.request.cfg)
    IN /\ \A s \in streams : \A i \in DOMAIN s :
            WireSize(s[i]) <= input.maxBytes + OnTop(s, i) \/ Single(s[i])
       /\ input.request.rpc = "changes" =>
            /\ responses # Nil => Names(responses) = all
            /\ outcome = "ok" =>
                 IF \E i \in DOMAIN responses : \E j \in DOMAIN responses[i].items : Far(responses[i].items[j])
                 THEN \A k \in DOMAIN sent : sent[k] \subseteq Names(received)[k] /\ Names(received)[k] \subseteq all[k]
                 ELSE Names(received) = sent

=============================================================================
