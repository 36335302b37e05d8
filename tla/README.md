# A TLA+ model of Tango

Tango answers two questions about a Bazel monorepo: what is the target graph of
a build (a base commit with pull requests on top), and which targets changed
between two builds, and how far each is from a direct change. The service keeps
a pool of git clones per repository, computes graphs in them, and caches graphs
and comparisons in a blob storage.

This directory models the parts of the service whose correctness depends on
concurrency, failure and order; the algorithms whose results must agree: the two
comparisons, the two ways to a graph (computed, updated), the codec and its reader;
and the way of an answer from the hasher to the client. TLC checks the models on
small instances; TLAPS proves the most important properties for every instance. `PROJECT.json` lists the components, the runs, which
definition models which lines, the findings, the hazards and the theorems.

    tlc -workers 2 -config WorkerPool.cfg MCWorkerPool      # one run
    tlapm WorkerPoolProofs.tla                              # one module of proofs

## The system

| part | state | operations | talks to |
|---|---|---|---|
| handlers (`handler/`, `mapper/`) | none | validate, filter, stream | controller |
| mappers and streaming (`mapper/`, `internal/mapper`, `internal/streaming`) | names numbered per call | number names, split into messages | |
| controller (`controller/`) | none of its own; goroutines behind requests | GetTargetGraph, GetChangedTargets, fetch of two graphs, compared-targets cache | storage, orchestrator, comparison |
| orchestrator (`orchestrator/`) | none of its own; a goroutine behind each computation | GetTargetGraph | worker pool, git, graph runner, storage |
| worker pool (`core/repomanager`) | channel of slots, created and cloned flags, origin mutex; directories on disk | Lease, Release, clone of origin and workers | git, disk |
| workspace and git (`core/workspace`, `core/git`) | HEAD and files of a worker | Checkout, ApplyRequests, RevParse, RestoreWorktree | git processes |
| storage (`core/storage`) | blobs by key | Put, Get, Exists, List | disk or memory |
| cache keys (`core/cachekey`) | none | which parts of a request name a blob | |
| comparison (`internal/targetdiff`, `internal/tgbdiff`) | local to a call | classify, find seeds, walk | TGB readers |
| TGB format (`internal/tgb`) | columns of an encoded graph | Encode, Reader | |
| hashing and incremental graphs (`core/targethasher`, `core/itg`) | graphs in memory, a cache on disk | hash targets, update a graph by a diff | git, bazel |

What is hard, and therefore modelled first:

* **Concurrency.** Calls of Lease share a channel, a mutex and directories.
  Calls of GetTargetGraph share workers and caches; the mapping from a build to
  its tree is stored by a goroutine that nobody waits for, before the graph it
  leads to exists. GetChangedTargets runs two fetches, cancels one for the other
  and stores its answer from a goroutine that reads the tree hashes again.
* **Failure.** Every git command, storage call and computation may fail or be cut
  off by its context. The server may die and find directories and temporary files
  of its former self. Blobs may be damaged.
* **Order.** The comparison goes through Go maps in random order. The TGB
  comparison pairs nodes by position and must neither miss nor mispair one. Bazel
  prints targets, attributes and list entries in any order, and the hash of a
  target must not depend on it.
* **Numbers.** Names travel as IDs. The mapper, the codec's reader and the
  comparison each number anew, and messages are split by size, so that an ID and
  its name arrive apart.

## Modules

`M` below is a module of the system, `MCM` its instance for TLC, `MProofs` its
proofs. Inside the modules, operators called *broken variants* are plausible
bugs: putting one in place of the operator after it must break a property.
They are not part of the specifications.

### WorkerPool, refining WorkerLease

One repository's pool. `pc[r]` follows a call of Lease through the lookup of the
repository, `poolFor`, `ensureOrigin` ("lock", "origin", "cloning"), the select
("wait"), restore, create, and then the lease itself up to Release. `avail` is
the channel, `created` the flags of the slots, `originMu` the owner of the mutex,
`origin` and `disk` the directories. `Crash` empties what is in memory and keeps
what is on disk; `ContextDone` ends a caller's context between any two steps.
`WorkerLease` is what the orchestrator relies on: directories lent to one tenant
at a time, without leftovers, wiped only while nobody holds them.

A clone that died leaves a "partial" directory. `poolFor` and `ensureOrigin` only
look for `.git`, so both count as present; the model keeps that.

### GraphService

`controller.getGraph` over `nativeOrchestrator.GetTargetGraph`. A tree is the
record of what git put into a worker (a commit and the requests applied to it, in
order), and the graph of a tree under given options is named by its cache key, so
that "the right graph" can be said. `head[w]` stays between leases, because
RestoreWorktree resets files and not HEAD. `pending` holds the tree hash writes
under way. The pool appears by the promise of WorkerLease (a free worker, HEAD as
it was or fresh), the storage by that of BlobStore. `Implemented` are the strategies
whose runner computes a graph: that of SHELL returns an error (`shell.go:46`), after the
lease, the lookup and the start of the tree hash write.

### GraphFetchState, GraphFetch

`fetchTargetGraphs`: goroutines with a context each, the buffered channel, the
caller's two receives, the cancellation of the sibling, and the errors that are
joined at the end. A report is one of graph, empty, failed, or the error of the
context with its cause. `GraphFetchState` has the state and what the call promises,
`GraphFetch` the steps, so that a module which runs it beside another one speaks of
the same properties as the proofs.

### ChangedTargets

`GetChangedTargets` around that: two reads of tree hashes, the lookup, the fetch
(as GraphFetch and GraphService promise it: both graphs or an error, with tree
hash writes started for what was computed), the comparison, and per call a
goroutine (`writer`) that stores the answer. A fetch under a strategy outside of
`Implemented` fails. `MCChangedTargets` checks this module and GraphFetch in one run;
they share no state, so each behaviour is one of either.

### DiskStorage, refining BlobStore

Files and directory entries apart: a Put creates a temporary file, copies chunk
by chunk, closes, renames, and runs its deferred Remove; a Get opens a file and
reads it later; a List visits directories one by one. `BlobStore` is the atomic
store that the other modules assume; the memory storage is it already.

### DiffGraphs, TargetDiff, TgbDiff, ShadowCompare, TgbAlignState, TgbAlign

`DiffGraphs` says what a comparison should find: the changed targets, the seeds
(targets that changed by themselves) and the shortest distances. `TargetDiff` is
`targetdiff.Compare`, one step per loop, and one per dequeued target in the walk,
with every order of the queue that map iteration allows. `TgbDiff` is phases 1 to
3 of `tgbdiff.Compare` on hash columns and projected indices. `ShadowCompare`
composes them as `compareTargetGraphsTGB` does: tgbdiff answers, targetdiff runs
over the same blobs in a goroutine, and its verdict is logged. `TgbAlign` is phase
0 and the bisection of phase 1: blocks cut as `buildBlocks` does, matched by
digest, the gaps joined, pairs sorted and merged into runs, differing runs
bisected; `TgbAlignState` has its state, its labels and what it promises. `DiffRequests` holds the families of
graph pairs for TLC. `MCShadowCompare` checks the comparisons and the alignment in one
run, side by side: TgbDiff uses of the alignment only what AlignmentExact says.

### TgbFormat, TgbCodec

`TgbFormat` has the encodings as pure operators: labels split into package and
name, sorted dictionaries with common prefixes left out, deltas, zigzag numbers,
bitsets. `TgbCodec` runs them. Shards are goroutines that encode ranges of nodes
into shared columns (`rows` by index, `bits` by read-modify-write of a byte, which
is why `shardLen` is a multiple of eight), `Collect` joins their streams or takes
the first error, `write` makes the file. `LoseTail` cuts it. `Open` validates
header, directory and columns. Readers then share one `tgb.Reader`: `Lookup` takes
a kept column or finds it missing, `Publish` decodes it outside of the mutex and
caches it. `Input` says what callers give to Encode. Recursion is written as
recursive functions (`Totals`, `pkgDicts`, `EntryStrings`, `Search`), so that the
module can be proved about.

The reader has limits that Encode does not know: on the raw size of a column, on that
of all columns against the size of the file (`WithinBudget`), and on how far a
dictionary may expand (`expandDict`). Beyond the first two NewReader refuses the file;
beyond the third DecodeGraph fails and the accessors, which drop the error, give empty
strings. Sizes count a varint and a character as one byte, and `compressZstd`, an
external function, says how well a column compresses; of it the proofs use only that
it is a number and not 0.

### TargetHasher, Itg

`TargetHasher` is `FromProto`: each step a phase of it, or one target of a phase
whose order the code leaves open. A digest is the sequence of what was written
into it, so that an empty digest (an excluded target, one that is being visited)
leaves no trace, as in the code. `HashRecursively` carries the targets along its
recursion, with the empty slice as the mark of a visit; it is a RECURSIVE operator,
so nothing is proved about this module. Files, directories, rules,
attributes, repository rules, module markers and collapsed repositories are
hashed by what the code reads of them.

`Itg` extends it: the graph of the first revision is optimised, cached, found by
`FloorKey`, decoded, and updated to the second revision from a diff: translate,
remove, insert, invalidate, hash again. Nothing in the service calls the itg
packages together yet; `Commit`, `Base` and `Plan` are the caller that their
comments describe.

### Delivery

A request from the handler to the client. `Accept` validates it, `Produce` maps and
splits the hasher's result, `WriteTGBGraph` makes it a blob, `GetTargetGraph` or
`compareFetchedGraphs` makes the answer (all four pairs of formats, the all-targets
trigger, seed attributes), `Send` filters and sends message by message. An ID map
is a function from IDs to names; the mapper's are sequences, those of the reader
begin at 0. `Orders` are the orders in which maps are iterated, chosen anew in each
step. The client merges the metadata and looks everything up, as
`getTargetsAndMetadata` and `toDiffGraph` do.

## Runs

| run | shows | bounds |
|---|---|---|
| WorkerPool | exclusive, conserved, clean, the origin stable, returns; implements WorkerLease | two callers and one for an unknown remote, one slot, one restart: every conflict over a slot and the origin is between two, and one slot makes them wait |
| GraphService | caches hold what their keys say, callers get their own graph, bypass recomputes, calls are served | two calls of four kinds that share parts of their keys, one of them SHELL; two workers, one damaged blob, one call that may fail anywhere |
| GraphServiceHead | *violated*: a tree stored for HEAD is that of the worker's last user | as above with base HEAD, no faults |
| ChangedTargets | entries and answers as asked, answers in the end, repair by bypass; of a fetch: two graphs or original errors, nothing left behind, always returns | two calls of four kinds over three revisions, two with the same tree; one damaged blob. The fetch has no bounds: the code has two jobs |
| ChangedTargetsStrategy | *violated*: the other strategy's comparison is served | two calls, two strategies |
| DiskStorage | whole blobs, List; implements BlobStore, and so reads are of one blob | two keys, two Puts and two Gets (symmetric), two temp names, one List, blobs of two chunks, one crash |
| ShadowCompare | both comparisons against the reference; no mismatch where hashes cover dependencies; alignment and bisection are exact | every combination of statuses and dependencies of three targets without a limit, acyclic shapes of four with limits 0, 1 and 2, empty and all-zero hashes, detours through an excluded target; for the alignment every pair of graphs over five labels, every way to cut blocks, forced cuts at three |
| ShadowIdentical | *violated*: the two comparisons differ in a distance | detours through an excluded target, limit 1 |
| TgbCodec | what is written is what was given, or a refusal, and is turned away for its size only; accessors agree; one blob per graph | up to five targets in every order, dense and sparse IDs, chain, diamond and cycle, every kind of spoilt target; shards of a few nodes, bytes of two bits so that a shard boundary falls inside and between them; two readers. Limits so low (a column of 60, twice the file or 80 for all, a dictionary its encoded size or 6) that graphs of two targets lie on both sides of each |
| Hashing | hashes follow what is read and nothing else; all names listed; updated = computed but for cycles that are entered elsewhere; nearest cached base | packages a, b, p and fetched repositories, all 32 relations between three rules (cycles included), about twenty edits each, with repository rules and with modules, three configurations each |
| HashingCycle | *violated*: updated hashes differ from computed ones | one cycle of two targets below one root, every edit, among them a new root that leads into the cycle elsewhere |
| Delivery | who is told that all is well has the right answer; messages exceed the limit by a known amount at most and name only what they need | six results in every pair, four pairs of formats, limits from "every item alone" to "all in one", four output configurations, three orders of every map |

Where a passing run restricts its inputs it is on account of a violated one: GraphService
uses bases that name commits, ChangedTargets one strategy, ShadowAgrees speaks of hashes
that cover, IncrementalIsFull excepts the cycles of HashingCycle.

## Findings

In each of these the code disagrees with a sentence of its own documentation;
`PROJECT.json` quotes it. Four are counterexamples of the violated runs:

* **HEAD as a base** (GraphServiceHead). `README.md` suggests it, the cache key treats it
  like a commit, and a worker resolves it to whatever its last user checked out.
* **Strategies** (ChangedTargetsStrategy) are part of a graph's key and not of a
  comparison's. While the shell runner is not implemented this answers a SHELL call with
  native graphs, and never the other way.
* **Identical output** (ShadowIdentical). tgbdiff walks through unchanged targets and
  targetdiff does not: where a target keeps its hash above a change, as an excluded one
  with its empty hash does, tgbdiff finds a shorter way. The documents claim identical
  results for all graphs. ShadowAgrees and CoveredPairsAgree are what holds.
* **Cycles that get a new entry** (HashingCycle). An update invalidates what is above a
  change. A new root that leads into an unchanged cycle would be hashed first by a full
  calculation and change the cycle's hashes; the update keeps them.

The others are visible in what a passing property has to say:

* **A corrupt graph blob** fails the request in the controller until a call with
  bypass_cache overwrites it, while the comment of `ErrCorruptTGB` asks callers to treat
  it as a miss, as the orchestrator does. CallsServed excepts exactly these calls.
* **The reader's limits.** Encode writes well-formed graphs that NewReader or DecodeGraph
  then refuse, and that accessors read with empty strings (LosslessOrRefused,
  FindNodeExact). The code's limits are far above the graphs its comments mention.
* **ID 0.** The reader numbers targets, types, tags and attributes from 0, although
  `idmapper` reserves 0 for "unset". ClientRecovers holds for a client that takes 0 for
  missing unless the answer is a graph that was a blob; then that client loses an entry.
* **maxBytes.** The small maps come on top of a full first metadata message, and the
  frames of items are not counted. MessagesLean allows that and nothing else.
* **Pruning.** Distances are filtered after the metadata was made, which then still names
  what the dropped changes referred to (MessagesLean).
* **Trigger files.** `TGBGraphReader.Read` does not give the hashes of the all-targets
  files, so that comparing one blob with one chunk stream sees a change of them whenever
  the stream has any. ClientRecovers gives that answer exactly.
* **ErrPoolTimeout** is said to mean that all slots were leased; `select` may choose the
  deadline with a slot free (WaitCancelled of WorkerPool).

Smaller things that the models show, and that are part of them:

* The all-targets trigger ignores the seed attributes.
* `hashDir` writes the local names of a flattened walk: moving a file into the
  directory just before it (a/a1, b to a/a1, a/b) keeps the hash.
* Targets on a cycle without a root are listed by name, and undeclared files found
  only there are not listed; two sequential targets on one cycle are hashed in the
  order of a set's slice. Targets that only excluded ones reach have no hash.
* `topoSort` of itg drops queried targets that are only reachable through a cycle; a
  repository rule that is queried again, or whose patch changes, leaves the hashes
  of its @repo targets, unless the file counts as critical. The comment of
  IncrementalIsFull lists the updates it says nothing of: with bzlmod, with excluded
  targets, after a change of a repository rule, and of cycles without a root.

## Fairness

Liveness is checked under weak fairness of each call and each goroutine. Git
commands run under a timeout of their own and of the request (`execcmd`), the
orchestrator releases its lease in a defer, and goroutines of the Go runtime are
not starved. Nothing is assumed fair that the environment decides: contexts need
not end, blobs need not be damaged, the server need not crash. CallsServed and
CallsAnswered speak of the calls that meet no fault of their own (`Faulty`), while
the others may fail at any step.

## Proofs

Each theorem is about every value of the constants that satisfies the named
assumptions of the module it is about. Eight modules hold proofs.

For any number of requests, slots and restarts, **WorkerPoolProofs** shows the
type invariant, MutualExclusion, SlotConservation, HandedOverClean,
SendNeverBlocks, WorkersCloneSettledOrigin, OriginStable and that the pool
implements WorkerLease. None of the invariants is inductive alone: exclusion
needs that a slot in the channel has no holder, conservation that the channel
holds no slot twice and only after `poolFor`, and that a send cannot block needs a
count: a holder's slot is missing from a channel without repetitions, so the
channel is not full. OriginStable needs that the mutex owner is the only one in
ensureOrigin. The assumptions are `PoolAssumption`: a positive pool size, as
NewRepoManager checks.

**GraphFetchProofs** shows its safety properties for every interleaving. The
argument is that a job is in exactly one place (running, on the channel, received)
and that at most one job carries the cancelled mark, because setting it needs a
received failure of the other, which is then never marked.

**GraphServiceProofs**: GraphsFaithful and BypassRecomputes, and that every call is
served the graph of the tree resolved for it under its own options (ServedResolved),
for any calls, workers and faults. The key of a graph is read from HEAD in one step
and the graph computed from HEAD in a later one, so the invariant says that between
them HEAD does not move, because the worker is the call's alone. TreehashesFaithful
and ServedAsAsked are stronger and not true of all inputs: their theorems assume
`PinnedBases`, that every base names a commit. GraphServiceHead is the
counterexample without it.

**ChangedTargetsProofs**: ComparedFaithful, and that an answer compares the trees
and uses the excludes that were asked for (AnsweredTrees). The goroutine that stores
an answer reads the tree hashes again, after the answer and beside other calls; what
makes that sound is that a tree hash read at any time is that of the call's own
revision. AnsweredAsAsked, which also speaks of the strategies, is proved under
`KeysFixStrategy`, that calls with one key ask for the same strategies.
ChangedTargetsStrategy is the counterexample without it.

**DiskStorageProofs**: BlobsWhole, ListBracketed, that a blob read to its end is one
whole blob of its key (ReadsWhole), and that DiskStorage implements BlobStore. Rename
publishes what the temporary name refers to, so the invariant says whose file that
is, that its copy is complete, and that its owner does not write to it again.

**CompareProofs**: DistancesTight and ResultIsReference, that is, for all finite
graphs, limits and orders of map iteration, targetdiff finds the changes, the seeds
and the lengths of the shortest paths that DiffGraphs defines. In three parts:

1. *Shortest paths.* Distances that are right edge by edge (Tight: a root has 0,
   everything else one more than its nearest neighbour, within the limit) are those
   of the recursive definition, which counts rounds. It is an induction, done by
   looking at the least number of a set of counterexamples; that no path is longer
   than there are targets is a pigeonhole argument.
2. *Breadth-first search.* The queue is ordered by distance, nothing visited is
   farther than the head's distance plus one, every positive distance is one more
   than that of a neighbour, and what left the queue has no neighbour within the limit
   that is unvisited or too far. When the queue is empty this is Tight.
3. *Classification*, loop by loop, against the reference.

The assumptions are finite graphs (`NamesAssumption`, `RequestAssumption`).

The same module uses the first two parts for tgbdiff, which searches all
targets of the later graph instead of the changed ones: DistancesOverGraph. The
oracle in the background takes steps of targetdiff.Compare only (OracleIsCompare), so
both results are known exactly, and two searches over two sets are compared: the wider
one is nowhere farther (MismatchesAreExplained), and where nothing unchanged lies above a
change a shortest path never leaves the changed targets, so that the two are equal
(CoveredPairsAgree, which is ShadowAgrees).

**TgbAlignProofs**: AlignmentExact and ChangedExact, for all labels, all ways to cut
blocks (`CutSets`, `ForceAt`) and runs of any length. Both graphs are sorted by
label. The invariant of the join is that its cursors cut both graphs at the same
place of that order: whatever is below one of them is less than all that is not
below the other. A matched block keeps that, because its two sides carry the same
labels; so does skipping the smaller label. Hence a node that is passed without a
partner has none. The merging of pairs needs that they do not overlap and are taken
from left to right; the bisection, that a changed node is marked or in a range still
to be compared. A digest is taken to be injective, as everywhere in these models.

**TgbCodecProofs**: LosslessOrRefused, BlobCanonical, FindNodeExact and
AccessorsAgree, for all graphs, any number of processors and readers, any length of
a shard, of a byte, of a hash and between restart points, and all limits of the reader.
In five parts:

1. *Shards.* The invariant `CodecInv` says what the shards have made so far. Write J(i)
   for the streams of the nodes before node i, one after the other. The streams of a
   shard lead from J(its first node) to J(the node it is at); the rows of the nodes it
   has passed are theirs; the flags in the bitsets are exactly those of the nodes that
   some shard has passed, and the bytes a shard has loaded are still the ones in the
   bitset. The last part is what could go wrong: it holds because the length of a shard
   is a multiple of a byte or the shard is alone, so no two shards share a byte. When
   all shards are at their ends the columns are those of a sequential encoder.
2. *Renumbering.* Nodes are sorted by package and name, which is a strict total order,
   so what a node is encoded to depends on its place and its strings only, not on the
   order of the targets or on the IDs: BlobCanonical.
3. *Round trips*, one lemma each: sorted sequences list their set once; running totals
   undo deltas; zigzag; names relative to their package; front-coded dictionaries, by
   induction from a restart point; hashes cut at multiples of their length; runs of a
   list column, by the totals of the degrees; flags, where byte and bit of a node
   determine it; string maps. Induction over a recursive function is done by taking the
   least number at which it fails.
4. *Files.* The directory names every column once, at the place where it lies, so
   getColumn gives what was written. Of what validateColumns asks, all but the limits
   holds of every written file: a run has as many entries as its degree says, a raw column
   is stored as it is, there are no more blocks than nodes. So NewReader accepts it exactly
   when WithinBudget holds. A proper prefix has no footer at its end.
   The refusals of the nodes add up to WellFormed. With 3 this is LosslessOrRefused,
   target by target: the decoded target has the same strings in every field, provided
   that the dictionaries expand within their limits (expandAllDicts).
5. *Readers.* The invariant also says that a cached column and whatever a goroutine
   holds are what the column decodes to. sort.Search ends at the first node that
   is not less (its bounds keep a node below that is less and a node above that is
   not), and splitLabel is injective on labels: FindNodeExact. Where packages or names do
   not expand every node reads as the empty label, which no label is. AccessorsAgree takes the
   accessors one by one against what part 3 says of their columns.

The assumptions are `FormatAssumption`, `CodecAssumption` and `LimitsAssumption` on the
parameters (the block size is a power of two, as Encode asks),
`NilAssumption`, that "nothing loaded" is not a value that can be loaded, and
`GraphsAssumption` on what Encode is given: tables are maps from IDs to strings, every
target has an ID of its own, no two IDs have the same label or the same name of an
attribute, no label is empty or begins with a colon, no tag is empty. The ID mappers
that make these tables give one ID to one string, and bazel prints such labels and
tags. Outside of it the codec does lose something: of `:name` and `name` only one label comes
back, and materializeTarget drops a tag without a name. Nothing is assumed of what IDs
refer to: dangling, short and malformed inputs are among the graphs.

Only model-checked are:

* Liveness (LeaseReturns, CallsServed, FetchReturns, CallsAnswered, BypassRepairs),
  which is outside of what TLAPS proves.
* TargetHasher and Itg (HashTracksInputs, HashesRepeatable, NamesComplete,
  IncrementalIsFull, NearestBase): the hash of a target is defined by recursion over a
  graph with cycles, which is a RECURSIVE operator here.
* Delivery (ClientRecovers, MessagesLean): its operators are folds with operators as
  arguments, about which nothing can be proved by induction with this prover as they
  stand.

## Not modelled

* Wording: messages of errors, metrics, logging, wire formats, generated code (`tangopb`).
* Processes: git and bazel are steps that succeed, fail or are cut off.
* Bytes: how compression works, checksums, varint widths, hex encoding of keys; hashes are
  injective.
* The parsing of bazel's and git's output, of URLs, of labels
  and of configuration files: pure functions of text whose results are inputs here.
* A gob stream that is cut exactly between two messages: `reader.Read` takes it for
  the end. The storages of the repository write all or nothing (BlobsWhole).
* Power loss (the disk storage does not sync) and equal random names of temporary
  files.

## Plan

1. Done: models and runs of the pool, the graph service, the fetch, the
   changed-targets cache, the disk storage, both comparisons with their shadow, the
   alignment, the codec, hashing and incremental graphs, and the delivery of answers.
2. Done: proofs of all safety properties of the pool, the fetch, the graph service,
   the changed-targets cache, the disk storage, both comparisons, the alignment and the
   codec, and of the two refinements.
3. Left: in Delivery, with the folds written as recursive functions as in TgbFormat,
   that splitting loses no item and that merged metadata resolves every ID.
