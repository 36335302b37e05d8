------------------------------ MODULE TgbCodec ------------------------------
(***************************************************************************)
(* Encode and Reader of internal/tgb.  The encoder sorts the nodes, lets   *)
(* goroutines (shards) encode ranges of them into shared columns, joins     *)
(* what they made and writes a file.  The file may lose its tail before it *)
(* is opened.  Goroutines then share a Reader that decodes columns when     *)
(* they are first needed, some of them outside of its mutex.               *)
(***************************************************************************)
EXTENDS TgbFormat

CONSTANTS Graphs,      \* the graphs that may be encoded
          Procs,       \* runtime.GOMAXPROCS(0)
          MinShard,    \* the least length of a shard, 4096 in the code
          DenseSlack,  \* how sparse IDs may be for a slice, 16 in the code
          BlockSize,   \* the expected length of a block of labels
          CutLabels,   \* labels whose hash ends a block
          FrameSize,   \* bytes of header, directory and footer
          maxColumnRawSize,   \* raw bytes a reader takes from a column, and from
          maxTotalRawFactor,  \* all of them for each byte of the file,
          maxTotalRawFloor,   \* or from the smallest
          Readers,     \* goroutines that use the reader
          Nil          \* no value

\* TLC's integers end below 2^31.
PowerOfTwo(b) == \E k \in 0..30 : b = 2^k

ASSUME CodecAssumption ==
    /\ Procs \in Nat \ {0}
    /\ MinShard \in Nat /\ DenseSlack \in Nat
    /\ IsFiniteSet(Readers)

\* Encode takes no other BlockSize.
ASSUME LimitsAssumption ==
    /\ PowerOfTwo(BlockSize)
    /\ FrameSize \in Nat /\ maxColumnRawSize \in Nat
    /\ maxTotalRawFactor \in Nat /\ maxTotalRawFloor \in Nat

\* A table from IDs to strings.
Table(m) ==
    /\ IsFiniteSet(DOMAIN m) /\ DOMAIN m \subseteq Nat
    /\ m \in [DOMAIN m -> Seq(Nat)]

Distinct(m) == \A i, j \in DOMAIN m : m[i] = m[j] => i = j

\* What the callers of Encode give it: whatever the IDs refer to, every target has an ID
\* of its own, and so has every label and every name of an attribute; a label does not
\* begin with a colon and a tag is not empty.
Input(g) ==
    LET target(t) ==
            /\ DOMAIN t = {"id", "hash", "ruleType", "deps", "tags", "attrs", "root", "ext"}
            /\ t.id \in Nat /\ t.ruleType \in Nat
            /\ t.hash = Nil \/ t.hash \in Seq(Nat)
            /\ t.deps \in Seq(Nat) /\ t.tags \in Seq(Nat)
            /\ IsFiniteSet(DOMAIN t.attrs) /\ t.attrs \in [DOMAIN t.attrs -> Nat]
            /\ t.root \in BOOLEAN /\ t.ext \in BOOLEAN
    IN  /\ DOMAIN g = {"targets", "meta"}
        /\ DOMAIN g.meta = {"targets", "ruleTypes", "tags", "attrNames", "attrVals", "files"}
        /\ Len(g.targets) \in Nat /\ DOMAIN g.targets = 1..Len(g.targets)
        /\ \A k \in 1..Len(g.targets) : target(g.targets[k])
        /\ \A j, k \in 1..Len(g.targets) : g.targets[j].id = g.targets[k].id => j = k
        /\ Table(g.meta.targets) /\ Table(g.meta.ruleTypes) /\ Table(g.meta.tags)
        /\ Table(g.meta.attrNames) /\ Table(g.meta.attrVals)
        /\ Distinct(g.meta.targets) /\ Distinct(g.meta.attrNames)
        /\ \A id \in DOMAIN g.meta.targets : g.meta.targets[id] # <<>> /\ g.meta.targets[id][1] # Colon
        /\ \A id \in DOMAIN g.meta.tags : g.meta.tags[id] # <<>>
        /\ IsFiniteSet(DOMAIN g.meta.files) /\ DOMAIN g.meta.files \subseteq Seq(Nat)
        /\ g.meta.files \in [DOMAIN g.meta.files -> Seq(Nat)]

ASSUME GraphsAssumption == \A g \in Graphs : Input(g)

VARIABLES graph,   \* the graph given to Encode
          enc,     \* nodes and dictionaries of the encoder
          shard,   \* per shard: next node, streams, error, the bytes it has loaded
          rows,    \* columns with one entry per node, written by index
          bits,    \* the three bitsets, written by read-modify-write
          status,  \* of Encode, and then of the file
          file,    \* the file: header, columns, directory, footer
          cache,   \* decoded columns that the Reader keeps
          call     \* per goroutine: where it is, and the columns it obtained

vars == <<graph, enc, shard, rows, bits, status, file, cache, call>>

----------------------------------------------------------------------------
(* Nodes, dictionaries and tables *)

\* One entry per target, in the order of package and name.
buildNodes(g) ==
    SortedSeq({[pkg  |-> splitLabel(g.meta.targets[g.targets[k].id]).pkg,
                name |-> splitLabel(g.meta.targets[g.targets[k].id]).name,
                origIdx |-> k] : k \in 1..Len(g.targets)}, NodeLess)

\* Nodes of a package are neighbours: a new entry wherever the package changes.
pkgDicts(nodes) ==
    LET dict[k \in 0..Len(nodes)] ==
            IF k = 0 THEN <<>>
            ELSE IF k > 1 /\ nodes[k].pkg = nodes[k - 1].pkg THEN dict[k - 1]
            ELSE Append(dict[k - 1], nodes[k].pkg)
    IN  dict

pkgDictOf(nodes) == pkgDicts(nodes)[Len(nodes)]

\* The package of a node is the last entry when the node is reached.
pkgIDsOf(nodes) == [k \in 1..Len(nodes) |-> Len(pkgDicts(nodes)[k]) - 1]

buildDicts(g, nodes) ==
    [pkg      |-> pkgDictOf(nodes),
     name     |-> SortedSeq({nodes[k].name : k \in 1..Len(nodes)}, LexLess),
     ruleType |-> sortedUniqueStrings(g.meta.ruleTypes),
     tag      |-> sortedUniqueStrings(g.meta.tags),
     attrName |-> sortedUniqueStrings(g.meta.attrNames),
     attrVal  |-> sortedUniqueStrings(g.meta.attrVals)]

newEncoder(g) ==
    LET nodes == buildNodes(g)
        dict  == buildDicts(g, nodes)
    IN  [nodes    |-> nodes,
         dict     |-> dict,
         nameIdx  |-> buildStrIndex(dict.name),
         ruleType |-> remapTable(g.meta.ruleTypes, buildStrIndex(dict.ruleType)),
         tag      |-> remapTable(g.meta.tags, buildStrIndex(dict.tag)),
         attrName |-> remapTable(g.meta.attrNames, buildStrIndex(dict.attrName)),
         attrVal  |-> remapTable(g.meta.attrVals, buildStrIndex(dict.attrVal))]

\* The node of a target ID, or -1: by a slice when IDs are dense, else by a map.
resolveID(g, e, id) ==
    LET origID(i) == g.targets[e.nodes[i + 1].origIdx].id
        Nodes     == 0..(Len(e.nodes) - 1)
        maxID     == Max({0} \union {origID(i) : i \in Nodes})
        slice     == [x \in 0..maxID |->
                         LET is == {i \in Nodes : origID(i) = x}
                         IN  IF is = {} THEN -1 ELSE Max(is)]
        inMap     == {i \in Nodes : origID(i) = id}
    IN  IF maxID < 2 * Len(e.nodes) + DenseSlack
        THEN IF id \in 0..maxID THEN slice[id] ELSE -1
        ELSE IF inMap = {} THEN -1 ELSE Max(inMap)

\* Broken variant: boundaries of shards inside of a byte.
ShardLenUnaligned(n) ==
    LET len == n \div Procs + ByteWidth
    IN  IF len < MinShard THEN n ELSE len

\* A multiple of ByteWidth, so that shards share no byte of a bitset; one
\* shard for a small graph.
ShardLen(n) ==
    LET len == ((n \div Procs + ByteWidth) \div ByteWidth) * ByteWidth
    IN  IF len < MinShard THEN n ELSE len

ShardCount(n) == IF n = 0 THEN 0 ELSE (n + ShardLen(n) - 1) \div ShardLen(n)

ShardEnd(s, n) == Min({(s + 1) * ShardLen(n), n})

----------------------------------------------------------------------------
(* One node *)

\* Kept hashes are cut to HashBytes; shorter and malformed ones are refused.
HashOk(hash) == hash = <<>> \/ (hash # Nil /\ Len(hash) >= HashBytes)

\* The first refusal of a node, in the order of the checks, or "none".
NodeError(g, e, t) ==
    CASE t.ruleType \notin DOMAIN e.ruleType                       -> "rule type"
      [] ~HashOk(t.hash)                                           -> "hash"
      [] \E k \in 1..Len(t.deps) : resolveID(g, e, t.deps[k]) < 0   -> "dependency"
      [] \E k \in 1..Len(t.tags) : t.tags[k] \notin DOMAIN e.tag    -> "tag"
      [] \E a \in DOMAIN t.attrs : \/ a \notin DOMAIN e.attrName
                                   \/ t.attrs[a] \notin DOMAIN e.attrVal -> "attribute"
      [] OTHER                                                     -> "none"

\* Attributes in the order of their names' IDs.
SortedAttrs(e, t) ==
    SortedSeq({[name |-> e.attrName[a], val |-> e.attrVal[t.attrs[a]]] : a \in DOMAIN t.attrs},
              LAMBDA x, y : x.name < y.name)

\* What one pass of the loop writes: the row of the node, what it appends to
\* the shard's streams, and the flags it sets.
EncodeNode(g, e, i) ==
    LET t    == g.targets[e.nodes[i + 1].origIdx]
        deps == SortInts([k \in 1..Len(t.deps) |-> resolveID(g, e, t.deps[k])])
        tags == SortInts([k \in 1..Len(t.tags) |-> e.tag[t.tags[k]]])
        kvs  == SortedAttrs(e, t)
    IN  [row |-> [name |-> e.nameIdx[e.nodes[i + 1].name], ruleType |-> e.ruleType[t.ruleType],
                  hash |-> IF t.hash = <<>> THEN [b \in 1..HashBytes |-> 0]
                           ELSE SubSeq(t.hash, 1, HashBytes),
                  depDeg |-> Len(deps), tagDeg |-> Len(tags), attrDeg |-> Len(kvs)],
         out |-> [deps |-> encodeDeps(i, deps), tags |-> encodeDeltas(tags),
                  attrNms |-> [k \in 1..Len(kvs) |-> kvs[k].name],
                  attrVls |-> [k \in 1..Len(kvs) |-> kvs[k].val]],
         set |-> [root |-> t.root, ext |-> t.ext, empty |-> t.hash = <<>>]]

Streams == {"deps", "tags", "attrNms", "attrVls"}

Flags == {"root", "ext", "empty"}

\* A shard that has loaded bytes is told from one that has not.
ASSUME NilAssumption == Nil \notin [Flags -> SUBSET (0..(ByteWidth - 1))]

----------------------------------------------------------------------------
(* The file *)

\* Pairs of a string map, by key.
encodeStringMap(m) ==
    SortedSeq({[key |-> k, val |-> m[k]] : k \in DOMAIN m}, LAMBDA x, y : LexLess(x.key, y.key))

decodeStringMap(col) ==
    [k \in {col[j].key : j \in 1..Len(col)} |->
        col[SelectLastInSeq(col, LAMBDA pair : pair.key = k)].val]

DictIDs == {"PKG_DICT", "NAME_DICT", "RULETYPE_DICT", "TAG_DICT", "ATTR_NAME_DICT", "ATTR_VALUE_DICT"}

\* Bytes of a column before it is compressed.  A dictionary begins with the offsets
\* of its restart points, eight bytes each.
RawSize(id, data) ==
    CASE id \in DictIDs                    -> 1 + 8 * Cardinality(data.restarts) + EncodedLen(data)
      [] id = "BLOCK_DIGEST"               -> 8 * Len(data)
      [] id = "ALL_TARGETS_FILE_HASHES"    ->
            1 + Total([k \in 1..Len(data) |-> 2 + Len(data[k].key) + Len(data[k].val)])
      [] OTHER                             -> Len(data)

Codec(id) == IF id \in {"HASH", "BLOCK_DIGEST"} THEN "raw" ELSE "zstd"

\* The library's compression: what repeats costs next to nothing.
compressZstd(id, data) ==
    1 + Cardinality(ToSet(IF id \in DictIDs THEN data.entries ELSE data))

StoredSize(id, data) ==
    IF Codec(id) = "raw" \/ RawSize(id, data) = 0
    THEN RawSize(id, data) ELSE compressZstd(id, data)

BytesOf(b) == [k \in 1..Cardinality(DOMAIN b) |-> b[k - 1]]

\* A block ends at a label whose hash says so, when it has become too long, or with
\* the nodes; the nodes at which blocks start, and the labels of each block, which
\* its digest stands for.  (How two files are aligned by them is in TgbAlign.)
buildBlocks(labels) ==
    LET n == Len(labels)
        start[i \in 0..n] ==
            IF i = 0 THEN 0
            ELSE IF labels[i] \in CutLabels \/ i - start[i - 1] >= BlockSize * 8
                 THEN i ELSE start[i - 1]
        starts == SortedSeq({i \in 0..(n - 1) : start[i] = i}, LAMBDA x, y : x < y)
    IN  [starts  |-> starts,
         digests |-> [b \in 1..Len(starts) |->
                         SubSeq(labels, starts[b] + 1,
                                IF b = Len(starts) THEN n ELSE starts[b + 1])]]

LabelsOf(nodes) == [k \in 1..Len(nodes) |-> joinLabel(nodes[k].pkg, nodes[k].name)]

\* The columns, in the order they are written; the hashes of the all-targets files
\* only where there are any.
ColumnIDs(g) ==
    << "PKG_DICT", "NAME_DICT", "NODE_PKG", "NODE_NAME", "HASH", "DEG", "DEPS", "RULETYPE", "RULETYPE_DICT",
       "TAG_DEG", "TAGS", "TAG_DICT", "ATTR_DEG", "ATTR_NAME", "ATTR_VALUE", "ATTR_NAME_DICT",
       "ATTR_VALUE_DICT", "FLAGS", "BLOCK_DIGEST", "BLOCK_START" >>
    \o (IF DOMAIN g.meta.files = {} THEN <<>> ELSE << "ALL_TARGETS_FILE_HASHES" >>)

Columns(g, e, row, streams, bitsets) ==
    LET col(f) == [k \in 1..Len(e.nodes) |-> row[k - 1][f]]
        pkgIDs == pkgIDsOf(e.nodes)
        blocks == buildBlocks(LabelsOf(e.nodes))
    IN  [PKG_DICT |-> buildFrontCodedDict(e.dict.pkg),
         NAME_DICT |-> buildFrontCodedDict(e.dict.name),
         RULETYPE_DICT |-> buildFrontCodedDict(e.dict.ruleType),
         TAG_DICT |-> buildFrontCodedDict(e.dict.tag),
         ATTR_NAME_DICT |-> buildFrontCodedDict(e.dict.attrName),
         ATTR_VALUE_DICT |-> buildFrontCodedDict(e.dict.attrVal),
         NODE_PKG |-> encodeDeltas(pkgIDs),
         NODE_NAME |-> encodeNames(pkgIDs, col("name")),
         HASH |-> FlattenSeq(col("hash")),
         DEG |-> col("depDeg"), DEPS |-> streams.deps,
         RULETYPE |-> col("ruleType"),
         TAG_DEG |-> col("tagDeg"), TAGS |-> streams.tags,
         ATTR_DEG |-> col("attrDeg"),
         ATTR_NAME |-> streams.attrNms, ATTR_VALUE |-> streams.attrVls,
         FLAGS |-> BytesOf(bitsets.root) \o BytesOf(bitsets.ext) \o BytesOf(bitsets.empty),
         BLOCK_DIGEST |-> blocks.digests, BLOCK_START |-> encodeDeltas(blocks.starts),
         ALL_TARGETS_FILE_HASHES |-> encodeStringMap(g.meta.files)]

\* Header, columns at the offsets that the directory names, directory, footer.
write(g, e, row, streams, bitsets) ==
    LET ids  == ColumnIDs(g)
        cols == Columns(g, e, row, streams, bitsets)
    IN  << [kind |-> "header", nodeCount |-> Len(e.nodes),
            edgeCount |-> Totals(cols.DEG)[Len(e.nodes)],
            blockSize |-> BlockSize, flags |-> {}] >>
        \o [k \in 1..Len(ids) |-> [kind |-> "column", data |-> cols[ids[k]]]]
        \o << [kind |-> "directory", entries |-> [k \in 1..Len(ids) |->
                  [id |-> ids[k], codec |-> Codec(ids[k]), offset |-> k + 1,
                   compressedSize |-> StoredSize(ids[k], cols[ids[k]]),
                   rawSize |-> RawSize(ids[k], cols[ids[k]])]]],
              [kind |-> "footer", dirOffset |-> Len(ids) + 2] >>

\* No directory is read from a file that does not end in a footer.
DirectoryOf(f) == f[f[Len(f)].dirOffset].entries

rawSize(f, id) ==
    LET dir == DirectoryOf(f)
        at  == {k \in 1..Len(dir) : dir[k].id = id}
    IN  IF at = {} THEN 0 ELSE dir[Max(at)].rawSize

\* What a reader agrees to decompress: no column beyond its limit, and in all no more
\* than the size of the file allows.  Encode does not ask.
WithinBudget(f) ==
    LET dir == DirectoryOf(f)
        sum(field) == Total([k \in 1..Len(dir) |-> dir[k][field]])
        fileSize == FrameSize + sum("compressedSize")
    IN  /\ \A k \in 1..Len(dir) : dir[k].rawSize <= maxColumnRawSize
        /\ sum("rawSize") <= Max({fileSize * maxTotalRawFactor, maxTotalRawFloor})

validateColumns(f) ==
    LET dir == DirectoryOf(f)
        n   == f[1].nodeCount
    IN  /\ f[1].flags \subseteq {"RevCSR"}
        /\ f[1].blockSize # 0 => PowerOfTwo(f[1].blockSize)
        /\ \A k \in 1..Len(dir) :
              /\ dir[k].offset \in 2..(f[Len(f)].dirOffset - 1)
              /\ dir[k].codec \in {"raw", "zstd"}
              /\ dir[k].codec = "raw" => dir[k].rawSize = dir[k].compressedSize
              /\ dir[k].codec = "zstd" /\ dir[k].rawSize > 0 => dir[k].compressedSize # 0
        /\ WithinBudget(f)
        /\ n > 0 => rawSize(f, "DEG") >= n /\ rawSize(f, "HASH") = n * HashBytes
        /\ f[1].edgeCount > 0 => rawSize(f, "DEPS") >= f[1].edgeCount
        /\ rawSize(f, "BLOCK_DIGEST") % 8 = 0 /\ rawSize(f, "BLOCK_DIGEST") \div 8 <= n

NewReader(f) ==
    /\ Len(f) >= 2 /\ f[1].kind = "header"
    /\ f[Len(f)].kind = "footer"
    /\ f[Len(f)].dirOffset \in 1..(Len(f) - 1) /\ f[f[Len(f)].dirOffset].kind = "directory"
    /\ \A j, k \in 1..Len(DirectoryOf(f)) : DirectoryOf(f)[j].id = DirectoryOf(f)[k].id => j = k
    /\ validateColumns(f)

getColumn(f, id) ==
    LET dir == DirectoryOf(f)
        at  == {k \in 1..Len(dir) : dir[k].id = id}
    IN  IF at = {} THEN <<>> ELSE f[dir[Min(at)].offset].data

----------------------------------------------------------------------------
(* The Reader's accessors.  ids holds the columns that are decoded once and *)
(* kept: package, name and rule type of each node.                          *)

NodeCount(f) == f[1].nodeCount

\* A dictionary that cannot be expanded is left empty, and only DecodeGraph says so.
Dict(f, id) == expandDict(getColumn(f, id)).strs

Expands(f, id) == expandDict(getColumn(f, id)).ok

\* An ID beyond the dictionary stands for the empty string.
Entry(dict, id) == IF id < Len(dict) THEN dict[id + 1] ELSE <<>>

SplitLabel(f, ids, i) ==
    IF Expands(f, "PKG_DICT") /\ Expands(f, "NAME_DICT")
    THEN [pkg  |-> Entry(Dict(f, "PKG_DICT"), ids.pkg[i + 1]),
          name |-> Entry(Dict(f, "NAME_DICT"), ids.name[i + 1])]
    ELSE [pkg |-> <<>>, name |-> <<>>]

Label(f, ids, i) ==
    joinLabel(SplitLabel(f, ids, i).pkg, SplitLabel(f, ids, i).name)

\* sort.Search: the bounds after every round; n rounds are enough for n nodes.
Search(n, reached(_)) ==
    LET bounds[k \in 0..n] ==
            IF k = 0 THEN <<0, n>>
            ELSE LET lo  == bounds[k - 1][1]
                     hi  == bounds[k - 1][2]
                     mid == (lo + hi) \div 2
                 IN  IF lo >= hi THEN <<lo, hi>>
                     ELSE IF reached(mid) THEN <<lo, mid>> ELSE <<mid + 1, hi>>
    IN  bounds[n][1]

\* Broken variant: the order of joined labels.
FindNodeByLabel(f, ids, nd) ==
    LET reached(i) == ~LexLess(Label(f, ids, i), joinLabel(nd.pkg, nd.name))
        at == Search(NodeCount(f), reached)
    IN  IF at < NodeCount(f) /\ SplitLabel(f, ids, at) = nd THEN at ELSE -1

\* A search by the nodes' order, and a check of the node it ends at.
FindNode(f, ids, nd) ==
    LET reached(i) == ~NodeLess(SplitLabel(f, ids, i), nd)
        at == Search(NodeCount(f), reached)
    IN  IF at < NodeCount(f) /\ SplitLabel(f, ids, at) = nd THEN at ELSE -1

RuleType(f, ids, i) == Entry(Dict(f, "RULETYPE_DICT"), ids.ruleType[i + 1])

\* The dictionary ID of a rule type, or -1 when no target has it.
RuleTypeDictID(f, name) ==
    LET at == {k \in 1..Len(Dict(f, "RULETYPE_DICT")) : Dict(f, "RULETYPE_DICT")[k] = name}
    IN  IF at = {} THEN -1 ELSE Min(at) - 1

\* A node's dependencies from its run in DEPS.
DecodeDepRun(i, run) ==
    decodeDeltaInts([k \in 1..Len(run) |-> IF k = 1 THEN readZigzag(run[1]) + i ELSE run[k]])

\* Where each node's run starts, or nothing where the degrees exceed the list.
RunStarts(degs, list) ==
    IF validateDegs(degs, list)
    THEN [i \in 0..(Len(degs) - 1) |-> RunStart(degs, i)] ELSE <<>>

ensureDepOffsets(f) == RunStarts(getColumn(f, "DEG"), getColumn(f, "DEPS"))

ensureTagOffsets(f) == RunStarts(getColumn(f, "TAG_DEG"), getColumn(f, "TAGS"))

ensureAttrOffsets(f) ==
    [nm |-> RunStarts(getColumn(f, "ATTR_DEG"), getColumn(f, "ATTR_NAME")),
     vl |-> RunStarts(getColumn(f, "ATTR_DEG"), getColumn(f, "ATTR_VALUE"))]

RunAt(list, start, degs, i) ==
    IF i \in DOMAIN start THEN SubSeq(list, start[i] + 1, start[i] + degs[i + 1]) ELSE <<>>

Deps(f, i) ==
    DecodeDepRun(i, RunAt(getColumn(f, "DEPS"), ensureDepOffsets(f), getColumn(f, "DEG"), i))

\* In one pass over the column.
decodeDepColumns(f) ==
    LET runs == Runs(getColumn(f, "DEPS"), getColumn(f, "DEG"))
    IN  [k \in 1..Len(runs) |-> DecodeDepRun(k - 1, runs[k])]

\* All dependencies in one sequence, and where each node's begin and the last's end.
DepsCSR(f) ==
    LET lists == decodeDepColumns(f)
    IN  [offsets |-> [k \in 1..(Len(lists) + 1) |-> Totals([j \in 1..Len(lists) |-> Len(lists[j])])[k - 1]],
         targets |-> FlattenSeq(lists)]

Tags(f, i) ==
    decodeDeltaInts(RunAt(getColumn(f, "TAGS"), ensureTagOffsets(f), getColumn(f, "TAG_DEG"), i))

TagName(f, id) ==
    IF id \in 0..(Len(Dict(f, "TAG_DICT")) - 1) THEN Dict(f, "TAG_DICT")[id + 1] ELSE <<>>

decodeTagColumns(f) ==
    LET runs == Runs(getColumn(f, "TAGS"), getColumn(f, "TAG_DEG"))
    IN  [k \in 1..Len(runs) |-> decodeDeltaInts(runs[k])]

\* Two streams with the same degrees; a repeated name keeps its last value.
Attrs(f, i) ==
    LET starts == ensureAttrOffsets(f)
        degs   == getColumn(f, "ATTR_DEG")
        nms    == RunAt(getColumn(f, "ATTR_NAME"), starts.nm, degs, i)
        vls    == RunAt(getColumn(f, "ATTR_VALUE"), starts.vl, degs, i)
        name(k) == Entry(Dict(f, "ATTR_NAME_DICT"), nms[k])
    IN  [s \in {name(k) : k \in 1..Len(nms)} |->
            Entry(Dict(f, "ATTR_VALUE_DICT"), vls[Max({k \in 1..Len(nms) : name(k) = s})])]

decodeAttrColumns(f) ==
    LET nms == Runs(getColumn(f, "ATTR_NAME"), getColumn(f, "ATTR_DEG"))
        vls == Runs(getColumn(f, "ATTR_VALUE"), getColumn(f, "ATTR_DEG"))
    IN  [k \in 1..Len(nms) |->
            [a \in ToSet(nms[k]) |-> vls[k][Max({j \in 1..Len(nms[k]) : nms[k][j] = a})]]]

\* The three bitsets lie one after the other in FLAGS.
decodeFlags(f) ==
    LET data == getColumn(f, "FLAGS")
        nb   == (NodeCount(f) + ByteWidth - 1) \div ByteWidth
        part(k) == [b \in 0..(nb - 1) |-> data[k * nb + b + 1]]
    IN  [root |-> part(0), ext |-> part(1), empty |-> part(2)]

Root(f, i) == BitSet(decodeFlags(f).root, i)

External(f, i) == BitSet(decodeFlags(f).ext, i)

HashEmpty(f, i) == BitSet(decodeFlags(f).empty, i)

Hash(f, i) ==
    IF HashEmpty(f, i) THEN <<>>
    ELSE SubSeq(getColumn(f, "HASH"), i * HashBytes + 1, (i + 1) * HashBytes)

\* No column, no hashes.
AllTargetsFileHashes(f) == decodeStringMap(getColumn(f, "ALL_TARGETS_FILE_HASHES"))

\* Which columns are kept, and how each is decoded; names need the packages.
Kept == {"pkg", "name", "ruleType"}

DecodeKept(f, c) ==
    CASE c = "pkg"      -> decodeDeltaInts(getColumn(f, "NODE_PKG"))
      [] c = "name"     -> decodeNameIDs(getColumn(f, "NODE_NAME"),
                                         decodeDeltaInts(getColumn(f, "NODE_PKG")))
      [] c = "ruleType" -> getColumn(f, "RULETYPE")

expandAllDicts(f) == \A id \in DictIDs : Expands(f, id)

\* The whole graph: the ID of a target is its node, the ID of a string its
\* place in the dictionary.  Nil for the error that a dictionary is too large.
DecodeGraph(f) ==
    IF ~expandAllDicts(f) THEN Nil ELSE
    LET n   == NodeCount(f)
        ids == [c \in Kept |-> DecodeKept(f, c)]
        mapping(d) == [k \in 0..(Len(Dict(f, d)) - 1) |-> Dict(f, d)[k + 1]]
        deps == decodeDepColumns(f)
        tags == decodeTagColumns(f)
        attrs == decodeAttrColumns(f)
    IN  [targets |-> [k \in 1..n |->
            [id |-> k - 1, hash |-> Hash(f, k - 1), ruleType |-> ids.ruleType[k],
             deps |-> deps[k], tags |-> tags[k], attrs |-> attrs[k],
             root |-> Root(f, k - 1), ext |-> External(f, k - 1)]],
         meta |-> [targets   |-> [i \in 0..(n - 1) |-> Label(f, ids, i)],
                   ruleTypes |-> mapping("RULETYPE_DICT"), tags |-> mapping("TAG_DICT"),
                   attrNames |-> mapping("ATTR_NAME_DICT"), attrVals |-> mapping("ATTR_VALUE_DICT"),
                   files     |-> AllTargetsFileHashes(f)]]

\* The names that are not empty, in their order.
keptTags(names) ==
    LET kept[k \in 0..Len(names)] ==
            IF k = 0 THEN <<>>
            ELSE IF names[k] = <<>> THEN kept[k - 1] ELSE Append(kept[k - 1], names[k])
    IN  kept[Len(names)]

\* The semantic target of a node, every ID resolved (adapt.go).  Attributes
\* outside of the allowlist are left out; without one all are kept.
materializeTarget(f, ids, i, seedAttrs) ==
    [hash |-> Hash(f, i), ruleType |-> RuleType(f, ids, i),
     root |-> Root(f, i), ext |-> External(f, i),
     deps |-> {Label(f, ids, d) : d \in ToSet(Deps(f, i))},
     tags |-> keptTags([k \in 1..Len(Tags(f, i)) |-> TagName(f, Tags(f, i)[k])]),
     attrs |-> LET all == Attrs(f, i)
               IN  [s \in {x \in DOMAIN all : seedAttrs = Nil \/ x \in seedAttrs} |-> all[s]]]

SemanticGraph(f, ids, seedAttrs) ==
    [l \in {Label(f, ids, i) : i \in 0..(NodeCount(f) - 1)} |->
        materializeTarget(f, ids, FindNode(f, ids, splitLabel(l)), seedAttrs)]

----------------------------------------------------------------------------
(* Encode *)

Idle == [pc |-> "idle", have |-> [c \in {} |-> <<>>]]

Init ==
    /\ graph \in Graphs
    /\ enc = Nil /\ shard = <<>> /\ rows = <<>> /\ bits = <<>>
    /\ status = "nodes"
    /\ file = <<>>
    /\ cache = [c \in Kept |-> Nil]
    /\ call = [p \in Readers |-> Idle]

readerVars == <<file, cache, call>>

\* buildNodes refuses a target without a label; then dictionaries and tables,
\* and one goroutine per shard.
BuildNodes ==
    /\ status = "nodes"
    /\ LET n == Len(graph.targets)
           labelled == \A k \in 1..n : graph.targets[k].id \in DOMAIN graph.meta.targets
       IN  IF ~labelled
           THEN /\ status' = "refused"
                /\ UNCHANGED <<enc, shard, rows, bits>>
           ELSE /\ status' = "shards"
                /\ enc' = newEncoder(graph)
                /\ rows' = [i \in 0..(n - 1) |-> Nil]
                /\ bits' = [fl \in Flags |-> NoBits(n)]
                /\ shard' = [s \in 0..(ShardCount(n) - 1) |->
                                [at |-> s * ShardLen(n), out |-> [x \in Streams |-> <<>>],
                                 err |-> "none", byte |-> Nil]]
    /\ UNCHANGED <<graph, readerVars>>

Working(s) ==
    /\ status = "shards"
    /\ shard[s].err = "none"
    /\ shard[s].at < ShardEnd(s, Len(graph.targets))

\* A shard encodes its next node and loads the bytes of the node's flags.  An
\* error ends the shard.
ShardEncode(s) ==
    /\ Working(s) /\ shard[s].byte = Nil
    /\ LET i   == shard[s].at
           err == NodeError(graph, enc, graph.targets[enc.nodes[i + 1].origIdx])
           res == EncodeNode(graph, enc, i)
       IN  IF err # "none"
           THEN /\ shard' = [shard EXCEPT ![s].err = err]
                /\ UNCHANGED rows
           ELSE /\ rows' = [rows EXCEPT ![i] = res.row]
                /\ shard' = [shard EXCEPT
                      ![s].out  = [x \in Streams |-> @[x] \o res.out[x]],
                      ![s].byte = [fl \in Flags |-> bits[fl][ByteOf(i)]]]
    /\ UNCHANGED <<graph, enc, bits, status, readerVars>>

\* It stores the bytes with the node's flags added; a flag that is not set
\* leaves its bitset alone.
ShardStore(s) ==
    /\ Working(s) /\ shard[s].byte # Nil
    /\ LET i   == shard[s].at
           set == EncodeNode(graph, enc, i).set
       IN  /\ bits' = [fl \in Flags |->
                          IF set[fl]
                          THEN [bits[fl] EXCEPT ![ByteOf(i)] = shard[s].byte[fl] \union {i % ByteWidth}]
                          ELSE bits[fl]]
           /\ shard' = [shard EXCEPT ![s].at = i + 1, ![s].byte = Nil]
    /\ UNCHANGED <<graph, enc, rows, status, readerVars>>

\* Broken variant: streams joined in the order of the shards' lengths.
JoinedBackwards(x) ==
    LET k == Cardinality(DOMAIN shard)
    IN  FlattenSeq([j \in 1..k |-> shard[k - j].out[x]])

\* The streams of the shards, one after the other.
Joined(x) == FlattenSeq([j \in 1..Cardinality(DOMAIN shard) |-> shard[j - 1].out[x]])

\* wg.Wait, then the first error by shard, or the file.
Collect ==
    /\ status = "shards"
    /\ \A s \in DOMAIN shard : ~Working(s)
    /\ IF \E s \in DOMAIN shard : shard[s].err # "none"
       THEN /\ status' = "refused"
            /\ UNCHANGED file
       ELSE /\ status' = "written"
            /\ file' = write(graph, enc, rows, [x \in Streams |-> Joined(x)], bits)
    /\ UNCHANGED <<graph, enc, shard, rows, bits, cache, call>>

\* The stored file loses its tail (a damaged blob).
LoseTail ==
    /\ status = "written"
    /\ \E k \in 0..(Len(file) - 1) : file' = SubSeq(file, 1, k)
    /\ status' = "damaged"
    /\ UNCHANGED <<graph, enc, shard, rows, bits, cache, call>>

Open ==
    /\ status \in {"written", "damaged"}
    /\ status' = IF ~NewReader(file) THEN "corrupt"
                 ELSE IF status = "written" THEN "open" ELSE "open damaged"
    /\ UNCHANGED <<graph, enc, shard, rows, bits, readerVars>>

----------------------------------------------------------------------------
(* Goroutines of a Reader *)

Lacks(p) == Kept \ DOMAIN call[p].have

\* Under the mutex: a kept column is taken, or found missing.
Lookup(p) ==
    /\ status = "open" /\ call[p].pc = "idle"
    /\ \E c \in Lacks(p) :
          call' = [call EXCEPT ![p] =
             IF cache[c] # Nil
             THEN [pc |-> "idle", have |-> [x \in DOMAIN @.have \union {c} |->
                                               IF x = c THEN cache[c] ELSE @.have[x]]]
             ELSE [pc |-> c, have |-> @.have]]
    /\ UNCHANGED <<graph, enc, shard, rows, bits, status, file, cache>>

\* Broken variant: the column is published as it lies in the file.
KeptValueRaw(f, c) ==
    getColumn(f, CASE c = "pkg" -> "NODE_PKG" [] c = "name" -> "NODE_NAME" [] OTHER -> "RULETYPE")

KeptValue(f, c) == DecodeKept(f, c)

\* The column is decoded without the mutex and then put into the cache, where
\* another goroutine may have put it meanwhile.
Publish(p) ==
    /\ status = "open" /\ call[p].pc \in Kept
    /\ LET c == call[p].pc
           v == KeptValue(file, c)
       IN  /\ cache' = [cache EXCEPT ![c] = v]
           /\ call' = [call EXCEPT ![p] =
                 [pc |-> "idle", have |-> [x \in DOMAIN @.have \union {c} |->
                                              IF x = c THEN v ELSE @.have[x]]]]
    /\ UNCHANGED <<graph, enc, shard, rows, bits, status, file>>

Finished ==
    \/ status \in {"refused", "corrupt", "open damaged"}
    \/ status = "open" /\ \A p \in Readers : Lacks(p) = {}

Next ==
    \/ BuildNodes
    \/ \E s \in DOMAIN shard : ShardEncode(s) \/ ShardStore(s)
    \/ Collect \/ LoseTail \/ Open
    \/ \E p \in Readers : Lookup(p) \/ Publish(p)
    \/ Finished /\ UNCHANGED vars

Spec == Init /\ [][Next]_vars

----------------------------------------------------------------------------
(* What a graph says, whatever its IDs and the order of its targets. *)

LabelOf(g, id) == g.meta.targets[id]

TargetOf(g, l) == CHOOSE k \in 1..Len(g.targets) : LabelOf(g, g.targets[k].id) = l

SortStrings(s) ==
    LET before(k) == {j \in 1..Len(s) : LexLess(s[j], s[k]) \/ (s[j] = s[k] /\ j < k)}
    IN  [p \in 1..Len(s) |-> s[CHOOSE k \in 1..Len(s) : Cardinality(before(k)) = p - 1]]

Meaning(g) ==
    [l \in {LabelOf(g, g.targets[k].id) : k \in 1..Len(g.targets)} |->
        LET t == g.targets[TargetOf(g, l)]
        IN  [hash  |-> IF t.hash = <<>> THEN <<>> ELSE SubSeq(t.hash, 1, HashBytes),
             ruleType |-> g.meta.ruleTypes[t.ruleType],
             root  |-> t.root, ext |-> t.ext,
             deps  |-> {LabelOf(g, d) : d \in ToSet(t.deps)},
             tags  |-> SortStrings([k \in 1..Len(t.tags) |-> g.meta.tags[t.tags[k]]]),
             attrs |-> [s \in {g.meta.attrNames[a] : a \in DOMAIN t.attrs} |->
                          g.meta.attrVals[t.attrs[CHOOSE a \in DOMAIN t.attrs :
                                                     g.meta.attrNames[a] = s]]]]]

\* Every ID that a target uses has a string or a target, every hash is usable.
WellFormed(g) ==
    \A k \in 1..Len(g.targets) :
        LET t == g.targets[k]
        IN  /\ t.id \in DOMAIN g.meta.targets
            /\ t.ruleType \in DOMAIN g.meta.ruleTypes
            /\ HashOk(t.hash)
            /\ ToSet(t.deps) \subseteq {g.targets[j].id : j \in 1..Len(g.targets)}
            /\ ToSet(t.tags) \subseteq DOMAIN g.meta.tags
            /\ \A a \in DOMAIN t.attrs : /\ a \in DOMAIN g.meta.attrNames
                                         /\ t.attrs[a] \in DOMAIN g.meta.attrVals

\* An ill-formed graph is refused, and only an ill-formed one (encode.go refuses what
\* it would otherwise "silently alias" or drop).  A written file is turned away by
\* NewReader for its size and for nothing else, and if its dictionaries expand it
\* decodes, in bulk, to what the graph said, with the hashes of the all-targets
\* files.  A file without its tail is not read as a graph.
LosslessOrRefused ==
    /\ status # "open damaged"
    /\ status = "refused" => ~WellFormed(graph)
    /\ status = "written" =>
          /\ WellFormed(graph)
          /\ NewReader(file) <=> WithinBudget(file)
          /\ expandAllDicts(file) =>
                LET g == DecodeGraph(file)
                IN  Meaning(g) = Meaning(graph) /\ g.meta.files = graph.meta.files

AllRead == status = "open" /\ \A p \in Readers : Lacks(p) = {}

\* Whatever the goroutines of a reader obtained, from the cache or by decoding,
\* the semantic targets are those of the graph where its dictionaries expand, and the
\* three ways to read dependencies agree, and so do rule types as strings and as IDs.
AccessorsAgree ==
    AllRead => \A p \in Readers :
        /\ expandAllDicts(file) => SemanticGraph(file, call[p].have, Nil) = Meaning(graph)
        /\ LET csr  == DepsCSR(file)
               bulk == decodeDepColumns(file)
               n    == NodeCount(file)
           IN  \A i \in 0..(n - 1) :
                 /\ \A s \in ToSet(Dict(file, "RULETYPE_DICT")) :
                       RuleType(file, call[p].have, i) = s
                         <=> call[p].have.ruleType[i + 1] = RuleTypeDictID(file, s)
                 /\ Deps(file, i) = bulk[i + 1]
                 /\ Deps(file, i) = SubSeq(csr.targets, csr.offsets[i + 1] + 1, csr.offsets[i + 2])

Labels == UNION {{g.meta.targets[id] : id \in DOMAIN g.meta.targets} : g \in Graphs}

\* FindNode gives the node of every label of the graph and none for any other; where
\* packages or names do not expand it gives none for any label, never another's node.
FindNodeExact ==
    AllRead => \A p \in Readers : \A l \in Labels :
        LET i == FindNode(file, call[p].have, splitLabel(l))
        IN  IF l \in DOMAIN Meaning(graph) /\ Expands(file, "PKG_DICT") /\ Expands(file, "NAME_DICT")
            THEN i >= 0 /\ Label(file, call[p].have, i) = l
            ELSE i = -1

\* The file depends on what the graph says and on the strings of its metadata:
\* not on the order of the targets, the numbering, or the goroutines.
Renumbered(g) ==
    LET nodes == buildNodes(g)
        newID(id) == CHOOSE k \in 1..Len(nodes) : g.targets[nodes[k].origIdx].id = id
    IN  [targets |-> [k \in 1..Len(nodes) |->
            LET t == g.targets[nodes[k].origIdx]
            IN  [t EXCEPT !.id = k, !.deps = [j \in 1..Len(@) |-> newID(@[j])]]],
         meta |-> [g.meta EXCEPT !.targets =
                      [k \in 1..Len(nodes) |-> @[g.targets[nodes[k].origIdx].id]]]]

EncodeInOrder(g) ==
    LET e   == newEncoder(g)
        n   == Len(e.nodes)
        res == [i \in 0..(n - 1) |-> EncodeNode(g, e, i)]
    IN  write(g, e, [i \in 0..(n - 1) |-> res[i].row],
              [x \in Streams |-> FlattenSeq([k \in 1..n |-> res[k - 1].out[x]])],
              [fl \in Flags |-> [b \in DOMAIN NoBits(n) |->
                  {i % ByteWidth : i \in {j \in 0..(n - 1) : ByteOf(j) = b /\ res[j].set[fl]}}]])

BlobCanonical == status = "written" => file = EncodeInOrder(Renumbered(graph))
============================================================================
