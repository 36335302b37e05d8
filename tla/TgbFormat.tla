----------------------------- MODULE TgbFormat -----------------------------
(***************************************************************************)
(* The columns of the TGB graph format (internal/tgb): how a target graph  *)
(* becomes columns (encode.go, dict.go) and how columns become a graph     *)
(* again (reader.go).  Everything here is a value; TgbCodec lets goroutines *)
(* build and read these values step by step.                               *)
(*                                                                         *)
(* A string is a sequence of characters, a character a number.  A column   *)
(* is a sequence of the integers that the code writes as varints: int32 to *)
(* uint64 and back is the identity, so a varint counts as one byte.        *)
(* Nodes are counted from 0, as in the code; node i of a column is its     *)
(* element i + 1.                                                          *)
(***************************************************************************)
EXTENDS Integers, Sequences, FiniteSets, SequencesExt

CONSTANTS Colon,            \* the character ':'
          RestartInterval,  \* entries between restart points of a dictionary
          ByteWidth,        \* flags per byte of a bitset, 8 in the code
          HashBytes,        \* bytes kept of a hash
          maxDictExpansionFactor,  \* bytes of strings a reader takes from a byte
          maxDictExpansionFloor    \* of a dictionary, and from any dictionary

ASSUME FormatAssumption ==
    /\ Colon \in Nat
    /\ RestartInterval \in Nat \ {0}
    /\ ByteWidth \in Nat \ {0}
    /\ HashBytes \in Nat \ {0}
    /\ maxDictExpansionFactor \in Nat /\ maxDictExpansionFloor \in Nat

----------------------------------------------------------------------------
(* Strings and order *)

\* strings.Compare(a, b) < 0
LexLess(a, b) ==
    \/ IsStrictPrefix(a, b)
    \/ \E k \in (1..Len(a)) \cap (1..Len(b)) :
          /\ SubSeq(a, 1, k - 1) = SubSeq(b, 1, k - 1)
          /\ a[k] < b[k]

\* slices.Sort and parallelSortFunc: chunks sorted by goroutines of their own
\* and merged give the one ascending order of distinct elements.
SortedSeq(S, Less(_, _)) ==
    [k \in 1..Cardinality(S) |->
        CHOOSE x \in S : Cardinality({y \in S : Less(y, x)}) = k - 1]

\* slices.Sort of integers, repetitions kept.
SortInts(s) ==
    LET before(k) == {j \in 1..Len(s) : s[j] < s[k] \/ (s[j] = s[k] /\ j < k)}
    IN  [p \in 1..Len(s) |-> s[CHOOSE k \in 1..Len(s) : Cardinality(before(k)) = p - 1]]

\* A label without a colon is a name in the package "".
splitLabel(label) ==
    IF Colon \notin ToSet(label)
    THEN [pkg |-> <<>>, name |-> label]
    ELSE LET i == SelectLastInSeq(label, LAMBDA c : c = Colon)
         IN  [pkg |-> SubSeq(label, 1, i - 1), name |-> SubSeq(label, i + 1, Len(label))]

joinLabel(pkg, name) == IF pkg = <<>> THEN name ELSE pkg \o <<Colon>> \o name

\* The order of nodes: by package and then by name, not by label.
NodeLess(a, b) ==
    \/ LexLess(a.pkg, b.pkg)
    \/ a.pkg = b.pkg /\ LexLess(a.name, b.name)

----------------------------------------------------------------------------
(* Sums *)

\* The sum of the first k entries, for every k: a running total.
Totals(col) ==
    LET total[k \in 0..Len(col)] == IF k = 0 THEN 0 ELSE total[k - 1] + col[k]
    IN  total

Total(col) == Totals(col)[Len(col)]

----------------------------------------------------------------------------
(* Dictionaries *)

sortedUniqueStrings(mapping) ==
    SortedSeq({mapping[id] : id \in DOMAIN mapping}, LexLess)

\* Position of a string in a dictionary, from 0.
buildStrIndex(dict) ==
    [s \in ToSet(dict) |-> (CHOOSE k \in 1..Len(dict) : dict[k] = s) - 1]

remapTable(mapping, dictIdx) == [id \in DOMAIN mapping |-> dictIdx[mapping[id]]]

commonPrefixLen(a, b) ==
    CHOOSE n \in 0..Len(a) :
        /\ n <= Len(b) /\ SubSeq(a, 1, n) = SubSeq(b, 1, n)
        /\ n < Len(a) /\ n < Len(b) => a[n + 1] # b[n + 1]

\* Each string as the length of the prefix it shares with the one before it and
\* the rest; restart points share nothing.
buildFrontCodedDict(strs) ==
    [restarts |-> {k \in 1..Len(strs) : (k - 1) % RestartInterval = 0},
     entries  |-> [k \in 1..Len(strs) |->
        LET shared == IF (k - 1) % RestartInterval = 0
                      THEN 0 ELSE commonPrefixLen(strs[k - 1], strs[k])
        IN  [shared |-> shared, suffix |-> SubSeq(strs[k], shared + 1, Len(strs[k]))]]]

\* The bytes of the entries: two lengths and a rest each.
EncodedLen(d) == Total([k \in 1..Len(d.entries) |-> 2 + Len(d.entries[k].suffix)])

\* The strings of the entries, each from the one before it.
EntryStrings(d) ==
    LET str[k \in 1..Len(d.entries)] ==
            (IF k = 1 THEN <<>> ELSE SubSeq(str[k - 1], 1, d.entries[k].shared))
            \o d.entries[k].suffix
    IN  str

\* The strings, unless there are more bytes of them than the encoded ones allow:
\* shared prefixes make a dictionary grow when it is expanded.
expandDict(d) ==
    LET strs == EntryStrings(d)
    IN  IF Total([k \in 1..Len(strs) |-> Len(strs[k])])
             > Max({EncodedLen(d) * maxDictExpansionFactor, maxDictExpansionFloor})
        THEN [ok |-> FALSE, strs |-> <<>>]
        ELSE [ok |-> TRUE, strs |-> strs]

----------------------------------------------------------------------------
(* Integer columns *)

encodeDeltas(vals) == [k \in 1..Len(vals) |-> vals[k] - (IF k = 1 THEN 0 ELSE vals[k - 1])]

decodeDeltaInts(col) == [k \in 1..Len(col) |-> Totals(col)[k]]

\* NODE_NAME: absolute at the first node of a package, a delta inside it.
encodeNames(pkgIDs, nameIDs) ==
    [k \in 1..Len(pkgIDs) |->
        IF k = 1 \/ pkgIDs[k] # pkgIDs[k - 1]
        THEN nameIDs[k] ELSE nameIDs[k] - nameIDs[k - 1]]

decodeNameIDs(col, pkgIDs) ==
    LET id[k \in 1..Len(col)] ==
            IF k = 1 \/ pkgIDs[k] # pkgIDs[k - 1] THEN col[k] ELSE id[k - 1] + col[k]
    IN  id

appendZigzag(v) == IF v >= 0 THEN 2 * v ELSE -2 * v - 1

readZigzag(u) == IF u % 2 = 0 THEN u \div 2 ELSE -((u + 1) \div 2)

\* A node's dependencies: the first relative to the node itself, then deltas.
encodeDeps(i, sorted) ==
    [k \in 1..Len(sorted) |->
        IF k = 1 THEN appendZigzag(sorted[1] - i) ELSE sorted[k] - sorted[k - 1]]

\* The run of a node in a list column starts after the entries of those before it.
RunStart(degs, i) == Totals(degs)[i]

\* The runs of a list column, one after the other.
Runs(list, degs) ==
    [k \in 1..Len(degs) |-> SubSeq(list, RunStart(degs, k - 1) + 1, RunStart(degs, k))]

\* Every entry takes at least one byte of the list column.
validateDegs(degs, list) ==
    /\ \A k \in 1..Len(degs) : degs[k] >= 0
    /\ RunStart(degs, Len(degs)) <= Len(list)

----------------------------------------------------------------------------
(* Bitsets: bytes of ByteWidth flags, a byte as the set of its flags. *)

ByteOf(i) == i \div ByteWidth

NoBits(n) == [b \in 0..((n + ByteWidth - 1) \div ByteWidth) - 1 |-> {}]

BitSet(bits, i) == i % ByteWidth \in bits[ByteOf(i)]
============================================================================
