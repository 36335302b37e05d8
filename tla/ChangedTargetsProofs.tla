------------------------- MODULE ChangedTargetsProofs -------------------------
(***************************************************************************)
(* Proofs about ChangedTargets, for every set of calls, revisions, trees,  *)
(* options and faults.                                                     *)
(*                                                                         *)
(* A stored comparison is named by tree hashes that its goroutine reads    *)
(* after the answer was made, while other calls go on.  What makes that    *)
(* sound is that a tree hash, read whenever, is the one of the call's own  *)
(* revision (HashesRight), and that the call is done changing when its     *)
(* goroutine runs (WriterSound).  That an answer out of the cache is the   *)
(* one asked for needs more than the key says: the key leaves the strategy *)
(* out, so KeysFixStrategy has to be assumed of the calls; without it the  *)
(* run ChangedTargetsStrategy shows a counterexample.                      *)
(***************************************************************************)
EXTENDS ChangedTargets, TLAPS

Hashes == [Sides -> Trees \cup {NoTree}]

TypeOK ==
    /\ pc \in [Requests -> {"idle", "treehashes", "compared", "fetch", "compare", "answered", "failed"}]
    /\ req \in [Requests -> Kinds]
    /\ hash \in [Requests -> Hashes]
    /\ answer \in [Requests -> Comparisons \cup {NoAnswer}]
    /\ writer \in [Requests -> {"none", "treehashes", "store", "done"}]
    /\ writerHash \in [Requests -> Hashes]
    /\ mapped \in SUBSET Revisions
    /\ pending \in SUBSET Revisions
    /\ compared \in SUBSET [key : Keys, val : Comparisons \cup {Corrupt}]
    /\ corruptions \in 0..MaxCorruptions

\* The two trees that a kind of call compares, and the key of its answer.
TreesOf(kind) == [i \in Sides |-> TreeOf[kind.build[i].rev]]
OwnKey(kind) == KeyOf(TreesOf(kind), kind)

\* Hashes read so far for a kind of call, and all that is to be read.
HashesRight(h, kind) == \A i \in Sides : h[i] # NoTree => h[i] = TreesOf(kind)[i]

\* The call: nothing read before it arrives, the right hashes after that.
CallSound(r) ==
    /\ pc[r] = "idle" => hash[r] = NoHashes
    /\ HashesRight(hash[r], req[r])
    /\ pc[r] = "compared" => hash[r] = TreesOf(req[r])

\* Its goroutine: it starts with the answer computed, reads the right hashes, and
\* has both before it stores.
WriterSound(r) ==
    /\ writer[r] = "none" => writerHash[r] = NoHashes
    /\ writer[r] # "none" => pc[r] = "answered" /\ answer[r] = Asked(req[r])
    /\ HashesRight(writerHash[r], req[r])
    /\ writer[r] = "store" => writerHash[r] = TreesOf(req[r])

\* What is stored, if it decodes, is the answer to a call of that key.
StoredAsked ==
    \A e \in compared : e.val # Corrupt => \E k \in Kinds : e.key = OwnKey(k) /\ e.val = Asked(k)

\* The trees and excludes of an answer are those that were asked for.
TreesAsAsked(r) ==
    pc[r] = "answered" =>
      /\ answer[r].before.tree = TreeOf[req[r].build[1].rev]
      /\ answer[r].after.tree = TreeOf[req[r].build[2].rev]
      /\ answer[r].before.excludes = req[r].excludes /\ answer[r].after.excludes = req[r].excludes

IndInv ==
    /\ TypeOK
    /\ \A r \in Requests : CallSound(r) /\ WriterSound(r) /\ TreesAsAsked(r)
    /\ StoredAsked

\* cachekey.go:57-68: whatever the strategies, an answer compares the trees that were
\* asked for, in that order, under the excludes that were asked for.
AnsweredTrees == \A r \in Requests : TreesAsAsked(r)

\* Calls with one key ask for the same strategies.
KeysFixStrategy ==
    \A j, k \in Kinds : OwnKey(j) = OwnKey(k) =>
      \A i \in Sides : j.build[i].strategy = k.build[i].strategy

-----------------------------------------------------------------------------

\* The record types, opened once for the proofs below.
LEMMA KindTypes ==
  ASSUME NEW k \in Kinds
  PROVE  /\ k.excludes \in Excludes /\ k.bypass \in BOOLEAN
         /\ \A i \in Sides : k.build[i].rev \in Revisions /\ k.build[i].strategy \in Strategies
         /\ TreesOf(k) \in [Sides -> Trees]
BY KindAssumption, TreeAssumption DEF KindAssumption, TreeAssumption, Builds, TreesOf

LEMMA AskedType ==
  ASSUME NEW k \in Kinds
  PROVE  Asked(k) \in Comparisons /\ Asked(k) # Corrupt /\ Asked(k) # NoAnswer /\ OwnKey(k) \in Keys
<1>1. 1 \in Sides /\ 2 \in Sides
  BY DEF Sides
<1>2. GraphOf(k, 1) \in Graphs /\ GraphOf(k, 2) \in Graphs
  BY <1>1, KindTypes, TreeAssumption DEF GraphOf, Graphs, TreeAssumption
<1>3. Asked(k) \in Comparisons
  BY <1>2 DEF Asked, Comparisons
<1>4. OwnKey(k) \in Keys
  BY <1>1, KindTypes DEF OwnKey, KeyOf, ComparedKey, Keys
<1> QED BY <1>3, <1>4, NullAssumption DEF NullAssumption

\* What Asked(k) compares is what OwnKey(k) names.
LEMMA AskedTrees ==
  ASSUME NEW k \in Kinds
  PROVE  /\ Asked(k).before.tree = OwnKey(k).first /\ Asked(k).after.tree = OwnKey(k).second
         /\ Asked(k).before.excludes = OwnKey(k).excludes /\ Asked(k).after.excludes = OwnKey(k).excludes
         /\ OwnKey(k).first = TreeOf[k.build[1].rev] /\ OwnKey(k).second = TreeOf[k.build[2].rev]
         /\ OwnKey(k).excludes = k.excludes
BY DEF Asked, GraphOf, OwnKey, KeyOf, ComparedKey, TreesOf, Sides

\* Reading one more tree hash keeps the hashes right, whatever was stored meanwhile.
LEMMA ReadKeepsRight ==
  ASSUME NEW k \in Kinds, NEW h \in Hashes, HashesRight(h, k), NEW i \in Sides, mapped \in SUBSET Revisions,
         NEW g, g = [h EXCEPT ![i] = Stored(k.build[i].rev)]
  PROVE  /\ g \in Hashes /\ HashesRight(g, k)
         /\ g[i] # NoTree /\ g[3 - i] # NoTree => g = TreesOf(k)
<1>1. Stored(k.build[i].rev) \in {NoTree, TreesOf(k)[i]} /\ TreesOf(k) \in [Sides -> Trees]
  BY KindTypes DEF Stored, TreesOf
<1>2. g \in Hashes /\ HashesRight(g, k)
  BY <1>1 DEF Hashes, HashesRight
<1>3. ASSUME g[i] # NoTree, g[3 - i] # NoTree PROVE g = TreesOf(k)
  <2>1. 3 - i \in Sides /\ \A j \in Sides : j = i \/ j = 3 - i
    BY DEF Sides
  <2>2. \A j \in Sides : g[j] = TreesOf(k)[j]
    BY <1>2, <1>3, <2>1 DEF HashesRight
  <2> QED BY <1>1, <1>2, <2>2 DEF Hashes
<1> QED BY <1>2, <1>3

LEMMA NoHashesRight == NoHashes \in Hashes /\ \A k : HashesRight(NoHashes, k)
BY DEF NoHashes, Hashes, HashesRight

LEMMA InitIndInv == Init => IndInv
<1> SUFFICES ASSUME Init PROVE IndInv
  OBVIOUS
<1> USE NullAssumption DEF NullAssumption, Init
<1>1. req \in [Requests -> Kinds]
  <2>1. (CHOOSE k \in Kinds : TRUE) \in Kinds
    BY KindAssumption DEF KindAssumption
  <2> QED BY <2>1
<1>2. TypeOK
  BY <1>1, NoHashesRight DEF TypeOK
<1>3. ASSUME NEW r \in Requests PROVE CallSound(r) /\ WriterSound(r) /\ TreesAsAsked(r)
  BY NoHashesRight DEF CallSound, WriterSound, TreesAsAsked
<1>4. StoredAsked
  BY DEF StoredAsked
<1> QED BY <1>2, <1>3, <1>4 DEF IndInv

\* A step of some call or goroutine as another call q sees it.
LeavesAlone(q) ==
    /\ pc'[q] = pc[q] /\ req'[q] = req[q] /\ hash'[q] = hash[q] /\ answer'[q] = answer[q]
    /\ writer'[q] = writer[q] /\ writerHash'[q] = writerHash[q]

LEMMA StepsAlone ==
  ASSUME TypeOK, NEW r \in Requests, Call(r) \/ Writer(r), NEW q \in Requests, q # r
  PROVE  LeavesAlone(q)
<1> USE DEF Goto, WriterGoto, LeaveLookup, WriterEnds, LeavesAlone, TypeOK
<1>1. CASE Call(r)
  BY <1>1 DEF Call, Arrive, ReadTreehash, ReadTreehashFailed, ReadCompared, ReadComparedFailed,
         Fetch, FetchFailed, Compare, CompareFailed, writerVars
<1>2. CASE Writer(r)
  BY <1>2 DEF Writer, WriterReads, WriterStores, WriterFails, callVars
<1> QED BY <1>1, <1>2

\* The invariant follows from what r's step does to r and to the caches.
LEMMA OthersStaySound ==
  ASSUME IndInv, NEW r \in Requests, Call(r) \/ Writer(r),
         TypeOK', StoredAsked', CallSound(r)', WriterSound(r)', TreesAsAsked(r)'
  PROVE  IndInv'
<1>1. ASSUME NEW q \in Requests, q # r PROVE CallSound(q)' /\ WriterSound(q)' /\ TreesAsAsked(q)'
  <2>1. LeavesAlone(q) /\ CallSound(q) /\ WriterSound(q) /\ TreesAsAsked(q)
    BY <1>1, StepsAlone DEF IndInv
  <2>2. CallSound(q)' /\ WriterSound(q)'
    BY <2>1 DEF LeavesAlone, CallSound, WriterSound, HashesRight, TreesOf, Asked, GraphOf
  <2>3. TreesAsAsked(q)'
    BY <2>1 DEF LeavesAlone, TreesAsAsked
  <2> QED BY <2>2, <2>3
<1> QED BY <1>1 DEF IndInv

\* Up to the fetch, a call changes only its own step, request, hashes and answer.
LEMMA LookupIndInv ==
  ASSUME IndInv, NEW r \in Requests,
         \/ Arrive(r) \/ (\E i \in Sides : ReadTreehash(r, i)) \/ ReadTreehashFailed(r)
         \/ ReadCompared(r) \/ ReadComparedFailed(r)
  PROVE  IndInv'
<1> USE DEF Goto, LeaveLookup
<1>1. UNCHANGED <<writerVars, mapped, pending, compared, corruptions>>
  BY DEF Arrive, ReadTreehash, ReadTreehashFailed, ReadCompared, ReadComparedFailed
<1>2. StoredAsked' /\ Call(r)
  BY <1>1 DEF IndInv, StoredAsked, OwnKey, KeyOf, ComparedKey, TreesOf, Asked, GraphOf, Call
<1>3. TypeOK /\ CallSound(r) /\ WriterSound(r) /\ TreesAsAsked(r) /\ req[r] \in Kinds /\ hash[r] \in Hashes
  BY DEF IndInv, TypeOK
<1>4. pc[r] # "answered" /\ pc[r] \in {"idle", "treehashes", "compared"} /\ writer[r] = "none" /\ writerHash[r] = NoHashes
  BY <1>3 DEF WriterSound, Arrive, ReadTreehash, ReadTreehashFailed, ReadCompared, ReadComparedFailed
<1>5. writer'[r] = "none" /\ writerHash'[r] = NoHashes
  BY <1>1, <1>4 DEF writerVars
<1>6. WriterSound(r)'
  BY <1>5, NoHashesRight DEF WriterSound, HashesRight, TreesOf
<1>7. CASE Arrive(r)
  <2>1. PICK k \in Kinds : /\ req' = [req EXCEPT ![r] = k]
                           /\ pc' = [pc EXCEPT ![r] = IF k.bypass THEN "fetch" ELSE "treehashes"]
    BY <1>7 DEF Arrive
  <2>2. TypeOK'
    BY <1>1, <1>3, <1>7, <2>1 DEF Arrive, TypeOK, writerVars
  <2>3. hash'[r] = NoHashes /\ req'[r] = k /\ pc'[r] \in {"fetch", "treehashes"}
    BY <1>3, <1>7, <2>1 DEF Arrive, TypeOK, CallSound
  <2>4. CallSound(r)' /\ TreesAsAsked(r)'
    BY <2>3, NoHashesRight DEF CallSound, TreesAsAsked, HashesRight, TreesOf
  <2> QED BY <1>2, <1>6, <2>2, <2>4, OthersStaySound
<1>8. ASSUME NEW i \in Sides, ReadTreehash(r, i) PROVE IndInv'
  <2>0. PICK h : h = [hash[r] EXCEPT ![i] = Stored(req[r].build[i].rev)]
    OBVIOUS
  <2>1. /\ h \in Hashes /\ HashesRight(h, req[r])
        /\ h[i] # NoTree /\ h[3 - i] # NoTree => h = TreesOf(req[r])
    <3>1. HashesRight(hash[r], req[r]) /\ mapped \in SUBSET Revisions
      BY <1>3 DEF TypeOK, CallSound
    <3> QED BY <1>3, <2>0, <3>1, ReadKeepsRight
  <2>2. /\ req' = req /\ answer' = answer
        /\ \/ pc' = [pc EXCEPT ![r] = "fetch"] /\ hash' = [hash EXCEPT ![r] = NoHashes]
           \/ pc' = pc /\ hash' = [hash EXCEPT ![r] = h]
           \/ pc' = [pc EXCEPT ![r] = "compared"] /\ hash' = [hash EXCEPT ![r] = h] /\ h = TreesOf(req[r])
    BY <1>8, <2>0, <2>1 DEF ReadTreehash
  <2>3. TypeOK'
    BY <1>1, <1>3, <2>1, <2>2, NoHashesRight DEF TypeOK, writerVars
  <2>4. pc[r] = "treehashes"
    BY <1>8 DEF ReadTreehash
  <2>5. CallSound(r)' /\ TreesAsAsked(r)'
    BY <1>3, <2>1, <2>2, <2>4, NoHashesRight DEF TypeOK, CallSound, TreesAsAsked, HashesRight, TreesOf
  <2> QED BY <1>2, <1>6, <2>3, <2>5, OthersStaySound
<1>9. CASE ReadTreehashFailed(r) \/ ReadComparedFailed(r)
  <2>1. /\ req' = req /\ answer' = answer /\ pc' = [pc EXCEPT ![r] = "failed"]
        /\ hash' = [hash EXCEPT ![r] = NoHashes]
    BY <1>9 DEF ReadTreehashFailed, ReadComparedFailed
  <2>2. TypeOK'
    BY <1>1, <1>3, <2>1, NoHashesRight DEF TypeOK, writerVars
  <2>3. CallSound(r)' /\ TreesAsAsked(r)'
    BY <1>3, <2>1, NoHashesRight DEF TypeOK, CallSound, TreesAsAsked, HashesRight, TreesOf
  <2> QED BY <1>2, <1>6, <2>2, <2>3, OthersStaySound
<1>10. CASE ReadCompared(r)
  <2>1. /\ req' = req /\ hash' = [hash EXCEPT ![r] = NoHashes]
        /\ \/ pc' = [pc EXCEPT ![r] = "fetch"] /\ answer' = answer
           \/ /\ pc' = [pc EXCEPT ![r] = "answered"]
              /\ \E e \in compared : /\ e.key = KeyOf(hash[r], req[r]) /\ e.val # Corrupt
                                     /\ answer' = [answer EXCEPT ![r] = e.val]
    BY <1>10 DEF ReadCompared
  <2>2. CallSound(r)'
    BY <1>3, <2>1, NoHashesRight DEF TypeOK, CallSound, HashesRight, TreesOf
  <2>3. CASE answer' = answer /\ pc'[r] = "fetch"
    <3>1. TypeOK'
      BY <1>1, <1>3, <2>1, <2>3, NoHashesRight DEF TypeOK, writerVars
    <3> QED BY <1>2, <1>6, <2>2, <2>3, <3>1, OthersStaySound DEF TreesAsAsked
  <2>4. ASSUME NEW e \in compared, e.key = KeyOf(hash[r], req[r]), e.val # Corrupt,
               answer' = [answer EXCEPT ![r] = e.val], pc' = [pc EXCEPT ![r] = "answered"]
        PROVE  IndInv'
    <3>1. e.key = OwnKey(req[r]) /\ e.val \in Comparisons
      BY <1>3, <1>10, <2>4 DEF ReadCompared, CallSound, OwnKey, TypeOK
    <3>2. PICK k \in Kinds : e.key = OwnKey(k) /\ e.val = Asked(k)
      BY <2>4 DEF IndInv, StoredAsked
    <3>3. TypeOK'
      BY <1>1, <1>3, <2>1, <2>4, <3>1, NoHashesRight DEF TypeOK, writerVars
    <3>4. answer'[r] = Asked(k) /\ req'[r] = req[r]
      BY <1>3, <2>1, <2>4, <3>2 DEF TypeOK
    <3>5. TreesAsAsked(r)'
      <4>1. /\ Asked(k).before.tree = TreeOf[req[r].build[1].rev]
            /\ Asked(k).after.tree = TreeOf[req[r].build[2].rev]
            /\ Asked(k).before.excludes = req[r].excludes /\ Asked(k).after.excludes = req[r].excludes
        <5>1. OwnKey(k) = OwnKey(req[r])
          BY <3>1, <3>2
        <5>2. /\ Asked(k).before.tree = OwnKey(k).first /\ Asked(k).after.tree = OwnKey(k).second
              /\ Asked(k).before.excludes = OwnKey(k).excludes /\ Asked(k).after.excludes = OwnKey(k).excludes
          BY AskedTrees
        <5>3. /\ OwnKey(req[r]).first = TreeOf[req[r].build[1].rev]
              /\ OwnKey(req[r]).second = TreeOf[req[r].build[2].rev]
              /\ OwnKey(req[r]).excludes = req[r].excludes
          BY <1>3, AskedTrees
        <5> QED BY <5>1, <5>2, <5>3
      <4> QED BY <3>4, <4>1 DEF TreesAsAsked
    <3> QED BY <1>2, <1>6, <2>2, <3>3, <3>5, OthersStaySound
  <2> QED BY <1>3, <2>1, <2>3, <2>4 DEF TypeOK
<1> QED BY <1>7, <1>8, <1>9, <1>10

\* The fetch and the comparison.
LEMMA ComputeIndInv ==
  ASSUME IndInv, NEW r \in Requests, Fetch(r) \/ FetchFailed(r) \/ Compare(r) \/ CompareFailed(r)
  PROVE  IndInv'
<1> USE DEF Goto, WriterGoto
<1>1. UNCHANGED <<req, hash, writerHash, mapped, compared, corruptions>>
  BY DEF Fetch, FetchFailed, Compare, CompareFailed, writerVars
<1>2. StoredAsked' /\ Call(r)
  BY <1>1 DEF IndInv, StoredAsked, OwnKey, KeyOf, ComparedKey, TreesOf, Asked, GraphOf, Call
<1>3. TypeOK /\ CallSound(r) /\ WriterSound(r) /\ req[r] \in Kinds
  BY DEF IndInv, TypeOK
<1>4. pc[r] \in {"fetch", "compare"} /\ writer[r] = "none" /\ writerHash[r] = NoHashes
  BY <1>3 DEF WriterSound, Fetch, FetchFailed, Compare, CompareFailed
<1>5. pc' \in [Requests -> {"idle", "treehashes", "compared", "fetch", "compare", "answered", "failed"}]
      /\ pc'[r] \notin {"idle", "compared"}
  BY <1>3 DEF TypeOK, Fetch, FetchFailed, Compare, CompareFailed
<1>6. CallSound(r)'
  BY <1>1, <1>3, <1>5 DEF CallSound, HashesRight, TreesOf
<1>7. CASE Fetch(r) \/ FetchFailed(r) \/ CompareFailed(r)
  <2>1. UNCHANGED <<answer, writer>> /\ pc'[r] # "answered"
    BY <1>3, <1>7 DEF TypeOK, Fetch, FetchFailed, CompareFailed, writerVars
  <2>2. pending' \in SUBSET Revisions
    <3>1. \A i \in Sides : req[r].build[i].rev \in Revisions
      BY <1>3, KindTypes
    <3> QED BY <1>3, <1>7, <3>1 DEF TypeOK, Fetch, FetchFailed, CompareFailed
  <2>3. TypeOK'
    BY <1>1, <1>3, <1>5, <2>1, <2>2 DEF TypeOK
  <2>4. WriterSound(r)' /\ TreesAsAsked(r)'
    BY <1>1, <1>4, <2>1, NoHashesRight DEF WriterSound, TreesAsAsked, HashesRight, TreesOf
  <2> QED BY <1>2, <1>6, <2>3, <2>4, OthersStaySound
<1>8. CASE Compare(r)
  <2>1. /\ answer' = [answer EXCEPT ![r] = Asked(req[r])] /\ writer' = [writer EXCEPT ![r] = "treehashes"]
        /\ pc' = [pc EXCEPT ![r] = "answered"] /\ pending' = pending
    BY <1>8 DEF Compare
  <2>2. TypeOK'
    BY <1>1, <1>3, <1>5, <2>1, AskedType DEF TypeOK
  <2>3. answer'[r] = Asked(req[r]) /\ writer'[r] = "treehashes" /\ pc'[r] = "answered" /\ writerHash'[r] = NoHashes
    BY <1>1, <1>3, <1>4, <2>1 DEF TypeOK
  <2>4. Asked(req[r])' = Asked(req[r])
    BY <1>1 DEF Asked, GraphOf
  <2>5. WriterSound(r)'
    BY <2>3, <2>4, NoHashesRight DEF WriterSound, HashesRight, TreesOf
  <2>6. TreesAsAsked(r)'
    BY <1>1, <2>3 DEF TreesAsAsked, Asked, GraphOf
  <2> QED BY <1>2, <1>6, <2>2, <2>5, <2>6, OthersStaySound
<1> QED BY <1>7, <1>8

\* The goroutine: it names what it stores by hashes it has read itself.
LEMMA WriterIndInv == ASSUME IndInv, NEW r \in Requests, Writer(r) PROVE IndInv'
<1> USE DEF WriterGoto, WriterEnds
<1>1. UNCHANGED <<callVars, mapped, pending, corruptions>>
  BY DEF Writer, WriterReads, WriterStores, WriterFails
<1>2. TypeOK /\ CallSound(r) /\ WriterSound(r) /\ TreesAsAsked(r) /\ req[r] \in Kinds /\ writerHash[r] \in Hashes
  BY DEF IndInv, TypeOK
<1>3. CallSound(r)' /\ TreesAsAsked(r)'
  BY <1>1, <1>2 DEF callVars, CallSound, TreesAsAsked, HashesRight, TreesOf
<1>4. writer[r] # "none" /\ pc[r] = "answered" /\ answer[r] = Asked(req[r])
  BY <1>2 DEF WriterSound, Writer, WriterReads, WriterStores, WriterFails
<1>5. pc'[r] = "answered" /\ answer'[r] = Asked(req[r])'
  BY <1>1, <1>4 DEF callVars, Asked, GraphOf
<1>6. ASSUME NEW i \in Sides, WriterReads(r, i) PROVE IndInv'
  <2>1. PICK h : h = [writerHash[r] EXCEPT ![i] = Stored(req[r].build[i].rev)]
    OBVIOUS
  <2>2. /\ h \in Hashes /\ HashesRight(h, req[r])
        /\ h[i] # NoTree /\ h[3 - i] # NoTree => h = TreesOf(req[r])
    <3>1. HashesRight(writerHash[r], req[r]) /\ mapped \in SUBSET Revisions
      BY <1>2 DEF TypeOK, WriterSound
    <3> QED BY <1>2, <2>1, <3>1, ReadKeepsRight
  <2>3. /\ compared' = compared
        /\ \/ writer' = [writer EXCEPT ![r] = "done"] /\ writerHash' = [writerHash EXCEPT ![r] = NoHashes]
           \/ writer' = writer /\ writerHash' = [writerHash EXCEPT ![r] = h]
           \/ writer' = [writer EXCEPT ![r] = "store"] /\ writerHash' = [writerHash EXCEPT ![r] = h] /\ h = TreesOf(req[r])
    BY <1>6, <2>1, <2>2 DEF WriterReads
  <2>4. TypeOK'
    BY <1>1, <1>2, <2>2, <2>3, NoHashesRight DEF TypeOK, callVars
  <2>5. StoredAsked'
    BY <2>3 DEF IndInv, StoredAsked, OwnKey, KeyOf, ComparedKey, TreesOf, Asked, GraphOf
  <2>6. writer[r] = "treehashes" /\ req' = req
    BY <1>1, <1>6 DEF WriterReads, callVars
  <2>7. WriterSound(r)'
    BY <1>2, <1>5, <2>2, <2>3, <2>6, NoHashesRight DEF TypeOK, WriterSound, HashesRight, TreesOf
  <2> QED BY <1>3, <2>4, <2>5, <2>7, OthersStaySound
<1>7. CASE WriterStores(r) \/ WriterFails(r)
  <2>1. /\ writer' = [writer EXCEPT ![r] = "done"] /\ writerHash' = [writerHash EXCEPT ![r] = NoHashes]
        /\ \A e \in compared' : e \in compared \/ (e = Entry(OwnKey(req[r]), Asked(req[r])))
    BY <1>2, <1>4, <1>7 DEF WriterStores, WriterFails, WriterSound, OwnKey, Put
  <2>2. Entry(OwnKey(req[r]), Asked(req[r])) \in [key : Keys, val : Comparisons \cup {Corrupt}]
    BY <1>2, AskedType DEF Entry
  <2>3. TypeOK'
    BY <1>1, <1>2, <2>1, <2>2, NoHashesRight DEF TypeOK, callVars
  <2>4. StoredAsked'
    <3>1. ASSUME NEW e \in compared', e.val # Corrupt
          PROVE  \E k \in Kinds : e.key = OwnKey(k) /\ e.val = Asked(k)
      <4>1. CASE e \in compared
        BY <3>1, <4>1 DEF IndInv, StoredAsked
      <4>2. CASE e = Entry(OwnKey(req[r]), Asked(req[r]))
        BY <1>2, <4>2 DEF Entry
      <4> QED BY <2>1, <4>1, <4>2
    <3> QED BY <3>1 DEF StoredAsked, OwnKey, KeyOf, ComparedKey, TreesOf, Asked, GraphOf
  <2>5. WriterSound(r)'
    BY <1>2, <1>5, <2>1, NoHashesRight DEF TypeOK, WriterSound, HashesRight, TreesOf
  <2> QED BY <1>3, <2>3, <2>4, <2>5, OthersStaySound
<1> QED BY <1>6, <1>7 DEF Writer

\* What runs beside the calls changes no call and stores no comparison but Corrupt.
LEMMA BesideIndInv ==
  ASSUME IndInv, Treehashes \/ (\E e \in compared : Damage(e)) \/ UNCHANGED vars
  PROVE  IndInv'
<1>1. UNCHANGED <<callVars, writerVars>>
  BY DEF Treehashes, StoreTreehash, DropTreehash, Damage, vars
<1>2. \A r \in Requests : CallSound(r)' /\ WriterSound(r)' /\ TreesAsAsked(r)'
  BY <1>1 DEF callVars, writerVars, IndInv, CallSound, WriterSound, TreesAsAsked, HashesRight, TreesOf, Asked, GraphOf
<1>3. CASE Treehashes \/ UNCHANGED vars
  <2>1. UNCHANGED <<compared, corruptions>> /\ mapped' \in SUBSET Revisions /\ pending' \in SUBSET Revisions
    BY <1>3 DEF Treehashes, StoreTreehash, DropTreehash, vars, IndInv, TypeOK
  <2>2. TypeOK' /\ StoredAsked'
    BY <1>1, <2>1 DEF callVars, writerVars, IndInv, TypeOK, StoredAsked, OwnKey, KeyOf, ComparedKey, TreesOf, Asked, GraphOf
  <2> QED BY <1>2, <2>2 DEF IndInv
<1>4. ASSUME NEW e \in compared, Damage(e) PROVE IndInv'
  <2>1. /\ UNCHANGED <<mapped, pending>> /\ corruptions' \in 0..MaxCorruptions
        /\ \A f \in compared' : f \in compared \/ f = Entry(e.key, Corrupt)
    BY <1>4, NullAssumption DEF NullAssumption, Damage, Put, IndInv, TypeOK
  <2>2. Entry(e.key, Corrupt) \in [key : Keys, val : Comparisons \cup {Corrupt}] /\ Entry(e.key, Corrupt).val = Corrupt
    BY DEF Entry, IndInv, TypeOK
  <2>3. TypeOK'
    BY <1>1, <2>1, <2>2 DEF callVars, writerVars, IndInv, TypeOK
  <2>4. StoredAsked'
    BY <2>1, <2>2 DEF IndInv, StoredAsked, OwnKey, KeyOf, ComparedKey, TreesOf, Asked, GraphOf
  <2> QED BY <1>2, <2>3, <2>4 DEF IndInv
<1> QED BY <1>3, <1>4

LEMMA NextIndInv == IndInv /\ [Next]_vars => IndInv'
<1> SUFFICES ASSUME IndInv, [Next]_vars PROVE IndInv'
  OBVIOUS
<1>1. ASSUME NEW r \in Requests, Call(r) PROVE IndInv'
  BY <1>1, LookupIndInv, ComputeIndInv DEF Call
<1> QED BY <1>1, WriterIndInv, BesideIndInv DEF Next, Quiescent

\* The inductive invariant holds in every reachable state, for any kinds of calls.
THEOREM IndInvHolds == Spec => []IndInv
BY InitIndInv, NextIndInv, PTL DEF Spec

\* cachekey.go:57-68: what is stored under a key compares those two trees in that order
\* under those excludes, although its goroutine reads the tree hashes again at the end.
THEOREM ComparisonsAreFaithful == Spec => []ComparedFaithful
<1>1. IndInv => ComparedFaithful
  <2> SUFFICES ASSUME IndInv, NEW e \in compared, e.val # Corrupt
               PROVE  /\ e.val.before.tree = e.key.first /\ e.val.after.tree = e.key.second
                      /\ e.val.before.excludes = e.key.excludes /\ e.val.after.excludes = e.key.excludes
    BY DEF ComparedFaithful
  <2>1. PICK k \in Kinds : e.key = OwnKey(k) /\ e.val = Asked(k)
    BY DEF IndInv, StoredAsked
  <2> QED BY <2>1, AskedTrees
<1> QED BY IndInvHolds, <1>1, PTL

\* getchangedtargets.go:81-125: whatever strategies the calls ask for, an answer compares
\* the trees and uses the excludes that were asked for.
THEOREM AnswersHaveAskedTrees == Spec => []AnsweredTrees
<1>1. IndInv => AnsweredTrees
  BY DEF IndInv, AnsweredTrees
<1> QED BY IndInvHolds, <1>1, PTL

-----------------------------------------------------------------------------
(* Calls whose keys fix the strategy.                                       *)

\* Then the key of a call determines its answer.
LEMMA KeyFixesAnswer ==
  ASSUME KeysFixStrategy, NEW j \in Kinds, NEW k \in Kinds, OwnKey(j) = OwnKey(k)
  PROVE  Asked(j) = Asked(k)
<1>1. 1 \in Sides /\ 2 \in Sides
  BY DEF Sides
<1>2. j.build[1].strategy = k.build[1].strategy /\ j.build[2].strategy = k.build[2].strategy
  BY <1>1 DEF KeysFixStrategy
<1>3. /\ TreeOf[j.build[1].rev] = TreeOf[k.build[1].rev] /\ TreeOf[j.build[2].rev] = TreeOf[k.build[2].rev]
      /\ j.excludes = k.excludes
  BY AskedTrees
<1> QED BY <1>2, <1>3 DEF Asked, GraphOf

LEMMA NextAnsweredAsAsked ==
  ASSUME KeysFixStrategy, IndInv, AnsweredAsAsked, [Next]_vars PROVE AnsweredAsAsked'
<1> SUFFICES ASSUME NEW q \in Requests, pc'[q] = "answered" PROVE answer'[q] = Asked(req[q])'
  BY DEF AnsweredAsAsked
<1> USE DEF Goto, WriterGoto, LeaveLookup
<1>1. TypeOK /\ CallSound(q) /\ req[q] \in Kinds
  BY DEF IndInv, TypeOK
<1>2. ASSUME UNCHANGED <<pc, req, answer>> \/ LeavesAlone(q) PROVE answer'[q] = Asked(req[q])'
  BY <1>2 DEF LeavesAlone, AnsweredAsAsked, Asked, GraphOf
<1>3. CASE Call(q)
  <2>1. CASE ReadCompared(q)
    <3>1. PICK e \in compared : /\ e.key = KeyOf(hash[q], req[q]) /\ e.val # Corrupt
                                /\ answer' = [answer EXCEPT ![q] = e.val] /\ req' = req
      BY <1>1, <2>1 DEF ReadCompared, TypeOK
    <3>2. e.key = OwnKey(req[q])
      BY <1>1, <2>1, <3>1 DEF ReadCompared, CallSound, OwnKey
    <3>3. PICK k \in Kinds : e.key = OwnKey(k) /\ e.val = Asked(k)
      BY <3>1 DEF IndInv, StoredAsked
    <3>4. Asked(k) = Asked(req[q])
      BY <1>1, <3>2, <3>3, KeyFixesAnswer
    <3> QED BY <1>1, <3>1, <3>3, <3>4 DEF TypeOK, Asked, GraphOf
  <2>2. CASE Compare(q)
    BY <1>1, <2>2 DEF Compare, TypeOK, Asked, GraphOf
  <2>3. ~ReadCompared(q) /\ ~Compare(q) => pc'[q] # "answered"
    BY <1>1, <1>3 DEF Call, Arrive, ReadTreehash, ReadTreehashFailed, ReadComparedFailed, Fetch, FetchFailed,
           CompareFailed, TypeOK
  <2> QED BY <2>1, <2>2, <2>3
<1>4. CASE Writer(q) \/ Treehashes \/ (\E e \in compared : Damage(e)) \/ UNCHANGED vars
  BY <1>2, <1>4 DEF Writer, WriterReads, WriterStores, WriterFails, Treehashes, StoreTreehash, DropTreehash,
         Damage, vars, callVars
<1>5. ASSUME NEW r \in Requests, Call(r) \/ Writer(r), r # q PROVE answer'[q] = Asked(req[q])'
  BY <1>1, <1>2, <1>5, StepsAlone
<1> QED BY <1>3, <1>4, <1>5 DEF Next, Quiescent

\* getchangedtargets.go:81-125: when calls with one key ask for the same strategies, every
\* answer is the comparison that was asked for, computed or out of the cache.
THEOREM AnswersAreAsAsked == ASSUME KeysFixStrategy PROVE Spec => []AnsweredAsAsked
<1>1. Init => AnsweredAsAsked
  BY DEF Init, AnsweredAsAsked
<1>2. IndInv /\ AnsweredAsAsked /\ [Next]_vars => AnsweredAsAsked'
  BY NextAnsweredAsAsked
<1> QED BY IndInvHolds, <1>1, <1>2, PTL DEF Spec

=============================================================================
