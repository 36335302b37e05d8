---------------------------- MODULE ChangedTargets ----------------------------
(***************************************************************************)
(* controller.GetChangedTargets: the compared-targets cache in front of    *)
(* the fetch and the comparison, and the goroutine behind each computed    *)
(* answer that stores it without anybody waiting.                          *)
(*                                                                         *)
(* Neither side carries the tree hashes along: the request reads them to   *)
(* look the answer up, the goroutine reads them again to name what it      *)
(* stores, and the fetch in between starts goroutines of its own that      *)
(* write them.  What those promise is taken from GraphService (a mapping,  *)
(* once stored, is the tree of its revision) and from GraphFetch (both     *)
(* graphs or an error).  A comparison is named by the graphs it compares.  *)
(***************************************************************************)
EXTENDS Naturals

CONSTANTS Requests,        \* calls of GetChangedTargets
          Kinds,           \* what a call may ask for: see KindAssumption
          Revisions,       \* base and change requests of a build
          Trees,
          TreeOf,          \* TreeOf[v]: the git tree of revision v
          Strategies,
          Implemented,     \* the strategies whose runner computes graphs: SHELL's returns an error
          Excludes,
          MaxCorruptions,  \* bound on damaged blobs
          Faulty,          \* the calls whose storage, fetch or comparison may fail
          NoTree, NoAnswer, Corrupt

Sides == {1, 2}
Graphs == [tree : Trees, strategy : Strategies, excludes : Excludes]
Comparisons == [before : Graphs, after : Graphs]
Builds == [rev : Revisions, strategy : Strategies]

ASSUME TreeAssumption == TreeOf \in [Revisions -> Trees]
ASSUME KindAssumption ==
    /\ Kinds \subseteq [build : [Sides -> Builds], excludes : Excludes, bypass : BOOLEAN]
    /\ Kinds # {}
ASSUME NullAssumption ==
    /\ NoTree \notin Trees
    /\ NoAnswer \notin Comparisons /\ Corrupt \notin Comparisons
    /\ MaxCorruptions \in Nat
    /\ Faulty \subseteq Requests
    /\ Implemented \subseteq Strategies

VARIABLES
    pc,          \* pc[r]: the next step of call r
    req,         \* req[r]: what r asks for
    hash,        \* hash[r][i]: the tree hash r has read for side i
    answer,      \* answer[r]: the comparison r returns
    writer,      \* writer[r]: the next step of the goroutine that stores it
    writerHash,  \* writerHash[r][i]: the tree hash that goroutine has read
    mapped,      \* cache: revisions whose tree hash is stored
    pending,     \* revisions whose tree hash a goroutine is about to store
    compared,    \* cache: records of a key and a comparison
    corruptions

callVars == <<pc, req, hash, answer>>
writerVars == <<writer, writerHash>>
vars == <<callVars, writerVars, mapped, pending, compared, corruptions>>

\* cachekey.GetComparedTargetsCachePath.
ComparedKey(t1, t2, excludes) == [first |-> t1, second |-> t2, excludes |-> excludes]

\* The graph that getGraph serves for one side.
GraphOf(kind, i) ==
    [tree |-> TreeOf[kind.build[i].rev], strategy |-> kind.build[i].strategy, excludes |-> kind.excludes]

\* The comparison a call asks for.
Asked(kind) == [before |-> GraphOf(kind, 1), after |-> GraphOf(kind, 2)]

Entry(k, v) == [key |-> k, val |-> v]
Put(store, k, v) == {e \in store : e.key # k} \cup {Entry(k, v)}
Keys == [first : Trees, second : Trees, excludes : Excludes]

NoHashes == [i \in Sides |-> NoTree]

Init ==
    /\ pc = [r \in Requests |-> "idle"]
    /\ req = [r \in Requests |-> CHOOSE k \in Kinds : TRUE]
    /\ hash = [r \in Requests |-> NoHashes]
    /\ answer = [r \in Requests |-> NoAnswer]
    /\ writer = [r \in Requests |-> "none"]
    /\ writerHash = [r \in Requests |-> NoHashes]
    /\ mapped = {}
    /\ pending = {}
    /\ compared = {}
    /\ corruptions = 0

Goto(r, label) == pc' = [pc EXCEPT ![r] = label]
WriterGoto(r, label) == writer' = [writer EXCEPT ![r] = label]

\* comparedTargetsFromCache returns: the tree hashes it read are forgotten.
LeaveLookup(r, label) == Goto(r, label) /\ hash' = [hash EXCEPT ![r] = NoHashes]
WriterEnds(r) == WriterGoto(r, "done") /\ writerHash' = [writerHash EXCEPT ![r] = NoHashes]

\* readTreehash: a miss is not an error.
Stored(v) == IF v \in mapped THEN TreeOf[v] ELSE NoTree

-----------------------------------------------------------------------------
(* GetChangedTargets *)

Arrive(r) ==
    /\ pc[r] = "idle"
    /\ \E k \in Kinds :
         /\ req' = [req EXCEPT ![r] = k]
         /\ Goto(r, IF k.bypass THEN "fetch" ELSE "treehashes")
    /\ UNCHANGED <<hash, answer, writerVars, mapped, pending, compared, corruptions>>

\* readTreehashParallel: the two reads come in any order and at their own
\* times; with both in, the lookup goes on if neither was a miss.
ReadTreehash(r, i) ==
    /\ pc[r] = "treehashes"
    /\ hash[r][i] = NoTree
    /\ LET h == [hash[r] EXCEPT ![i] = Stored(req[r].build[i].rev)]
           other == 3 - i
       IN
       IF h[i] = NoTree
       THEN LeaveLookup(r, "fetch")
       ELSE /\ hash' = [hash EXCEPT ![r] = h]
            /\ IF h[other] = NoTree THEN UNCHANGED pc ELSE Goto(r, "compared")
    /\ UNCHANGED <<req, answer, writerVars, mapped, pending, compared, corruptions>>

\* The storage fails, or the client is gone: the request fails.
ReadTreehashFailed(r) ==
    /\ pc[r] = "treehashes"
    /\ r \in Faulty
    /\ LeaveLookup(r, "failed")
    /\ UNCHANGED <<req, answer, writerVars, mapped, pending, compared, corruptions>>

KeyOf(h, kind) == ComparedKey(h[1], h[2], kind.excludes)

\* Broken variant: the excludes are left out of the key.
ReadComparedAnyExcludes(r) ==
    /\ pc[r] = "compared"
    /\ LET found == {e \in compared : e.key.first = hash[r][1] /\ e.key.second = hash[r][2] /\ e.val # Corrupt} IN
       \/ /\ \E e \in found : answer' = [answer EXCEPT ![r] = e.val]
          /\ LeaveLookup(r, "answered")
       \/ found = {} /\ LeaveLookup(r, "fetch") /\ UNCHANGED answer
    /\ UNCHANGED <<req, writerVars, mapped, pending, compared, corruptions>>

\* Broken variant: a blob that does not decode fails the request.
ReadComparedOrFail(r) ==
    /\ pc[r] = "compared"
    /\ LET found == {e \in compared : e.key = KeyOf(hash[r], req[r])} IN
       \/ \E e \in found :
            IF e.val = Corrupt
            THEN LeaveLookup(r, "failed") /\ UNCHANGED answer
            ELSE LeaveLookup(r, "answered") /\ answer' = [answer EXCEPT ![r] = e.val]
       \/ found = {} /\ LeaveLookup(r, "fetch") /\ UNCHANGED answer
    /\ UNCHANGED <<req, writerVars, mapped, pending, compared, corruptions>>

\* The blob is drained before anything is sent: served if it decodes to the
\* end, recomputed if it is missing, unreadable or corrupt.
ReadCompared(r) ==
    /\ pc[r] = "compared"
    /\ LET found == {e \in compared : e.key = KeyOf(hash[r], req[r]) /\ e.val # Corrupt} IN
       \/ \E e \in found :
            /\ answer' = [answer EXCEPT ![r] = e.val]
            /\ LeaveLookup(r, "answered")
       \/ /\ found = {} \/ r \in Faulty
          /\ LeaveLookup(r, "fetch")
          /\ UNCHANGED answer
    /\ UNCHANGED <<req, writerVars, mapped, pending, compared, corruptions>>

\* The client is gone while the blob is drained.
ReadComparedFailed(r) ==
    /\ pc[r] = "compared"
    /\ r \in Faulty
    /\ LeaveLookup(r, "failed")
    /\ UNCHANGED <<req, answer, writerVars, mapped, pending, compared, corruptions>>

\* Graphs of the other strategies are neither computed nor, therefore, found.
Computable(kind) == \A i \in Sides : kind.build[i].strategy \in Implemented

\* fetchTargetGraphs: both graphs are there.  A graph that had to be computed
\* has started a goroutine that stores the tree hash of its revision; one that
\* was found in the cache, by either lookup, has not.
Fetch(r) ==
    /\ pc[r] = "fetch"
    /\ Computable(req[r])
    /\ \E computed \in SUBSET Sides :
         /\ req[r].bypass => computed = Sides
         /\ pending' = pending \cup {req[r].build[i].rev : i \in computed}
    /\ Goto(r, "compare")
    /\ UNCHANGED <<req, hash, answer, writerVars, mapped, compared, corruptions>>

\* Either fetch fails, or cannot succeed, after both may have started those goroutines.
FetchFailed(r) ==
    /\ pc[r] = "fetch"
    /\ r \in Faulty \/ ~Computable(req[r])
    /\ \E computed \in SUBSET Sides :
         pending' = pending \cup {req[r].build[i].rev : i \in computed}
    /\ Goto(r, "failed")
    /\ UNCHANGED <<req, hash, answer, writerVars, mapped, compared, corruptions>>

\* Broken variant: a request that bypasses the cache does not store its answer.
CompareStoresUnlessBypass(r) ==
    /\ pc[r] = "compare"
    /\ answer' = [answer EXCEPT ![r] = Asked(req[r])]
    /\ Goto(r, "answered")
    /\ IF req[r].bypass THEN UNCHANGED writer ELSE WriterGoto(r, "treehashes")
    /\ UNCHANGED <<req, hash, writerHash, mapped, pending, compared, corruptions>>

\* compareFetchedGraphs, then the goroutine is started and the answer returned.
Compare(r) ==
    /\ pc[r] = "compare"
    /\ answer' = [answer EXCEPT ![r] = Asked(req[r])]
    /\ Goto(r, "answered")
    /\ WriterGoto(r, "treehashes")
    /\ UNCHANGED <<req, hash, writerHash, mapped, pending, compared, corruptions>>

\* The comparison fails or is cancelled: nothing is stored.
CompareFailed(r) ==
    /\ pc[r] = "compare"
    /\ r \in Faulty
    /\ Goto(r, "failed")
    /\ UNCHANGED <<req, hash, answer, writerVars, mapped, pending, compared, corruptions>>

-----------------------------------------------------------------------------
(* cacheComparedTargets: the goroutine. *)

\* It reads both tree hashes again and gives up if either is missing.
WriterReads(r, i) ==
    /\ writer[r] = "treehashes"
    /\ writerHash[r][i] = NoTree
    /\ LET h == [writerHash[r] EXCEPT ![i] = Stored(req[r].build[i].rev)]
           other == 3 - i
       IN
       IF h[i] = NoTree
       THEN WriterEnds(r)
       ELSE /\ writerHash' = [writerHash EXCEPT ![r] = h]
            /\ IF h[other] = NoTree THEN UNCHANGED writer ELSE WriterGoto(r, "store")
    /\ UNCHANGED <<callVars, mapped, pending, compared, corruptions>>

\* Broken variant: the tree hashes are used in the order they came in.
WriterStoresSwapped(r) ==
    /\ writer[r] = "store"
    /\ compared' = Put(compared, ComparedKey(writerHash[r][2], writerHash[r][1], req[r].excludes), answer[r])
    /\ WriterEnds(r)
    /\ UNCHANGED <<callVars, mapped, pending, corruptions>>

\* storage.WriteChangedTargetsStream.
WriterStores(r) ==
    /\ writer[r] = "store"
    /\ compared' = Put(compared, KeyOf(writerHash[r], req[r]), answer[r])
    /\ WriterEnds(r)
    /\ UNCHANGED <<callVars, mapped, pending, corruptions>>

\* A read or the write fails, or the server shuts down; it is only logged.
WriterFails(r) ==
    /\ writer[r] \in {"treehashes", "store"}
    /\ r \in Faulty
    /\ WriterEnds(r)
    /\ UNCHANGED <<callVars, mapped, pending, compared, corruptions>>

-----------------------------------------------------------------------------
(* What GraphService does beside it, and damage to the storage. *)

StoreTreehash(v) ==
    /\ pending' = pending \ {v}
    /\ mapped' = mapped \cup {v}
    /\ UNCHANGED <<callVars, writerVars, compared, corruptions>>

DropTreehash(v) ==
    /\ pending' = pending \ {v}
    /\ UNCHANGED <<callVars, writerVars, mapped, compared, corruptions>>

\* A stored comparison is damaged so that it no longer decodes.
Damage(e) ==
    /\ corruptions < MaxCorruptions
    /\ e.val # Corrupt
    /\ compared' = Put(compared, e.key, Corrupt)
    /\ corruptions' = corruptions + 1
    /\ UNCHANGED <<callVars, writerVars, mapped, pending>>

Call(r) ==
    \/ Arrive(r)
    \/ \E i \in Sides : ReadTreehash(r, i)
    \/ ReadTreehashFailed(r)
    \/ ReadCompared(r) \/ ReadComparedFailed(r)
    \/ Fetch(r) \/ FetchFailed(r)
    \/ Compare(r) \/ CompareFailed(r)

Writer(r) == (\E i \in Sides : WriterReads(r, i)) \/ WriterStores(r) \/ WriterFails(r)

Treehashes == \E v \in pending : StoreTreehash(v) \/ DropTreehash(v)

Quiescent ==
    /\ \A r \in Requests : pc[r] \in {"answered", "failed"} /\ writer[r] \in {"none", "done"}
    /\ pending = {}
    /\ UNCHANGED vars

Next ==
    \/ \E r \in Requests : Call(r) \/ Writer(r)
    \/ Treehashes
    \/ \E e \in compared : Damage(e)
    \/ Quiescent

Spec == Init /\ [][Next]_vars

\* Calls and goroutines are never abandoned; each ends by its own timeouts.
FairSpec ==
    /\ Spec
    /\ \A r \in Requests : WF_vars(Call(r)) /\ WF_vars(Writer(r))
    /\ WF_vars(Treehashes)

-----------------------------------------------------------------------------
(* Correctness. *)

\* cachekey.go:57-68: what is stored under a key compares those two trees in
\* that order under those excludes, although the goroutine that stores it reads
\* the tree hashes again, after the comparison was made.
ComparedFaithful ==
    \A e \in compared :
      \/ e.val = Corrupt
      \/ /\ e.val.before.tree = e.key.first /\ e.val.after.tree = e.key.second
         /\ e.val.before.excludes = e.key.excludes /\ e.val.after.excludes = e.key.excludes

\* getchangedtargets.go:81-125: an answer compares the graphs of the builds that
\* were asked for, under the strategy and the excludes that were asked for.
AnsweredAsAsked == \A r \in Requests : pc[r] = "answered" => answer[r] = Asked(req[r])

\* getchangedtargets.go:185-189: a missing tree hash, a corrupt blob or the faults
\* of other calls cost no call its answer; one whose graphs cannot be computed gets
\* an error, or the answer of an equal call that could compute them.
CallsAnswered ==
    \A r \in Requests \ Faulty :
      pc[r] # "idle" ~> pc[r] = "answered" \/ (pc[r] = "failed" /\ ~Computable(req[r]))

\* changed_targets.go:43-44 "overwriting the existing cached results": a call that
\* bypasses the cache leaves the entry it would have been served good, even one
\* that was damaged, since the goroutine stores whatever is there.
BypassRepairs ==
    \A r \in Requests \ Faulty :
      LET key == KeyOf([i \in Sides |-> TreeOf[req[r].build[i].rev]], req[r]) IN
      (/\ pc[r] = "compare" /\ req[r].bypass
       /\ \A i \in Sides : req[r].build[i].rev \in mapped
       /\ corruptions = MaxCorruptions /\ Entry(key, Corrupt) \in compared)
        ~> Entry(key, Corrupt) \notin compared
=============================================================================
