-------------------------- MODULE GraphServiceProofs --------------------------
(***************************************************************************)
(* Proofs about GraphService, for every set of calls, builds, options,     *)
(* workers and faults.                                                     *)
(*                                                                         *)
(* That a cached graph is the one its key names is not inductive: the key  *)
(* is read from HEAD at one step, the graph computed from HEAD at a later  *)
(* one.  In between, HEAD must not move (TreeCurrent), which rests on the  *)
(* worker being the call's alone (WorkersExclusive).  What a build's tree  *)
(* is needs the checkout step by step (Applying), and holds only when the  *)
(* base names a commit (PinnedBases): for the base HEAD the run            *)
(* GraphServiceHead shows a counterexample.                                *)
(***************************************************************************)
EXTENDS GraphService, SequenceTheorems, TLAPS

TypeOK ==
    /\ pc \in [Requests -> PC]
    /\ req \in [Requests -> Kinds]
    /\ tree \in [Requests -> Trees]
    /\ worker \in [Requests -> Workers \cup {NoWorker}]
    /\ applied \in [Requests -> Nat]
    /\ graph \in [Requests -> GraphKeys \cup {NoGraph}]
    /\ head \in [Workers -> Trees]
    /\ treehashes \in SUBSET [key : Builds, val : Trees]
    /\ graphs \in SUBSET [key : GraphKeys, val : GraphKeys \cup {Corrupt}]
    /\ pending \in SUBSET [key : Builds, val : Trees]
    /\ corruptions \in 0..MaxCorruptions

\* No worker is with two calls.
WorkersExclusive ==
    \A q, r \in Requests : worker[q] = worker[r] /\ worker[r] # NoWorker => q = r

\* A call has a worker exactly while it is inside the orchestrator.
HasWorker(r) == pc[r] \in InOrchestrator <=> worker[r] # NoWorker

\* From RevParse to the end, the worker is at the tree that RevParse named.
PastRevParse == {"lookup", "compute", "write", "readback"}
TreeCurrent(r) == pc[r] \in PastRevParse => head[worker[r]] = tree[r]

\* What is about to be stored is the graph of the key it will be stored under, and
\* what is served is the graph of the tree this call resolved.
GraphCurrent(r) == pc[r] \in {"write", "served"} => graph[r] = GraphKey(tree[r], req[r])

\* A call that bypasses the caches does not read them in the controller.
BypassDirect(r) == pc[r] \in {"treehash", "graph"} => ~req[r].bypass

CallSound(r) == HasWorker(r) /\ TreeCurrent(r) /\ GraphCurrent(r) /\ BypassDirect(r)

IndInv ==
    /\ TypeOK
    /\ WorkersExclusive
    /\ GraphsFaithful
    /\ \A r \in Requests : CallSound(r)

\* gettargetgraph.go, whatever the base: a graph that is served is the one of the
\* tree that this call resolved, under this call's own options.
ServedResolved ==
    \A r \in Requests : pc[r] = "served" => graph[r] = GraphKey(tree[r], req[r])

\* Every base names a commit; README.md:36 shows BASE_SHA=HEAD too.
PinnedBases == \A k \in Kinds : k.build.base # HEAD

\* The worker while change requests are applied: the base with the first of them.
Applying(r) ==
    pc[r] = "apply" =>
      /\ applied[r] \in 0..Len(req[r].build.prs)
      /\ head[worker[r]] = [commit |-> req[r].build.base, prs |-> SubSeq(req[r].build.prs, 1, applied[r])]

\* The tree a call goes by is the one its build means.
TreeAsAsked(r) ==
    pc[r] \in {"graph", "served"} \cup PastRevParse => tree[r] = TreeOf(req[r].build)

PinnedInv ==
    /\ TreehashesFaithful
    /\ \A r \in Requests : Applying(r) /\ TreeAsAsked(r)

-----------------------------------------------------------------------------

\* The record types, opened once for the proofs below.
LEMMA KindTypes ==
  ASSUME NEW k \in Kinds
  PROVE  /\ k.build \in Builds /\ k.build.prs \in Seq(ChangeRequests)
         /\ k.build.base \in Commits \cup {HEAD}
         /\ k.strategy \in Strategies /\ k.excludes \in Excludes /\ k.bypass \in BOOLEAN
BY KindAssumption DEF KindAssumption, Builds

LEMMA GraphKeyType ==
  ASSUME NEW t \in Trees, NEW k \in Kinds
  PROVE  GraphKey(t, k) \in GraphKeys /\ GraphKey(t, k) # NoGraph /\ GraphKey(t, k) # Corrupt
BY KindTypes, NullAssumption DEF GraphKey, GraphKeys, NullAssumption

\* What a Put leaves at a key and beside it.
LEMMA PutEntries ==
  ASSUME NEW store, NEW k, NEW v
  PROVE  \A e \in Put(store, k, v) : e \in store \/ e = Entry(k, v)
BY DEF Put

LEMMA FreshTreeType == FreshTree \in Trees
BY CommitAssumption DEF FreshTree, Trees, CommitAssumption

LEMMA InitIndInv == Init => IndInv
<1> SUFFICES ASSUME Init PROVE IndInv
  OBVIOUS
<1> USE NullAssumption DEF NullAssumption, Init
<1>1. TypeOK
  <2>1. (CHOOSE k \in Kinds : TRUE) \in Kinds
    BY KindAssumption DEF KindAssumption
  <2>2. req \in [Requests -> Kinds] /\ pc \in [Requests -> PC]
    BY <2>1 DEF PC
  <2>3. tree \in [Requests -> Trees] /\ head \in [Workers -> Trees]
    BY FreshTreeType
  <2> QED BY <2>2, <2>3 DEF TypeOK
<1>2. WorkersExclusive /\ GraphsFaithful
  BY DEF WorkersExclusive, GraphsFaithful
<1>3. ASSUME NEW r \in Requests PROVE CallSound(r)
  BY DEF CallSound, HasWorker, TreeCurrent, GraphCurrent, BypassDirect, InOrchestrator, PastRevParse
<1> QED BY <1>1, <1>2, <1>3 DEF IndInv

\* A step of some call as another call q sees it: nothing of q's own changes, and
\* neither does the worker that q has.
LeavesAlone(q) ==
    /\ pc'[q] = pc[q] /\ req'[q] = req[q] /\ tree'[q] = tree[q]
    /\ worker'[q] = worker[q] /\ applied'[q] = applied[q] /\ graph'[q] = graph[q]
    /\ worker[q] # NoWorker => head'[worker[q]] = head[worker[q]]

\* What a step of the controller or the orchestrator does to HEADs: it moves the one
\* of the worker that r has, or of a worker that nobody has.
LEMMA StepsAlone ==
  ASSUME IndInv, NEW r \in Requests, Controller(r) \/ Orchestrator(r), NEW q \in Requests, q # r
  PROVE  LeavesAlone(q)
<1> USE DEF Goto, Return, LeavesAlone
<1>1. /\ pc \in [Requests -> PC] /\ req \in [Requests -> Kinds] /\ tree \in [Requests -> Trees]
      /\ worker \in [Requests -> Workers \cup {NoWorker}] /\ applied \in [Requests -> Nat]
      /\ graph \in [Requests -> GraphKeys \cup {NoGraph}] /\ head \in [Workers -> Trees]
  BY DEF IndInv, TypeOK
<1>2. worker[q] # NoWorker => worker[q] \in Workers /\ worker[q] # worker[r]
  BY <1>1 DEF IndInv, WorkersExclusive
<1>3. CASE Controller(r)
  BY <1>1, <1>3 DEF Controller, Arrive, ReadTreehash, ReadGraph
<1>4. CASE Lease(r)
  BY <1>1, <1>2, <1>4 DEF Lease
<1>5. CASE Checkout(r)
  BY <1>1, <1>2, <1>5 DEF Checkout
<1>6. CASE ApplyRequest(r)
  BY <1>1, <1>2, <1>6 DEF ApplyRequest
<1>7. CASE RevParse(r) \/ LookupHit(r) \/ LookupMiss(r) \/ Compute(r) \/ WriteGraph(r) \/ ReadBack(r)
           \/ OrchestratorFailed(r)
  BY <1>1, <1>7 DEF RevParse, LookupHit, LookupMiss, Compute, WriteGraph, ReadBack, OrchestratorFailed
<1> QED BY <1>3, <1>4, <1>5, <1>6, <1>7 DEF Orchestrator

\* So a call stays sound while others step.
LEMMA OthersStaySound ==
  ASSUME IndInv, NEW r \in Requests, Controller(r) \/ Orchestrator(r), NEW q \in Requests, q # r
  PROVE  CallSound(q)'
<1>1. LeavesAlone(q) /\ CallSound(q)
  BY StepsAlone DEF IndInv
<1>2. HasWorker(q)' /\ GraphCurrent(q)' /\ BypassDirect(q)'
  BY <1>1 DEF LeavesAlone, CallSound, HasWorker, GraphCurrent, BypassDirect, GraphKey
<1>3. TreeCurrent(q)'
  BY <1>1 DEF LeavesAlone, CallSound, HasWorker, TreeCurrent, PastRevParse, InOrchestrator
<1> QED BY <1>2, <1>3 DEF CallSound

\* The controller's steps preserve the inductive invariant.
LEMMA ControllerIndInv == ASSUME IndInv, NEW r \in Requests, Controller(r) PROVE IndInv'
<1> USE NullAssumption DEF NullAssumption, Goto, PC, InOrchestrator, PastRevParse
<1>1. UNCHANGED <<worker, applied, head, treehashes, graphs, pending, corruptions>>
  BY DEF Controller, Arrive, ReadTreehash, ReadGraph
<1>2. GraphsFaithful' /\ WorkersExclusive'
  BY <1>1 DEF IndInv, GraphsFaithful, WorkersExclusive
<1>3. CallSound(r)
  BY DEF IndInv
<1>4. CASE Arrive(r)
  <2>1. PICK k \in Kinds : /\ req' = [req EXCEPT ![r] = k]
                           /\ pc' = [pc EXCEPT ![r] = IF k.bypass THEN "lease" ELSE "treehash"]
    BY <1>4 DEF Arrive
  <2>2. TypeOK'
    BY <1>1, <1>4, <2>1 DEF Arrive, IndInv, TypeOK
  <2>3. CallSound(r)'
    BY <1>1, <1>3, <1>4, <2>1, KindTypes DEF Arrive, IndInv, TypeOK, CallSound, HasWorker, TreeCurrent, GraphCurrent, BypassDirect
  <2> QED BY <1>2, <2>2, <2>3, OthersStaySound DEF IndInv
<1>5. CASE ReadTreehash(r)
  <2>1. \A e \in treehashes : e.val \in Trees
    BY DEF IndInv, TypeOK
  <2>2. TypeOK'
    <3>1. tree' \in [Requests -> Trees]
      BY <1>5, <2>1 DEF ReadTreehash, IndInv, TypeOK
    <3>2. pc' \in [Requests -> PC] /\ UNCHANGED <<req, graph>>
      BY <1>5 DEF ReadTreehash, IndInv, TypeOK, Terminal, Failures
    <3> QED BY <1>1, <3>1, <3>2 DEF IndInv, TypeOK
  <2>3. CallSound(r)'
    BY <1>1, <1>3, <1>5 DEF ReadTreehash, IndInv, TypeOK, CallSound, HasWorker, TreeCurrent, GraphCurrent, BypassDirect
  <2> QED BY <1>2, <2>2, <2>3, OthersStaySound DEF IndInv
<1>6. CASE ReadGraph(r)
  <2>1. \A e \in graphs : e.val # Corrupt => e.val = e.key /\ e.val \in GraphKeys
    BY DEF IndInv, TypeOK, GraphsFaithful
  <2>2. TypeOK'
    <3>1. graph' \in [Requests -> GraphKeys \cup {NoGraph}]
      BY <1>6, <2>1 DEF ReadGraph, IndInv, TypeOK
    <3>2. pc' \in [Requests -> PC] /\ UNCHANGED <<req, tree>>
      BY <1>6 DEF ReadGraph, IndInv, TypeOK, Terminal, Failures
    <3> QED BY <1>1, <3>1, <3>2 DEF IndInv, TypeOK
  <2>3. CallSound(r)'
    <3>1. HasWorker(r)' /\ TreeCurrent(r)' /\ BypassDirect(r)'
      BY <1>1, <1>3, <1>6 DEF ReadGraph, IndInv, TypeOK, CallSound, HasWorker, TreeCurrent, BypassDirect
    <3>2. GraphCurrent(r)'
      BY <1>6, <2>1 DEF ReadGraph, IndInv, TypeOK, GraphCurrent, GraphKey
    <3> QED BY <3>1, <3>2 DEF CallSound
  <2> QED BY <1>2, <2>2, <2>3, OthersStaySound DEF IndInv
<1> QED BY <1>4, <1>5, <1>6 DEF Controller

\* Leasing, checking out, applying and naming the tree preserve it.
LEMMA PrepareIndInv ==
  ASSUME IndInv, NEW r \in Requests, Lease(r) \/ Checkout(r) \/ ApplyRequest(r) \/ RevParse(r)
  PROVE  IndInv'
<1> USE NullAssumption DEF NullAssumption, Goto, PC, InOrchestrator, PastRevParse
<1>1. UNCHANGED <<req, graph, treehashes, graphs, pending, corruptions>>
  BY DEF Lease, Checkout, ApplyRequest, RevParse
<1>2. GraphsFaithful'
  BY <1>1 DEF IndInv, GraphsFaithful
<1>3. CallSound(r) /\ Orchestrator(r)
  BY DEF IndInv, Orchestrator
<1>4. CASE Lease(r)
  <2>1. PICK w \in Workers, h \in Trees :
           /\ \A q \in Requests : worker[q] # w
           /\ worker' = [worker EXCEPT ![r] = w]
           /\ head' = [head EXCEPT ![w] = h]
    BY <1>4, FreshTreeType DEF Lease, IndInv, TypeOK
  <2>2. TypeOK'
    BY <1>1, <1>4, <2>1 DEF Lease, IndInv, TypeOK
  <2>3. WorkersExclusive'
    BY <2>1 DEF IndInv, TypeOK, WorkersExclusive
  <2>4. CallSound(r)'
    BY <1>1, <1>3, <1>4, <2>1 DEF Lease, IndInv, TypeOK, CallSound, HasWorker, TreeCurrent, GraphCurrent, BypassDirect
  <2> QED BY <1>2, <1>3, <2>2, <2>3, <2>4, OthersStaySound DEF IndInv
<1>5. CASE Checkout(r)
  <2>1. worker[r] \in Workers /\ worker' = worker
    BY <1>3, <1>5 DEF Checkout, IndInv, TypeOK, CallSound, HasWorker
  <2>2. req[r].build.base # HEAD => [commit |-> req[r].build.base, prs |-> << >>] \in Trees
    BY KindTypes DEF IndInv, TypeOK, Trees
  <2>3. head' \in [Workers -> Trees]
    BY <1>5, <2>1, <2>2 DEF Checkout, IndInv, TypeOK
  <2>4. TypeOK' /\ WorkersExclusive'
    BY <1>1, <1>5, <2>1, <2>3 DEF Checkout, IndInv, TypeOK, WorkersExclusive
  <2>5. CallSound(r)'
    BY <1>1, <1>3, <1>5 DEF Checkout, IndInv, TypeOK, CallSound, HasWorker, TreeCurrent, GraphCurrent, BypassDirect
  <2> QED BY <1>2, <1>3, <2>4, <2>5, OthersStaySound DEF IndInv
<1>6. CASE ApplyRequest(r)
  <2>1. worker[r] \in Workers /\ worker' = worker
    BY <1>3, <1>6 DEF ApplyRequest, IndInv, TypeOK, CallSound, HasWorker
  <2>2. req[r].build.prs \in Seq(ChangeRequests) /\ applied[r] \in Nat
    BY KindTypes DEF IndInv, TypeOK
  <2>3. req[r].build.prs[applied[r] + 1] \in ChangeRequests
    BY <1>6, <2>2 DEF ApplyRequest
  <2>4. Append(head[worker[r]].prs, req[r].build.prs[applied[r] + 1]) \in Seq(ChangeRequests)
    BY <2>1, <2>3 DEF IndInv, TypeOK, Trees
  <2>5. head' \in [Workers -> Trees]
    BY <1>6, <2>1, <2>4 DEF ApplyRequest, IndInv, TypeOK, Trees
  <2>6. TypeOK' /\ WorkersExclusive'
    BY <1>1, <1>6, <2>1, <2>5 DEF ApplyRequest, IndInv, TypeOK, WorkersExclusive
  <2>7. CallSound(r)'
    BY <1>1, <1>3, <1>6 DEF ApplyRequest, IndInv, TypeOK, CallSound, HasWorker, TreeCurrent, GraphCurrent, BypassDirect
  <2> QED BY <1>2, <1>3, <2>6, <2>7, OthersStaySound DEF IndInv
<1>7. CASE RevParse(r)
  <2>1. worker[r] \in Workers /\ worker' = worker /\ head' = head
    BY <1>3, <1>7 DEF RevParse, IndInv, TypeOK, CallSound, HasWorker
  <2>2. TypeOK' /\ WorkersExclusive'
    BY <1>1, <1>7, <2>1 DEF RevParse, IndInv, TypeOK, WorkersExclusive
  <2>3. CallSound(r)'
    BY <1>1, <1>3, <1>7, <2>1 DEF RevParse, IndInv, TypeOK, CallSound, HasWorker, TreeCurrent, GraphCurrent, BypassDirect
  <2> QED BY <1>2, <1>3, <2>2, <2>3, OthersStaySound DEF IndInv
<1> QED BY <1>4, <1>5, <1>6, <1>7

\* The lookup, the computation and the two accesses of the storage preserve it.
LEMMA AnswerIndInv ==
  ASSUME IndInv, NEW r \in Requests,
         \/ LookupHit(r) \/ LookupMiss(r) \/ Compute(r) \/ WriteGraph(r) \/ ReadBack(r)
         \/ OrchestratorFailed(r)
  PROVE  IndInv'
<1> USE NullAssumption DEF NullAssumption, Goto, Return, PC, InOrchestrator, PastRevParse
<1>1. UNCHANGED <<req, tree, applied, head, treehashes, corruptions>>
  BY DEF LookupHit, LookupMiss, Compute, WriteGraph, ReadBack, OrchestratorFailed
<1>2. CallSound(r) /\ Orchestrator(r) /\ tree[r] \in Trees /\ req[r] \in Kinds
  BY DEF IndInv, TypeOK, Orchestrator
<1>3. GraphKey(tree[r], req[r]) \in GraphKeys /\ GraphKey(tree[r], req[r])' = GraphKey(tree[r], req[r])
  BY <1>1, <1>2, GraphKeyType DEF GraphKey
<1>4. \A e \in graphs : e.val # Corrupt => e.val = e.key /\ e.val \in GraphKeys
  BY DEF IndInv, TypeOK, GraphsFaithful
<1>5. CASE LookupHit(r) \/ ReadBack(r)
  <2>1. /\ graph' = [graph EXCEPT ![r] = GraphKey(tree[r], req[r])]
        /\ pc' = [pc EXCEPT ![r] = "served"] /\ worker' = [worker EXCEPT ![r] = NoWorker]
        /\ UNCHANGED <<graphs, pending>>
    BY <1>4, <1>5 DEF LookupHit, ReadBack
  <2>2. TypeOK'
    BY <1>1, <1>3, <2>1 DEF IndInv, TypeOK, Terminal
  <2>3. GraphsFaithful' /\ WorkersExclusive'
    BY <2>1 DEF IndInv, TypeOK, GraphsFaithful, WorkersExclusive
  <2>4. CallSound(r)'
    BY <1>3, <2>1 DEF IndInv, TypeOK, CallSound, HasWorker, TreeCurrent, GraphCurrent, BypassDirect
  <2> QED BY <1>2, <2>2, <2>3, <2>4, OthersStaySound DEF IndInv
<1>6. CASE LookupMiss(r)
  <2>1. Entry(req[r].build, tree[r]) \in [key : Builds, val : Trees]
    BY <1>2, KindTypes DEF Entry
  <2>2. TypeOK'
    BY <1>1, <1>6, <2>1 DEF LookupMiss, IndInv, TypeOK
  <2>3. GraphsFaithful' /\ WorkersExclusive'
    BY <1>6 DEF LookupMiss, IndInv, GraphsFaithful, WorkersExclusive
  <2>4. CallSound(r)'
    BY <1>1, <1>2, <1>6 DEF LookupMiss, IndInv, TypeOK, CallSound, HasWorker, TreeCurrent, GraphCurrent, BypassDirect
  <2> QED BY <1>2, <2>2, <2>3, <2>4, OthersStaySound DEF IndInv
<1>7. CASE Compute(r)
  <2>1. head[worker[r]] = tree[r]
    BY <1>2, <1>7 DEF Compute, CallSound, TreeCurrent
  <2>2. TypeOK'
    BY <1>1, <1>3, <1>7, <2>1 DEF Compute, IndInv, TypeOK
  <2>3. GraphsFaithful' /\ WorkersExclusive'
    BY <1>7 DEF Compute, IndInv, GraphsFaithful, WorkersExclusive
  <2>4. CallSound(r)'
    BY <1>1, <1>2, <1>3, <1>7, <2>1 DEF Compute, IndInv, TypeOK, CallSound, HasWorker, TreeCurrent, GraphCurrent, BypassDirect
  <2> QED BY <1>2, <2>2, <2>3, <2>4, OthersStaySound DEF IndInv
<1>8. CASE WriteGraph(r)
  <2>1. graph[r] = GraphKey(tree[r], req[r])
    BY <1>2, <1>8 DEF WriteGraph, CallSound, GraphCurrent
  <2>2. \A e \in graphs' : e \in graphs \/ e = Entry(GraphKey(tree[r], req[r]), GraphKey(tree[r], req[r]))
    BY <1>8, <2>1, PutEntries DEF WriteGraph
  <2>3. GraphsFaithful' /\ graphs' \in SUBSET [key : GraphKeys, val : GraphKeys \cup {Corrupt}]
    BY <1>3, <2>2 DEF Entry, IndInv, TypeOK, GraphsFaithful
  <2>4. TypeOK' /\ WorkersExclusive'
    BY <1>1, <1>8, <2>3 DEF WriteGraph, IndInv, TypeOK, WorkersExclusive
  <2>5. CallSound(r)'
    BY <1>1, <1>2, <1>8 DEF WriteGraph, IndInv, TypeOK, CallSound, HasWorker, TreeCurrent, GraphCurrent, BypassDirect
  <2> QED BY <1>2, <2>3, <2>4, <2>5, OthersStaySound DEF IndInv
<1>9. CASE OrchestratorFailed(r)
  <2>1. /\ pc' = [pc EXCEPT ![r] = "orchestrator_failed"] /\ worker' = [worker EXCEPT ![r] = NoWorker]
        /\ UNCHANGED <<graph, graphs, pending>>
    BY <1>9 DEF OrchestratorFailed
  <2>2. TypeOK'
    BY <1>1, <2>1 DEF IndInv, TypeOK, Terminal, Failures
  <2>3. GraphsFaithful' /\ WorkersExclusive'
    BY <2>1 DEF IndInv, TypeOK, GraphsFaithful, WorkersExclusive
  <2>4. CallSound(r)'
    BY <2>1 DEF IndInv, TypeOK, CallSound, HasWorker, TreeCurrent, GraphCurrent, BypassDirect
  <2> QED BY <1>2, <2>2, <2>3, <2>4, OthersStaySound DEF IndInv
<1> QED BY <1>5, <1>6, <1>7, <1>8, <1>9

\* So do the goroutines and the damage of a blob: no call changes.
LEMMA BackgroundIndInv == ASSUME IndInv, Background PROVE IndInv'
<1> USE NullAssumption DEF NullAssumption
<1>1. UNCHANGED <<callVars, head>>
  BY DEF Background, StoreTreehash, DropTreehash, Damage
<1>2. WorkersExclusive' /\ \A r \in Requests : CallSound(r)'
  BY <1>1 DEF callVars, IndInv, WorkersExclusive, CallSound, HasWorker, TreeCurrent, GraphCurrent, BypassDirect, GraphKey
<1>3. ASSUME NEW e \in pending, StoreTreehash(e) PROVE TypeOK' /\ GraphsFaithful'
  <2>1. e \in [key : Builds, val : Trees] /\ Entry(e.key, e.val) \in [key : Builds, val : Trees]
    BY DEF IndInv, TypeOK, Entry
  <2>2. \A f \in treehashes' : f \in treehashes \/ f = Entry(e.key, e.val)
    BY <1>3, PutEntries DEF StoreTreehash
  <2> QED BY <1>1, <1>3, <2>1, <2>2 DEF StoreTreehash, IndInv, TypeOK, GraphsFaithful, callVars
<1>4. ASSUME NEW e \in pending, DropTreehash(e) PROVE TypeOK' /\ GraphsFaithful'
  BY <1>1, <1>4 DEF DropTreehash, IndInv, TypeOK, GraphsFaithful, callVars
<1>5. ASSUME NEW e \in graphs, Damage(e) PROVE TypeOK' /\ GraphsFaithful'
  <2>1. Entry(e.key, Corrupt) \in [key : GraphKeys, val : GraphKeys \cup {Corrupt}]
    BY DEF IndInv, TypeOK, Entry
  <2>2. \A f \in graphs' : f \in graphs \/ f = Entry(e.key, Corrupt)
    BY <1>5, PutEntries DEF Damage
  <2>3. corruptions' \in 0..MaxCorruptions
    BY <1>5 DEF Damage, IndInv, TypeOK
  <2>4. GraphsFaithful'
    BY <2>2 DEF Entry, IndInv, GraphsFaithful
  <2> QED BY <1>1, <1>5, <2>1, <2>2, <2>3, <2>4 DEF Damage, IndInv, TypeOK, callVars
<1> QED BY <1>2, <1>3, <1>4, <1>5 DEF Background, IndInv

LEMMA StutterIndInv == ASSUME IndInv, UNCHANGED vars PROVE IndInv'
BY DEF vars, callVars, IndInv, TypeOK, WorkersExclusive, GraphsFaithful, CallSound,
       HasWorker, TreeCurrent, GraphCurrent, BypassDirect, GraphKey

LEMMA NextIndInv == IndInv /\ [Next]_vars => IndInv'
<1> SUFFICES ASSUME IndInv, [Next]_vars PROVE IndInv'
  OBVIOUS
<1>1. ASSUME NEW r \in Requests, Orchestrator(r) PROVE IndInv'
  BY <1>1, PrepareIndInv, AnswerIndInv DEF Orchestrator
<1> QED BY <1>1, ControllerIndInv, BackgroundIndInv, StutterIndInv DEF Next, Quiescent

\* The inductive invariant holds in every reachable state, for any kinds of requests.
THEOREM IndInvHolds == Spec => []IndInv
BY InitIndInv, NextIndInv, PTL DEF Spec

\* native_orchestrator.go: a stored graph was computed from the tree and options its
\* key names, although the key is taken before the graph and other calls run between.
THEOREM GraphsAreFaithful == Spec => []GraphsFaithful
BY IndInvHolds, PTL DEF IndInv

\* gettargetgraph.go: whichever lookup answers a call, it gets the graph of the tree it
\* resolved under the options it asked for, a base of HEAD included.
THEOREM ServedGraphsAreResolved == Spec => []ServedResolved
<1>1. IndInv => ServedResolved
  BY DEF IndInv, CallSound, GraphCurrent, ServedResolved
<1> QED BY IndInvHolds, <1>1, PTL

\* gettargetgraph.go:54, native_orchestrator.go:175: a call that bypasses the caches is
\* served only after it has computed and stored its own graph.
THEOREM BypassesRecompute == Spec => BypassRecomputes
<1> DEFINE Recomputes ==
      \A r \in Requests : req[r].bypass /\ pc[r] # "served" /\ pc'[r] = "served" => pc[r] = "readback"
<1>1. IndInv /\ [Next]_vars => [Recomputes]_vars
  <2> SUFFICES ASSUME IndInv, [Next]_vars, NEW r \in Requests,
                      req[r].bypass, pc[r] # "served", pc'[r] = "served"
               PROVE  pc[r] = "readback"
    OBVIOUS
  <2>1. PICK q \in Requests : Controller(q) \/ Orchestrator(q)
    BY DEF Next, Background, StoreTreehash, DropTreehash, Damage, Quiescent, vars, callVars
  <2>2. q = r
    BY <2>1, StepsAlone DEF LeavesAlone
  <2>3. pc[r] \in PC /\ pc \in [Requests -> PC] /\ pc[r] \notin {"treehash", "graph"}
    BY DEF IndInv, TypeOK, CallSound, BypassDirect
  <2>4. CASE Controller(r)
    BY <2>3, <2>4 DEF Controller, Arrive, ReadTreehash, ReadGraph, Goto
  <2>5. CASE Orchestrator(r)
    BY <2>3, <2>5 DEF Orchestrator, Lease, Checkout, ApplyRequest, RevParse, LookupHit, LookupMiss,
           Compute, WriteGraph, ReadBack, OrchestratorFailed, Goto, Return
  <2> QED BY <2>1, <2>2, <2>4, <2>5
<1> QED BY IndInvHolds, <1>1, PTL DEF Spec, BypassRecomputes

-----------------------------------------------------------------------------
(* Builds whose base names a commit.                                        *)

\* Applying one more change request extends the part applied by one.
LEMMA AppliedPrefix ==
  ASSUME NEW S, NEW s \in Seq(S), NEW i \in Nat, i < Len(s)
  PROVE  Append(SubSeq(s, 1, i), s[i + 1]) = SubSeq(s, 1, i + 1)
<1>1. 1 \in 1..Len(s) /\ i + 1 \in 1..Len(s) /\ (i + 1) - 1 = i
  OBVIOUS
<1>2. SubSeq(s, 1, i + 1) = SubSeq(s, 1, i) \o <<s[i + 1]>>
  BY <1>1, SubSeqRecursiveSecond
<1>3. SubSeq(s, 1, i) \in Seq(S) /\ s[i + 1] \in S
  BY <1>1
<1> QED BY <1>2, <1>3

LEMMA InitPinnedInv == Init => PinnedInv
BY DEF Init, PinnedInv, TreehashesFaithful, Applying, TreeAsAsked, PastRevParse

\* A call's own steps keep its checkout and its tree as its build asks.
LEMMA OwnStepPinned ==
  ASSUME PinnedBases, IndInv, PinnedInv, NEW r \in Requests, Controller(r) \/ Orchestrator(r)
  PROVE  Applying(r)' /\ TreeAsAsked(r)'
<1> USE DEF Goto, Return, PastRevParse
<1>1. /\ pc \in [Requests -> PC] /\ req \in [Requests -> Kinds] /\ tree \in [Requests -> Trees]
      /\ worker \in [Requests -> Workers \cup {NoWorker}] /\ applied \in [Requests -> Nat]
      /\ head \in [Workers -> Trees]
  BY DEF IndInv, TypeOK
<1>2. Applying(r) /\ TreeAsAsked(r) /\ HasWorker(r)
  BY DEF PinnedInv, IndInv, CallSound
<1>3. /\ req[r].build.prs \in Seq(ChangeRequests) /\ req[r].build.base # HEAD
      /\ TreeOf(req[r].build) = [commit |-> req[r].build.base, prs |-> req[r].build.prs]
  BY <1>1, KindTypes DEF PinnedBases, TreeOf
<1>4. CASE Arrive(r)
  BY <1>1, <1>4 DEF Arrive, Applying, TreeAsAsked
<1>5. CASE ReadTreehash(r)
  <2>1. \A e \in treehashes : e.key = req[r].build => e.val = TreeOf(req[r].build)
    BY DEF PinnedInv, TreehashesFaithful
  <2> QED BY <1>1, <1>5, <2>1 DEF ReadTreehash, Applying, TreeAsAsked
<1>6. CASE Checkout(r)
  <2>1. worker[r] \in Workers
    BY <1>1, <1>2, <1>6 DEF Checkout, HasWorker, InOrchestrator
  <2>2. SubSeq(req[r].build.prs, 1, 0) = << >>
    BY SubSeqEmpty
  <2>3. Applying(r)'
    BY <1>1, <1>3, <1>6, <2>1, <2>2 DEF Checkout, Applying
  <2> QED BY <1>1, <1>6, <2>3 DEF Checkout, TreeAsAsked
<1>7. CASE ApplyRequest(r)
  <2>1. worker[r] \in Workers
    BY <1>1, <1>2, <1>7 DEF ApplyRequest, HasWorker, InOrchestrator
  <2>2. /\ applied'[r] = applied[r] + 1 /\ applied'[r] \in 0..Len(req[r].build.prs)
        /\ UNCHANGED <<pc, req, tree, worker>>
    BY <1>1, <1>3, <1>7 DEF ApplyRequest
  <2>3. PICK before, after :
           /\ before = SubSeq(req[r].build.prs, 1, applied[r])
           /\ after = SubSeq(req[r].build.prs, 1, applied[r] + 1)
    OBVIOUS
  <2>4. Append(before, req[r].build.prs[applied[r] + 1]) = after
    BY <1>1, <1>3, <1>7, <2>3, AppliedPrefix DEF ApplyRequest
  <2>5. head[worker[r]] = [commit |-> req[r].build.base, prs |-> before]
    BY <1>2, <1>7, <2>3 DEF ApplyRequest, Applying
  <2>6. head'[worker[r]] = [commit |-> req[r].build.base, prs |-> after]
    <3>1. head'[worker[r]] = [head[worker[r]] EXCEPT !.prs = Append(@, req[r].build.prs[applied[r] + 1])]
      BY <1>1, <1>7, <2>1 DEF ApplyRequest
    <3>2. head[worker[r]].prs = before /\ head[worker[r]].commit = req[r].build.base
      BY <2>5
    <3>3. head'[worker[r]] = [head[worker[r]] EXCEPT !.prs = after]
      BY <2>4, <3>1, <3>2
    <3> QED BY <2>5, <3>3
  <2>7. Applying(r)'
    BY <2>2, <2>3, <2>6 DEF Applying
  <2> QED BY <1>2, <2>2, <2>7 DEF TreeAsAsked
<1>8. CASE RevParse(r)
  <2>1. SubSeq(req[r].build.prs, 1, Len(req[r].build.prs)) = req[r].build.prs
    BY <1>3, SubSeqFull
  <2>2. head[worker[r]] = TreeOf(req[r].build)
    BY <1>2, <1>3, <1>8, <2>1 DEF RevParse, Applying
  <2> QED BY <1>1, <1>8, <2>2 DEF RevParse, Applying, TreeAsAsked
<1>9. CASE ReadGraph(r) \/ Lease(r) \/ OrchestratorFailed(r)
  BY <1>1, <1>2, <1>9 DEF ReadGraph, Lease, OrchestratorFailed, Applying, TreeAsAsked
<1>10. CASE LookupHit(r) \/ LookupMiss(r) \/ Compute(r) \/ WriteGraph(r) \/ ReadBack(r)
  BY <1>1, <1>2, <1>10 DEF LookupHit, LookupMiss, Compute, WriteGraph, ReadBack, Applying, TreeAsAsked
<1> QED BY <1>4, <1>5, <1>6, <1>7, <1>8, <1>9, <1>10 DEF Controller, Orchestrator

\* The mapping that LookupMiss hands to the goroutine is the build's, and the cache only
\* ever takes over what a goroutine was handed.
LEMMA TreehashesStayFaithful ==
  ASSUME IndInv, PinnedInv, Next PROVE TreehashesFaithful'
<1>1. TreehashesFaithful
  BY DEF PinnedInv
<1>2. ASSUME NEW r \in Requests, LookupMiss(r) PROVE TreehashesFaithful'
  <2>1. tree[r] = TreeOf(req[r].build)
    BY <1>2 DEF PinnedInv, TreeAsAsked, LookupMiss, PastRevParse
  <2>2. \A e \in treehashes' \cup pending' :
           e \in treehashes \cup pending \/ e = Entry(req[r].build, tree[r])
    BY <1>2 DEF LookupMiss
  <2> QED BY <1>1, <2>1, <2>2 DEF TreehashesFaithful, TreeOf, Entry
<1>3. ASSUME NEW e \in pending, StoreTreehash(e) PROVE TreehashesFaithful'
  <2>1. \A f \in treehashes' \cup pending' :
           f \in treehashes \cup pending \/ f = Entry(e.key, e.val)
    BY <1>3, PutEntries DEF StoreTreehash
  <2> QED BY <1>1, <2>1 DEF TreehashesFaithful, TreeOf, Entry
<1>4. ASSUME pending' \subseteq pending, treehashes' = treehashes PROVE TreehashesFaithful'
  BY <1>1, <1>4 DEF TreehashesFaithful, TreeOf
<1>5. ASSUME NEW r \in Requests, Controller(r) \/ Orchestrator(r)
      PROVE  LookupMiss(r) \/ UNCHANGED <<pending, treehashes>>
  BY <1>5 DEF Controller, Arrive, ReadTreehash, ReadGraph, Orchestrator, Lease, Checkout, ApplyRequest,
         RevParse, LookupHit, Compute, WriteGraph, ReadBack, OrchestratorFailed
<1>6. Background => (\E e \in pending : StoreTreehash(e)) \/ (pending' \subseteq pending /\ treehashes' = treehashes)
  BY DEF Background, DropTreehash, Damage
<1> QED BY <1>2, <1>3, <1>4, <1>5, <1>6 DEF Next, Quiescent, vars

LEMMA NextPinnedInv ==
  ASSUME PinnedBases, IndInv, PinnedInv, [Next]_vars PROVE PinnedInv'
<1>1. CASE UNCHANGED vars
  BY <1>1 DEF vars, callVars, PinnedInv, TreehashesFaithful, Applying, TreeAsAsked, TreeOf
<1>2. CASE Next
  <2>1. TreehashesFaithful'
    BY <1>2, TreehashesStayFaithful
  <2>2. ASSUME NEW r \in Requests, Controller(r) \/ Orchestrator(r), NEW q \in Requests
        PROVE  Applying(q)' /\ TreeAsAsked(q)'
    <3>1. CASE q = r
      BY <2>2, <3>1, OwnStepPinned
    <3>2. CASE q # r
      <4>1. LeavesAlone(q) /\ HasWorker(q) /\ Applying(q) /\ TreeAsAsked(q)
        BY <2>2, <3>2, StepsAlone DEF IndInv, PinnedInv, CallSound
      <4>2. pc[q] = "apply" => worker[q] # NoWorker
        BY <4>1 DEF HasWorker, InOrchestrator
      <4> QED BY <4>1, <4>2 DEF LeavesAlone, Applying, TreeAsAsked, TreeOf
    <3> QED BY <3>1, <3>2
  <2>3. CASE Background \/ Quiescent
    <3>1. UNCHANGED <<callVars, head>>
      BY <2>3 DEF Background, StoreTreehash, DropTreehash, Damage, Quiescent, vars
    <3>2. \A q \in Requests : Applying(q)' /\ TreeAsAsked(q)'
      BY <3>1 DEF callVars, PinnedInv, Applying, TreeAsAsked, TreeOf
    <3> QED BY <2>1, <3>2 DEF PinnedInv
  <2> QED BY <1>2, <2>1, <2>2, <2>3 DEF Next, PinnedInv
<1> QED BY <1>1, <1>2

\* When every base names a commit, every step of every call keeps what its tree
\* hash reads and writes say about builds.
THEOREM PinnedInvHolds == ASSUME PinnedBases PROVE Spec => []PinnedInv
<1>1. IndInv /\ PinnedInv /\ [Next]_vars => PinnedInv'
  BY NextPinnedInv
<1> QED BY InitPinnedInv, IndInvHolds, <1>1, PTL DEF Spec

\* cachekey.go:45-48: with bases that name commits, every mapping stored, or on its way,
\* is the tree of its build.
THEOREM TreehashesAreFaithful == ASSUME PinnedBases PROVE Spec => []TreehashesFaithful
BY PinnedInvHolds, PTL DEF PinnedInv

\* gettargetgraph.go: with bases that name commits, what a caller gets is the graph of its
\* own build under its own options, from whichever lookup or computation.
THEOREM GraphsServedAsAsked == ASSUME PinnedBases PROVE Spec => []ServedAsAsked
<1>1. IndInv /\ PinnedInv => ServedAsAsked
  BY DEF IndInv, PinnedInv, CallSound, GraphCurrent, TreeAsAsked, ServedAsAsked
<1> QED BY IndInvHolds, PinnedInvHolds, <1>1, PTL

=============================================================================
