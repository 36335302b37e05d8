----------------------------- MODULE GraphService -----------------------------
(***************************************************************************)
(* GetTargetGraph: controller.getGraph over the shared caches, and         *)
(* nativeOrchestrator.GetTargetGraph, which leases a worker, checks out    *)
(* the base, applies the change requests, names the result by its git tree *)
(* hash, and computes and stores the graph unless the cache has it.        *)
(*                                                                         *)
(* Two caches are involved.  treehashes maps a build (base and change      *)
(* requests) to a tree; graphs maps a tree with the computation options to *)
(* the encoded graph.  The first is written by a goroutine that nobody     *)
(* waits for, before the graph exists.  Workers keep their HEAD between    *)
(* leases.  The pool is taken by its promise, WorkerLease, and the storage *)
(* by its own: a Put replaces a blob at once, a Get sees one blob.         *)
(*                                                                         *)
(* A tree is the record of what git put there: a commit and the change     *)
(* requests applied on it, in order; its hash is taken as injective.  The  *)
(* graph of a tree under given options is named by the key it belongs to.  *)
(***************************************************************************)
EXTENDS Naturals, Sequences

CONSTANTS Requests,        \* calls of GetTargetGraph
          Kinds,           \* what a call may ask for: see KindAssumption
          Commits,         \* commits that a base may name
          ChangeRequests,  \* pull requests, each pinned to a head commit
          Strategies,      \* computation strategies
          Implemented,     \* those whose runner computes a graph: not the shell
          Excludes,        \* values of exclude_files_regex
          Workers,         \* worker directories of the pool
          OriginHead,      \* the commit HEAD names in a fresh clone
          MaxCorruptions,  \* bound on damaged blobs
          Faulty,          \* the calls whose storage, git or runner may fail
          HEAD, NoWorker, NoGraph, Corrupt

Trees == [commit : Commits, prs : Seq(ChangeRequests)]
Builds == [base : Commits \cup {HEAD}, prs : Seq(ChangeRequests)]
GraphKeys == [tree : Trees, strategy : Strategies, excludes : Excludes]

\* cachekey.GetTGBGraphByTreeHash: a tree and what else the graph depends on.
GraphKey(t, kind) == [tree |-> t, strategy |-> kind.strategy, excludes |-> kind.excludes]

ASSUME KindAssumption ==
    /\ Kinds \subseteq [build : Builds, strategy : Strategies, excludes : Excludes, bypass : BOOLEAN]
    /\ Kinds # {}
ASSUME CommitAssumption == OriginHead \in Commits /\ HEAD \notin Commits
ASSUME NullAssumption ==
    /\ NoWorker \notin Workers
    /\ NoGraph \notin GraphKeys /\ Corrupt \notin GraphKeys
    /\ MaxCorruptions \in Nat
    /\ Faulty \subseteq Requests
    /\ Implemented \subseteq Strategies

VARIABLES
    pc,           \* pc[r]: the next step of call r
    req,          \* req[r]: what r asks for
    tree,         \* tree[r]: the tree hash r has resolved
    worker,       \* worker[r]: the worker r has leased
    applied,      \* applied[r]: how many of its change requests r has applied
    graph,        \* graph[r]: the graph r has computed, then the one it returns
    head,         \* head[w]: what HEAD of worker w is
    treehashes,   \* cache: records of a build and its tree
    graphs,       \* cache: records of a key and its graph
    pending,      \* the treehash writes of background goroutines
    corruptions

callVars == <<pc, req, tree, worker, applied, graph>>
vars == <<callVars, head, treehashes, graphs, pending, corruptions>>

\* HEAD of a worker that was just cloned.
FreshTree == [commit |-> OriginHead, prs |-> << >>]

Entry(k, v) == [key |-> k, val |-> v]

\* Storage.Put replaces whatever is stored at the key.
Put(store, k, v) == {e \in store : e.key # k} \cup {Entry(k, v)}
Has(store, k) == \E e \in store : e.key = k

InOrchestrator == {"checkout", "apply", "lookup", "compute", "write", "readback"}
Failures == {"treehash_failed", "graph_failed", "graph_corrupt", "orchestrator_failed"}
Terminal == {"served"} \cup Failures
PC == {"idle", "treehash", "graph", "lease"} \cup InOrchestrator \cup Terminal

Init ==
    /\ pc = [r \in Requests |-> "idle"]
    /\ req = [r \in Requests |-> CHOOSE k \in Kinds : TRUE]
    /\ tree = [r \in Requests |-> FreshTree]
    /\ worker = [r \in Requests |-> NoWorker]
    /\ applied = [r \in Requests |-> 0]
    /\ graph = [r \in Requests |-> NoGraph]
    /\ head = [w \in Workers |-> FreshTree]
    /\ treehashes = {}
    /\ graphs = {}
    /\ pending = {}
    /\ corruptions = 0

Goto(r, label) == pc' = [pc EXCEPT ![r] = label]

-----------------------------------------------------------------------------
(* controller.getGraph *)

Arrive(r) ==
    /\ pc[r] = "idle"
    /\ \E k \in Kinds :
         /\ req' = [req EXCEPT ![r] = k]
         /\ Goto(r, IF k.bypass THEN "lease" ELSE "treehash")
    /\ UNCHANGED <<tree, worker, applied, graph, head, treehashes, graphs, pending, corruptions>>

\* The build's tree: found, not found (compute), or the storage fails.
ReadTreehash(r) ==
    /\ pc[r] = "treehash"
    /\ \/ \E e \in treehashes :
            /\ e.key = req[r].build
            /\ tree' = [tree EXCEPT ![r] = e.val]
            /\ Goto(r, "graph")
       \/ /\ ~Has(treehashes, req[r].build)
          /\ Goto(r, "lease")
          /\ UNCHANGED tree
       \/ /\ r \in Faulty
          /\ Goto(r, "treehash_failed")
          /\ UNCHANGED tree
    /\ UNCHANGED <<req, worker, applied, graph, head, treehashes, graphs, pending, corruptions>>

\* Broken variant: the graph is looked up without the strategy in the key.
ReadGraphAnyStrategy(r) ==
    /\ pc[r] = "graph"
    /\ \/ \E e \in graphs :
            /\ e.key.tree = tree[r]
            /\ e.val # Corrupt
            /\ graph' = [graph EXCEPT ![r] = e.val]
            /\ Goto(r, "served")
       \/ /\ ~\E e \in graphs : e.key.tree = tree[r]
          /\ Goto(r, "lease")
          /\ UNCHANGED graph
    /\ UNCHANGED <<req, tree, worker, applied, head, treehashes, graphs, pending, corruptions>>

\* Broken variant: a tree hash without its graph fails the request.
ReadGraphOrFail(r) ==
    /\ pc[r] = "graph"
    /\ LET key == GraphKey(tree[r], req[r]) IN
       \/ \E e \in graphs :
            /\ e.key = key
            /\ Goto(r, "served") /\ graph' = [graph EXCEPT ![r] = e.val]
       \/ /\ ~Has(graphs, key)
          /\ Goto(r, "graph_failed")
          /\ UNCHANGED graph
    /\ UNCHANGED <<req, tree, worker, applied, head, treehashes, graphs, pending, corruptions>>

\* The graph of that tree: served, not found (compute), or the request fails;
\* a blob that does not validate fails it too.
ReadGraph(r) ==
    /\ pc[r] = "graph"
    /\ LET key == GraphKey(tree[r], req[r]) IN
       \/ \E e \in graphs :
            /\ e.key = key
            /\ IF e.val = Corrupt
               THEN Goto(r, "graph_corrupt") /\ UNCHANGED graph
               ELSE Goto(r, "served") /\ graph' = [graph EXCEPT ![r] = e.val]
       \/ /\ ~Has(graphs, key)
          /\ Goto(r, "lease")
          /\ UNCHANGED graph
       \/ /\ r \in Faulty
          /\ Goto(r, "graph_failed")
          /\ UNCHANGED graph
    /\ UNCHANGED <<req, tree, worker, applied, head, treehashes, graphs, pending, corruptions>>

-----------------------------------------------------------------------------
(* nativeOrchestrator.GetTargetGraph.  Whatever it returns, the deferred    *)
(* Release has given the worker back.                                       *)

\* Broken variant: a worker that another request still holds is handed out.
LeaseShared(r) ==
    /\ pc[r] = "lease"
    /\ \E w \in Workers :
         /\ worker' = [worker EXCEPT ![r] = w]
         /\ \E h \in {head[w], FreshTree} : head' = [head EXCEPT ![w] = h]
    /\ Goto(r, "checkout")
    /\ UNCHANGED <<req, tree, applied, graph, treehashes, graphs, pending, corruptions>>

\* repoManager.Lease: a free worker, restored (HEAD stays) or cloned anew.
Lease(r) ==
    /\ pc[r] = "lease"
    /\ \E w \in Workers :
         /\ \A q \in Requests : worker[q] # w
         /\ worker' = [worker EXCEPT ![r] = w]
         /\ \E h \in {head[w], FreshTree} : head' = [head EXCEPT ![w] = h]
    /\ Goto(r, "checkout")
    /\ UNCHANGED <<req, tree, applied, graph, treehashes, graphs, pending, corruptions>>

\* workspace.Checkout: HEAD names whatever the worker is at.
Checkout(r) ==
    /\ pc[r] = "checkout"
    /\ LET base == req[r].build.base IN
       head' = IF base = HEAD THEN head
               ELSE [head EXCEPT ![worker[r]] = [commit |-> base, prs |-> << >>]]
    /\ applied' = [applied EXCEPT ![r] = 0]
    /\ Goto(r, "apply")
    /\ UNCHANGED <<req, tree, worker, graph, treehashes, graphs, pending, corruptions>>

\* workspace.ApplyRequests, one change request: fetch, diff, apply, commit.
ApplyRequest(r) ==
    /\ pc[r] = "apply"
    /\ applied[r] < Len(req[r].build.prs)
    /\ applied' = [applied EXCEPT ![r] = @ + 1]
    /\ head' = [head EXCEPT ![worker[r]].prs = Append(@, req[r].build.prs[applied[r] + 1])]
    /\ UNCHANGED <<pc, req, tree, worker, graph, treehashes, graphs, pending, corruptions>>

\* Broken variant: the tree hash is taken before the change requests are applied.
RevParseEarly(r) ==
    /\ pc[r] = "apply"
    /\ tree' = [tree EXCEPT ![r] = head[worker[r]]]
    /\ Goto(r, "lookup")
    /\ UNCHANGED <<req, worker, applied, graph, head, treehashes, graphs, pending, corruptions>>

\* RevParse of HEAD^{tree} once all are applied.
RevParse(r) ==
    /\ pc[r] = "apply"
    /\ applied[r] = Len(req[r].build.prs)
    /\ tree' = [tree EXCEPT ![r] = head[worker[r]]]
    /\ Goto(r, "lookup")
    /\ UNCHANGED <<req, worker, applied, graph, head, treehashes, graphs, pending, corruptions>>

\* The call returns: the result is set and the worker given back.
Return(r, label) ==
    /\ Goto(r, label)
    /\ worker' = [worker EXCEPT ![r] = NoWorker]

\* Broken variant: the orchestrator does not look at bypass_cache.
LookupHitAlways(r) ==
    /\ pc[r] = "lookup"
    /\ \E e \in graphs :
         /\ e.key = GraphKey(tree[r], req[r])
         /\ e.val # Corrupt
         /\ graph' = [graph EXCEPT ![r] = e.val]
    /\ Return(r, "served")
    /\ UNCHANGED <<req, tree, applied, head, treehashes, graphs, pending, corruptions>>

\* The second lookup, now with the tree at hand.
LookupHit(r) ==
    /\ pc[r] = "lookup"
    /\ ~req[r].bypass
    /\ \E e \in graphs :
         /\ e.key = GraphKey(tree[r], req[r])
         /\ e.val # Corrupt
         /\ graph' = [graph EXCEPT ![r] = e.val]
    /\ Return(r, "served")
    /\ UNCHANGED <<req, tree, applied, head, treehashes, graphs, pending, corruptions>>

\* Not found, found corrupt, or not asked: the goroutine that stores the tree
\* of the build is started, then the graph is computed.
LookupMiss(r) ==
    /\ pc[r] = "lookup"
    /\ \/ req[r].bypass
       \/ \A e \in graphs : e.key = GraphKey(tree[r], req[r]) => e.val = Corrupt
    /\ pending' = pending \cup {Entry(req[r].build, tree[r])}
    /\ Goto(r, "compute")
    /\ UNCHANGED <<req, tree, worker, applied, graph, head, treehashes, graphs, corruptions>>

\* The runner of the build's strategy: it works on the files of the worker as they
\* are now.  shellGraphRunner.Compute returns an error and nothing else.
Compute(r) ==
    /\ pc[r] = "compute"
    /\ req[r].strategy \in Implemented
    /\ graph' = [graph EXCEPT ![r] = GraphKey(head[worker[r]], req[r])]
    /\ Goto(r, "write")
    /\ UNCHANGED <<req, tree, worker, applied, head, treehashes, graphs, pending, corruptions>>

\* storage.WriteTGBGraph under the key of the tree hash read before.
WriteGraph(r) ==
    /\ pc[r] = "write"
    /\ graphs' = Put(graphs, GraphKey(tree[r], req[r]), graph[r])
    /\ Goto(r, "readback")
    /\ UNCHANGED <<req, tree, worker, applied, graph, head, treehashes, pending, corruptions>>

\* storage.NewTGBGraphReader of what was just stored.
ReadBack(r) ==
    /\ pc[r] = "readback"
    /\ \E e \in graphs :
         /\ e.key = GraphKey(tree[r], req[r])
         /\ e.val # Corrupt
         /\ graph' = [graph EXCEPT ![r] = e.val]
    /\ Return(r, "served")
    /\ UNCHANGED <<req, tree, applied, head, treehashes, graphs, pending, corruptions>>

\* Lease, git, the runner or the storage fails, or the context ends; or the runner
\* is not implemented; or the blob just stored does not read back.
OrchestratorFailed(r) ==
    /\ \/ pc[r] \in {"lease"} \cup InOrchestrator /\ r \in Faulty
       \/ pc[r] = "compute" /\ req[r].strategy \notin Implemented
       \/ pc[r] = "readback" /\ Entry(GraphKey(tree[r], req[r]), Corrupt) \in graphs
    /\ Return(r, "orchestrator_failed")
    /\ UNCHANGED <<req, tree, applied, graph, head, treehashes, graphs, pending, corruptions>>

-----------------------------------------------------------------------------
(* What runs beside the calls. *)

\* The background goroutine stores a tree hash.
StoreTreehash(e) ==
    /\ pending' = pending \ {e}
    /\ treehashes' = Put(treehashes, e.key, e.val)
    /\ UNCHANGED <<callVars, head, graphs, corruptions>>

\* It fails, or the server is shutting down; the failure is only logged.
DropTreehash(e) ==
    /\ pending' = pending \ {e}
    /\ UNCHANGED <<callVars, head, treehashes, graphs, corruptions>>

\* A stored graph is damaged (storage is outside the process).
Damage(e) ==
    /\ corruptions < MaxCorruptions
    /\ e.val # Corrupt
    /\ graphs' = Put(graphs, e.key, Corrupt)
    /\ corruptions' = corruptions + 1
    /\ UNCHANGED <<callVars, head, treehashes, pending>>

Controller(r) == Arrive(r) \/ ReadTreehash(r) \/ ReadGraph(r)

Orchestrator(r) ==
    \/ Lease(r) \/ Checkout(r) \/ ApplyRequest(r) \/ RevParse(r)
    \/ LookupHit(r) \/ LookupMiss(r)
    \/ Compute(r) \/ WriteGraph(r) \/ ReadBack(r)
    \/ OrchestratorFailed(r)

Background ==
    \/ \E e \in pending : StoreTreehash(e) \/ DropTreehash(e)
    \/ \E e \in graphs : Damage(e)

AllDone == \A r \in Requests : pc[r] \in Terminal
Quiescent == AllDone /\ UNCHANGED vars

Next ==
    \/ \E r \in Requests : Controller(r) \/ Orchestrator(r)
    \/ Background
    \/ Quiescent

Spec == Init /\ [][Next]_vars

\* Calls and goroutines run under timeouts and keep taking steps.
Fairness ==
    /\ \A r \in Requests : WF_vars(Controller(r) \/ Orchestrator(r))
    /\ WF_vars(\E e \in pending : StoreTreehash(e) \/ DropTreehash(e))
FairSpec == Spec /\ Fairness

-----------------------------------------------------------------------------
(* Correctness. *)

\* What a build means: the base commit with its change requests on top.
TreeOf(b) == [commit |-> IF b.base = HEAD THEN OriginHead ELSE b.base, prs |-> b.prs]

\* cachekey.go:45-48 "The git treehash is purely a function of git state (base
\* SHA + applied requests)": a stored mapping, or one on its way, is that tree.
TreehashesFaithful == \A e \in treehashes \cup pending : e.val = TreeOf(e.key)

\* native_orchestrator.go: a stored graph was computed from the tree, strategy
\* and excludes that its key names, although the key is read before the graph
\* is computed and other requests run in between.
GraphsFaithful == \A e \in graphs : e.val \in {Corrupt, e.key}

\* gettargetgraph.go: what a caller gets is the graph of its own build under its
\* own options, whichever of the three lookups or the computation it came from.
ServedAsAsked ==
    \A r \in Requests : pc[r] = "served" => graph[r] = GraphKey(TreeOf(req[r].build), req[r])

\* bypass_cache (gettargetgraph.go:54, native_orchestrator.go:175): a request
\* that bypasses the caches never returns before it has computed and stored.
BypassRecomputes ==
    [][\A r \in Requests :
         req[r].bypass /\ pc[r] # "served" /\ pc'[r] = "served" => pc[r] = "readback"]_vars

\* native_orchestrator.go:191-193: that the mapping is stored ahead of the graph,
\* or not at all, and that other calls fail in between, costs no call its answer.
\* A call without a fault of its own is served, unless no runner computes its
\* strategy or it meets a damaged blob where that is not a miss: in the lookup of
\* the controller, or when it reads back what it stored itself.  A damaged blob
\* in the lookup of the orchestrator fails nobody.
CallsServed ==
    \A r \in Requests \ Faulty :
      pc[r] # "idle" ~>
        \/ pc[r] = "served"
        \/ pc[r] = "orchestrator_failed" /\ req[r].strategy \notin Implemented
        \/ pc[r] = "orchestrator_failed" /\ graph[r] # NoGraph /\ corruptions > 0
        \/ pc[r] = "graph_corrupt" /\ corruptions > 0

=============================================================================
