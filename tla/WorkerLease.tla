----------------------------- MODULE WorkerLease -----------------------------
(***************************************************************************)
(* What a worker pool promises to the orchestrator, independently of how   *)
(* clones, locks and channels deliver it (core/repomanager RepoManager,    *)
(* core/workspace Workspace): a fixed set of worker directories, each lent *)
(* to at most one request at a time, and always handed over without the    *)
(* leftovers of whoever used it before.  A restart of the server ends      *)
(* every lease but not the leftovers on disk.                              *)
(***************************************************************************)
CONSTANTS Requests,   \* callers of Lease
          Slots       \* worker directories

VARIABLES tenants,    \* tenants[s]: the requests that worker s is lent to
          dirty       \* dirty[s]: s holds leftovers of a request

leaseVars == <<tenants, dirty>>

LeaseInit ==
    /\ tenants = [s \in Slots |-> {}]
    /\ dirty \in [Slots -> BOOLEAN]

\* Lease returns a worker that is free, scrubbed, to a request that has none.
Grant(r, s) ==
    /\ tenants[s] = {}
    /\ \A t \in Slots : r \notin tenants[t]
    /\ tenants' = [tenants EXCEPT ![s] = {r}]
    /\ dirty' = [dirty EXCEPT ![s] = FALSE]

\* The tenant checks out, patches and builds in its worker.
Soil(r, s) ==
    /\ tenants[s] = {r}
    /\ dirty' = [dirty EXCEPT ![s] = TRUE]
    /\ UNCHANGED tenants

\* Workspace.Release.
Return(r, s) ==
    /\ tenants[s] = {r}
    /\ tenants' = [tenants EXCEPT ![s] = {}]
    /\ UNCHANGED dirty

\* Only a worker that nobody holds is wiped.
Scrub(s) ==
    /\ tenants[s] = {}
    /\ dirty' = [dirty EXCEPT ![s] = FALSE]
    /\ UNCHANGED tenants

Restart ==
    /\ tenants' = [s \in Slots |-> {}]
    /\ UNCHANGED dirty

LeaseNext ==
    \/ \E r \in Requests, s \in Slots : Grant(r, s) \/ Soil(r, s) \/ Return(r, s)
    \/ \E s \in Slots : Scrub(s)
    \/ Restart

LeaseSpec == LeaseInit /\ [][LeaseNext]_leaseVars
=============================================================================
