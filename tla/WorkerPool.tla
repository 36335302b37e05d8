------------------------------ MODULE WorkerPool ------------------------------
(***************************************************************************)
(* The worker pool of one repository (core/repomanager/repo_manager.go)    *)
(* together with the part of core/workspace and core/git it drives.        *)
(*                                                                         *)
(* Concurrent calls of Lease share one pool: a lazily made channel of      *)
(* worker slots, an origin clone guarded by a mutex, and the worker        *)
(* directories on disk.  Every call of git is a step of its own, so a      *)
(* context may be cancelled, or the server killed, between any two steps.  *)
(* Directories survive a restart; the channel, the flags and the mutex do  *)
(* not.                                                                    *)
(***************************************************************************)
EXTENDS Naturals, Sequences

CONSTANTS Requests,     \* calls of Lease
          Configured,   \* the requests whose remote is in the repository config
          PoolSize,     \* workers per repository
          MaxCrashes,   \* bound on restarts of the server
          NoReq         \* "nobody": owner of a free mutex

\* NewRepoManager refuses a pool size that is not positive.
ASSUME PoolAssumption ==
    /\ PoolSize \in Nat \ {0}
    /\ MaxCrashes \in Nat
    /\ Configured \subseteq Requests
    /\ NoReq \notin Requests

Slots == 1..PoolSize
NoSlot == 0

VARIABLES
    pc,        \* pc[r]: where request r is in Lease, and then in its lease
    slot,      \* slot[r]: the slot r took from the channel
    ctx,       \* ctx[r]: state of r's context
    result,    \* result[r]: the error Lease returned, or "none"
    pooled,    \* poolFor has made the pool
    avail,     \* the channel of available slots
    created,   \* created[s]: the flag of workerSlot s
    cloned,    \* the flag of the pool
    originMu,  \* the owner of originMu
    origin,    \* the origin clone on disk
    disk,      \* disk[s]: worker directory s on disk
    crashes

callVars == <<pc, slot, ctx, result>>
poolVars == <<pooled, avail, created, cloned, originMu>>
diskVars == <<origin, disk>>
vars == <<callVars, poolVars, diskVars, crashes>>

\* "lock" .. "cloning": in ensureOrigin.  "wait": in the select.  "restore" ..
\* "cloningWorker": holds a slot.  "leased", "using": Lease has returned the
\* workspace.  "released": Release has been called once.
Holding == {"restore", "create", "cloningWorker", "leased", "using"}
InEnsureOrigin == {"origin", "cloning"}
PastOrigin == {"wait"} \cup Holding
Terminal == {"done", "failed"}
PC == {"idle", "lock", "released"} \cup InEnsureOrigin \cup PastOrigin \cup Terminal

Errors == {"not_configured", "ensure_origin", "pool_timeout", "pool_cancelled",
           "create_worker", "crashed"}

\* "partial": .git is there but the clone never finished.
OriginStates == {"absent", "partial", "complete"}
WorkerStates == {"absent", "partial", "clean", "dirty"}

TypeOK ==
    /\ pc \in [Requests -> PC]
    /\ slot \in [Requests -> Slots \cup {NoSlot}]
    /\ ctx \in [Requests -> {"live", "cancelled", "expired"}]
    /\ result \in [Requests -> Errors \cup {"none"}]
    /\ pooled \in BOOLEAN
    /\ avail \in Seq(Slots)
    /\ created \in [Slots -> BOOLEAN]
    /\ cloned \in BOOLEAN
    /\ originMu \in Requests \cup {NoReq}
    /\ origin \in OriginStates
    /\ disk \in [Slots -> WorkerStates]
    /\ crashes \in 0..MaxCrashes

\* A server that starts on a clone path left by an earlier run, or on none.
Init ==
    /\ pc = [r \in Requests |-> "idle"]
    /\ slot = [r \in Requests |-> NoSlot]
    /\ ctx = [r \in Requests |-> "live"]
    /\ result = [r \in Requests |-> "none"]
    /\ pooled = FALSE
    /\ avail = << >>
    /\ created = [s \in Slots |-> FALSE]
    /\ cloned = FALSE
    /\ originMu = NoReq
    /\ origin \in {"absent", "complete"}
    /\ disk \in [Slots -> {"absent", "dirty"}]
    /\ crashes = 0

Goto(r, label) == pc' = [pc EXCEPT ![r] = label]

\* Lease returns an error.
Fail(r, why) ==
    /\ Goto(r, "failed")
    /\ result' = [result EXCEPT ![r] = why]

-----------------------------------------------------------------------------
(* Lease: repository lookup, and poolFor under the manager's mutex. *)

LeaseUnconfigured(r) ==
    /\ pc[r] = "idle"
    /\ r \notin Configured
    /\ Fail(r, "not_configured")
    /\ UNCHANGED <<slot, ctx, poolVars, diskVars, crashes>>

\* The first call after a start pre-allocates the slots, in order, and takes a
\* directory with .git in it for a worker that was created.
PoolFor(r) ==
    /\ pc[r] = "idle"
    /\ r \in Configured
    /\ Goto(r, "lock")
    /\ pooled' = TRUE
    /\ avail' = IF pooled THEN avail ELSE [i \in 1..PoolSize |-> i]
    /\ created' = IF pooled THEN created
                  ELSE [s \in Slots |-> disk[s] # "absent"]
    /\ UNCHANGED <<slot, ctx, result, cloned, originMu, diskVars, crashes>>

-----------------------------------------------------------------------------
(* ensureOrigin: the mutex is held for the whole clone, and waiting for it  *)
(* does not watch the context.                                              *)

LockOrigin(r) ==
    /\ pc[r] = "lock"
    /\ originMu = NoReq
    /\ originMu' = r
    /\ Goto(r, "origin")
    /\ UNCHANGED <<slot, ctx, result, pooled, avail, created, cloned, diskVars, crashes>>

\* Cloned in this run, or .git found on disk.
OriginPresent(r) ==
    /\ pc[r] = "origin"
    /\ cloned \/ origin # "absent"
    /\ cloned' = TRUE
    /\ originMu' = NoReq
    /\ Goto(r, "wait")
    /\ UNCHANGED <<slot, ctx, result, pooled, avail, created, diskVars, crashes>>

\* Broken variant: the clone is started although the origin is there.
CloneOriginAgain(r) ==
    /\ pc[r] = "origin"
    /\ \/ /\ Goto(r, "cloning")
          /\ origin' = "partial"
          /\ UNCHANGED <<result, originMu>>
       \/ /\ Fail(r, "ensure_origin")
          /\ originMu' = NoReq
          /\ UNCHANGED origin
    /\ UNCHANGED <<slot, ctx, pooled, avail, created, cloned, disk, crashes>>

\* MkdirAll of the parent, then the start of git clone (or the failure of either).
CloneOrigin(r) ==
    /\ pc[r] = "origin"
    /\ ~cloned
    /\ origin = "absent"
    /\ \/ /\ Goto(r, "cloning")
          /\ origin' = "partial"
          /\ UNCHANGED <<result, originMu>>
       \/ /\ Fail(r, "ensure_origin")
          /\ originMu' = NoReq
          /\ UNCHANGED origin
    /\ UNCHANGED <<slot, ctx, pooled, avail, created, cloned, disk, crashes>>

CloneOriginDone(r) ==
    /\ pc[r] = "cloning"
    /\ ctx[r] = "live"
    /\ origin' = "complete"
    /\ cloned' = TRUE
    /\ originMu' = NoReq
    /\ Goto(r, "wait")
    /\ UNCHANGED <<slot, ctx, result, pooled, avail, created, disk, crashes>>

\* The network, git's own timeout or the context ends the clone; what is there
\* of it is removed.  The error of RemoveAll is dropped, so it may stay.
CloneOriginFailed(r) ==
    /\ pc[r] = "cloning"
    /\ origin' \in {"absent", "partial"}
    /\ originMu' = NoReq
    /\ Fail(r, "ensure_origin")
    /\ UNCHANGED <<slot, ctx, pooled, avail, created, cloned, disk, crashes>>

-----------------------------------------------------------------------------
(* The select on the channel and the context: either ready case may win.   *)

TakeSlot(r) ==
    /\ pc[r] = "wait"
    /\ avail # << >>
    /\ slot' = [slot EXCEPT ![r] = Head(avail)]
    /\ avail' = Tail(avail)
    /\ Goto(r, IF created[Head(avail)] THEN "restore" ELSE "create")
    /\ UNCHANGED <<ctx, result, pooled, created, cloned, originMu, diskVars, crashes>>

WaitCancelled(r) ==
    /\ pc[r] = "wait"
    /\ ctx[r] # "live"
    /\ Fail(r, IF ctx[r] = "expired" THEN "pool_timeout" ELSE "pool_cancelled")
    /\ UNCHANGED <<slot, ctx, poolVars, diskVars, crashes>>

-----------------------------------------------------------------------------
(* restoreWorker = git.RestoreWorktree on a worker that was created.        *)

\* Broken variant: a created worker is handed over as it is.
RestoreSkipped(r) ==
    /\ pc[r] = "restore"
    /\ Goto(r, "leased")
    /\ UNCHANGED <<slot, ctx, result, poolVars, diskVars, crashes>>

\* git status reports nothing, or reset, clean and submodule update all succeed.
\* What a clone that died left behind has no leftovers to report and may pass.
RestoreOk(r) ==
    /\ pc[r] = "restore"
    /\ ctx[r] = "live"
    /\ disk[slot[r]] # "absent"
    /\ disk' = [disk EXCEPT ![slot[r]] = IF @ = "dirty" THEN "clean" ELSE @]
    /\ Goto(r, "leased")
    /\ UNCHANGED <<slot, ctx, result, poolVars, origin, crashes>>

\* Broken variant: the error return of the restore sends the slot, although the
\* call goes on to create the worker anew.
RestoreFailedSends(r) ==
    /\ pc[r] = "restore"
    /\ created' = [created EXCEPT ![slot[r]] = FALSE]
    /\ Goto(r, "create")
    /\ avail' = Append(avail, slot[r])
    /\ UNCHANGED <<slot, ctx, result, pooled, cloned, originMu, diskVars, crashes>>

\* A git command fails, or the context is over: the worker is quarantined.
RestoreFailed(r) ==
    /\ pc[r] = "restore"
    /\ created' = [created EXCEPT ![slot[r]] = FALSE]
    /\ Goto(r, "create")
    /\ UNCHANGED <<slot, ctx, result, pooled, avail, cloned, originMu, diskVars, crashes>>

-----------------------------------------------------------------------------
(* createWorker: RemoveAll, MkdirAll, git clone --local of the origin.      *)

RemoveWorker(r) ==
    /\ pc[r] = "create"
    /\ disk' = [disk EXCEPT ![slot[r]] = "partial"]
    /\ Goto(r, "cloningWorker")
    /\ UNCHANGED <<slot, ctx, result, poolVars, origin, crashes>>

CreateWorkerDone(r) ==
    /\ pc[r] = "cloningWorker"
    /\ ctx[r] = "live"
    /\ disk' = [disk EXCEPT ![slot[r]] = "clean"]
    /\ created' = [created EXCEPT ![slot[r]] = TRUE]
    /\ Goto(r, "leased")
    /\ UNCHANGED <<slot, ctx, result, pooled, avail, cloned, originMu, origin, crashes>>

\* A send on a buffered channel blocks while the buffer is full.
SendSlot(r) ==
    /\ Len(avail) < PoolSize
    /\ avail' = Append(avail, slot[r])

\* Broken variant: the error return forgets the slot.
CreateWorkerLeaks(r) ==
    /\ pc[r] \in {"create", "cloningWorker"}
    /\ Fail(r, "create_worker")
    /\ UNCHANGED <<slot, ctx, poolVars, diskVars, crashes>>

\* RemoveAll or MkdirAll fails, or git clone does: git removes the directory of
\* a clone that failed unless it is killed first.  The slot goes back.
CreateWorkerFailed(r) ==
    /\ \/ /\ pc[r] = "create"
          /\ UNCHANGED disk
       \/ /\ pc[r] = "cloningWorker"
          /\ \E left \in {"absent", "partial"} : disk' = [disk EXCEPT ![slot[r]] = left]
    /\ SendSlot(r)
    /\ Fail(r, "create_worker")
    /\ UNCHANGED <<slot, ctx, pooled, created, cloned, originMu, origin, crashes>>

-----------------------------------------------------------------------------
(* The lease: the orchestrator works in the directory and releases it.      *)

Use(r) ==
    /\ pc[r] = "leased"
    /\ disk' = [disk EXCEPT ![slot[r]] = "dirty"]
    /\ Goto(r, "using")
    /\ UNCHANGED <<slot, ctx, result, poolVars, origin, crashes>>

\* Broken variant: Release without sync.Once.
ReleaseEachTime(r) ==
    /\ pc[r] \in {"leased", "using", "released"}
    /\ SendSlot(r)
    /\ Goto(r, IF pc[r] = "released" THEN "done" ELSE "released")
    /\ UNCHANGED <<slot, ctx, result, pooled, created, cloned, originMu, diskVars, crashes>>

\* Release may be called again; only the first call runs the callback.
Release(r) ==
    /\ \/ /\ pc[r] \in {"leased", "using"}
          /\ SendSlot(r)
          /\ Goto(r, "released")
       \/ /\ pc[r] = "released"
          /\ Goto(r, "done")
          /\ UNCHANGED avail
    /\ UNCHANGED <<slot, ctx, result, pooled, created, cloned, originMu, diskVars, crashes>>

-----------------------------------------------------------------------------
(* The environment: the caller's context ends; the server dies.             *)

InFlight(r) == pc[r] \notin {"idle"} \cup Terminal

ContextDone(r) ==
    /\ InFlight(r)
    /\ ctx[r] = "live"
    /\ \E how \in {"cancelled", "expired"} : ctx' = [ctx EXCEPT ![r] = how]
    /\ UNCHANGED <<pc, slot, result, poolVars, diskVars, crashes>>

Crash ==
    /\ crashes < MaxCrashes
    /\ crashes' = crashes + 1
    /\ pc' = [r \in Requests |-> IF InFlight(r) THEN "failed" ELSE pc[r]]
    /\ result' = [r \in Requests |-> IF InFlight(r) THEN "crashed" ELSE result[r]]
    /\ pooled' = FALSE
    /\ avail' = << >>
    /\ created' = [s \in Slots |-> FALSE]
    /\ cloned' = FALSE
    /\ originMu' = NoReq
    /\ UNCHANGED <<slot, ctx, diskVars>>

EnsureOrigin(r) ==
    \/ LockOrigin(r) \/ OriginPresent(r)
    \/ CloneOrigin(r) \/ CloneOriginDone(r) \/ CloneOriginFailed(r)

AcquireWorker(r) ==
    \/ TakeSlot(r) \/ WaitCancelled(r)
    \/ RestoreOk(r) \/ RestoreFailed(r)
    \/ RemoveWorker(r) \/ CreateWorkerDone(r) \/ CreateWorkerFailed(r)

Step(r) ==
    \/ LeaseUnconfigured(r) \/ PoolFor(r)
    \/ EnsureOrigin(r) \/ AcquireWorker(r)
    \/ Use(r) \/ Release(r)

AllDone == \A r \in Requests : pc[r] \in Terminal
Quiescent == AllDone /\ UNCHANGED vars

Next ==
    \/ \E r \in Requests : Step(r) \/ ContextDone(r)
    \/ Crash
    \/ Quiescent

Spec == Init /\ [][Next]_vars

\* Every git command carries a timeout and the orchestrator releases its lease
\* on every return path, so each call keeps taking steps.
Fairness == \A r \in Requests : WF_vars(Step(r))
FairSpec == Spec /\ Fairness

-----------------------------------------------------------------------------
(* Correctness. *)

Holds(r, s) == pc[r] \in Holding /\ slot[r] = s

\* repo_manager.go avail/OnRelease: a worker directory is never in the hands of
\* two requests, whatever fails, is cancelled or is released twice.
MutualExclusion ==
    \A r, q \in Requests : \A s \in Slots : Holds(r, s) /\ Holds(q, s) => r = q

InAvail(s) == \E i \in 1..Len(avail) : avail[i] = s

\* repo_manager.go Lease: once the pool is made, every slot is either in the
\* channel, exactly once, or held by a request: no path loses or doubles one.
SlotConservation ==
    pooled =>
      /\ \A i, j \in 1..Len(avail) : avail[i] = avail[j] => i = j
      /\ \A s \in Slots : InAvail(s) <=> ~ \E r \in Requests : Holds(r, s)

\* repo_manager.go:216 and :231: a holder's send on the channel never blocks.
SendNeverBlocks ==
    \A r \in Requests : pc[r] \in Holding => Len(avail) < PoolSize

\* repo_manager.go:195-208: a workspace that Lease returns has no leftovers of
\* another request, also one discovered on disk after a restart.
HandedOverClean ==
    \A r \in Requests : pc[r] = "leased" => disk[slot[r]] \in {"clean", "partial"}

\* repo_manager.go ensureOrigin: no worker is cloned from an origin that another
\* request is cloning or removing.
WorkersCloneSettledOrigin ==
    \A r, q \in Requests : pc[r] = "cloning" => pc[q] \notin PastOrigin

\* repo_manager.go ensureOrigin: once a request has passed ensureOrigin, nobody
\* touches the origin directory again in this run of the server.
OriginStable == [][cloned /\ cloned' => origin' = origin]_vars

\* Lease has returned worker s to r, which has not released it.
LentTo(r, s) == pc[r] \in {"leased", "using"} /\ slot[r] = s

WL == INSTANCE WorkerLease WITH
        tenants <- [s \in Slots |-> {r \in Requests : LentTo(r, s)}],
        dirty <- [s \in Slots |-> disk[s] = "dirty"]

\* The pool implements the abstract lease: exclusive, clean on every grant,
\* returned once, and wiped only while nobody holds it.
ImplementsWorkerLease == WL!LeaseSpec

\* repo_manager.go:157-158: a call of Lease comes back, with a workspace or with
\* an error, and what it was lent is returned.
LeaseReturns == \A r \in Requests : pc[r] # "idle" ~> pc[r] \in Terminal
=============================================================================
