------------------------------ MODULE GraphFetch ------------------------------
(***************************************************************************)
(* controller.fetchTargetGraphs: one goroutine per revision fetches a      *)
(* graph under a context of its own and reports once on a buffered         *)
(* channel; the caller collects both reports, cancels the other fetch when *)
(* one has failed, and returns either both graphs or the errors that are   *)
(* not the consequence of its own cancellation.                            *)
(*                                                                         *)
(* A report is abstracted to what the caller tells apart: a graph, no      *)
(* graph and no error, an error of the fetch itself (a recovered panic     *)
(* too), or the error of its context with the cause of the cancellation.   *)
(***************************************************************************)
EXTENDS GraphFetchState

vars == <<ctx, jobCtx, running, results, received, outcome, completed, cancelled, reply, reported>>

ContextErrors == {"client", "sibling"}
Reports == [order : Jobs, outcome : {"graph"} \cup OwnFailures \cup ContextErrors]

TypeOK ==
    /\ ctx \in {"live", "done"}
    /\ jobCtx \in [Jobs -> {"live", "returned"} \cup ContextErrors]
    /\ running \subseteq Jobs
    /\ results \in Seq(Reports) /\ Len(results) <= 2
    /\ received \in 0..2
    /\ outcome \in [Jobs -> {"none", "graph"} \cup OwnFailures \cup ContextErrors]
    /\ completed \subseteq Jobs
    /\ cancelled \subseteq Jobs
    /\ reply \in {"waiting", "client_gone", "failed", "graphs"}
    /\ reported \subseteq Jobs

Init ==
    /\ ctx = "live"
    /\ jobCtx = [j \in Jobs |-> "live"]
    /\ running = Jobs
    /\ results = << >>
    /\ received = 0
    /\ outcome = [j \in Jobs |-> "none"]
    /\ completed = {}
    /\ cancelled = {}
    /\ reply = "waiting"
    /\ reported = {}

-----------------------------------------------------------------------------
(* The goroutines: getGraph, then one send on the channel. *)

Report(j, o) ==
    /\ running' = running \ {j}
    /\ results' = Append(results, [order |-> j, outcome |-> o])
    /\ UNCHANGED <<ctx, jobCtx, received, outcome, completed, cancelled, reply, reported>>

JobSucceeds(j) == j \in running /\ Report(j, "graph")

\* A nil reader, or a reader without a single chunk: neither graph nor error.
JobEmpty(j) == j \in running /\ Report(j, "empty")

\* getGraph or the decoding fails by itself, even if the context is done too.
JobFails(j) == j \in running /\ Report(j, "failed")

\* Broken variant: a panic ends the goroutine without a report.
JobPanicsSilently(j) ==
    /\ j \in running
    /\ running' = running \ {j}
    /\ UNCHANGED <<ctx, jobCtx, results, received, outcome, completed, cancelled, reply, reported>>

\* A panic is recovered and reported as an error.
JobPanics(j) == j \in running /\ Report(j, "failed")

\* The fetch notices that its context was cancelled.
JobAborts(j) == j \in running /\ jobCtx[j] \in ContextErrors /\ Report(j, jobCtx[j])

-----------------------------------------------------------------------------
(* The caller. *)

\* Broken variant: a job that has already reported is marked cancelled as well.
ReceiveMarksAll ==
    /\ reply = "waiting" /\ received < 2 /\ results # << >>
    /\ LET res == Head(results)
           other == Other(res.order)
       IN
       /\ outcome' = [outcome EXCEPT ![res.order] = res.outcome]
       /\ completed' = completed \cup {res.order}
       /\ IF IsFailure(res.outcome)
          THEN /\ cancelled' = cancelled \cup {other}
               /\ jobCtx' = [jobCtx EXCEPT ![other] = IF @ = "live" THEN "sibling" ELSE @]
          ELSE UNCHANGED <<cancelled, jobCtx>>
    /\ results' = Tail(results)
    /\ received' = received + 1
    /\ UNCHANGED <<ctx, running, reply, reported>>

\* Broken variant: the other job is marked cancelled whatever was reported.
ReceiveCancelsAlways ==
    /\ reply = "waiting" /\ received < 2 /\ results # << >>
    /\ LET res == Head(results)
           other == Other(res.order)
       IN
       /\ outcome' = [outcome EXCEPT ![res.order] = res.outcome]
       /\ completed' = completed \cup {res.order}
       /\ IF other \notin completed
          THEN /\ cancelled' = cancelled \cup {other}
               /\ jobCtx' = [jobCtx EXCEPT ![other] = IF @ = "live" THEN "sibling" ELSE @]
          ELSE UNCHANGED <<cancelled, jobCtx>>
    /\ results' = Tail(results)
    /\ received' = received + 1
    /\ UNCHANGED <<ctx, running, reply, reported>>

\* One report is recorded.  If it is a failure, the other job is cancelled
\* unless the caller has its report.
Receive ==
    /\ reply = "waiting" /\ received < 2 /\ results # << >>
    /\ LET res == Head(results)
           other == Other(res.order)
       IN
       /\ outcome' = [outcome EXCEPT ![res.order] = res.outcome]
       /\ completed' = completed \cup {res.order}
       /\ IF IsFailure(res.outcome) /\ other \notin completed
          THEN /\ cancelled' = cancelled \cup {other}
               /\ jobCtx' = [jobCtx EXCEPT ![other] = IF @ = "live" THEN "sibling" ELSE @]
          ELSE UNCHANGED <<cancelled, jobCtx>>
    /\ results' = Tail(results)
    /\ received' = received + 1
    /\ UNCHANGED <<ctx, running, reply, reported>>

\* The errors that are joined.
Original == {j \in Jobs : IsFailure(outcome[j]) /\ j \notin cancelled}

\* Broken variant: the caller returns as soon as one job has failed.
ReturnEarly ==
    /\ reply = "waiting"
    /\ \/ received = 2
       \/ \E j \in completed : IsFailure(outcome[j])
    /\ reply' = IF ctx = "done" THEN "client_gone" ELSE IF Original = {} THEN "graphs" ELSE "failed"
    /\ reported' = IF ctx = "done" THEN {} ELSE Original
    /\ jobCtx' = [j \in Jobs |-> IF jobCtx[j] = "live" THEN "returned" ELSE jobCtx[j]]
    /\ UNCHANGED <<ctx, running, results, received, outcome, completed, cancelled>>

\* Broken variant: errors are joined whether or not the job was cancelled.
ReturnAllErrors ==
    /\ reply = "waiting"
    /\ received = 2
    /\ LET failed == {j \in Jobs : IsFailure(outcome[j])} IN
       /\ reply' = IF ctx = "done" THEN "client_gone" ELSE IF failed = {} THEN "graphs" ELSE "failed"
       /\ reported' = IF ctx = "done" THEN {} ELSE failed
    /\ jobCtx' = [j \in Jobs |-> IF jobCtx[j] = "live" THEN "returned" ELSE jobCtx[j]]
    /\ UNCHANGED <<ctx, running, results, received, outcome, completed, cancelled>>

\* Both reports are in: the client's own cancellation, the original errors or
\* the two graphs are returned, and the deferred cancels run.
Return ==
    /\ reply = "waiting"
    /\ received = 2
    /\ reply' = IF ctx = "done" THEN "client_gone" ELSE IF Original = {} THEN "graphs" ELSE "failed"
    /\ reported' = IF ctx = "done" THEN {} ELSE Original
    /\ jobCtx' = [j \in Jobs |-> IF jobCtx[j] = "live" THEN "returned" ELSE jobCtx[j]]
    /\ UNCHANGED <<ctx, running, results, received, outcome, completed, cancelled>>

\* The client goes away or the server shuts down (linkRequestCtx); the contexts
\* of the jobs are children of the request's.
ContextDone ==
    /\ ctx = "live"
    /\ ctx' = "done"
    /\ jobCtx' = [j \in Jobs |-> IF jobCtx[j] = "live" THEN "client" ELSE jobCtx[j]]
    /\ UNCHANGED <<running, results, received, outcome, completed, cancelled, reply, reported>>

Job(j) == JobSucceeds(j) \/ JobEmpty(j) \/ JobFails(j) \/ JobPanics(j) \/ JobAborts(j)
Caller == Receive \/ Return
Quiescent == reply # "waiting" /\ running = {} /\ UNCHANGED vars

Next == (\E j \in Jobs : Job(j)) \/ Caller \/ ContextDone \/ Quiescent

Spec == Init /\ [][Next]_vars

\* A fetch ends (git and bazel run under its context and their own timeouts),
\* and the caller's loop runs.
FairSpec == Spec /\ (\A j \in Jobs : WF_vars(Job(j))) /\ WF_vars(Caller)

-----------------------------------------------------------------------------
(* Correctness. *)

\* getchangedtargets.go:269: the caller's two receives are always answered,
\* whichever way a fetch ends, a panic included.
FetchReturns == <>(reply # "waiting")
=============================================================================
