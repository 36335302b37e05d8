--------------------------- MODULE GraphFetchState ---------------------------
(***************************************************************************)
(* The state of a call of controller.fetchTargetGraphs and what the call   *)
(* promises, apart from its steps, which are in GraphFetch.                *)
(***************************************************************************)
EXTENDS Naturals, Sequences

VARIABLES
    ctx,         \* the request's context: "live", or "done" (client gone, shutdown)
    jobCtx,      \* jobCtx[j]: the context of job j, "live" or why it was cancelled
    running,     \* jobs whose goroutine has not reported yet
    results,     \* the channel of reports
    received,    \* reports the caller has taken
    outcome,     \* outcome[j]: jobs[j].graph and jobs[j].err
    completed,   \* jobs marked completed
    cancelled,   \* jobs marked cancelled
    reply,       \* what fetchTargetGraphs returned, once it has
    reported     \* the jobs whose errors were joined into the returned error

\* 0 is the first revision, 1 the second.
Jobs == {0, 1}
Other(j) == 1 - j

OwnFailures == {"failed", "empty"}

\* A report that brings no graph.
IsFailure(o) == o \notin {"none", "graph"}

-----------------------------------------------------------------------------
(* Correctness. *)

\* getchangedtargets.go:305-326: success means two graphs.  An error that the
\* cancelled mark suppresses is never the last one.
SuccessMeansBothGraphs == reply = "graphs" => \A j \in Jobs : outcome[j] = "graph"

\* getchangedtargets.go:201-202 "Errors caused solely by that induced cancellation
\* are dropped": a failed call names a failure, and only failures of the fetches.
ErrorsAreOriginal ==
    reply = "failed" => reported # {} /\ \A j \in reported : outcome[j] \in OwnFailures

\* getchangedtargets.go:269-271: the call does not return before both goroutines
\* have reported and both reports are taken; nothing of it outlives the call.
NothingLeftBehind == reply # "waiting" => running = {} /\ results = << >>

\* getchangedtargets.go:279-290: a job's context is cancelled on account of its
\* sibling exactly when the caller knows that the sibling failed and does not
\* know the job's own outcome.
SiblingCancelJustified ==
    \A j \in Jobs :
      /\ jobCtx[j] = "sibling" => Other(j) \in completed /\ IsFailure(outcome[Other(j)])
      /\ IsFailure(outcome[Other(j)]) /\ j \notin completed => jobCtx[j] # "live"
=============================================================================
