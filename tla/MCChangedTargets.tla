--------------------------- MODULE MCChangedTargets ---------------------------
(***************************************************************************)
(* Instances of ChangedTargets: three revisions, of which "same" has the   *)
(* tree of "base" (a change that was reverted), and kinds of calls that    *)
(* share parts of their keys.                                              *)
(*                                                                         *)
(* A call waits in its fetch for GraphFetch.  The two share no state but   *)
(* its outcome, which ChangedTargets leaves open, so that a behaviour is   *)
(* one of the calls or one of a fetch: part says which.                    *)
(***************************************************************************)
EXTENDS ChangedTargets, GraphFetchState

VARIABLE part

F == INSTANCE GraphFetch

fetchVars == <<ctx, jobCtx, running, results, received, outcome, completed, cancelled, reply, reported>>
mcVars == <<vars, fetchVars, part>>

MCInit == Init /\ F!Init /\ part \in {"calls", "fetch"}

Calls(A) == part = "calls" /\ A /\ UNCHANGED <<fetchVars, part>>
Fetches(A) == part = "fetch" /\ A /\ UNCHANGED <<vars, part>>

MCNext == Calls(Next) \/ Fetches(F!Next)

MCSpec == MCInit /\ [][MCNext]_mcVars

\* The fairness of both modules.
MCFairSpec ==
    /\ MCSpec
    /\ \A r \in Requests : WF_mcVars(Calls(Call(r))) /\ WF_mcVars(Calls(Writer(r)))
    /\ WF_mcVars(Calls(Treehashes))
    /\ \A j \in Jobs : WF_mcVars(Fetches(F!Job(j)))
    /\ WF_mcVars(Fetches(F!Caller))

-----------------------------------------------------------------------------

\* getchangedtargets.go:269: the two receives are always answered.
FetchReturns == part = "fetch" => F!FetchReturns

-----------------------------------------------------------------------------

MCTreeOf == [v \in {"base", "pr", "same"} |-> IF v = "pr" THEN "t2" ELSE "t1"]

Kind(first, second, strategy, excludes, bypass) ==
    [build |-> [i \in Sides |-> [rev |-> IF i = 1 THEN first ELSE second, strategy |-> strategy]],
     excludes |-> excludes, bypass |-> bypass]

\* One strategy for all calls.
OneStrategyKinds ==
    {Kind("base", "pr", "native", "none", FALSE),
     Kind("same", "pr", "native", "none", TRUE),
     Kind("pr", "base", "native", "none", FALSE),
     Kind("base", "pr", "native", "some", FALSE)}

\* The same two builds under both strategies.
BothStrategiesKinds ==
    {Kind("base", "pr", "native", "none", FALSE), Kind("base", "pr", "shell", "none", FALSE)}
=============================================================================
