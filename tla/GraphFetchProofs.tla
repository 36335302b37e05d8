--------------------------- MODULE GraphFetchProofs ---------------------------
(***************************************************************************)
(* Proofs about GraphFetch.  The argument: a job is in exactly one place   *)
(* (running, on the channel, completed), so two receives complete both;    *)
(* and of two jobs at most one is marked cancelled, because the mark needs *)
(* a completed, failed sibling, which the mark itself then spares.         *)
(***************************************************************************)
EXTENDS GraphFetch, TLAPS

\* Every job is running, has its one report on the channel, or is completed.
JobsAccounted ==
    /\ running \cap completed = {}
    /\ \A i \in 1..Len(results) :
         results[i].order \notin running /\ results[i].order \notin completed
    /\ \A i, k \in 1..Len(results) : results[i].order = results[k].order => i = k
    /\ \A j \in Jobs : j \in running \/ j \in completed
                       \/ \E i \in 1..Len(results) : results[i].order = j

\* The caller has taken the reports of the completed jobs and of no others.
ReceiptsCounted ==
    /\ received = 0 => completed = {}
    /\ received = 1 => completed = {0} \/ completed = {1}
    /\ received = 2 => completed = Jobs
    /\ \A j \in Jobs : outcome[j] = "none" <=> j \notin completed
    /\ reply # "waiting" => received = 2

\* The cancelled mark spares one job: the failed one that caused it.
MarksSpareTheCause ==
    \A j \in cancelled :
      Other(j) \in completed /\ IsFailure(outcome[Other(j)]) /\ Other(j) \notin cancelled

\* A context error names the cause its context was cancelled for.
CausesTrue ==
    /\ \A j \in Jobs :
         /\ jobCtx[j] = "client" => ctx = "done"
         /\ jobCtx[j] = "sibling" => j \in cancelled
         /\ outcome[j] \in ContextErrors => jobCtx[j] = outcome[j]
    /\ \A i \in 1..Len(results) :
         results[i].outcome \in ContextErrors => jobCtx[results[i].order] = results[i].outcome

\* A failure known to the caller has stopped the other job.
FailureStops ==
    \A j \in Jobs : IsFailure(outcome[Other(j)]) /\ j \notin completed => jobCtx[j] # "live"

\* The inductive invariant.
IndInv ==
    /\ TypeOK
    /\ JobsAccounted
    /\ ReceiptsCounted
    /\ MarksSpareTheCause
    /\ CausesTrue
    /\ FailureStops
    /\ SuccessMeansBothGraphs
    /\ ErrorsAreOriginal

LEMMA InitInd == Init => IndInv
BY DEF Init, IndInv, TypeOK, JobsAccounted, ReceiptsCounted, MarksSpareTheCause, CausesTrue,
       FailureStops, SuccessMeansBothGraphs, ErrorsAreOriginal, Jobs, Other, Reports,
       IsFailure, OwnFailures, ContextErrors

\* What is on the channel.
LEMMA ReportsTyped ==
    ASSUME IndInv
    PROVE  /\ results \in Seq(Reports) /\ Len(results) \in Nat /\ Len(results) <= 2
           /\ \A i \in 1..Len(results) : results[i] \in Reports /\ results[i].order \in Jobs
<1>1. results \in Seq(Reports) /\ Len(results) <= 2
    BY DEF IndInv, TypeOK
<1>2. Len(results) \in Nat /\ \A i \in 1..Len(results) : results[i] \in Reports
    BY <1>1
<1>3. \A x \in Reports : x.order \in Jobs
    BY DEF Reports
<1> QED BY <1>1, <1>2, <1>3

\* A running job finds room on the channel.
LEMMA RoomForReport ==
    ASSUME IndInv, NEW j \in running PROVE Len(results) < 2
<1>0. Len(results) \in Nat /\ Len(results) <= 2
    BY ReportsTyped
<1>a. \A n \in Nat : n <= 2 /\ n # 2 => n < 2
    OBVIOUS
<1> SUFFICES ASSUME Len(results) = 2 PROVE FALSE
    BY <1>0, <1>a, Zenon
<1>1. 1 \in 1..Len(results) /\ 2 \in 1..Len(results)
    OBVIOUS
<1>2. results[1].order \in Jobs /\ results[2].order \in Jobs
    BY <1>1, ReportsTyped
<1>3. results[1].order # results[2].order
    BY <1>1 DEF IndInv, JobsAccounted
<1>4. j \in Jobs /\ j # results[1].order /\ j # results[2].order
    BY <1>1 DEF IndInv, TypeOK, JobsAccounted
<1> QED BY <1>2, <1>3, <1>4 DEF Jobs

\* A report of a running job keeps the invariant, if a context error is true.
LEMMA ReportInd ==
    ASSUME IndInv, NEW j \in running,
           NEW o \in {"graph"} \cup OwnFailures \cup ContextErrors,
           o \in ContextErrors => jobCtx[j] = o,
           Report(j, o)
    PROVE  IndInv'
<1> DEFINE rep == [order |-> j, outcome |-> o]
<1>1. j \in Jobs /\ rep \in Reports /\ results \in Seq(Reports)
    BY DEF IndInv, TypeOK, Reports
<1>2. Len(results) < 2
    BY RoomForReport
<1>3. /\ results' = Append(results, rep) /\ running' = running \ {j}
      /\ UNCHANGED <<ctx, jobCtx, received, outcome, completed, cancelled, reply, reported>>
    BY DEF Report
<1>4. /\ Len(results') = Len(results) + 1
      /\ \A i \in 1..Len(results) : results'[i] = results[i]
      /\ results'[Len(results) + 1] = rep
      /\ \A i \in 1..Len(results') : i \in 1..Len(results) \/ i = Len(results) + 1
    BY <1>1, <1>3
<1>5. TypeOK'
    BY <1>1, <1>2, <1>3, <1>4 DEF IndInv, TypeOK
<1>6. JobsAccounted'
  <2>1. (running \cap completed = {})'
      BY <1>3 DEF IndInv, JobsAccounted
  <2>2. j \notin completed
      BY DEF IndInv, JobsAccounted
  <2>3. \A i \in 1..Len(results') :
          results'[i].order \notin running' /\ results'[i].order \notin completed'
      BY <2>2, <1>3, <1>4 DEF IndInv, JobsAccounted
  <2>4. \A i \in 1..Len(results) : results[i].order # j
      BY DEF IndInv, JobsAccounted
  <2>5. \A i, k \in 1..Len(results') : results'[i].order = results'[k].order => i = k
      BY <2>4, <1>4 DEF IndInv, JobsAccounted
  <2>6. \A q \in Jobs : q \in running' \/ q \in completed'
                        \/ \E i \in 1..Len(results') : results'[i].order = q
    <3> TAKE q \in Jobs
    <3>1. CASE q = j
        BY <3>1, <1>1, <1>4 DEF TypeOK
    <3>2. CASE q # j
        BY <3>2, <1>1, <1>3, <1>4 DEF IndInv, JobsAccounted
    <3> QED BY <3>1, <3>2
  <2> QED BY <2>1, <2>3, <2>5, <2>6 DEF JobsAccounted
<1>7. CausesTrue'
  <2>1. \A i \in 1..Len(results') :
          results'[i].outcome \in ContextErrors => jobCtx'[results'[i].order] = results'[i].outcome
      BY <1>3, <1>4 DEF IndInv, CausesTrue
  <2> QED BY <2>1, <1>3 DEF IndInv, CausesTrue
<1>8. (ReceiptsCounted /\ MarksSpareTheCause /\ FailureStops)'
    BY <1>3 DEF IndInv, ReceiptsCounted, MarksSpareTheCause, FailureStops, IsFailure
<1>9. (SuccessMeansBothGraphs /\ ErrorsAreOriginal)'
    BY <1>3 DEF IndInv, SuccessMeansBothGraphs, ErrorsAreOriginal
<1> QED BY <1>5, <1>6, <1>7, <1>8, <1>9 DEF IndInv

LEMMA JobInd ==
    ASSUME IndInv, NEW j \in Jobs, Job(j) PROVE IndInv'
<1>1. CASE JobSucceeds(j)
    BY <1>1, ReportInd DEF JobSucceeds, ContextErrors
<1>2. CASE JobEmpty(j)
    BY <1>2, ReportInd DEF JobEmpty, ContextErrors, OwnFailures
<1>3. CASE JobFails(j)
    BY <1>3, ReportInd DEF JobFails, ContextErrors, OwnFailures
<1>4. CASE JobPanics(j)
    BY <1>4, ReportInd DEF JobPanics, ContextErrors, OwnFailures
<1>5. CASE JobAborts(j)
    BY <1>5, ReportInd DEF JobAborts
<1> QED BY <1>1, <1>2, <1>3, <1>4, <1>5 DEF Job

LEMMA ReceiveInd ==
    ASSUME IndInv, Receive PROVE IndInv'
<1> DEFINE res == Head(results)
           q == res.order
           other == Other(q)
<1>1. results \in Seq(Reports) /\ results # << >> /\ received \in {0, 1} /\ reply = "waiting"
    BY DEF IndInv, TypeOK, Receive
<1>2. /\ res = results[1] /\ 1 \in 1..Len(results)
      /\ res \in Reports /\ q \in Jobs /\ other \in Jobs /\ other # q
  <2>1. res = results[1] /\ 1 \in 1..Len(results)
      BY <1>1
  <2>2. res \in Reports /\ q \in Jobs
      BY <2>1, ReportsTyped
  <2> QED BY <2>1, <2>2 DEF Jobs, Other
<1>3. q \notin running /\ q \notin completed
    BY <1>2 DEF IndInv, JobsAccounted
<1>4. /\ Tail(results) \in Seq(Reports)
      /\ Len(Tail(results)) = Len(results) - 1
      /\ \A i \in 1..(Len(results) - 1) :
           Tail(results)[i] = results[i + 1] /\ (i + 1) \in 1..Len(results)
    BY <1>1
<1>5. /\ results' = Tail(results) /\ received' = received + 1
      /\ UNCHANGED <<ctx, running, reply, reported>>
      /\ outcome' = [outcome EXCEPT ![q] = res.outcome]
      /\ completed' = completed \cup {q}
    BY DEF Receive
<1>6. IF IsFailure(res.outcome) /\ other \notin completed
      THEN /\ cancelled' = cancelled \cup {other}
           /\ jobCtx' = [jobCtx EXCEPT ![other] = IF @ = "live" THEN "sibling" ELSE @]
      ELSE UNCHANGED <<cancelled, jobCtx>>
    BY DEF Receive
<1>7. TypeOK'
  <2>1. /\ outcome' \in [Jobs -> {"none", "graph"} \cup OwnFailures \cup ContextErrors]
        /\ completed' \subseteq Jobs
      BY <1>2, <1>5 DEF IndInv, TypeOK, Reports
  <2>2. /\ jobCtx' \in [Jobs -> {"live", "returned"} \cup ContextErrors]
        /\ cancelled' \subseteq Jobs
      BY <1>2, <1>6 DEF IndInv, TypeOK, ContextErrors
  <2>3. results' \in Seq(Reports) /\ Len(results') <= 2 /\ received' \in 0..2
      BY <1>1, <1>4, <1>5 DEF IndInv, TypeOK
  <2> QED BY <2>1, <2>2, <2>3, <1>5 DEF IndInv, TypeOK
<1>8. JobsAccounted'
  <2>1. (running \cap completed = {})'
      BY <1>3, <1>5 DEF IndInv, JobsAccounted
  <2>2. \A i \in 1..Len(results') : results'[i] = results[i + 1] /\ (i + 1) \in 2..Len(results)
      BY <1>4, <1>5
  <2>3. \A i \in 2..Len(results) : results[i].order # q
      BY <1>2 DEF IndInv, JobsAccounted
  <2>4. \A i \in 1..Len(results') :
          results'[i].order \notin running' /\ results'[i].order \notin completed'
      BY <2>2, <2>3, <1>5 DEF IndInv, JobsAccounted
  <2>5. \A i, k \in 1..Len(results') : results'[i].order = results'[k].order => i = k
      BY <2>2 DEF IndInv, JobsAccounted
  <2>6. \A j \in Jobs : j \in running' \/ j \in completed'
                        \/ \E i \in 1..Len(results') : results'[i].order = j
    <3> SUFFICES ASSUME NEW j \in Jobs, j \notin running, j \notin completed'
                 PROVE  \E i \in 1..Len(results') : results'[i].order = j
        BY <1>5
    <3>1. PICK i \in 1..Len(results) : results[i].order = j
        BY <1>5 DEF IndInv, JobsAccounted
    <3>2. i # 1
        BY <3>1, <1>2, <1>5
    <3>3. (i - 1) \in 1..Len(results') /\ results'[i - 1] = results[i]
        BY <3>2, <1>1, <1>4, <1>5
    <3> QED BY <3>1, <3>3
  <2> QED BY <2>1, <2>4, <2>5, <2>6 DEF JobsAccounted
<1>9. ReceiptsCounted'
  <2>1. \A j \in Jobs : outcome'[j] = IF j = q THEN res.outcome ELSE outcome[j]
      BY <1>2, <1>5 DEF IndInv, TypeOK
  <2>2. res.outcome # "none"
      BY <1>2 DEF Reports, OwnFailures, ContextErrors
  <2>3. (\A j \in Jobs : outcome[j] = "none" <=> j \notin completed)'
      BY <2>1, <2>2, <1>5 DEF IndInv, ReceiptsCounted
  <2>4. /\ (received = 0 => completed = {})'
        /\ (received = 1 => completed = {0} \/ completed = {1})'
        /\ (received = 2 => completed = Jobs)'
    <3>1. CASE received = 0
        BY <3>1, <1>2, <1>5 DEF IndInv, ReceiptsCounted, Jobs
    <3>2. CASE received = 1
        BY <3>2, <1>2, <1>3, <1>5 DEF IndInv, ReceiptsCounted, Jobs
    <3> QED BY <3>1, <3>2, <1>1
  <2> QED BY <2>3, <2>4, <1>1, <1>5 DEF ReceiptsCounted
<1>10. \A j \in Jobs : outcome'[j] = IF j = q THEN res.outcome ELSE outcome[j]
    BY <1>2, <1>5 DEF IndInv, TypeOK
<1>11. outcome[q] = "none"
    BY <1>2, <1>3 DEF IndInv, ReceiptsCounted
<1>12. \A j \in Jobs : j # q => j = other
    BY <1>2 DEF Jobs, Other
<1>13. \A j \in Jobs : Other(j) \in Jobs /\ Other(j) # j /\ Other(Other(j)) = j
    BY DEF Jobs, Other
<1>14. q \in cancelled => other \in completed
    BY DEF IndInv, MarksSpareTheCause
<1>15. other \in cancelled => other \in completed
    BY <1>2, <1>3, <1>13 DEF IndInv, MarksSpareTheCause
<1>16. MarksSpareTheCause'
  <2> SUFFICES ASSUME NEW j \in cancelled'
               PROVE  /\ Other(j) \in completed' /\ IsFailure(outcome'[Other(j)])
                      /\ Other(j) \notin cancelled'
      BY DEF MarksSpareTheCause, IsFailure
  <2>0. j \in Jobs
      BY <1>7 DEF TypeOK
  <2>1. CASE IsFailure(res.outcome) /\ other \notin completed
    <3>1. q \notin cancelled /\ cancelled = {} /\ cancelled' = {other}
        BY <2>1, <1>2, <1>6, <1>12, <1>14, <1>15 DEF IndInv, TypeOK
    <3> QED BY <3>1, <2>1, <1>2, <1>5, <1>10, <1>13
  <2>2. CASE ~(IsFailure(res.outcome) /\ other \notin completed)
    <3>1. j \in cancelled /\ cancelled' = cancelled
        BY <2>2, <1>6
    <3>2. Other(j) \in completed /\ IsFailure(outcome[Other(j)]) /\ Other(j) \notin cancelled
        BY <3>1 DEF IndInv, MarksSpareTheCause
    <3>3. Other(j) # q
        BY <3>2, <1>3
    <3> QED BY <3>1, <3>2, <3>3, <2>0, <1>5, <1>10, <1>13
  <2> QED BY <2>1, <2>2
<1>17. \A j \in Jobs : \/ jobCtx'[j] = jobCtx[j]
                       \/ jobCtx[j] = "live" /\ jobCtx'[j] = "sibling" /\ j \in cancelled'
  <2>1. jobCtx \in [Jobs -> {"live", "returned"} \cup ContextErrors]
      BY DEF IndInv, TypeOK
  <2>2. CASE IsFailure(res.outcome) /\ other \notin completed
    <3>1. /\ cancelled' = cancelled \cup {other}
          /\ jobCtx' = [jobCtx EXCEPT ![other] = IF @ = "live" THEN "sibling" ELSE @]
        BY <2>2, <1>6
    <3> HIDE DEF other
    <3> QED BY <3>1, <2>1
  <2>3. CASE ~(IsFailure(res.outcome) /\ other \notin completed)
    <3>1. jobCtx' = jobCtx
        BY <2>3, <1>6
    <3> QED BY <3>1
  <2> QED BY <2>2, <2>3
<1>18. CausesTrue'
  <2>1. \A j \in Jobs : /\ jobCtx'[j] = "client" => ctx' = "done"
                        /\ jobCtx'[j] = "sibling" => j \in cancelled'
      BY <1>5, <1>6, <1>17 DEF IndInv, CausesTrue
  <2>2. \A j \in Jobs : outcome'[j] \in ContextErrors => jobCtx'[j] = outcome'[j]
    <3>1. \A j \in Jobs : outcome'[j] \in ContextErrors => jobCtx[j] = outcome'[j]
        BY <1>2, <1>10 DEF IndInv, CausesTrue
    <3> QED BY <3>1, <1>17 DEF ContextErrors
  <2>3. \A i \in 1..Len(results') : results'[i].outcome \in ContextErrors
                                    => jobCtx'[results'[i].order] = results'[i].outcome
    <3> SUFFICES ASSUME NEW i \in 1..Len(results'), results'[i].outcome \in ContextErrors
                 PROVE  jobCtx'[results'[i].order] = results'[i].outcome
        OBVIOUS
    <3>1. results'[i] = results[i + 1] /\ (i + 1) \in 1..Len(results)
        BY <1>4, <1>5
    <3>2. jobCtx[results'[i].order] = results'[i].outcome /\ results'[i].order \in Jobs
        BY <3>1, ReportsTyped DEF IndInv, CausesTrue
    <3> QED BY <3>2, <1>17 DEF ContextErrors
  <2> QED BY <2>1, <2>2, <2>3 DEF CausesTrue
<1>19. FailureStops'
  <2> SUFFICES ASSUME NEW j \in Jobs, IsFailure(outcome'[Other(j)]), j \notin completed'
               PROVE  jobCtx'[j] # "live"
      BY DEF FailureStops, IsFailure
  <2>1. j # q /\ j = other /\ Other(j) = q
      BY <1>2, <1>5, <1>12, <1>13
  <2>2. IsFailure(res.outcome) /\ other \notin completed
      BY <2>1, <1>5, <1>10, <1>13
  <2> QED BY <2>1, <2>2, <1>2, <1>6 DEF IndInv, TypeOK
<1>20. (SuccessMeansBothGraphs /\ ErrorsAreOriginal)'
    BY <1>1, <1>5 DEF SuccessMeansBothGraphs, ErrorsAreOriginal
<1> QED BY <1>7, <1>8, <1>9, <1>16, <1>18, <1>19, <1>20 DEF IndInv

LEMMA ReturnInd ==
    ASSUME IndInv, Return PROVE IndInv'
<1>1. /\ completed = Jobs /\ received = 2
      /\ \A j \in Jobs : outcome[j] # "none"
    BY DEF IndInv, TypeOK, ReceiptsCounted, Return
<1>2. /\ UNCHANGED <<ctx, running, results, received, outcome, completed, cancelled>>
      /\ jobCtx' = [j \in Jobs |-> IF jobCtx[j] = "live" THEN "returned" ELSE jobCtx[j]]
      /\ reply' = IF ctx = "done" THEN "client_gone" ELSE IF Original = {} THEN "graphs" ELSE "failed"
      /\ reported' = IF ctx = "done" THEN {} ELSE Original
    BY DEF Return
<1>3. \A j \in Jobs : Other(j) \in Jobs
    BY DEF Jobs, Other
<1>4. TypeOK'
    BY <1>2 DEF IndInv, TypeOK, Original, Jobs
<1>5. (JobsAccounted /\ ReceiptsCounted /\ MarksSpareTheCause)'
    BY <1>1, <1>2 DEF IndInv, JobsAccounted, ReceiptsCounted, MarksSpareTheCause, IsFailure
<1>6. CausesTrue'
  <2>1. \A j \in Jobs : jobCtx[j] \in ContextErrors => jobCtx'[j] = jobCtx[j]
      BY <1>2 DEF ContextErrors
  <2>2. \A j \in Jobs : jobCtx'[j] \in ContextErrors => jobCtx'[j] = jobCtx[j]
      BY <1>2 DEF ContextErrors
  <2>3. \A i \in 1..Len(results) : results[i].order \in Jobs
      BY ReportsTyped
  <2> QED BY <2>1, <2>2, <2>3, <1>2 DEF IndInv, CausesTrue, ContextErrors
<1>7. FailureStops'
    BY <1>1, <1>2 DEF FailureStops
<1>8. SuccessMeansBothGraphs'
  <2> SUFFICES ASSUME ctx # "done", Original = {}, NEW j \in Jobs PROVE outcome[j] = "graph"
      BY <1>2 DEF SuccessMeansBothGraphs
  <2>1. j \notin cancelled
      BY <1>3 DEF IndInv, MarksSpareTheCause, Original
  <2>2. ~IsFailure(outcome[j])
      BY <2>1 DEF Original
  <2> QED BY <2>2, <1>1 DEF IsFailure
<1>9. ErrorsAreOriginal'
  <2> SUFFICES ASSUME ctx # "done", Original # {}, NEW j \in Original PROVE outcome[j] \in OwnFailures
      BY <1>2 DEF ErrorsAreOriginal
  <2>1. j \in Jobs /\ IsFailure(outcome[j]) /\ j \notin cancelled
      BY DEF Original
  <2>2. outcome[j] \notin ContextErrors
      BY <2>1 DEF IndInv, CausesTrue, ContextErrors
  <2> QED BY <2>1, <2>2 DEF IndInv, TypeOK, IsFailure
<1> QED BY <1>4, <1>5, <1>6, <1>7, <1>8, <1>9 DEF IndInv

LEMMA ContextDoneInd ==
    ASSUME IndInv, ContextDone PROVE IndInv'
<1>1. /\ UNCHANGED <<running, results, received, outcome, completed, cancelled, reply, reported>>
      /\ ctx' = "done"
      /\ jobCtx' = [j \in Jobs |-> IF jobCtx[j] = "live" THEN "client" ELSE jobCtx[j]]
    BY DEF ContextDone
<1>2. TypeOK'
    BY <1>1 DEF IndInv, TypeOK, ContextErrors
<1>3. (JobsAccounted /\ ReceiptsCounted /\ MarksSpareTheCause)'
    BY <1>1 DEF IndInv, JobsAccounted, ReceiptsCounted, MarksSpareTheCause, IsFailure
<1>4. CausesTrue'
  <2>1. \A j \in Jobs : jobCtx[j] \in ContextErrors => jobCtx'[j] = jobCtx[j]
      BY <1>1 DEF ContextErrors
  <2>2. \A i \in 1..Len(results) : results[i].order \in Jobs
      BY ReportsTyped
  <2> QED BY <2>1, <2>2, <1>1 DEF IndInv, CausesTrue, ContextErrors
<1>5. FailureStops'
    BY <1>1 DEF IndInv, FailureStops, IsFailure
<1>6. (SuccessMeansBothGraphs /\ ErrorsAreOriginal)'
    BY <1>1 DEF IndInv, SuccessMeansBothGraphs, ErrorsAreOriginal
<1> QED BY <1>2, <1>3, <1>4, <1>5, <1>6 DEF IndInv

LEMMA StutterInd ==
    ASSUME IndInv, UNCHANGED vars PROVE IndInv'
BY DEF vars, IndInv, TypeOK, JobsAccounted, ReceiptsCounted, MarksSpareTheCause, CausesTrue,
       FailureStops, SuccessMeansBothGraphs, ErrorsAreOriginal, IsFailure

\* The invariant is inductive.
THEOREM IndInvHolds == Spec => []IndInv
<1>1. Init => IndInv
    BY InitInd
<1>2. IndInv /\ [Next]_vars => IndInv'
    BY JobInd, ReceiveInd, ReturnInd, ContextDoneInd, StutterInd DEF Next, Caller, Quiescent
<1> QED BY <1>1, <1>2, PTL DEF Spec

\* fetchTargetGraphs returns success only with both graphs.
THEOREM SuccessIsComplete == Spec => []SuccessMeansBothGraphs
<1>1. IndInv => SuccessMeansBothGraphs
    BY DEF IndInv
<1> QED BY <1>1, IndInvHolds, PTL

\* An error it returns names at least one failure, and no induced cancellation.
THEOREM ErrorsNameFailures == Spec => []ErrorsAreOriginal
<1>1. IndInv => ErrorsAreOriginal
    BY DEF IndInv
<1> QED BY <1>1, IndInvHolds, PTL

\* No goroutine and no report outlives the call.
THEOREM FetchLeavesNothing == Spec => []NothingLeftBehind
<1>1. IndInv => NothingLeftBehind
  <2> SUFFICES ASSUME IndInv, reply # "waiting" PROVE running = {} /\ results = << >>
      BY DEF NothingLeftBehind
  <2>1. completed = Jobs
      BY DEF IndInv, ReceiptsCounted
  <2>2. running = {}
      BY <2>1 DEF IndInv, TypeOK, JobsAccounted
  <2>3. \A i \in 1..Len(results) : results[i].order \in Jobs
      BY ReportsTyped
  <2>4. results \in Seq(Reports) /\ Len(results) = 0
      BY <2>1, <2>3 DEF IndInv, TypeOK, JobsAccounted
  <2> QED BY <2>2, <2>4
<1> QED BY <1>1, IndInvHolds, PTL

\* A fetch is cancelled for its sibling's sake only when the sibling has failed,
\* and then without exception.
THEOREM CancellationIsJustified == Spec => []SiblingCancelJustified
<1>1. IndInv => SiblingCancelJustified
    BY DEF IndInv, CausesTrue, MarksSpareTheCause, FailureStops, SiblingCancelJustified
<1> QED BY <1>1, IndInvHolds, PTL
=============================================================================
