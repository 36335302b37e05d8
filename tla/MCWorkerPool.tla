---------------------------- MODULE MCWorkerPool ----------------------------
(* Small instances of WorkerPool for TLC. *)
EXTENDS WorkerPool

CONSTANT stranger   \* a request for a remote that is not configured

ConfiguredRequests == Requests \ {stranger}
=============================================================================
