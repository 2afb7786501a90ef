------------------------- MODULE MCWorkerTelemetry -------------------------
(* Instances of WorkerTelemetry, with the refinement of JobQueue, for TLC. *)
EXTENDS WorkerTelemetry, JobQueueRefinement, TLC

CONSTANTS u1, w1, r1

OneUser    == {u1}
OneWorker  == {w1}
OneRequest == {r1}
Nobody     == {}

\* The first job to commit was created after the second.
FirstTwoSwapped == <<2, 1, 3>>
=============================================================================
