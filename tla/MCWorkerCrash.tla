--------------------------- MODULE MCWorkerCrash ---------------------------
(* Bounds of WorkerCrash for TLC: two workers crash, in either flavor.       *)
EXTENDS WorkerCrash
=============================================================================
