---------------------------- MODULE MCWorkerPool ----------------------------
(* The instances of WorkerPool for TLC; their constants are in the .cfg files. *)
EXTENDS WorkerPool
=============================================================================
