---------------------------- MODULE MCWorkerPool ----------------------------
(* WorkerPool on small instances. *)
EXTENDS WorkerPool
=============================================================================
