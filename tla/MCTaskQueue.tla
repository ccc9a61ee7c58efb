---------------------------- MODULE MCTaskQueue ----------------------------
(* TaskQueue on small instances. *)
EXTENDS TaskQueue, TLC

\* Runs and requests are interchangeable slots: sound for the safety runs.
Symmetry == Permutations(Runs) \cup Permutations(Requests)
=============================================================================
