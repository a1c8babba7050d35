---------------------------- MODULE MCChangeQueue ----------------------------
(* Instances of ChangeQueue.                                                 *)
EXTENDS ChangeQueue, TLC

QueueSymmetry == Permutations(Requests) \cup Permutations(Procs) \cup Permutations(Rows)
=============================================================================
