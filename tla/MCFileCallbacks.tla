-------------------------- MODULE MCFileCallbacks --------------------------
(* FileCallbacks for TLC: threads are interchangeable. *)
EXTENDS FileCallbacks, TLC

ThreadSymmetry == Permutations(Threads)
=============================================================================
