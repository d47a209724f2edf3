----------------------- MODULE MCAsyncEventDispatcher -----------------------
(* AsyncEventDispatcher for TLC: callbacks and port handles are symmetric. *)
EXTENDS AsyncEventDispatcher, TLC

(* A broken ring is followed for a few calls and takes only. *)
BrokenBound == broken => calls + head <= 3

Symmetry == Permutations(Producers) \cup Permutations(Ports)
=============================================================================
