--------------------------- MODULE MCProcessCache ---------------------------
(* ProcessCache for TLC: pool blocks are symmetric. *)
EXTENDS ProcessCache, TLC

BlockSymmetry == Permutations(Blocks)
=============================================================================
