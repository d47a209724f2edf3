------------------------- MODULE MCDriverLifecycle -------------------------
(* DriverLifecycle for TLC: the paths share the first bucket. *)
EXTENDS DriverLifecycle

MCHashIndex == [p \in Paths |-> 0]
=============================================================================
