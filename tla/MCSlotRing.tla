----------------------------- MODULE MCSlotRing -----------------------------
(***************************************************************************)
(* SlotRing for TLC: constraints and symmetry.                             *)
(***************************************************************************)
EXTENDS SlotRing, TLC

(* What holds until the first fault is checked without going on after it, *)
(* or until the worker has given up the stuck slot that was the fault.    *)
UntilFault == fault = "none"
UntilGivenUp == fault = "none" \/ consumer = "poison"

ProducerSymmetry == Permutations(Writers)
=============================================================================
