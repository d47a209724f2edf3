----------------------------- MODULE SlotQueue -----------------------------
(***************************************************************************)
(* What the event ring of the driver promises its users, whatever its      *)
(* layout in memory: a queue of events that many producers claim room in,  *)
(* each publishes its own entry when the payload is in place, and one      *)
(* consumer takes the oldest entry once it is published.                   *)
(*                                                                         *)
(* The promise holds until the queue breaks: once broken is TRUE nothing   *)
(* is said about the entries any more.  SlotRing is shown to implement     *)
(* this specification with broken mapped to the events at which the code   *)
(* of the ring leaves it.                                                  *)
(***************************************************************************)
EXTENDS Naturals

CONSTANTS Events,   \* the events that are enqueued
          NoEvent   \* content of the send buffer before the first take

VARIABLES
  queue,    \* claimed entries: [at, ev, ready], the oldest has the least at
  sendBuf,  \* the event taken last
  broken    \* the ring has lost track of its entries

vars == <<queue, sendBuf, broken>>

(* The queue starts empty. *)
Init == queue = {} /\ sendBuf = NoEvent /\ broken = FALSE

(* A producer reserves a place behind every entry for its event. *)
Claim ==
  /\ \E x \in queue' :
       /\ x.ev \in Events /\ ~x.ready
       /\ \A y \in queue : y.at < x.at
       /\ queue' = queue \cup {x}
  /\ UNCHANGED <<sendBuf, broken>>

(* The owner of an entry publishes it; others may still be unpublished. *)
Publish(x) ==
  /\ ~x.ready
  /\ queue' = (queue \ {x}) \cup {[x EXCEPT !.ready = TRUE]}
  /\ UNCHANGED <<sendBuf, broken>>

(* The consumer takes the oldest entry, and only when it is published. *)
Take(x) ==
  /\ x.ready
  /\ \A y \in queue : x.at <= y.at
  /\ queue' = queue \ {x}
  /\ sendBuf' = x.ev
  /\ UNCHANGED broken

Break == broken' = TRUE

Next ==
  \/ Claim
  \/ \E x \in queue : Publish(x) \/ Take(x)
  \/ Break

Spec == Init /\ [][Next]_vars
=============================================================================
