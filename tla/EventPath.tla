----------------------------- MODULE EventPath -----------------------------
(***************************************************************************)
(* The way of an event from the driver to the subscribers: file events     *)
(* wait in the dispatcher's ring, process events are sent at once by       *)
(* OnProcessNotify, the communicator's workers parse and queue what        *)
(* arrives, the event loops of MonitoringService publish it.  The queues   *)
(* in between are sequences here; SlotRing, FilterPortCommunicator and     *)
(* ThreadSafeQueue model them.  The dispatcher's ring may refuse an event  *)
(* and may break, as SlotRing shows; the events of a broken ring, stuck,   *)
(* skipped or misread, are astray, and not followed any further.           *)
(***************************************************************************)
EXTENDS EventCodec, Sequences, FiniteSets

Members(s) == {s[i] : i \in DOMAIN s}

CONSTANTS
  Workers,      \* IOCP worker threads
  Loops,        \* event loops of MonitoringService
  QueueCapacity,\* capacity of event_queue_
  MaxEvents,    \* bound on the events that happen
  Happenings,   \* the events that may happen
  Nothing       \* a thread that holds no event

ASSUME EventPathAssumption ==
  /\ IsFiniteSet(Workers) /\ IsFiniteSet(Loops) /\ QueueCapacity \in Nat \ {0}
  /\ MaxEvents \in Nat /\ Happenings \subseteq Events
  /\ Nothing \notin [id : Nat, message : Messages] \cup [id : Nat, data : Data]

VARIABLES
  happened,   \* what happened, in order; an event is its place in it
  ring,       \* file events the dispatcher is to send
  broken,     \* whether the ring has lost the places of its slots
  packets,    \* messages in the completion port
  worker,     \* the message each worker handles
  queue,      \* event_queue_: parsed events
  loop,       \* the event each loop handles
  published,  \* what was published, in order, and on which stream
  lost,       \* what was lost, and why
  together    \* history: pairs of events two threads held at the same time

vars == <<happened, ring, broken, packets, worker, queue, loop, published, lost, together>>

Ids == 1..Len(happened)
Sent == [id : Ids, message : Messages]
Losses == {"overflow", "refused", "astray", "too long", "not taken", "queue full"}
Parsed == [id : Ids, data : Data]

Init ==
  /\ happened = << >> /\ ring = << >> /\ broken = FALSE /\ packets = << >> /\ queue = << >>
  /\ worker = [w \in Workers |-> Nothing]
  /\ loop = [l \in Loops |-> Nothing]
  /\ published = << >> /\ lost = {} /\ together = {}

Lose(i, why) == lost' = lost \cup {[id |-> i, why |-> why]}

----------------------------------------------------------------------------
(* The driver *)

(* Enqueue serializes a file event whose paths the context holds.  It is   *)
(* refused while the dispatcher is inactive and when the ring has no room. *)
(* What an image path that leaves the context overwrites is not modelled.  *)
FileEvent(e) ==
  LET m == [id |-> Len(happened) + 1, message |-> Serialize(Populate(e))] IN
  /\ Len(happened) < MaxEvents /\ e.type \in FileTypes
  /\ e.processPath.len <= ContextRoom
  /\ happened' = Append(happened, [e EXCEPT !.filePath = Capture(@)])
  /\ IF m.message.buffer.overflow
     THEN Lose(m.id, "overflow") /\ UNCHANGED ring
     ELSE \/ Lose(m.id, "refused") /\ UNCHANGED ring
          \/ broken /\ Lose(m.id, "astray") /\ UNCHANGED ring
          \/ ~broken /\ ring' = Append(ring, m) /\ UNCHANGED lost
  /\ UNCHANGED <<broken, packets, worker, queue, loop, published, together>>

(* The ring is filled to its last unit, a stuck slot is skipped, or a tail *)
(* without a header is read as a slot.                                     *)
RingBreaks ==
  /\ ~broken
  /\ broken' = TRUE
  /\ ring' = << >>
  /\ lost' = lost \cup {[id |-> m.id, why |-> "astray"] : m \in Members(ring)}
  /\ UNCHANGED <<happened, packets, worker, queue, loop, published, together>>

(* FltSendMessage: the message reaches the completion port, is longer than *)
(* the buffer that waits for it, or finds nobody waiting in time.          *)
Deliver(m) ==
  \/ IF Fits(m.message)
     THEN packets' = Append(packets, m) /\ UNCHANGED lost
     ELSE Lose(m.id, "too long") /\ UNCHANGED packets
  \/ Lose(m.id, "not taken") /\ UNCHANGED packets

(* The dispatcher's worker sends the oldest event. *)
SendMessage ==
  /\ ring # << >>
  /\ ring' = Tail(ring)
  /\ Deliver(Head(ring))
  /\ UNCHANGED <<happened, broken, worker, queue, loop, published, together>>

(* OnProcessNotify serializes and sends in the callback. *)
ProcessEvent(e) ==
  LET m == [id |-> Len(happened) + 1, message |-> Serialize(e)] IN
  /\ Len(happened) < MaxEvents /\ e.type \in ProcessTypes
  /\ happened' = Append(happened, e)
  /\ IF m.message.buffer.overflow
     THEN Lose(m.id, "overflow") /\ UNCHANGED packets
     ELSE Deliver(m)
  /\ UNCHANGED <<ring, broken, worker, queue, loop, published, together>>

----------------------------------------------------------------------------
(* The service *)

Held ==
  {x.id : x \in ({worker[w] : w \in Workers} \cup {loop[l] : l \in Loops}) \ {Nothing}}
Meet(i) == together' = together \cup {{i, j} : j \in Held}

Dequeue(w) ==
  /\ worker[w] = Nothing /\ packets # << >>
  /\ worker' = [worker EXCEPT ![w] = Head(packets)]
  /\ packets' = Tail(packets)
  /\ Meet(Head(packets).id)
  /\ UNCHANGED <<happened, ring, broken, queue, loop, published, lost>>

(* ProcessCompletedIO: the event is pushed when there is room within 10    *)
(* ms, and dropped otherwise.  SendReply answers a driver that asked for   *)
(* no reply: it changes nothing, and its result is not looked at.          *)
ProcessCompletedIO(w) ==
  LET m == worker[w] IN
  /\ m # Nothing
  /\ IF Len(queue) < QueueCapacity
     THEN queue' = Append(queue, [id |-> m.id, data |-> Parse(m.message)]) /\ UNCHANGED lost
     ELSE Lose(m.id, "queue full") /\ UNCHANGED queue
  /\ worker' = [worker EXCEPT ![w] = Nothing]
  /\ UNCHANGED <<happened, ring, broken, packets, loop, published, together>>

(* Mutant: the queue is emptied from its end. *)
ReceiveNewest(l) ==
  /\ loop[l] = Nothing /\ queue # << >>
  /\ loop' = [loop EXCEPT ![l] = queue[Len(queue)]]
  /\ queue' = SubSeq(queue, 1, Len(queue) - 1)
  /\ Meet(queue[Len(queue)].id)
  /\ UNCHANGED <<happened, ring, broken, packets, worker, published, lost>>

ReceiveEvent(l) ==
  /\ loop[l] = Nothing /\ queue # << >>
  /\ loop' = [loop EXCEPT ![l] = Head(queue)]
  /\ queue' = Tail(queue)
  /\ Meet(Head(queue).id)
  /\ UNCHANGED <<happened, ring, broken, packets, worker, published, lost>>

(* ProcessEvent of MonitoringService: Enrich changes nothing.  Publish     *)
(* goes by event.type, which neither Event() nor Parse sets: it may be     *)
(* anything.                                                               *)
Publish(l) ==
  /\ loop[l] # Nothing
  /\ \E stream \in {"alert", "log"} :
       published' = Append(published, [id |-> loop[l].id, stream |-> stream,
                                       report |-> Convert(loop[l].data)])
  /\ loop' = [loop EXCEPT ![l] = Nothing]
  /\ UNCHANGED <<happened, ring, broken, packets, worker, queue, lost, together>>

Next ==
  \/ \E e \in Happenings : FileEvent(e) \/ ProcessEvent(e)
  \/ SendMessage \/ RingBreaks
  \/ \E w \in Workers : Dequeue(w) \/ ProcessCompletedIO(w)
  \/ \E l \in Loops : ReceiveEvent(l) \/ Publish(l)

Spec == Init /\ [][Next]_vars

----------------------------------------------------------------------------
TypeOK ==
  /\ \A i \in Ids : happened[i] \in Events
  /\ \A x \in Members(ring) \cup Members(packets) : x \in Sent
  /\ \A w \in Workers : worker[w] = Nothing \/ worker[w] \in Sent
  /\ \A x \in Members(queue) : x \in Parsed
  /\ Len(queue) <= QueueCapacity
  /\ \A l \in Loops : loop[l] = Nothing \/ loop[l] \in Parsed
  /\ lost \subseteq [id : Ids, why : Losses]
  /\ broken \in BOOLEAN /\ (broken => ring = << >>)

Places(i) ==
  <<{k \in DOMAIN ring : ring[k].id = i}, {k \in DOMAIN packets : packets[k].id = i},
    {w \in Workers : worker[w] # Nothing /\ worker[w].id = i}, {k \in DOMAIN queue : queue[k].id = i},
    {l \in Loops : loop[l] # Nothing /\ loop[l].id = i},
    {k \in DOMAIN published : published[k].id = i}, {x \in lost : x.id = i}>>

(* An event is published once or lost once, or is on its way in one place: *)
(* no thread hands it on twice or forgets it.                              *)
OnePlace ==
  \A i \in Ids : \E k \in 1..7 :
    /\ Cardinality(Places(i)[k]) = 1
    /\ \A j \in 1..7 \ {k} : Places(i)[j] = {}

(* What is published is what happened: operation, process, paths and       *)
(* command line come out of the two serializers, the message layout, the   *)
(* parser and the conversion as they went in (a file name cut to what the  *)
(* context holds), and no default event is published in their place.  Only *)
(* the file name is not claimed where an image path overran it.            *)
PublishedIsTrue ==
  \A k \in DOMAIN published :
    LET e == happened[published[k].id]
        r == published[k].report IN
    r = IF Overruns(e) THEN [Report(e) EXCEPT !.resource = r.resource] ELSE Report(e)

(* A file event is never lost for its size, whatever the name of the file  *)
(* and however far the image path overruns it: the buffers of both         *)
(* programs have room for all a context can hold.                          *)
FileEventsFit ==
  \A x \in lost :
    happened[x.id].type \in FileTypes => x.why \notin {"overflow", "too long"}

(* Only events that two threads held at the same time are published out of *)
(* the order in which they were sent; and only a process event comes ahead *)
(* of a file event that happened before it and waited in the ring.         *)
OvertakesOnlyTogether ==
  \A j, k \in DOMAIN published :
    LET a == published[j].id
        b == published[k].id IN
    j < k /\ b < a =>
      \/ {a, b} \in together
      \/ happened[a].type \in ProcessTypes /\ happened[b].type \in FileTypes

(* Every event is accounted for: well typed, in one place, and lost only   *)
(* for a reason that file events cannot give by their size.                *)
EventsAccounted == TypeOK /\ OnePlace /\ FileEventsFit
=============================================================================
