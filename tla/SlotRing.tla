------------------------------ MODULE SlotRing ------------------------------
(***************************************************************************)
(* The byte ring of driver/AsyncEventDispatcher: ProduceSlot, run by any   *)
(* number of file-system callbacks at once, and ConsumeOne, run by the one *)
(* worker thread.                                                          *)
(*                                                                         *)
(* Positions are those of m_writeHead and m_readHead (they only grow; the  *)
(* byte touched is the position modulo the ring size).  The unit is an     *)
(* alignment unit of the ring, so AlignUp is the identity on strides.      *)
(* Every step on shared memory that another thread can come between is an  *)
(* action of its own.  The wait and wake of the worker, the port and the   *)
(* life cycle are in AsyncEventDispatcher.                                 *)
(***************************************************************************)
EXTENDS Integers, FiniteSets

CONSTANTS
  Writers,       \* threads that call Enqueue
  RingSize,      \* ASYNC_RING_BYTES, in alignment units
  HdrSize,       \* AlignUp(sizeof(SlotHeader)), in alignment units
  EventStrides,  \* Stride(size) of the events that are enqueued
  MaxEvents,     \* bound: calls of Enqueue per producer
  MaxHead,       \* bound: the consumer stops past this position
  NoEvent        \* content of m_sendBuf before the first take

Events == Writers \X (1 .. MaxEvents)

ASSUME SizesAssumption ==
  /\ HdrSize \in Nat \ {0}
  /\ RingSize \in Nat \ {0}
  /\ HdrSize <= RingSize \div 4
  /\ EventStrides \subseteq {s \in Nat : s > HdrSize}
  /\ MaxEvents \in Nat
  /\ MaxHead \in Nat
  /\ IsFiniteSet(Writers) /\ NoEvent \notin Events

(* Nothing larger than a quarter of the ring is accepted. *)
MaxStride == RingSize \div 4

Free      == 0
Claimed   == 1
Committed == 2

(* What is read where no header was written: the bytes of some payload.    *)
Junk == -1

(* A SlotHeader: state, flags = PAD_FLAG, claimedTick # 0, the stride (kept *)
(* twice in the code, as payloadBytes and as strideBytes) and the payload. *)
ZeroHdr == [state |-> Free, pad |-> FALSE, ticked |-> FALSE,
            stride |-> HdrSize, ev |-> NoEvent]
JunkHdr == [state |-> Junk, pad |-> FALSE, ticked |-> TRUE,
            stride |-> Junk, ev |-> NoEvent]

Headers ==
  [state : {Free, Claimed, Committed, Junk}, pad : BOOLEAN, ticked : BOOLEAN,
   stride : HdrSize .. MaxStride \cup {Junk}, ev : Events \cup {NoEvent}]

VARIABLES
  writeHead, readHead,
  ring,      \* what SlotAt(offset) finds at each offset
  pc,        \* where each producer is in ProduceSlot
  enqueues,  \* calls of Enqueue made so far
  stride,    \* local stride of each producer
  cur,       \* local cur, then claimed
  consumer,  \* where the worker is in ConsumeOne
  advance,   \* local stride of the worker
  sendBuf,   \* m_sendBuf
  count,     \* m_enqueued, m_dropped, m_poisoned
  hadRoom,   \* history: the ring had room for the event of each producer
             \* when that producer last read m_writeHead
  live,      \* history: slots claimed and not passed by the worker
  fault      \* history: the first event at which the ring lost its slots

pvars == <<pc, enqueues, stride, cur, hadRoom>>
cvars == <<consumer, advance, sendBuf>>
slotVars == <<writeHead, readHead, ring, pvars, cvars, count, live, fault>>

Offsets == 0 .. RingSize - 1
Off(pos) == pos % RingSize
SpaceToEnd(pos) == RingSize - Off(pos)

(* The masked difference both sides use for the bytes in use. *)
Used(w, r) == (w - r) % RingSize

Slots == [pos : Nat, len : Nat, by : Writers, ev : Events \cup {NoEvent}]

PadPcs  == {"padMark", "padFill", "padCommit"}
SlotPcs == {"mark", "stamp", "fill", "commit"}
Pcs == {"idle", "load", "check", "cas"} \cup PadPcs \cup SlotPcs

RingTypeOK ==
  /\ writeHead \in Nat /\ readHead \in Nat
  /\ ring \in [Offsets -> Headers]
  /\ pc \in [Writers -> Pcs]
  /\ enqueues \in [Writers -> 0 .. MaxEvents]
  /\ stride \in [Writers -> Nat]
  /\ cur \in [Writers -> Nat]
  /\ hadRoom \in [Writers -> BOOLEAN]
  /\ consumer \in {"scan", "poison", "advance"}
  /\ advance \in Nat
  /\ sendBuf \in Events \cup {NoEvent}
  /\ count \in [enqueued : Nat, dropped : Nat, poisoned : Nat]
  /\ live \in SUBSET Slots
  /\ fault \in {"none", "full", "fragment", "unpublished", "poison"}

RingInit ==
  /\ writeHead = 0 /\ readHead = 0
  /\ ring = [o \in Offsets |-> ZeroHdr]
  /\ pc = [p \in Writers |-> "idle"]
  /\ enqueues = [p \in Writers |-> 0]
  /\ stride = [p \in Writers |-> 0]
  /\ cur = [p \in Writers |-> 0]
  /\ hadRoom = [p \in Writers |-> TRUE]
  /\ consumer = "scan" /\ advance = 0 /\ sendBuf = NoEvent
  /\ count = [enqueued |-> 0, dropped |-> 0, poisoned |-> 0]
  /\ live = {} /\ fault = "none"

-----------------------------------------------------------------------------
(* Producers: ProduceSlot. *)

StepTo(p, l) == pc' = [pc EXCEPT ![p] = l]
Drop == count' = [count EXCEPT !.dropped = @ + 1]

MyEvent(p) == <<p, enqueues[p]>>
SetHdr(p, h) == ring' = [ring EXCEPT ![Off(cur[p])] = h]
MyHdr(p) == ring[Off(cur[p])]

(* Mutant: the refusal is not counted. *)
ProduceTooLargeUncounted(p) ==
  /\ pc[p] = "idle" /\ enqueues[p] < MaxEvents
  /\ \E s \in EventStrides : s > MaxStride
  /\ enqueues' = [enqueues EXCEPT ![p] = @ + 1]
  /\ UNCHANGED <<writeHead, readHead, ring, pc, stride, cur, hadRoom, cvars,
                 count, live, fault>>

(* Refusal of an event whose stride exceeds a quarter of the ring. *)
ProduceTooLarge(p) ==
  /\ pc[p] = "idle" /\ enqueues[p] < MaxEvents
  /\ \E s \in EventStrides : s > MaxStride
  /\ enqueues' = [enqueues EXCEPT ![p] = @ + 1]
  /\ Drop
  /\ UNCHANGED <<writeHead, readHead, ring, pc, stride, cur, hadRoom, cvars,
                 live, fault>>

(* The free space of the ring when its masked size is not ambiguous. *)
FreeUnits == RingSize - (writeHead - readHead)

(* History: whether the ring has room for an event of stride s right now. *)
SeeRoom(p, s) == hadRoom' = [hadRoom EXCEPT ![p] = s <= FreeUnits]

(* Entry of the loop with an event that fits; cur = m_writeHead. *)
ProduceEnter(p) ==
  /\ pc[p] = "idle" /\ enqueues[p] < MaxEvents
  /\ \E s \in EventStrides :
       /\ s <= MaxStride
       /\ stride' = [stride EXCEPT ![p] = s]
       /\ SeeRoom(p, s)
  /\ enqueues' = [enqueues EXCEPT ![p] = @ + 1]
  /\ cur' = [cur EXCEPT ![p] = writeHead]
  /\ StepTo(p, "check")
  /\ UNCHANGED <<writeHead, readHead, ring, cvars, count, live, fault>>

(* Next round of the loop after a lost race or after padding. *)
ProduceLoad(p) ==
  /\ pc[p] = "load"
  /\ cur' = [cur EXCEPT ![p] = writeHead]
  /\ SeeRoom(p, stride[p])
  /\ StepTo(p, "check")
  /\ UNCHANGED <<writeHead, readHead, ring, enqueues, stride, cvars, count,
                 live, fault>>

(* Mutant: the header is counted on top of a stride that includes it. *)
FitsHeaderTwice(p) == stride[p] + HdrSize <= RingSize - Used(cur[p], readHead)

(* The free space seen: m_readHead is read after m_writeHead was. *)
Fits(p) == stride[p] <= RingSize - Used(cur[p], readHead)

ProduceCheck(p) ==
  /\ pc[p] = "check"
  /\ Fits(p)
  /\ StepTo(p, "cas")
  /\ UNCHANGED <<writeHead, readHead, ring, enqueues, stride, cur, hadRoom,
                 cvars, count, live, fault>>

ProduceNoRoom(p) ==
  /\ pc[p] = "check"
  /\ ~Fits(p)
  /\ Drop
  /\ StepTo(p, "idle")
  /\ UNCHANGED <<writeHead, readHead, ring, enqueues, stride, cur, hadRoom,
                 cvars, live, fault>>

(* The interlocked exchange fails: another producer moved m_writeHead. *)
CasFails(p) ==
  /\ pc[p] = "cas"
  /\ writeHead # cur[p]
  /\ StepTo(p, "load")
  /\ UNCHANGED <<writeHead, readHead, ring, enqueues, stride, cur, hadRoom,
                 cvars, count, live, fault>>

(* History: slot s becomes live, unless the ring broke before or breaks    *)
(* here, by filling up to the last unit or by leaving a tail too short for *)
(* a header.                                                               *)
FaultOnClaim(len) ==
  IF fault # "none" THEN fault
  ELSE IF writeHead + len - readHead = RingSize THEN "full"
  ELSE IF len < HdrSize THEN "fragment"
  ELSE "none"

(* Mutant: m_writeHead is stored without comparing it first. *)
ClaimWithoutCompare(p, len, e) ==
  /\ writeHead' = cur[p] + len
  /\ fault' = FaultOnClaim(len)
  /\ live' = IF fault' # "none" THEN {}
             ELSE live \cup {[pos |-> cur[p], len |-> len, by |-> p, ev |-> e]}

Claim(p, len, e) ==
  /\ writeHead = cur[p]
  /\ writeHead' = cur[p] + len
  /\ fault' = FaultOnClaim(len)
  /\ live' = IF fault' # "none" THEN {}
             ELSE live \cup {[pos |-> cur[p], len |-> len, by |-> p, ev |-> e]}

(* The slot does not fit before the end of the ring: claim the rest of the *)
(* lap, and make it a padding slot if a header fits in it.                 *)
CasWrap(p) ==
  /\ pc[p] = "cas"
  /\ stride[p] > SpaceToEnd(cur[p])
  /\ Claim(p, SpaceToEnd(cur[p]), NoEvent)
  /\ StepTo(p, IF SpaceToEnd(cur[p]) >= HdrSize THEN "padMark" ELSE "load")
  /\ UNCHANGED <<readHead, ring, enqueues, stride, cur, hadRoom, cvars, count>>

CasClaim(p) ==
  /\ pc[p] = "cas"
  /\ stride[p] <= SpaceToEnd(cur[p])
  /\ Claim(p, stride[p], MyEvent(p))
  /\ StepTo(p, "mark")
  /\ UNCHANGED <<readHead, ring, enqueues, stride, cur, hadRoom, cvars, count>>

PadMark(p) ==
  /\ pc[p] = "padMark"
  /\ SetHdr(p, [MyHdr(p) EXCEPT !.state = Claimed])
  /\ StepTo(p, "padFill")
  /\ UNCHANGED <<writeHead, readHead, enqueues, stride, cur, hadRoom, cvars,
                 count, live, fault>>

PadFill(p) ==
  /\ pc[p] = "padFill"
  /\ SetHdr(p, [MyHdr(p) EXCEPT !.pad = TRUE, !.ticked = FALSE,
                                !.stride = SpaceToEnd(cur[p])])
  /\ StepTo(p, "padCommit")
  /\ UNCHANGED <<writeHead, readHead, enqueues, stride, cur, hadRoom, cvars,
                 count, live, fault>>

(* Mutant: the padding slot is left claimed. *)
PadCommitForgotten(p) ==
  /\ pc[p] = "padCommit"
  /\ StepTo(p, "load")
  /\ UNCHANGED <<writeHead, readHead, ring, enqueues, stride, cur, hadRoom,
                 cvars, count, live, fault>>

PadCommit(p) ==
  /\ pc[p] = "padCommit"
  /\ SetHdr(p, [MyHdr(p) EXCEPT !.state = Committed])
  /\ StepTo(p, "load")
  /\ UNCHANGED <<writeHead, readHead, enqueues, stride, cur, hadRoom, cvars,
                 count, live, fault>>

SlotMark(p) ==
  /\ pc[p] = "mark"
  /\ SetHdr(p, [MyHdr(p) EXCEPT !.state = Claimed])
  /\ StepTo(p, "stamp")
  /\ UNCHANGED <<writeHead, readHead, enqueues, stride, cur, hadRoom, cvars,
                 count, live, fault>>

SlotStamp(p) ==
  /\ pc[p] = "stamp"
  /\ SetHdr(p, [MyHdr(p) EXCEPT !.ticked = TRUE])
  /\ StepTo(p, "fill")
  /\ UNCHANGED <<writeHead, readHead, enqueues, stride, cur, hadRoom, cvars,
                 count, live, fault>>

(* Header fields and payload; the bytes behind the header hold no header.  *)
SlotFill(p) ==
  /\ pc[p] = "fill"
  /\ ring' = [o \in Offsets |->
       IF o = Off(cur[p])
       THEN [MyHdr(p) EXCEPT !.pad = FALSE, !.stride = stride[p],
                             !.ev = MyEvent(p)]
       ELSE IF o \in Off(cur[p]) .. Off(cur[p]) + stride[p] - 1 THEN JunkHdr
       ELSE ring[o]]
  /\ StepTo(p, "commit")
  /\ UNCHANGED <<writeHead, readHead, enqueues, stride, cur, hadRoom, cvars,
                 count, live, fault>>

SlotCommit(p) ==
  /\ pc[p] = "commit"
  /\ SetHdr(p, [MyHdr(p) EXCEPT !.state = Committed])
  /\ count' = [count EXCEPT !.enqueued = @ + 1]
  /\ StepTo(p, "idle")
  /\ UNCHANGED <<writeHead, readHead, enqueues, stride, cur, hadRoom, cvars,
                 live, fault>>

-----------------------------------------------------------------------------
(* The worker: ConsumeOne. *)

Pending == Used(writeHead, readHead) # 0

(* The headers the worker may read at h: a junk field can hold anything.   *)
Readings(h) ==
  {r \in [state : {Free, Claimed, Committed}, stride : HdrSize .. MaxStride] :
     /\ h.state # Junk => r.state = h.state
     /\ h.stride # Junk => r.stride = h.stride}

AtHead == ring[Off(readHead)]

(* History: the slot at the read head has been published by its owner.     *)
InFlight(s) == pc[s.by] \in PadPcs \cup SlotPcs /\ cur[s.by] = s.pos
Published == \E s \in live : s.pos = readHead /\ ~InFlight(s)

(* History: the worker passes the slot at its read head.                   *)
PassHead(f) ==
  /\ fault' = IF fault # "none" THEN fault ELSE f
  /\ live' = IF fault' # "none" THEN {} ELSE {s \in live : s.pos # readHead}

(* Mutant: padding is copied to the send buffer like an event. *)
ConsumeCommittedPadToo ==
  /\ consumer = "scan" /\ Pending
  /\ \E r \in Readings(AtHead) : r.state = Committed /\ advance' = r.stride
  /\ sendBuf' = AtHead.ev
  /\ ring' = [ring EXCEPT ![Off(readHead)].state = Free]
  /\ consumer' = "advance"
  /\ PassHead(IF Published THEN "none" ELSE "unpublished")
  /\ UNCHANGED <<writeHead, readHead, pvars, count>>

(* A committed slot: copy the payload unless it is padding, free it. *)
ConsumeCommitted ==
  /\ consumer = "scan" /\ Pending
  /\ \E r \in Readings(AtHead) : r.state = Committed /\ advance' = r.stride
  /\ sendBuf' = IF AtHead.pad THEN sendBuf ELSE AtHead.ev
  /\ ring' = [ring EXCEPT ![Off(readHead)].state = Free]
  /\ consumer' = "advance"
  /\ PassHead(IF Published THEN "none" ELSE "unpublished")
  /\ UNCHANGED <<writeHead, readHead, pvars, count>>

(* A claimed slot with a tick older than ASYNC_CLAIM_TIMEOUT_MS: the       *)
(* worker decides to skip it.  Time is not modelled: a tick may be old.    *)
ConsumeStuck ==
  /\ consumer = "scan" /\ Pending
  /\ \E r \in Readings(AtHead) : r.state = Claimed /\ advance' = r.stride
  /\ AtHead.ticked
  /\ consumer' = "poison"
  /\ PassHead("poison")
  /\ UNCHANGED <<writeHead, readHead, ring, pvars, sendBuf, count>>

(* Zero the skipped bytes up to the end of the ring. *)
ConsumePoison ==
  /\ consumer = "poison"
  /\ ring' = [o \in Offsets |->
       IF o \in Off(readHead) .. Off(readHead) + advance - 1
       THEN ZeroHdr ELSE ring[o]]
  /\ consumer' = "advance"
  /\ count' = [count EXCEPT !.poisoned = @ + 1]
  /\ UNCHANGED <<writeHead, readHead, pvars, advance, sendBuf, live, fault>>

(* Anything else at the read head is skipped by the least slot. *)
ConsumeFree ==
  /\ consumer = "scan" /\ Pending
  /\ readHead < MaxHead
  /\ \E r \in Readings(AtHead) : r.state = Free
  /\ readHead' = readHead + HdrSize
  /\ PassHead("unpublished")
  /\ UNCHANGED <<writeHead, ring, pvars, cvars, count>>

(* m_readHead moves only after the slot is free. *)
ConsumeAdvance ==
  /\ consumer = "advance"
  /\ readHead < MaxHead
  /\ readHead' = readHead + advance
  /\ consumer' = "scan"
  /\ UNCHANGED <<writeHead, ring, pvars, advance, sendBuf, count, live, fault>>

-----------------------------------------------------------------------------
ProduceSlot(p) ==
  \/ ProduceTooLarge(p) \/ ProduceEnter(p) \/ ProduceLoad(p)
  \/ ProduceCheck(p) \/ ProduceNoRoom(p)
  \/ CasFails(p) \/ CasWrap(p) \/ CasClaim(p)
  \/ PadMark(p) \/ PadFill(p) \/ PadCommit(p)
  \/ SlotMark(p) \/ SlotStamp(p) \/ SlotFill(p) \/ SlotCommit(p)

ConsumeOne ==
  \/ ConsumeCommitted \/ ConsumeStuck \/ ConsumePoison
  \/ ConsumeFree \/ ConsumeAdvance

RingNext == (\E p \in Writers : ProduceSlot(p)) \/ ConsumeOne

RingSpec == RingInit /\ [][RingNext]_slotVars

-----------------------------------------------------------------------------
(* Where the worker will be once the slot it has just freed is passed. *)
WorkerPos == IF consumer = "advance" THEN readHead + advance ELSE readHead

Covers(s, x) == s.pos <= x /\ x < s.pos + s.len

(* Until the first fault, the slots claimed and not yet consumed tile the  *)
(* ring between the worker and m_writeHead without gap or overlap, and they *)
(* never reach around to the worker: the interlocked exchange on           *)
(* m_writeHead, the free-space check and the stride the worker reads back  *)
(* from each header agree on where every slot begins and ends.             *)
SlotsTile ==
  fault = "none" =>
    /\ WorkerPos <= writeHead
    /\ writeHead < readHead + RingSize
    /\ \A s \in live : WorkerPos <= s.pos /\ s.pos + s.len <= writeHead
    /\ \A x \in WorkerPos .. writeHead - 1 :
         \E s \in live : Covers(s, x) /\ \A t \in live : Covers(t, x) => t = s

(* Until the first fault, the header the worker finds at a slot its owner  *)
(* has published is the header that owner wrote: committed, with the       *)
(* stride that was claimed and the event of that call.                     *)
HeadersMatch ==
  fault = "none" =>
    \A s \in live : ~InFlight(s) =>
      LET h == ring[Off(s.pos)]
      IN  /\ h.state = Committed
          /\ h.stride = s.len
          /\ h.pad <=> s.ev = NoEvent
          /\ ~h.pad => h.ev = s.ev

(* Offsets a producer writes to, and those the worker copies from. *)
Cells(pos, len) == {Off(x) : x \in pos .. pos + len - 1}
Writes(p) == IF pc[p] \in SlotPcs THEN Cells(cur[p], stride[p])
             ELSE IF pc[p] \in PadPcs THEN Cells(cur[p], SpaceToEnd(cur[p]))
             ELSE {}
Reads == IF consumer = "advance" THEN Cells(readHead, advance) ELSE {}

(* Until the first fault, two threads never touch the same bytes of the    *)
(* ring: no producer writes where another one writes or where the worker   *)
(* has not finished with a slot.                                           *)
NoSharedBytes ==
  fault = "none" =>
    /\ \A p, q \in Writers : p # q => Writes(p) \cap Writes(q) = {}
    /\ \A p \in Writers : Writes(p) \cap Reads = {}

(* A producer reads m_writeHead and then m_readHead, and others claim,     *)
(* commit and are consumed in between.  Until the first fault, an event    *)
(* that fits the ring is dropped only when the ring had no room for it at  *)
(* the first of the two reads, or when the worker has passed the position  *)
(* read by then, so that the masked difference wraps around and a ring     *)
(* with room looks full.  Room that appears meanwhile never costs an event *)
(* otherwise.                                                              *)
DropNeedsFullOrLapped ==
  [][\A p \in Writers :
       pc[p] = "check" /\ pc'[p] = "idle" /\ fault = "none"
         => ~hadRoom[p] \/ readHead > cur[p]]_slotVars

(* The ring implements the queue of SlotQueue until its first fault: an    *)
(* entry for each live slot that is not padding.                           *)
Fifo == INSTANCE SlotQueue WITH
  queue <- {[at |-> s.pos, ev |-> s.ev, ready |-> ~InFlight(s)] :
              s \in {t \in live : t.ev # NoEvent}},
  broken <- fault # "none"

(* First in, first out, once each and only when published: every step of   *)
(* ProduceSlot and ConsumeOne is a step of SlotQueue.                      *)
RingIsQueue == Fifo!Spec

(* Every call of Enqueue that reached ProduceSlot is counted once, as      *)
(* enqueued or as dropped, when it returns, whatever the worker does to    *)
(* its slot meanwhile.                                                     *)
InProduce == {p \in Writers : pc[p] # "idle"}
Made == {e \in Events : e[2] <= enqueues[e[1]]}

EveryCallCounted ==
  count.enqueued + count.dropped + Cardinality(InProduce) = Cardinality(Made)

-----------------------------------------------------------------------------
(* Every thread that can take a step takes it: producers are kernel        *)
(* threads that are never killed inside a callback, and the worker rescans *)
(* at least every ASYNC_IDLE_TIMEOUT_MS.                                   *)
RingFairness == WF_slotVars(ConsumeOne) /\ \A p \in Writers : WF_slotVars(ProduceSlot(p))

RingFairSpec == RingSpec /\ RingFairness

(* Every slot claimed is passed by the worker, unless the ring breaks: a   *)
(* slow producer delays the slots behind its own and never blocks them for *)
(* ever, and the exchange loop ends.                                       *)
EverySlotPassed ==
  \A p \in Writers : \A n \in 1 .. MaxEvents :
    (\E s \in live : s.ev = <<p, n>>)
      ~> (sendBuf = <<p, n>> \/ fault # "none")

(* The layout of the ring is sound at every moment up to the first fault:  *)
(* the types, the tiling, the headers and the bytes each thread uses.      *)
LayoutSound == RingTypeOK /\ SlotsTile /\ HeadersMatch /\ NoSharedBytes
=============================================================================
