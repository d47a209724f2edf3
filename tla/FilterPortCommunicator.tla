----------------------- MODULE FilterPortCommunicator -----------------------
(***************************************************************************)
(* IOCPFilterPortCommunicator: the user service's end of the filter port.  *)
(* A pool of receive contexts goes round between the kernel, the           *)
(* completion port and the worker threads: a worker dequeues a packet,     *)
(* queues the message it carries for the event loops, replies and submits  *)
(* the context again.  Connect and Disconnect run on the thread of         *)
(* MonitoringService::Start and Stop, here Main; the event loops are       *)
(* joined before Disconnect begins.                                        *)
(***************************************************************************)
EXTENDS Integers, Sequences, FiniteSets

CONSTANTS
  Contexts,     \* the contexts of a full pool
  Workers,      \* IOCP worker threads
  Main,         \* the thread that connects and disconnects
  Operations,   \* concurrent_operations
  QueueSize,    \* capacity of event_queue_
  MaxMessages,  \* bound on the messages the driver sends
  NoContext     \* a null IOContext*

ASSUME CommunicatorAssumption ==
  /\ IsFiniteSet(Contexts) /\ IsFiniteSet(Workers) /\ Main \notin Workers
  /\ Operations \in Nat /\ QueueSize \in Nat \ {0} /\ MaxMessages \in Nat
  /\ NoContext \notin Contexts

Threads == Workers \cup {Main}

(* What a completion packet carries; a posted one has no context. *)
Packets == [ctx : Contexts \cup {NoContext},
            kind : {"message", "failed", "posted"}]
Packet(c, k) == [ctx |-> c, kind |-> k]

VARIABLES
  pc,         \* where each thread is
  held,       \* the context a thread works on
  running,    \* running_
  port, iocp, \* filter_port_ and iocp_handle_ are open
  pool,       \* contexts of context_pool_
  inUse,      \* those with in_use set
  pending,    \* contexts whose FilterGetMessage is pending in the kernel
  cancelled,  \* those among them that CancelIoEx has reached
  late,       \* history: contexts that workers were about to submit then
  packets,    \* the completion port, first in first out
  left,       \* initial receives that Connect has still to submit
  queued,     \* length of event_queue_
  total,      \* total_messages_
  sent, taken, dropped, lost
              \* history: messages the driver sent, that an event loop took,
              \* that found event_queue_ full, that no worker will look at

threadVars == <<pc, held>>
handleVars == <<running, port, iocp>>
poolVars == <<pool, inUse>>
kernelVars == <<pending, cancelled, late>>
countVars == <<queued, total, sent, taken, dropped, lost>>
vars == <<threadVars, handleVars, poolVars, kernelVars, packets, left, countVars>>

TypeOK ==
  /\ pc \in [Threads ->
        {"none", "opened", "initial", "connected", "failed", "cancel", "post",
         "join", "close", "free", "closed",
         "loop", "wait", "push", "reply", "resubmit", "exit",
         "check", "get", "release"}]
  /\ held \in [Threads -> Contexts \cup {NoContext}]
  /\ running \in BOOLEAN /\ port \in BOOLEAN /\ iocp \in BOOLEAN
  /\ pool \subseteq Contexts /\ inUse \subseteq Contexts
  /\ pending \subseteq Contexts /\ cancelled \subseteq Contexts /\ late \subseteq Contexts
  /\ packets \in Seq(Packets)
  /\ left \in 0 .. Operations
  /\ queued \in 0 .. QueueSize
  /\ total \in Nat /\ sent \in 0 .. MaxMessages
  /\ taken \in Nat /\ dropped \in Nat /\ lost \in Nat

Init ==
  /\ pc = [t \in Threads |-> "none"]
  /\ held = [t \in Threads |-> NoContext]
  /\ running = FALSE /\ port = FALSE /\ iocp = FALSE
  /\ pool = {} /\ inUse = {} /\ pending = {} /\ cancelled = {} /\ late = {}
  /\ packets = <<>> /\ left = 0
  /\ queued = 0 /\ total = 0
  /\ sent = 0 /\ taken = 0 /\ dropped = 0 /\ lost = 0

IsConnected == port /\ iocp /\ running

Goto(t, l) == pc' = [pc EXCEPT ![t] = l]
Hold(t, c) == held' = [held EXCEPT ![t] = c]

(* Where a thread goes when it is done with its context. *)
Return(t) == IF t = Main THEN "initial" ELSE "loop"

(* A packet reaches the completion port, if it is still open. *)
Complete(p) == packets' = IF iocp THEN Append(packets, p) ELSE packets

-----------------------------------------------------------------------------
(* Connect. *)

(* The port cannot be opened or the completion port cannot be created. *)
ConnectFails ==
  /\ pc[Main] = "none"
  /\ Goto(Main, "failed")
  /\ UNCHANGED <<held, handleVars, poolVars, kernelVars, packets, left, countVars>>

ConnectOpen ==
  /\ pc[Main] = "none"
  /\ port' = TRUE /\ iocp' = TRUE
  /\ Goto(Main, "opened")
  /\ UNCHANGED <<held, running, poolVars, kernelVars, packets, left, countVars>>

(* A buffer of the pool cannot be allocated.  The call of Disconnect does  *)
(* nothing, because running_ is not set yet.                               *)
PoolFails ==
  /\ pc[Main] = "opened"
  /\ \E some \in SUBSET Contexts : some # Contexts /\ pool' = some
  /\ Goto(Main, "failed")
  /\ UNCHANGED <<held, handleVars, inUse, kernelVars, packets, left, countVars>>

StartWorkers ==
  /\ pc[Main] = "opened"
  /\ pool' = Contexts
  /\ running' = TRUE
  /\ pc' = [t \in Threads |-> IF t = Main THEN "initial" ELSE "loop"]
  /\ left' = Operations
  /\ UNCHANGED <<held, port, iocp, inUse, kernelVars, packets, countVars>>

(* AllocateContext finds a free context, or gives up after its timeout. *)
AllocateContext ==
  /\ pc[Main] = "initial" /\ left > 0
  /\ left' = left - 1
  /\ \/ \E c \in pool \ inUse :
          /\ inUse' = inUse \cup {c}
          /\ Hold(Main, c) /\ Goto(Main, "check")
     \/ /\ pool \subseteq inUse
        /\ UNCHANGED <<inUse, threadVars>>
  /\ UNCHANGED <<handleVars, pool, kernelVars, packets, countVars>>

ConnectReturns ==
  /\ pc[Main] = "initial" /\ left = 0
  /\ Goto(Main, "connected")
  /\ UNCHANGED <<held, handleVars, poolVars, kernelVars, packets, left, countVars>>

-----------------------------------------------------------------------------
(* SubmitReceive and FreeContext, by Main and by the workers. *)

(* Mutant: a receive is submitted whether or not the service still runs. *)
SubmitUnchecked(t) ==
  /\ pc[t] = "check"
  /\ Goto(t, "get")
  /\ UNCHANGED <<held, handleVars, poolVars, kernelVars, packets, left, countVars>>

SubmitCheck(t) ==
  /\ pc[t] = "check"
  /\ Goto(t, IF IsConnected THEN "get" ELSE "release")
  /\ UNCHANGED <<held, handleVars, poolVars, kernelVars, packets, left, countVars>>

(* FilterGetMessage is pending. *)
GetPending(t) ==
  /\ pc[t] = "get"
  /\ pending' = pending \cup {held[t]}
  /\ cancelled' = cancelled \ {held[t]}
  /\ Goto(t, Return(t)) /\ Hold(t, NoContext)
  /\ UNCHANGED <<late, handleVars, poolVars, packets, left, countVars>>

(* It has found a message at once: a packet is posted for it by hand, with *)
(* zero bytes, for which the worker does not look into the buffer.         *)
GetAtOnce(t) ==
  /\ pc[t] = "get"
  /\ sent < MaxMessages
  /\ sent' = sent + 1 /\ lost' = lost + 1
  /\ Complete(Packet(held[t], "posted"))
  /\ Goto(t, Return(t)) /\ Hold(t, NoContext)
  /\ UNCHANGED <<handleVars, poolVars, kernelVars, left, queued, total, taken, dropped>>

GetFails(t) ==
  /\ pc[t] = "get"
  /\ Goto(t, "release")
  /\ UNCHANGED <<held, handleVars, poolVars, kernelVars, packets, left, countVars>>

FreeContext(t) ==
  /\ pc[t] = "release"
  /\ inUse' = inUse \ {held[t]}
  /\ Goto(t, Return(t)) /\ Hold(t, NoContext)
  /\ UNCHANGED <<handleVars, pool, kernelVars, packets, left, countVars>>

SubmitReceive(t) ==
  SubmitCheck(t) \/ GetPending(t) \/ GetAtOnce(t) \/ GetFails(t) \/ FreeContext(t)

-----------------------------------------------------------------------------
(* IOCPWorkerThread. *)

WorkerLoop(w) ==
  /\ pc[w] = "loop"
  /\ Goto(w, IF running THEN "wait" ELSE "exit")
  /\ UNCHANGED <<held, handleVars, poolVars, kernelVars, packets, left, countVars>>

(* GetQueuedCompletionStatus has waited for a second in vain. *)
WaitTimesOut(w) ==
  /\ pc[w] = "wait" /\ packets = <<>>
  /\ Goto(w, "loop")
  /\ UNCHANGED <<held, handleVars, poolVars, kernelVars, packets, left, countVars>>

Dequeue(w) ==
  /\ pc[w] = "wait" /\ packets # <<>>
  /\ packets' = Tail(packets)
  /\ Hold(w, Head(packets).ctx)

DequeueMessage(w) ==
  /\ Dequeue(w) /\ Head(packets).kind = "message"
  /\ total' = total + 1
  /\ Goto(w, "push")
  /\ UNCHANGED <<handleVars, poolVars, kernelVars, left, queued, sent, taken, dropped, lost>>

(* The receive has failed, or the packet was posted by GetAtOnce. *)
DequeueOther(w) ==
  /\ Dequeue(w) /\ Head(packets).kind # "message" /\ Head(packets).ctx # NoContext
  /\ Goto(w, "resubmit")
  /\ UNCHANGED <<handleVars, poolVars, kernelVars, left, countVars>>

(* A packet without a context was posted by Disconnect. *)
DequeueDummy(w) ==
  /\ Dequeue(w) /\ Head(packets).ctx = NoContext
  /\ Goto(w, IF running THEN "loop" ELSE "exit")
  /\ UNCHANGED <<handleVars, poolVars, kernelVars, left, countVars>>

(* TryPush of the event, parsed or empty, for at most 10 ms. *)
PushEvent(w) ==
  /\ pc[w] = "push"
  /\ IF queued < QueueSize
       THEN queued' = queued + 1 /\ UNCHANGED dropped
       ELSE dropped' = dropped + 1 /\ UNCHANGED queued
  /\ Goto(w, "reply")
  /\ UNCHANGED <<held, handleVars, poolVars, kernelVars, packets, left, total, sent, taken, lost>>

SendReply(w) ==
  /\ pc[w] = "reply"
  /\ Goto(w, "resubmit")
  /\ UNCHANGED <<held, handleVars, poolVars, kernelVars, packets, left, countVars>>

(* Mutant: the context is marked free although it is submitted again. *)
ResubmitFrees(w) ==
  /\ pc[w] = "resubmit"
  /\ Goto(w, "check")
  /\ inUse' = inUse \ {held[w]}
  /\ UNCHANGED <<held, handleVars, pool, kernelVars, packets, left, countVars>>

Resubmit(w) ==
  /\ pc[w] = "resubmit"
  /\ IF running
       THEN Goto(w, "check") /\ UNCHANGED held
       ELSE Goto(w, "loop") /\ Hold(w, NoContext)
  /\ UNCHANGED <<handleVars, poolVars, kernelVars, packets, left, countVars>>

IOCPWorkerThread(w) ==
  \/ WorkerLoop(w) \/ WaitTimesOut(w)
  \/ DequeueMessage(w) \/ DequeueOther(w) \/ DequeueDummy(w)
  \/ PushEvent(w) \/ SendReply(w) \/ Resubmit(w)

-----------------------------------------------------------------------------
(* The kernel: the driver sends a message to a pending receive, or the     *)
(* receive fails, by cancellation or because the driver goes away.         *)

ReceiveCompletes(c) ==
  /\ c \in pending /\ sent < MaxMessages /\ port
  /\ pending' = pending \ {c}
  /\ sent' = sent + 1
  /\ lost' = IF iocp THEN lost ELSE lost + 1
  /\ Complete(Packet(c, "message"))
  /\ UNCHANGED <<threadVars, handleVars, poolVars, cancelled, late, left, queued, total, taken, dropped>>

ReceiveFails(c) ==
  /\ c \in pending
  /\ pending' = pending \ {c}
  /\ Complete(Packet(c, "failed"))
  /\ UNCHANGED <<threadVars, handleVars, poolVars, cancelled, late, left, countVars>>

(* ReceiveEvent by an event loop, which runs until Stop has joined it. *)
ReceiveEvent ==
  /\ pc[Main] = "connected" /\ queued > 0
  /\ queued' = queued - 1 /\ taken' = taken + 1
  /\ UNCHANGED <<threadVars, handleVars, poolVars, kernelVars, packets, left, total, sent, dropped, lost>>

-----------------------------------------------------------------------------
(* Disconnect. *)

(* Mutant: running_ stays set. *)
DisconnectRunning ==
  /\ pc[Main] = "connected"
  /\ Goto(Main, "cancel")
  /\ UNCHANGED <<held, handleVars, poolVars, kernelVars, packets, left, countVars>>

Disconnect ==
  /\ pc[Main] = "connected"
  /\ running' = FALSE
  /\ Goto(Main, "cancel")
  /\ UNCHANGED <<held, port, iocp, poolVars, kernelVars, packets, left, countVars>>

CancelIo ==
  /\ pc[Main] = "cancel"
  /\ cancelled' = pending
  /\ late' = {held[w] : w \in {x \in Workers : pc[x] = "get"}}
  /\ Goto(Main, "post")
  /\ UNCHANGED <<held, handleVars, poolVars, pending, packets, left, countVars>>

PostDummies ==
  /\ pc[Main] = "post"
  /\ packets' = packets \o [i \in 1 .. Cardinality(Workers) |-> Packet(NoContext, "posted")]
  /\ Goto(Main, "join")
  /\ UNCHANGED <<held, handleVars, poolVars, kernelVars, left, countVars>>

JoinWorkers ==
  /\ pc[Main] = "join"
  /\ \A w \in Workers : pc[w] = "exit"
  /\ Goto(Main, "close")
  /\ UNCHANGED <<held, handleVars, poolVars, kernelVars, packets, left, countVars>>

Carried(s) == Cardinality({i \in DOMAIN s : s[i].kind = "message"})

CloseHandles ==
  /\ pc[Main] = "close"
  /\ port' = FALSE /\ iocp' = FALSE
  /\ packets' = <<>>
  /\ lost' = lost + Carried(packets)
  /\ Goto(Main, "free")
  /\ UNCHANGED <<held, running, poolVars, kernelVars, left, queued, total, sent, taken, dropped>>

(* The pool is freed and event_queue_ closed. *)
FreePool ==
  /\ pc[Main] = "free"
  /\ pool' = {} /\ inUse' = {}
  /\ Goto(Main, "closed")
  /\ UNCHANGED <<held, handleVars, kernelVars, packets, left, countVars>>

Control ==
  \/ ConnectFails \/ ConnectOpen \/ PoolFails \/ StartWorkers
  \/ AllocateContext \/ ConnectReturns \/ SubmitReceive(Main)
  \/ Disconnect \/ CancelIo \/ PostDummies \/ JoinWorkers \/ CloseHandles
  \/ FreePool

Kernel == \E c \in Contexts : ReceiveCompletes(c) \/ ReceiveFails(c)

Next ==
  \/ Control \/ Kernel \/ ReceiveEvent
  \/ \E w \in Workers : IOCPWorkerThread(w) \/ SubmitReceive(w)

Spec == Init /\ [][Next]_vars

-----------------------------------------------------------------------------
Holders(c) == {t \in Threads : held[t] = c}
InPackets(c) == {i \in DOMAIN packets : packets[i].ctx = c}

(* A context is in one place at a time: pending in the kernel, in one      *)
(* packet of the completion port or with one thread, so that its buffer    *)
(* has one writer; a context that is free is in none of them, and one in   *)
(* use is in one of them as long as the service runs, or a receive would   *)
(* be missing for good.                                                    *)
OnePlaceEach ==
  \A c \in Contexts :
    LET places == Cardinality(Holders(c)) + Cardinality(InPackets(c))
                    + (IF c \in pending THEN 1 ELSE 0)
    IN  /\ places <= 1
        /\ pc[Main] # "closed" /\ places = 1 => c \in inUse
        /\ running /\ c \in inUse => places = 1

(* Every message the driver has sent is on its way, was taken by an event  *)
(* loop or dropped by a full queue, or is among those that nobody looks at *)
(* (sent at once, or never dequeued); total_messages_ counts those that a  *)
(* worker has dequeued.                                                    *)
MessagesAccounted ==
  LET pushing == Cardinality({w \in Workers : pc[w] = "push"})
  IN  /\ total = taken + queued + dropped + pushing
      /\ sent = total + Carried(packets) + lost

(* A worker uses handles that are open and a buffer that is allocated.     *)
HandlesOutliveWorkers ==
  \A w \in Workers :
    /\ pc[w] \notin {"none", "exit"} => port /\ iocp
    /\ held[w] # NoContext => held[w] \in pool

(* When the workers are gone, the receives that CancelIoEx has not reached *)
(* are at most those that a worker was about to submit at that moment,     *)
(* after its check of IsConnected.  (The buffers of these are freed with   *)
(* their receives pending; a receive that was cancelled may also not have  *)
(* completed by then, but it is on its way out.)                           *)
EscapesInFlight == pc[Main] = "close" => pending \subseteq cancelled \cup late

(* Scheduling is fair; the second that a worker waits for a packet passes. *)
Fairness ==
  /\ WF_vars(Control)
  /\ \A w \in Workers : WF_vars(IOCPWorkerThread(w) \/ SubmitReceive(w))

FairSpec == Spec /\ Fairness

(* Disconnect returns: no worker sleeps through it.                        *)
DisconnectReturns == (pc[Main] = "cancel") ~> (pc[Main] = "closed")

(* No receive context and no message is lost track of or handed on twice.  *)
NothingLost == TypeOK /\ OnePlaceEach /\ MessagesAccounted

(* Disconnect closes and frees nothing that a worker still uses, and       *)
(* nothing that the kernel still writes to but the receives submitted too  *)
(* late for CancelIoEx.                                                    *)
ClosedAfterUse == HandlesOutliveWorkers /\ EscapesInFlight
=============================================================================
