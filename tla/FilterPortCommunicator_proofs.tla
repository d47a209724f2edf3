-------------------- MODULE FilterPortCommunicator_proofs -------------------
(***************************************************************************)
(* The communicator loses no context and no message, and closes nothing    *)
(* in use, for any number of workers, contexts and messages.  The          *)
(* inductive invariant ties the stage of Connect and Disconnect to         *)
(* running_, the handles, the pool and the workers (Stages), says where a  *)
(* context is without counting (Places), and follows the receives that     *)
(* are submitted after CancelIoEx (Escapes).                               *)
(***************************************************************************)
EXTENDS FilterPortCommunicator, FiniteSetTheorems, FunctionTheorems, SequenceTheorems, TLAPS

Starting == {"none", "opened", "failed"}
Connected == {"initial", "check", "get", "release", "connected"}
Stopping == {"cancel", "post", "join"}
Closing == {"close", "free", "closed"}
WorkerPcs == {"none", "loop", "wait", "push", "reply", "resubmit", "exit",
              "check", "get", "release"}

(* What is set up and open at each stage of Connect and Disconnect. *)
Stages ==
  /\ pc[Main] \in Starting \cup Connected \cup Stopping \cup Closing
  /\ \A w \in Workers : pc[w] \in WorkerPcs
  /\ running <=> pc[Main] \in Connected
  /\ pc[Main] \in {"opened", "close"} \cup Connected \cup Stopping => port /\ iocp
  /\ pc[Main] \in Starting => \A w \in Workers : pc[w] = "none"
  /\ pc[Main] \in Closing => \A w \in Workers : pc[w] = "exit"
  /\ pc[Main] \in {"close", "free"} \cup Connected \cup Stopping => pool = Contexts
  /\ pc[Main] \in Starting => inUse = {} /\ pending = {} /\ packets = <<>>

(* The places at which a thread has a context. *)
Holding == {"check", "get", "release", "push", "reply", "resubmit"}

(* Where a context can be: with one thread, in one packet or pending. *)
Places ==
  /\ \A t \in Threads : held[t] \in Contexts <=> pc[t] \in Holding
  /\ \A i \in 1 .. Len(packets) :
       packets[i].kind = "message" => packets[i].ctx \in Contexts
  /\ \A t, u \in Threads : held[t] \in Contexts /\ held[t] = held[u] => t = u
  /\ \A i, j \in 1 .. Len(packets) :
       packets[i].ctx \in Contexts /\ packets[i].ctx = packets[j].ctx => i = j
  /\ \A t \in Threads : held[t] \notin pending
  /\ \A t \in Threads : \A i \in 1 .. Len(packets) :
       packets[i].ctx \in Contexts => held[t] # packets[i].ctx
  /\ \A i \in 1 .. Len(packets) : packets[i].ctx \notin pending

(* A context that is somewhere is marked as used, and while the service    *)
(* runs a context that is marked as used is somewhere.                     *)
Placed(c) ==
  \/ \E t \in Threads : held[t] = c
  \/ \E i \in 1 .. Len(packets) : packets[i].ctx = c
  \/ c \in pending
Marks ==
  \A c \in Contexts :
    /\ pc[Main] # "closed" /\ Placed(c) => c \in inUse
    /\ running /\ c \in inUse => Placed(c)

(* The receives that CancelIoEx has not reached are late. *)
Escapes ==
  pc[Main] \in {"post", "join", "close"} =>
    /\ pending \subseteq cancelled \cup late
    /\ \A w \in Workers : pc[w] = "get" => held[w] \in late

Inv == TypeOK /\ Stages /\ Places /\ Marks /\ MessagesAccounted /\ Escapes

-----------------------------------------------------------------------------
(* What a thread is, and what the packets are. *)
LEMMA ThreadFacts ==
  ASSUME Inv
  PROVE  /\ Main \in Threads /\ Workers \subseteq Threads
         /\ Threads = Workers \cup {Main} /\ Main \notin Workers
         /\ packets \in Seq(Packets) /\ Len(packets) \in Nat
         /\ \A i \in 1 .. Len(packets) : packets[i] \in Packets
         /\ \A t \in Threads : pc[t] \in Holding => held[t] \in Contexts
         /\ \A t \in Threads : pc[t] \notin Holding => held[t] = NoContext
<1>1. packets \in Seq(Packets)
  BY DEF Inv, TypeOK
<1>2. Len(packets) \in Nat /\ \A i \in 1 .. Len(packets) : packets[i] \in Packets
  BY <1>1
<1>3. \A t \in Threads : held[t] \in Contexts \cup {NoContext}
  BY DEF Inv, TypeOK
<1> QED
  BY <1>1, <1>2, <1>3, CommunicatorAssumption DEF Threads, Inv, Places

(* Every action keeps the types. *)
LEMMA TypeStep == Inv /\ [Next]_vars => TypeOK'
<1> SUFFICES ASSUME Inv, [Next]_vars PROVE TypeOK'
  OBVIOUS
<1>0. TypeOK /\ Stages
  BY DEF Inv
<1>t. /\ Main \in Threads /\ Workers \subseteq Threads
      /\ packets \in Seq(Packets) /\ Len(packets) \in Nat
      /\ \A t \in Threads : pc[t] \in Holding => held[t] \in Contexts
  BY ThreadFacts
<1> USE CommunicatorAssumption, <1>t
<1> USE DEF threadVars, handleVars, poolVars, kernelVars, countVars, Goto, Hold
<1>1. ASSUME NEW t \in Threads, SubmitCheck(t) \/ GetFails(t) \/ FreeContext(t)
      PROVE  TypeOK'
  BY <1>0, <1>1 DEF TypeOK, SubmitCheck, GetFails, FreeContext, Return
<1>2. ASSUME NEW t \in Threads, GetPending(t) PROVE TypeOK'
  BY <1>0, <1>2 DEF TypeOK, GetPending, Return, Holding
<1>3. ASSUME NEW t \in Threads, GetAtOnce(t) PROVE TypeOK'
  <2>1. Packet(held[t], "posted") \in Packets
    BY <1>0 DEF TypeOK, Packet, Packets
  <2>2. packets' \in Seq(Packets)
    BY <1>3, <2>1 DEF GetAtOnce, Complete
  <2> QED
    BY <1>0, <1>3, <2>2 DEF TypeOK, GetAtOnce, Return
<1>4. ASSUME NEW w \in Workers, WorkerLoop(w) \/ WaitTimesOut(w) \/ SendReply(w) \/ Resubmit(w)
      PROVE  TypeOK'
  BY <1>0, <1>4 DEF TypeOK, WorkerLoop, WaitTimesOut, SendReply, Resubmit
<1>5. ASSUME NEW w \in Workers, DequeueMessage(w) \/ DequeueOther(w) \/ DequeueDummy(w)
      PROVE  TypeOK'
  <2>1. packets # <<>> /\ packets' = Tail(packets) /\ held' = [held EXCEPT ![w] = Head(packets).ctx]
    BY <1>5 DEF DequeueMessage, DequeueOther, DequeueDummy, Dequeue
  <2>2. packets' \in Seq(Packets) /\ Head(packets) \in Packets
    BY <2>1
  <2>3. Head(packets).ctx \in Contexts \cup {NoContext}
    BY <2>2 DEF Packets
  <2>4. held' \in [Threads -> Contexts \cup {NoContext}]
    BY <1>0, <2>1, <2>3 DEF TypeOK
  <2>5. pc' \in [Threads -> {"none", "opened", "initial", "connected", "failed", "cancel",
          "post", "join", "close", "free", "closed", "loop", "wait", "push", "reply",
          "resubmit", "exit", "check", "get", "release"}]
    BY <1>0, <1>5 DEF TypeOK, DequeueMessage, DequeueOther, DequeueDummy
  <2>6. /\ UNCHANGED <<handleVars, poolVars, kernelVars, left, queued, sent, taken, dropped, lost>>
        /\ total' \in Nat
    BY <1>0, <1>5 DEF TypeOK, DequeueMessage, DequeueOther, DequeueDummy
  <2> QED
    BY <1>0, <2>2, <2>4, <2>5, <2>6 DEF TypeOK
<1>6. ASSUME NEW w \in Workers, PushEvent(w) PROVE TypeOK'
  BY <1>0, <1>6 DEF TypeOK, PushEvent
<1>7. ASSUME NEW c \in Contexts, ReceiveCompletes(c) \/ ReceiveFails(c) PROVE TypeOK'
  <2>1. Packet(c, "message") \in Packets /\ Packet(c, "failed") \in Packets
    BY DEF Packet, Packets
  <2>2. CASE ReceiveCompletes(c)
    <3>1. packets' \in Seq(Packets)
      BY <2>1, <2>2 DEF ReceiveCompletes, Complete
    <3> QED
      BY <1>0, <2>2, <3>1 DEF TypeOK, ReceiveCompletes
  <2>3. CASE ReceiveFails(c)
    <3>1. packets' \in Seq(Packets)
      BY <2>1, <2>3 DEF ReceiveFails, Complete
    <3> QED
      BY <1>0, <2>3, <3>1 DEF TypeOK, ReceiveFails
  <2> QED
    BY <1>7, <2>2, <2>3
<1>8. CASE ReceiveEvent
  BY <1>0, <1>8 DEF TypeOK, ReceiveEvent
<1>9. CASE ConnectFails \/ PoolFails \/ ConnectReturns \/ JoinWorkers
  BY <1>0, <1>9 DEF TypeOK, ConnectFails, PoolFails, ConnectReturns, JoinWorkers
<1>15. CASE AllocateContext
  BY <1>0, <1>15 DEF TypeOK, AllocateContext
<1>16. CASE CancelIo
  <2>1. late' \subseteq Contexts
    BY <1>16 DEF CancelIo, Holding
  <2> QED
    BY <1>0, <1>16, <2>1 DEF TypeOK, CancelIo
<1>10. CASE ConnectOpen \/ Disconnect \/ StartWorkers
  <2>1. running' \in BOOLEAN /\ port' \in BOOLEAN /\ iocp' \in BOOLEAN
    BY <1>0, <1>10, Zenon DEF TypeOK, ConnectOpen, Disconnect, StartWorkers
  <2> QED
    BY <1>0, <1>10, <2>1 DEF TypeOK, ConnectOpen, Disconnect, StartWorkers
<1>11. CASE PostDummies
  <2> DEFINE d == [i \in 1 .. Cardinality(Workers) |-> Packet(NoContext, "posted")]
  <2>1. Cardinality(Workers) \in Nat
    BY FS_CardinalityType
  <2>2. d \in Seq(Packets)
    <3>1. Packet(NoContext, "posted") \in Packets
      BY DEF Packet, Packets
    <3>2. d \in [1 .. Cardinality(Workers) -> Packets]
      BY <3>1
    <3> QED
      BY <2>1, <3>2
  <2>3. packets' = packets \o d
    BY <1>11 DEF PostDummies
  <2> HIDE DEF d
  <2>4. packets' \in Seq(Packets)
    BY <2>2, <2>3
  <2> QED
    BY <1>0, <1>11, <2>4 DEF TypeOK, PostDummies
<1>12. CASE CloseHandles
  <2>1. port' \in BOOLEAN /\ iocp' \in BOOLEAN
    BY <1>12, Zenon DEF CloseHandles
  <2>2. Carried(packets) \in Nat
    <3>1. IsFiniteSet(1 .. Len(packets))
      BY FS_Interval
    <3>2. IsFiniteSet({i \in DOMAIN packets : packets[i].kind = "message"})
      BY <3>1, FS_Subset
    <3> QED
      BY <3>2, FS_CardinalityType DEF Carried
  <2>3. packets' \in Seq(Packets)
    BY <1>12 DEF CloseHandles
  <2> QED
    BY <1>0, <1>12, <2>1, <2>2, <2>3 DEF TypeOK, CloseHandles
<1>13. CASE FreePool
  BY <1>0, <1>13 DEF TypeOK, FreePool
<1>14. CASE UNCHANGED vars
  BY <1>0, <1>14 DEF TypeOK, vars
<1> QED
  BY <1>1, <1>2, <1>3, <1>4, <1>5, <1>6, <1>7, <1>8, <1>9, <1>10, <1>11, <1>12,
     <1>13, <1>14, <1>15, <1>16
  DEF Next, Control, Kernel, SubmitReceive, IOCPWorkerThread

(* Connect and Disconnect go through their stages in order. *)
LEMMA StagesStep == Inv /\ [Next]_vars => Stages'
<1> SUFFICES ASSUME Inv, [Next]_vars PROVE Stages'
  OBVIOUS
<1>0. TypeOK /\ Stages
  BY DEF Inv
<1>t. Main \in Threads /\ Workers \subseteq Threads /\ Main \notin Workers
  BY ThreadFacts
<1> USE CommunicatorAssumption, <1>t
<1> USE DEF threadVars, handleVars, poolVars, kernelVars, countVars, Goto,
            Starting, Connected, Stopping, Closing, WorkerPcs
<1>1. ASSUME NEW w \in Workers,
             \/ SubmitCheck(w) \/ GetPending(w) \/ GetAtOnce(w) \/ GetFails(w) \/ FreeContext(w)
             \/ WorkerLoop(w) \/ WaitTimesOut(w)
             \/ DequeueMessage(w) \/ DequeueOther(w) \/ DequeueDummy(w)
             \/ PushEvent(w) \/ SendReply(w) \/ Resubmit(w)
      PROVE  Stages'
  <2>1. /\ pc' = [pc EXCEPT ![w] = pc'[w]] /\ pc'[w] \in WorkerPcs \ {"none"}
        /\ pc[w] \notin {"none", "exit"}
        /\ UNCHANGED <<handleVars, pool>>
    BY <1>0, <1>1 DEF TypeOK, SubmitCheck, GetPending, GetAtOnce, GetFails, FreeContext,
         WorkerLoop, WaitTimesOut, DequeueMessage, DequeueOther, DequeueDummy, Dequeue,
         PushEvent, SendReply, Resubmit, Return
  <2>2. pc'[Main] = pc[Main] /\ \A v \in Workers : v # w => pc'[v] = pc[v]
    BY <1>0, <2>1 DEF TypeOK
  <2>3. pc[Main] \notin Starting \cup Closing
    BY <1>0, <2>1 DEF Stages
  <2> QED
    BY <1>0, <2>1, <2>2, <2>3 DEF Stages
<1>2. CASE \/ SubmitCheck(Main) \/ GetPending(Main) \/ GetAtOnce(Main)
           \/ GetFails(Main) \/ FreeContext(Main) \/ AllocateContext
  <2>1. /\ pc' = [pc EXCEPT ![Main] = pc'[Main]] /\ pc'[Main] \in Connected
        /\ pc[Main] \in Connected /\ UNCHANGED <<handleVars, pool>>
    BY <1>0, <1>2 DEF TypeOK, SubmitCheck, GetPending, GetAtOnce, GetFails, FreeContext,
         AllocateContext, Return
  <2>2. \A v \in Workers : pc'[v] = pc[v]
    BY <1>0, <2>1 DEF TypeOK
  <2> QED
    BY <1>0, <2>1, <2>2 DEF Stages
<1>3. CASE ConnectFails \/ ConnectOpen \/ PoolFails \/ StartWorkers \/ ConnectReturns
  BY <1>0, <1>3 DEF TypeOK, Stages, ConnectFails, ConnectOpen, PoolFails, StartWorkers,
                    ConnectReturns
<1>4. CASE Disconnect \/ CancelIo \/ PostDummies \/ JoinWorkers
  BY <1>0, <1>4 DEF TypeOK, Stages, Disconnect, CancelIo, PostDummies, JoinWorkers
<1>5. CASE CloseHandles \/ FreePool
  BY <1>0, <1>5 DEF TypeOK, Stages, CloseHandles, FreePool
<1>6. ASSUME NEW c \in Contexts, ReceiveCompletes(c) \/ ReceiveFails(c) PROVE Stages'
  <2>1. pc' = pc /\ UNCHANGED <<handleVars, poolVars>> /\ pending # {}
    BY <1>6 DEF ReceiveCompletes, ReceiveFails
  <2> QED
    BY <1>0, <2>1 DEF Stages
<1>7. CASE ReceiveEvent
  BY <1>0, <1>7 DEF Stages, ReceiveEvent
<1>8. CASE UNCHANGED vars
  BY <1>0, <1>8 DEF Stages, vars
<1> QED
  BY <1>1, <1>2, <1>3, <1>4, <1>5, <1>6, <1>7, <1>8
  DEF Next, Control, Kernel, SubmitReceive, IOCPWorkerThread

-----------------------------------------------------------------------------
(* The ways in which a step moves contexts.  First: it moves none. *)
LEMMA StaysPut ==
  ASSUME Inv, Stages', UNCHANGED <<held, pending, packets, inUse>>,
         \A t \in Threads : pc'[t] \in Holding <=> pc[t] \in Holding,
         pc[Main] = "closed" => pc'[Main] = "closed",
         running' => running \/ inUse = {}
  PROVE  Places' /\ Marks'
<1>1. Places'
  BY DEF Inv, Places
<1>2. \A c : Placed(c)' <=> Placed(c)
  BY DEF Placed
<1> QED
  BY <1>1, <1>2 DEF Inv, Marks

(* A thread gives its context up, to a pending receive or altogether; it   *)
(* is no longer marked as used if the service runs.                        *)
LEMMA GivesUp ==
  ASSUME Inv, NEW t \in Threads, held[t] \in Contexts,
         held' = [held EXCEPT ![t] = NoContext], packets' = packets,
         pc' = [pc EXCEPT ![t] = pc'[t]], pc'[t] \notin Holding \cup {"closed"},
         \/ pending' = pending \cup {held[t]} /\ inUse' = inUse
         \/ pending' = pending /\ inUse' = inUse \ {held[t]}
         \/ pending' = pending /\ inUse' = inUse /\ ~running,
         running' = running
  PROVE  Places' /\ Marks'
<1> USE CommunicatorAssumption
<1>1. PICK c \in Contexts : c = held[t]
  OBVIOUS
<1>2. /\ held'[t] = NoContext /\ \A u \in Threads : u # t => held'[u] = held[u]
      /\ pc'[t] \notin Holding /\ \A u \in Threads : u # t => pc'[u] = pc[u]
  BY DEF Inv, TypeOK
<1>3. /\ \A u \in Threads : u # t => held[u] # c
      /\ c \notin pending /\ \A i \in 1 .. Len(packets) : packets[i].ctx # c
  BY <1>1 DEF Inv, Places
<1>4. pending' \subseteq pending \cup {c} /\ pending' \subseteq Contexts
  BY <1>1 DEF Inv, TypeOK
<1>5. Places'
  BY <1>2, <1>3, <1>4 DEF Inv, Places
<1>6. \A d \in Contexts : d # c => (Placed(d)' <=> Placed(d))
  BY <1>1, <1>2, <1>4 DEF Placed
<1>7. Placed(c) /\ (Placed(c)' <=> c \in pending')
  BY <1>1, <1>2, <1>3 DEF Placed
<1>8. pc'[Main] = "closed" <=> pc[Main] = "closed"
  BY <1>1, <1>2, ThreadFacts DEF Inv, Places, Holding
<1> QED
  BY <1>1, <1>3, <1>5, <1>6, <1>7, <1>8 DEF Inv, Marks

(* A packet is added with the context of a thread or of a pending receive, *)
(* which then has it no more.                                              *)
LEMMA Appended ==
  ASSUME Inv, NEW c \in Contexts, NEW k \in {"message", "failed", "posted"},
         packets' = Append(packets, Packet(c, k)), Placed(c),
         \A i \in 1 .. Len(packets) : packets[i].ctx # c,
         pending' = pending \ {c},
         \A t \in Threads : held'[t] = IF held[t] = c THEN NoContext ELSE held[t],
         \A t \in Threads : pc'[t] \in Holding <=> (pc[t] \in Holding /\ held[t] # c),
         pc[Main] = "closed" => pc'[Main] = "closed",
         running' => running, inUse' = inUse
  PROVE  Places' /\ Marks'
<1> USE CommunicatorAssumption
<1> DEFINE n == Len(packets)
<1>1. /\ Len(packets') = n + 1 /\ packets'[n + 1] = Packet(c, k) /\ n \in Nat
      /\ \A i \in 1 .. n : packets'[i] = packets[i]
  BY ThreadFacts DEF Packet, Packets
<1>2. packets'[n + 1].ctx = c
  BY <1>1 DEF Packet
<1>3. \A i \in 1 .. n + 1 : i \in 1 .. n \/ i = n + 1
  BY <1>1
<1>4. n + 1 \in 1 .. n + 1 /\ 1 .. n \subseteq 1 .. n + 1
  BY <1>1
<1> HIDE DEF n
<1>5. Places'
  <2>1. \A t \in Threads : held'[t] \in Contexts => held'[t] = held[t] /\ held[t] # c
    OBVIOUS
  <2>2. \A t \in Threads : held'[t] \in Contexts <=> pc'[t] \in Holding
    BY DEF Inv, Places
  <2>3. \A t \in Threads : held'[t] \notin pending'
    BY DEF Inv, Places, TypeOK
  <2>4. \A i \in 1 .. n + 1 : packets'[i].kind = "message" => packets'[i].ctx \in Contexts
    BY <1>1, <1>2, <1>3 DEF Inv, Places, n
  <2>5. \A i, j \in 1 .. n + 1 :
          packets'[i].ctx \in Contexts /\ packets'[i].ctx = packets'[j].ctx => i = j
    BY <1>1, <1>2, <1>3 DEF Inv, Places, n
  <2>6. \A t \in Threads : \A i \in 1 .. n + 1 :
          packets'[i].ctx \in Contexts => held'[t] # packets'[i].ctx
    BY <1>1, <1>2, <1>3, <2>1 DEF Inv, Places, n
  <2>7. \A i \in 1 .. n + 1 : packets'[i].ctx \notin pending'
    BY <1>1, <1>2, <1>3 DEF Inv, Places, n
  <2>8. \A t, u \in Threads : held'[t] \in Contexts /\ held'[t] = held'[u] => t = u
    BY <2>1 DEF Inv, Places
  <2> QED
    BY <1>1, <2>2, <2>3, <2>4, <2>5, <2>6, <2>7, <2>8 DEF Places
<1>6. ASSUME NEW d \in Contexts PROVE Placed(d)' <=> Placed(d)
  <2>1. CASE d = c
    BY <1>1, <1>2, <1>4, <2>1 DEF Placed
  <2>2. CASE d # c
    <3>1. (\E t \in Threads : held'[t] = d) <=> (\E t \in Threads : held[t] = d)
      BY <2>2
    <3>2. (\E i \in 1 .. n + 1 : packets'[i].ctx = d) <=> (\E i \in 1 .. n : packets[i].ctx = d)
      BY <1>1, <1>2, <1>3, <1>4, <2>2
    <3> QED
      BY <1>1, <2>2, <3>1, <3>2 DEF Placed, n
  <2> QED
    BY <2>1, <2>2
<1> QED
  BY <1>5, <1>6 DEF Inv, Marks

(* Worker w takes the first packet, and its context if it has one. *)
LEMMA Dequeued ==
  ASSUME Inv, NEW w \in Workers, pc[w] = "wait", packets # <<>>,
         packets' = Tail(packets), held' = [held EXCEPT ![w] = Head(packets).ctx],
         pc' = [pc EXCEPT ![w] = pc'[w]],
         pc'[w] \in Holding <=> Head(packets).ctx \in Contexts,
         UNCHANGED <<pending, inUse, running>>
  PROVE  Places' /\ Marks'
<1> USE CommunicatorAssumption
<1> DEFINE n == Len(packets)
<1>0. w \in Threads /\ held[w] = NoContext /\ w # Main
  BY ThreadFacts DEF Holding
<1>1. /\ n \in Nat /\ n > 0 /\ Len(packets') = n - 1
      /\ \A i \in 1 .. n - 1 : packets'[i] = packets[i + 1]
  BY ThreadFacts
<1>2. PICK c \in Contexts \cup {NoContext} : c = Head(packets).ctx /\ c = packets[1].ctx
  BY ThreadFacts DEF Packets
<1>3. \A i \in 1 .. n - 1 : i + 1 \in 1 .. n /\ i + 1 # 1
  BY <1>1
<1>4. 1 \in 1 .. n /\ \A i \in 1 .. n : i = 1 \/ (i - 1 \in 1 .. n - 1 /\ i - 1 + 1 = i)
  BY <1>1
<1>5. /\ held'[w] = c /\ \A t \in Threads : t # w => held'[t] = held[t]
      /\ \A t \in Threads : t # w => pc'[t] = pc[t]
  BY <1>0, <1>2 DEF Inv, TypeOK
<1> HIDE DEF n
<1>6. Places'
  <2>1. \A t \in Threads : held'[t] \in Contexts <=> pc'[t] \in Holding
    BY <1>2, <1>5 DEF Inv, Places
  <2>2. \A i \in 1 .. n - 1 : packets'[i].kind = "message" => packets'[i].ctx \in Contexts
    BY <1>1, <1>3 DEF Inv, Places, n
  <2>3. \A t, u \in Threads : held'[t] \in Contexts /\ held'[t] = held'[u] => t = u
    BY <1>2, <1>4, <1>5 DEF Inv, Places, n
  <2>4. ASSUME NEW i \in 1 .. n - 1, NEW j \in 1 .. n - 1, packets'[i].ctx \in Contexts,
               packets'[i].ctx = packets'[j].ctx
        PROVE  i = j
    <3>1. i + 1 = j + 1
      BY <1>1, <1>3, <2>4 DEF Inv, Places, n
    <3> QED
      BY <1>1, <3>1
  <2>5. \A t \in Threads : held'[t] \notin pending'
    BY <1>2, <1>4, <1>5 DEF Inv, Places, n
  <2>6. \A t \in Threads : \A i \in 1 .. n - 1 :
          packets'[i].ctx \in Contexts => held'[t] # packets'[i].ctx
    BY <1>1, <1>2, <1>3, <1>4, <1>5 DEF Inv, Places, n
  <2>7. \A i \in 1 .. n - 1 : packets'[i].ctx \notin pending'
    BY <1>1, <1>3 DEF Inv, Places, n
  <2> QED
    BY <1>1, <2>1, <2>2, <2>3, <2>4, <2>5, <2>6, <2>7 DEF Places
<1>7. ASSUME NEW d \in Contexts PROVE Placed(d)' <=> Placed(d)
  <2>1. CASE d = c
    <3>1. Placed(d)
      BY <1>2, <1>4, <2>1 DEF Placed, n
    <3>2. Placed(d)'
      BY <1>0, <1>5, <2>1 DEF Placed
    <3> QED
      BY <3>1, <3>2
  <2>2. CASE d # c
    <3>1. (\E t \in Threads : held'[t] = d) <=> (\E t \in Threads : held[t] = d)
      BY <1>0, <1>5, <2>2
    <3>2. ASSUME NEW i \in 1 .. n, packets[i].ctx = d
          PROVE  \E j \in 1 .. n - 1 : packets'[j].ctx = d
      <4>1. i - 1 \in 1 .. n - 1 /\ i - 1 + 1 = i
        BY <1>2, <1>4, <2>2, <3>2
      <4> QED
        BY <1>1, <3>2, <4>1
    <3>3. ASSUME NEW j \in 1 .. n - 1, packets'[j].ctx = d
          PROVE  \E i \in 1 .. n : packets[i].ctx = d
      BY <1>1, <1>3, <3>3
    <3> QED
      BY <1>1, <3>1, <3>2, <3>3 DEF Placed, n
  <2> QED
    BY <2>1, <2>2
<1>8. pc'[Main] = pc[Main]
  BY <1>0, <1>5, ThreadFacts
<1> QED
  BY <1>6, <1>7, <1>8 DEF Inv, Marks

(* Every step leaves each context in one place at most, rightly marked. *)
LEMMA PlacesStep == Inv /\ Stages' /\ [Next]_vars => Places' /\ Marks'
<1> SUFFICES ASSUME Inv, Stages', [Next]_vars PROVE Places' /\ Marks'
  OBVIOUS
<1>0. TypeOK /\ Stages /\ Places /\ Marks
  BY DEF Inv
<1>t. /\ Main \in Threads /\ Workers \subseteq Threads /\ Main \notin Workers
      /\ Threads = Workers \cup {Main}
      /\ \A t \in Threads : pc[t] \in Holding => held[t] \in Contexts
  BY ThreadFacts
<1>i. \A t \in Threads : pc[t] = "get" => iocp /\ pc[Main] # "closed"
  BY <1>0, <1>t DEF Stages, Starting, Connected, Stopping, Closing
<1> USE CommunicatorAssumption
<1> USE DEF threadVars, handleVars, poolVars, kernelVars, countVars, Goto, Hold
<1>1. ASSUME NEW t \in Threads,
             SubmitCheck(t) \/ GetFails(t) \/ WorkerLoop(t) \/ WaitTimesOut(t)
             \/ PushEvent(t) \/ SendReply(t)
      PROVE  Places' /\ Marks'
  <2>1. /\ UNCHANGED <<held, pending, packets, inUse, running>>
        /\ pc' = [pc EXCEPT ![t] = pc'[t]] /\ pc[t] # "closed"
        /\ pc'[t] \in Holding <=> pc[t] \in Holding
    BY <1>0, <1>1 DEF TypeOK, SubmitCheck, GetFails, WorkerLoop, WaitTimesOut,
                      PushEvent, SendReply, Holding
  <2>2. \A u \in Threads : pc'[u] \in Holding <=> pc[u] \in Holding
    BY <1>0, <2>1 DEF TypeOK
  <2>3. pc[Main] = "closed" => pc'[Main] = "closed"
    BY <1>0, <1>t, <2>1 DEF TypeOK
  <2> QED
    BY <2>1, <2>2, <2>3, StaysPut
<1>2. CASE ConnectFails \/ ConnectOpen \/ PoolFails \/ ConnectReturns \/ Disconnect
           \/ CancelIo \/ JoinWorkers \/ StartWorkers \/ ReceiveEvent \/ UNCHANGED vars
  <2>1. /\ UNCHANGED <<held, pending, packets, inUse>>
        /\ pc[Main] = "closed" => pc'[Main] = "closed"
        /\ running' => running \/ pc[Main] = "opened"
    BY <1>2 DEF ConnectFails, ConnectOpen, PoolFails, ConnectReturns, Disconnect,
                CancelIo, JoinWorkers, StartWorkers, ReceiveEvent, vars
  <2>2. running' => running \/ inUse = {}
    BY <1>0, <2>1 DEF Stages, Starting
  <2>3. \A u \in Threads : pc'[u] \in Holding <=> pc[u] \in Holding
    <3>1. CASE StartWorkers
      BY <1>0, <1>t, <3>1 DEF TypeOK, StartWorkers, Stages, Starting, Holding
    <3>2. CASE ~StartWorkers
      BY <1>0, <1>2, <1>t, <3>2 DEF TypeOK, ConnectFails, ConnectOpen, PoolFails,
         ConnectReturns, Disconnect, CancelIo, JoinWorkers, ReceiveEvent, vars, Holding
    <3> QED
      BY <3>1, <3>2
  <2> QED
    BY <2>1, <2>2, <2>3, StaysPut
<1>3. ASSUME NEW t \in Threads, GetPending(t) \/ FreeContext(t) PROVE Places' /\ Marks'
  <2>1. /\ held[t] \in Contexts
        /\ held' = [held EXCEPT ![t] = NoContext] /\ packets' = packets
        /\ pc' = [pc EXCEPT ![t] = pc'[t]] /\ pc'[t] \notin Holding \cup {"closed"}
        /\ running' = running
    BY <1>0, <1>3, <1>t DEF TypeOK, GetPending, FreeContext, Return, Holding
  <2>2. \/ pending' = pending \cup {held[t]} /\ inUse' = inUse
        \/ pending' = pending /\ inUse' = inUse \ {held[t]}
    BY <1>3 DEF GetPending, FreeContext
  <2> QED
    BY <2>1, <2>2, GivesUp
<1>4. ASSUME NEW w \in Workers, Resubmit(w) PROVE Places' /\ Marks'
  <2>0. w \in Threads /\ held[w] \in Contexts
    BY <1>4, <1>t DEF Resubmit, Holding
  <2>1. CASE running
    <3>1. /\ UNCHANGED <<held, pending, packets, inUse, running>>
          /\ pc' = [pc EXCEPT ![w] = "check"] /\ pc[w] = "resubmit"
      BY <1>4, <2>1 DEF Resubmit
    <3>2. \A u \in Threads : pc'[u] \in Holding <=> pc[u] \in Holding
      BY <1>0, <3>1 DEF TypeOK, Holding
    <3>3. pc'[Main] = pc[Main]
      BY <1>0, <1>t, <3>1 DEF TypeOK
    <3> QED
      BY <3>1, <3>2, <3>3, StaysPut
  <2>2. CASE ~running
    <3>1. /\ held' = [held EXCEPT ![w] = NoContext] /\ packets' = packets
          /\ pc' = [pc EXCEPT ![w] = pc'[w]] /\ pc'[w] \notin Holding \cup {"closed"}
          /\ running' = running /\ pending' = pending /\ inUse' = inUse
      BY <1>0, <1>4, <2>0, <2>2 DEF TypeOK, Resubmit, Holding
    <3> QED
      BY <2>0, <2>2, <3>1, GivesUp
  <2> QED
    BY <2>1, <2>2
<1>5. ASSUME NEW t \in Threads, GetAtOnce(t) PROVE Places' /\ Marks'
  <2>1. PICK c \in Contexts : c = held[t]
    BY <1>5, <1>t DEF GetAtOnce, Holding
  <2>2. /\ packets' = Append(packets, Packet(c, "posted"))
        /\ held' = [held EXCEPT ![t] = NoContext] /\ pc' = [pc EXCEPT ![t] = Return(t)]
        /\ UNCHANGED <<pending, inUse, running>> /\ pc[t] = "get"
    BY <1>5, <1>i, <2>1 DEF GetAtOnce, Complete
  <2>3. /\ \A i \in 1 .. Len(packets) : packets[i].ctx # c
        /\ \A u \in Threads : held[u] = c <=> u = t
        /\ pending' = pending \ {c}
    BY <1>0, <2>1, <2>2 DEF Places
  <2>4. \A u \in Threads : held'[u] = IF held[u] = c THEN NoContext ELSE held[u]
    BY <1>0, <2>2, <2>3 DEF TypeOK
  <2>5. \A u \in Threads : pc'[u] \in Holding <=> (pc[u] \in Holding /\ held[u] # c)
    BY <1>0, <2>2, <2>3 DEF TypeOK, Holding, Return
  <2>6. Placed(c)
    BY <2>1 DEF Placed
  <2>7. pc[Main] # "closed"
    BY <1>i, <2>2
  <2> QED
    BY <2>2, <2>3, <2>4, <2>5, <2>6, <2>7, Appended
<1>6. ASSUME NEW w \in Workers, DequeueMessage(w) \/ DequeueOther(w) \/ DequeueDummy(w)
      PROVE  Places' /\ Marks'
  <2>1. /\ pc[w] = "wait" /\ packets # <<>>
        /\ packets' = Tail(packets) /\ held' = [held EXCEPT ![w] = Head(packets).ctx]
        /\ UNCHANGED <<pending, inUse, running>>
    BY <1>6 DEF DequeueMessage, DequeueOther, DequeueDummy, Dequeue
  <2>2. pc' = [pc EXCEPT ![w] = pc'[w]]
    BY <1>0, <1>6, <1>t DEF TypeOK, DequeueMessage, DequeueOther, DequeueDummy
  <2>3. /\ Head(packets) = packets[1] /\ 1 \in 1 .. Len(packets) /\ packets[1] \in Packets
    BY <2>1, ThreadFacts
  <2>4. /\ Head(packets).ctx \in Contexts \cup {NoContext}
        /\ Head(packets).kind = "message" => Head(packets).ctx \in Contexts
    BY <1>0, <2>3 DEF Places, Packets
  <2>5. pc'[w] \in Holding <=> Head(packets).ctx \in Contexts
    BY <1>0, <1>6, <1>t, <2>4
    DEF TypeOK, DequeueMessage, DequeueOther, DequeueDummy, Holding
  <2> QED
    BY <2>1, <2>2, <2>5, Dequeued
<1>7. ASSUME NEW c \in Contexts, ReceiveCompletes(c) \/ ReceiveFails(c)
      PROVE  Places' /\ Marks'
  <2>1. /\ c \in pending /\ pending' = pending \ {c}
        /\ UNCHANGED <<pc, held, inUse, running>>
        /\ \E k \in {"message", "failed"} :
             packets' = IF iocp THEN Append(packets, Packet(c, k)) ELSE packets
    BY <1>7 DEF ReceiveCompletes, ReceiveFails, Complete
  <2>2. Placed(c) /\ (\A i \in 1 .. Len(packets) : packets[i].ctx # c)
        /\ \A t \in Threads : held[t] # c
    BY <1>0, <2>1 DEF Placed, Places
  <2>3. CASE iocp
    BY <2>1, <2>2, <2>3, Appended
  <2>4. CASE ~iocp
    <3>1. ~running
      BY <1>0, <2>4 DEF Stages, Connected
    <3>2. packets' = packets
      BY <2>1, <2>4
    <3>3. \A d : Placed(d)' => Placed(d)
      BY <2>1, <3>2 DEF Placed
    <3> QED
      BY <1>0, <2>1, <3>1, <3>2, <3>3 DEF Places, Marks
  <2> QED
    BY <2>3, <2>4
<1>8. CASE AllocateContext
  <2>0. pc[Main] = "initial" /\ held[Main] = NoContext /\ UNCHANGED <<pending, packets, running>>
    BY <1>8, ThreadFacts DEF AllocateContext, Holding
  <2>1. CASE UNCHANGED <<inUse, threadVars>>
    BY <2>0, <2>1, StaysPut
  <2>2. ASSUME NEW c \in pool \ inUse, inUse' = inUse \cup {c},
               held' = [held EXCEPT ![Main] = c], pc' = [pc EXCEPT ![Main] = "check"]
        PROVE  Places' /\ Marks'
    <3>1. c \in Contexts /\ ~Placed(c)
      BY <1>0, <2>0, <2>2 DEF TypeOK, Marks
    <3>2. /\ held'[Main] = c /\ \A u \in Threads : u # Main => held'[u] = held[u]
          /\ pc'[Main] = "check" /\ \A u \in Threads : u # Main => pc'[u] = pc[u]
      BY <1>0, <1>t, <2>2 DEF TypeOK
    <3>3. /\ \A u \in Threads : held[u] # c
          /\ c \notin pending /\ \A i \in 1 .. Len(packets) : packets[i].ctx # c
      BY <3>1 DEF Placed
    <3>4. Places'
      BY <1>0, <1>t, <2>0, <3>1, <3>2, <3>3 DEF Places, Holding
    <3>5. \A d \in Contexts : Placed(d)' <=> (Placed(d) \/ d = c)
      BY <1>t, <2>0, <3>2 DEF Placed
    <3> QED
      BY <1>0, <2>0, <2>2, <3>2, <3>4, <3>5 DEF Marks
  <2> QED
    BY <1>8, <2>1, <2>2 DEF AllocateContext
<1>9. CASE PostDummies
  <2> DEFINE m == Cardinality(Workers)
             d == [i \in 1 .. m |-> Packet(NoContext, "posted")]
             n == Len(packets)
  <2>1. m \in Nat
    BY FS_CardinalityType
  <2>2. d \in Seq(Packets) /\ Len(d) = m /\ \A i \in 1 .. m : d[i] = Packet(NoContext, "posted")
    <3>1. d \in [1 .. m -> Packets]
      BY DEF Packet, Packets
    <3> QED
      BY <2>1, <3>1
  <2>3. packets' = packets \o d /\ packets \in Seq(Packets) /\ n \in Nat
    BY <1>9, ThreadFacts DEF PostDummies
  <2>4. /\ UNCHANGED <<held, pending, inUse, running>> /\ pc' = [pc EXCEPT ![Main] = "join"]
        /\ pc[Main] = "post"
    BY <1>9 DEF PostDummies
  <2> HIDE DEF d, m, n
  <2>5. Len(packets') = n + m /\ \A i \in 1 .. n : packets'[i] = packets[i]
    <3>1. Len(packets \o d) = Len(packets) + Len(d)
      BY <2>2, <2>3, ConcatProperties
    <3>2. ASSUME NEW i \in 1 .. n PROVE packets'[i] = packets[i]
      <4>1. i \in 1 .. Len(packets) + Len(d) /\ i <= Len(packets)
        BY <2>1, <2>2, <2>3 DEF n
      <4>2. (packets \o d)[i] = packets[i]
        BY <2>2, <2>3, <4>1, ConcatProperties
      <4> QED
        BY <2>3, <4>2
    <3> QED
      BY <2>2, <2>3, <3>1, <3>2 DEF n
  <2>6. /\ 1 .. n \subseteq 1 .. n + m
        /\ \A i \in 1 .. n + m :
             i \in 1 .. n \/ (packets'[i].ctx = NoContext /\ packets'[i].kind = "posted")
    <3>1. ASSUME NEW i \in 1 .. n + m, i \notin 1 .. n
          PROVE  packets'[i] = Packet(NoContext, "posted")
      <4>1. i - n \in 1 .. m
        BY <2>1, <2>3, <3>1
      <4>2. packets'[i] = d[i - n]
        BY <2>1, <2>2, <2>3, <3>1 DEF n
      <4> QED
        BY <2>2, <4>1, <4>2
    <3>2. 1 .. n \subseteq 1 .. n + m
      BY <2>1, <2>3
    <3>3. Packet(NoContext, "posted").ctx = NoContext /\ Packet(NoContext, "posted").kind = "posted"
      BY DEF Packet
    <3> QED
      BY <3>1, <3>2, <3>3
  <2>7. \A u \in Threads : pc'[u] \in Holding <=> pc[u] \in Holding
    BY <1>0, <1>t, <2>4 DEF TypeOK, Holding
  <2>8. \A e \in Contexts : Placed(e)' <=> Placed(e)
    BY <2>4, <2>5, <2>6 DEF Placed, n
  <2>9. Places'
    <3>1. \A i \in 1 .. n + m : packets'[i].kind = "message" => packets'[i].ctx \in Contexts
      BY <1>0, <2>5, <2>6 DEF Places, n
    <3>2. \A i, j \in 1 .. n + m :
            packets'[i].ctx \in Contexts /\ packets'[i].ctx = packets'[j].ctx => i = j
      BY <1>0, <2>5, <2>6 DEF Places, n
    <3>3. \A t \in Threads : \A i \in 1 .. n + m :
            packets'[i].ctx \in Contexts => held'[t] # packets'[i].ctx
      BY <1>0, <2>4, <2>5, <2>6 DEF Places, n
    <3>4. \A i \in 1 .. n + m : packets'[i].ctx \notin pending'
      BY <1>0, <2>4, <2>5, <2>6 DEF Places, TypeOK, n
    <3> QED
      BY <1>0, <2>4, <2>5, <2>7, <3>1, <3>2, <3>3, <3>4 DEF Places
  <2> QED
    BY <1>0, <2>4, <2>8, <2>9 DEF Marks
<1>10. CASE CloseHandles
  <2>1. /\ UNCHANGED <<held, pending, inUse, running>> /\ packets' = <<>>
        /\ pc' = [pc EXCEPT ![Main] = "free"] /\ pc[Main] = "close" /\ ~running
    BY <1>0, <1>10 DEF CloseHandles, Stages, Connected
  <2>2. \A u \in Threads : pc'[u] \in Holding <=> pc[u] \in Holding
    BY <1>0, <1>t, <2>1 DEF TypeOK, Holding
  <2>3. Len(packets') = 0 /\ 1 .. Len(packets') = {}
    BY <2>1
  <2>4. \A e : Placed(e)' => Placed(e)
    BY <2>1, <2>3 DEF Placed
  <2> QED
    BY <1>0, <2>1, <2>2, <2>3, <2>4 DEF Places, Marks
<1>11. CASE FreePool
  <2>1. /\ UNCHANGED <<held, pending, packets, running>>
        /\ pc' = [pc EXCEPT ![Main] = "closed"] /\ pc[Main] = "free" /\ ~running
    BY <1>0, <1>11 DEF FreePool, Stages, Connected
  <2>2. \A u \in Threads : pc'[u] \in Holding <=> pc[u] \in Holding
    BY <1>0, <1>t, <2>1 DEF TypeOK, Holding
  <2>3. pc'[Main] = "closed"
    BY <1>0, <1>t, <2>1 DEF TypeOK
  <2> QED
    BY <1>0, <2>1, <2>2, <2>3 DEF Places, Marks
<1> QED
  BY <1>1, <1>2, <1>3, <1>4, <1>5, <1>6, <1>7, <1>8, <1>9, <1>10, <1>11, <1>t
  DEF Next, Control, Kernel, SubmitReceive, IOCPWorkerThread

(* A receive that is submitted after CancelIoEx is of a worker that had    *)
(* checked IsConnected before Disconnect.                                  *)
LEMMA EscapesStep == Inv /\ [Next]_vars => Escapes'
<1> SUFFICES ASSUME Inv, [Next]_vars, pc'[Main] \in {"post", "join", "close"}
             PROVE  /\ (pending \subseteq cancelled \cup late)'
                    /\ \A w \in Workers : pc'[w] = "get" => held'[w] \in late'
  BY DEF Escapes
<1>0. TypeOK /\ Stages /\ Escapes
  BY DEF Inv
<1>t. /\ Main \in Threads /\ Workers \subseteq Threads /\ Main \notin Workers
      /\ Threads = Workers \cup {Main}
  BY ThreadFacts
<1> USE CommunicatorAssumption, <1>t
<1> USE DEF threadVars, handleVars, poolVars, kernelVars, countVars, Goto, Hold
<1>1. CASE CancelIo
  <2>1. \A w \in Workers : pc'[w] = pc[w] /\ held'[w] = held[w]
    BY <1>0, <1>1 DEF CancelIo, TypeOK
  <2> QED
    BY <1>1, <2>1 DEF CancelIo
<1>2. ASSUME NEW w \in Workers,
             \/ SubmitCheck(w) \/ GetPending(w) \/ GetAtOnce(w) \/ GetFails(w) \/ FreeContext(w)
             \/ WorkerLoop(w) \/ WaitTimesOut(w)
             \/ DequeueMessage(w) \/ DequeueOther(w) \/ DequeueDummy(w)
             \/ PushEvent(w) \/ SendReply(w) \/ Resubmit(w)
      PROVE  /\ (pending \subseteq cancelled \cup late)'
             /\ \A v \in Workers : pc'[v] = "get" => held'[v] \in late'
  <2>1. /\ pc' = [pc EXCEPT ![w] = pc'[w]] /\ late' = late
        /\ held' = [held EXCEPT ![w] = held'[w]]
    BY <1>0, <1>2 DEF TypeOK, SubmitCheck, GetPending, GetAtOnce, GetFails, FreeContext,
         WorkerLoop, WaitTimesOut, DequeueMessage, DequeueOther, DequeueDummy, Dequeue,
         PushEvent, SendReply, Resubmit, Return
  <2>2. /\ pc'[Main] = pc[Main]
        /\ \A v \in Workers : v # w => pc'[v] = pc[v] /\ held'[v] = held[v]
    BY <1>0, <2>1 DEF TypeOK
  <2>3. ~running
    BY <1>0, <2>2 DEF Stages, Connected
  <2>4. pc'[w] # "get"
    BY <1>0, <1>2, <2>3 DEF TypeOK, SubmitCheck, IsConnected, GetPending, GetAtOnce,
         GetFails, FreeContext, WorkerLoop, WaitTimesOut, DequeueMessage, DequeueOther,
         DequeueDummy, Dequeue, PushEvent, SendReply, Resubmit, Return
  <2>5. \/ UNCHANGED <<pending, cancelled>>
        \/ /\ pc[w] = "get" /\ pending' = pending \cup {held[w]}
           /\ cancelled' = cancelled \ {held[w]}
    BY <1>2 DEF SubmitCheck, GetPending, GetAtOnce, GetFails, FreeContext,
         WorkerLoop, WaitTimesOut, DequeueMessage, DequeueOther, DequeueDummy,
         PushEvent, SendReply, Resubmit
  <2> QED
    BY <1>0, <2>1, <2>2, <2>4, <2>5 DEF Escapes
<1>3. CASE PostDummies \/ JoinWorkers \/ ReceiveEvent \/ UNCHANGED vars
  <2>1. UNCHANGED kernelVars /\ pc[Main] \in {"post", "join", "close"}
        /\ \A w \in Workers : pc'[w] = pc[w] /\ held'[w] = held[w]
    BY <1>0, <1>3 DEF TypeOK, PostDummies, JoinWorkers, ReceiveEvent, vars
  <2> QED
    BY <1>0, <2>1 DEF Escapes
<1>4. ASSUME NEW c \in Contexts, ReceiveCompletes(c) \/ ReceiveFails(c)
      PROVE  /\ (pending \subseteq cancelled \cup late)'
             /\ \A v \in Workers : pc'[v] = "get" => held'[v] \in late'
  <2>1. UNCHANGED <<pc, held, cancelled, late>> /\ pending' \subseteq pending
    BY <1>4 DEF ReceiveCompletes, ReceiveFails
  <2> QED
    BY <1>0, <2>1 DEF Escapes
<1>5. ASSUME \/ ConnectFails \/ ConnectOpen \/ PoolFails \/ StartWorkers
             \/ AllocateContext \/ ConnectReturns \/ SubmitReceive(Main)
             \/ Disconnect \/ CloseHandles \/ FreePool
      PROVE  FALSE
  BY <1>0, <1>5 DEF TypeOK, ConnectFails, ConnectOpen, PoolFails, StartWorkers,
       AllocateContext, ConnectReturns, SubmitReceive, SubmitCheck, GetPending,
       GetAtOnce, GetFails, FreeContext, Return, Disconnect, CloseHandles, FreePool
<1> QED
  BY <1>1, <1>2, <1>3, <1>4, <1>5 DEF Next, Control, Kernel, SubmitReceive, IOCPWorkerThread

-----------------------------------------------------------------------------
(* The messages in the completion port are finitely many. *)
LEMMA CarriedType ==
  ASSUME NEW s \in Seq(Packets)
  PROVE  /\ IsFiniteSet({i \in DOMAIN s : s[i].kind = "message"})
         /\ Carried(s) \in Nat
<1>1. Len(s) \in Nat /\ DOMAIN s = 1 .. Len(s)
  OBVIOUS
<1>2. IsFiniteSet(1 .. Len(s))
  BY <1>1, FS_Interval
<1>3. IsFiniteSet({i \in DOMAIN s : s[i].kind = "message"})
  BY <1>1, <1>2, FS_Subset
<1> QED
  BY <1>3, FS_CardinalityType DEF Carried

(* A packet that is added counts if it carries a message. *)
LEMMA CarriedAppend ==
  ASSUME NEW s \in Seq(Packets), NEW p \in Packets
  PROVE  Carried(Append(s, p)) = Carried(s) + (IF p.kind = "message" THEN 1 ELSE 0)
<1> DEFINE M(q) == {i \in DOMAIN q : q[i].kind = "message"}
           n == Len(s)
           z == Append(s, p)
<1>1. /\ n \in Nat /\ DOMAIN s = 1 .. n
      /\ DOMAIN z = 1 .. n + 1 /\ z[n + 1] = p
      /\ \A i \in 1 .. n : z[i] = s[i]
  OBVIOUS
<1>2. IsFiniteSet(M(s)) /\ Carried(s) \in Nat
  BY CarriedType
<1>c. Carried(s) = Cardinality(M(s)) /\ Carried(Append(s, p)) = Cardinality(M(z))
  BY DEF Carried
<1> HIDE DEF z, n
<1>3. n + 1 \notin M(s) /\ \A i \in 1 .. n + 1 : i \in 1 .. n \/ i = n + 1
  BY <1>1
<1>4. 1 .. n \subseteq 1 .. n + 1 /\ n + 1 \in 1 .. n + 1
  BY <1>1
<1>5. CASE p.kind = "message"
  <2>1. M(z) = M(s) \cup {n + 1}
    BY <1>1, <1>3, <1>4, <1>5
  <2>2. Cardinality(M(s) \cup {n + 1}) = Cardinality(M(s)) + 1
    BY <1>2, <1>3, FS_AddElement
  <2>3. Carried(Append(s, p)) = Carried(s) + 1
    BY <1>c, <2>1, <2>2, Zenon
  <2> QED
    BY <1>2, <1>5, <2>3
<1>6. CASE p.kind # "message"
  <2>1. M(z) = M(s)
    BY <1>1, <1>3, <1>4, <1>6
  <2> QED
    <3>1. Carried(Append(s, p)) = Carried(s)
      BY <1>c, <2>1, Zenon
    <3> QED
      BY <1>2, <1>6, <3>1
<1> QED
  BY <1>5, <1>6

(* A packet that is taken away no longer counts; the others do, at the     *)
(* place before theirs.                                                    *)
LEMMA CarriedTail ==
  ASSUME NEW s \in Seq(Packets), s # <<>>
  PROVE  Carried(s) = Carried(Tail(s)) + (IF Head(s).kind = "message" THEN 1 ELSE 0)
<1> DEFINE M(q) == {i \in DOMAIN q : q[i].kind = "message"}
           n == Len(s)
           z == Tail(s)
           f == [i \in M(z) |-> i + 1]
<1>1. /\ n \in Nat /\ n > 0 /\ DOMAIN s = 1 .. n /\ Head(s) = s[1]
      /\ z \in Seq(Packets) /\ DOMAIN z = 1 .. n - 1
      /\ \A i \in 1 .. n - 1 : z[i] = s[i + 1]
  OBVIOUS
<1>2. /\ IsFiniteSet(M(s)) /\ Carried(s) \in Nat
      /\ IsFiniteSet(M(z)) /\ Carried(z) \in Nat
  BY <1>1, CarriedType
<1>c. Carried(s) = Cardinality(M(s)) /\ Carried(Tail(s)) = Cardinality(M(z))
  BY DEF Carried
<1> HIDE DEF z, n
<1>3. f \in Bijection(M(z), M(s) \ {1})
  <2>1. \A i \in M(z) : i + 1 \in M(s) \ {1} /\ f[i] = i + 1 /\ i \in Int
    BY <1>1
  <2>2. f \in [M(z) -> M(s) \ {1}]
    BY <2>1
  <2>3. \A i, j \in M(z) : f[i] = f[j] => i = j
    <3>1. \A i, j \in Int : i + 1 = j + 1 => i = j
      OBVIOUS
    <3> QED
      BY <2>1, <3>1
  <2>4. ASSUME NEW j \in M(s) \ {1} PROVE \E i \in M(z) : f[i] = j
    <3>1. j - 1 \in 1 .. n - 1 /\ j - 1 + 1 = j
      BY <1>1
    <3>2. j - 1 \in M(z)
      BY <1>1, <3>1
    <3> QED
      BY <2>1, <3>1, <3>2
  <2> HIDE DEF f
  <2> QED
    BY <2>2, <2>3, <2>4, Fun_IsBij
<1>4. Cardinality(M(z)) = Cardinality(M(s) \ {1})
  BY <1>2, <1>3, FS_Bijection DEF ExistsBijection
<1>5. CASE Head(s).kind = "message"
  <2>1. 1 \in M(s)
    BY <1>1, <1>5
  <2>2. Cardinality(M(s) \ {1}) = Cardinality(M(s)) - 1
    BY <1>2, <2>1, FS_RemoveElement
  <2> QED
    BY <1>2, <1>4, <1>5, <1>c, <2>1, <2>2
<1>6. CASE Head(s).kind # "message"
  <2>1. M(s) \ {1} = M(s)
    BY <1>1, <1>6
  <2> QED
    <3>1. Carried(s) = Carried(Tail(s))
      BY <1>4, <1>c, <2>1, Zenon
    <3> QED
      BY <1>2, <1>6, <3>1
<1> QED
  BY <1>5, <1>6

(* The workers that are about to push are finitely many, and one that      *)
(* moves to or from there is counted.                                      *)
LEMMA PushingMoves ==
  ASSUME Inv, NEW w \in Workers, pc' = [pc EXCEPT ![w] = pc'[w]]
  PROVE  LET p == {v \in Workers : pc[v] = "push"}
             q == {v \in Workers : pc'[v] = "push"}
         IN  /\ Cardinality(p) \in Nat
             /\ pc[w] # "push" /\ pc'[w] = "push" => Cardinality(q) = Cardinality(p) + 1
             /\ pc[w] = "push" /\ pc'[w] # "push" => Cardinality(q) = Cardinality(p) - 1
             /\ pc[w] # "push" /\ pc'[w] # "push" => Cardinality(q) = Cardinality(p)
<1> USE CommunicatorAssumption
<1> DEFINE p == {v \in Workers : pc[v] = "push"}
           q == {v \in Workers : pc'[v] = "push"}
<1>1. \A v \in Workers : v # w => pc'[v] = pc[v]
  BY ThreadFacts DEF Inv, TypeOK
<1>2. IsFiniteSet(p) /\ Cardinality(p) \in Nat
  BY FS_Subset, FS_CardinalityType
<1>3. CASE pc[w] # "push" /\ pc'[w] = "push"
  <2>1. q = p \cup {w} /\ w \notin p
    BY <1>1, <1>3
  <2>2. Cardinality(p \cup {w}) = Cardinality(p) + 1
    BY <1>2, <2>1, FS_AddElement
  <2>3. Cardinality(q) = Cardinality(p) + 1
    BY <2>1, <2>2, Zenon
  <2> QED
    BY <1>2, <1>3, <2>3
<1>4. CASE pc[w] = "push" /\ pc'[w] # "push"
  <2>1. q = p \ {w} /\ w \in p
    BY <1>1, <1>4
  <2>2. Cardinality(p \ {w}) = Cardinality(p) - 1
    BY <1>2, <2>1, FS_RemoveElement
  <2>3. Cardinality(q) = Cardinality(p) - 1
    BY <2>1, <2>2, Zenon
  <2> QED
    BY <1>2, <1>4, <2>3
<1>5. CASE pc[w] # "push" /\ pc'[w] # "push"
  <2>1. q = p
    BY <1>1, <1>5
  <2> QED
    BY <1>2, <1>5, <2>1
<1> QED
  BY <1>2, <1>3, <1>4, <1>5

(* Packets without messages do not count. *)
LEMMA CarriedConcat ==
  ASSUME NEW s \in Seq(Packets), NEW d \in Seq(Packets),
         \A i \in 1 .. Len(d) : d[i].kind # "message"
  PROVE  Carried(s \o d) = Carried(s)
<1> DEFINE z == s \o d
<1>1. /\ Len(z) = Len(s) + Len(d) /\ Len(s) \in Nat /\ Len(d) \in Nat /\ z \in Seq(Packets)
      /\ \A i \in 1 .. Len(s) + Len(d) : z[i] = IF i <= Len(s) THEN s[i] ELSE d[i - Len(s)]
  BY ConcatProperties
<1> HIDE DEF z
<1>2. DOMAIN s = 1 .. Len(s) /\ DOMAIN z = 1 .. Len(s) + Len(d)
  BY <1>1
<1>3. \A i \in 1 .. Len(s) : i \in 1 .. Len(s) + Len(d) /\ z[i] = s[i]
  BY <1>1
<1>4. ASSUME NEW i \in 1 .. Len(s) + Len(d), i \notin 1 .. Len(s)
      PROVE  z[i].kind # "message"
  <2>1. i - Len(s) \in 1 .. Len(d) /\ z[i] = d[i - Len(s)]
    BY <1>1, <1>4
  <2> QED
    BY <2>1
<1>5. {i \in DOMAIN z : z[i].kind = "message"} = {i \in DOMAIN s : s[i].kind = "message"}
  BY <1>2, <1>3, <1>4
<1>6. Carried(z) = Carried(s)
  BY <1>5, Zenon DEF Carried
<1> QED
  BY <1>6 DEF z

(* The counters follow the messages. *)
LEMMA AccountedStep == Inv /\ [Next]_vars => MessagesAccounted'
<1> SUFFICES ASSUME Inv, [Next]_vars PROVE MessagesAccounted'
  OBVIOUS
<1>0. TypeOK /\ Stages
  BY DEF Inv
<1>t. /\ Main \in Threads /\ Workers \subseteq Threads /\ Main \notin Workers
      /\ Threads = Workers \cup {Main} /\ packets \in Seq(Packets)
      /\ \A t \in Threads : pc[t] \in Holding => held[t] \in Contexts
  BY ThreadFacts
<1> DEFINE p == {w \in Workers : pc[w] = "push"}
           q == {w \in Workers : pc'[w] = "push"}
           m == Cardinality(p)
           k == Cardinality(q)
<1>a. /\ total = taken + queued + dropped + m
      /\ sent = total + Carried(packets) + lost
  BY DEF Inv, MessagesAccounted
<1>b. ASSUME /\ total' = taken' + queued' + dropped' + k
             /\ sent' = total' + Carried(packets') + lost'
      PROVE  MessagesAccounted'
  BY <1>b DEF MessagesAccounted, Carried
<1>n. /\ m \in Nat /\ Carried(packets) \in Nat
      /\ total \in Nat /\ sent \in Nat /\ taken \in Nat /\ dropped \in Nat /\ lost \in Nat
      /\ queued \in Nat
  <2>1. m \in Nat
    BY CommunicatorAssumption, FS_Subset, FS_CardinalityType
  <2>2. Carried(packets) \in Nat
    BY <1>t, CarriedType
  <2>3. 0 .. QueueSize \subseteq Nat /\ 0 .. MaxMessages \subseteq Nat
    BY CommunicatorAssumption
  <2> QED
    BY <1>0, <2>1, <2>2, <2>3 DEF TypeOK
<1> USE DEF threadVars, handleVars, poolVars, kernelVars, countVars, Goto, Hold
<1>s. ASSUME \A w \in Workers : pc'[w] = "push" <=> pc[w] = "push" PROVE k = m
  <2>1. q = p
    BY <1>s
  <2> QED
    BY <2>1, Zenon
<1>w. ASSUME NEW w \in Workers, pc' = [pc EXCEPT ![w] = pc'[w]]
      PROVE  /\ pc[w] # "push" /\ pc'[w] = "push" => k = m + 1
             /\ pc[w] = "push" /\ pc'[w] # "push" => k = m - 1
             /\ pc[w] # "push" /\ pc'[w] # "push" => k = m
  BY <1>w, PushingMoves
<1> HIDE DEF p, q, m, k
<1>1. ASSUME NEW t \in Threads,
             \/ SubmitCheck(t) \/ GetPending(t) \/ GetFails(t) \/ FreeContext(t)
             \/ WorkerLoop(t) \/ WaitTimesOut(t) \/ SendReply(t) \/ Resubmit(t)
      PROVE  MessagesAccounted'
  <2>1. UNCHANGED <<packets, countVars>>
    BY <1>1 DEF SubmitCheck, GetPending, GetFails, FreeContext, WorkerLoop, WaitTimesOut,
                SendReply, Resubmit
  <2>2. \A w \in Workers : pc'[w] = "push" <=> pc[w] = "push"
    BY <1>0, <1>1, <1>t DEF TypeOK, SubmitCheck, GetPending, GetFails, FreeContext,
          WorkerLoop, WaitTimesOut, SendReply, Resubmit, Return
  <2> QED
    BY <1>a, <1>b, <1>s, <2>1, <2>2
<1>2. CASE \/ ConnectFails \/ ConnectOpen \/ PoolFails \/ StartWorkers \/ AllocateContext
           \/ ConnectReturns \/ Disconnect \/ CancelIo \/ JoinWorkers \/ FreePool
           \/ UNCHANGED vars
  <2>1. UNCHANGED <<packets, countVars>>
    BY <1>2 DEF ConnectFails, ConnectOpen, PoolFails, StartWorkers, AllocateContext,
         ConnectReturns, Disconnect, CancelIo, JoinWorkers, FreePool, vars
  <2>2. \A w \in Workers : pc'[w] = "push" <=> pc[w] = "push"
    BY <1>0, <1>2, <1>t DEF TypeOK, Stages, Starting, ConnectFails, ConnectOpen, PoolFails,
         StartWorkers, AllocateContext, ConnectReturns, Disconnect, CancelIo, JoinWorkers,
         FreePool, vars
  <2> QED
    BY <1>a, <1>b, <1>s, <2>1, <2>2
<1>3. ASSUME NEW t \in Threads, GetAtOnce(t) PROVE MessagesAccounted'
  <2>1. iocp /\ held[t] \in Contexts
    BY <1>0, <1>3, <1>t DEF GetAtOnce, Stages, Starting, Connected, Stopping, Closing, Holding
  <2>2. Packet(held[t], "posted") \in Packets /\ Packet(held[t], "posted").kind # "message"
    BY <2>1 DEF Packet, Packets
  <2>3. packets' = Append(packets, Packet(held[t], "posted"))
    BY <1>3, <2>1 DEF GetAtOnce, Complete
  <2>4. Carried(packets') = Carried(packets)
    BY <1>n, <1>t, <2>2, <2>3, CarriedAppend
  <2>5. \A w \in Workers : pc'[w] = "push" <=> pc[w] = "push"
    BY <1>0, <1>3, <1>t DEF TypeOK, GetAtOnce, Return
  <2>6. /\ sent' = sent + 1 /\ lost' = lost + 1
        /\ UNCHANGED <<queued, total, taken, dropped>>
    BY <1>3 DEF GetAtOnce
  <2>7. k = m
    BY <1>s, <2>5
  <2> QED
    BY <1>a, <1>b, <1>n, <2>4, <2>6, <2>7
<1>4. ASSUME NEW w \in Workers, DequeueMessage(w) PROVE MessagesAccounted'
  <2>1. /\ packets # <<>> /\ packets' = Tail(packets) /\ Head(packets).kind = "message"
        /\ total' = total + 1 /\ UNCHANGED <<queued, sent, taken, dropped, lost>>
    BY <1>4 DEF DequeueMessage, Dequeue
  <2>2. /\ pc' = [pc EXCEPT ![w] = pc'[w]] /\ pc[w] # "push" /\ pc'[w] = "push"
    BY <1>0, <1>4, <1>t DEF TypeOK, DequeueMessage, Dequeue
  <2>3. k = m + 1
    BY <1>w, <2>2
  <2>4. Carried(packets') \in Nat /\ Carried(packets) = Carried(packets') + 1
    <3>1. Tail(packets) \in Seq(Packets)
      BY <1>t, <2>1
    <3>2. Carried(Tail(packets)) \in Nat
      BY <3>1, CarriedType
    <3> QED
      BY <1>t, <2>1, <3>2, CarriedTail
  <2> QED
    BY <1>a, <1>b, <1>n, <2>1, <2>3, <2>4
<1>5. ASSUME NEW w \in Workers, DequeueOther(w) \/ DequeueDummy(w) PROVE MessagesAccounted'
  <2>0. Head(packets).kind # "message"
    <3>1. packets # <<>>
      BY <1>5 DEF DequeueOther, DequeueDummy, Dequeue
    <3>2. Head(packets) = packets[1] /\ 1 \in 1 .. Len(packets)
      BY <1>t, <3>1
    <3> QED
      BY <1>5, <3>2, CommunicatorAssumption DEF DequeueOther, DequeueDummy, Inv, Places
  <2>1. /\ packets # <<>> /\ packets' = Tail(packets) /\ UNCHANGED countVars
    BY <1>5 DEF DequeueOther, DequeueDummy, Dequeue
  <2>2. /\ pc' = [pc EXCEPT ![w] = pc'[w]] /\ pc[w] # "push" /\ pc'[w] # "push"
    BY <1>0, <1>5, <1>t DEF TypeOK, DequeueOther, DequeueDummy, Dequeue
  <2>3. k = m
    BY <1>w, <2>2
  <2>4. Carried(packets') \in Nat /\ Carried(packets) = Carried(packets')
    <3>1. Tail(packets) \in Seq(Packets)
      BY <1>t, <2>1
    <3>2. Carried(Tail(packets)) \in Nat
      BY <3>1, CarriedType
    <3>3. Carried(packets) = Carried(Tail(packets)) + 0
      BY <1>t, <2>0, <2>1, CarriedTail
    <3> QED
      BY <2>1, <3>2, <3>3
  <2> QED
    BY <1>a, <1>b, <1>n, <2>1, <2>3, <2>4
<1>6. ASSUME NEW w \in Workers, PushEvent(w) PROVE MessagesAccounted'
  <2>1. /\ UNCHANGED <<packets, total, sent, taken, lost>>
        /\ \/ queued' = queued + 1 /\ dropped' = dropped
           \/ queued' = queued /\ dropped' = dropped + 1
    BY <1>6 DEF PushEvent
  <2>2. pc' = [pc EXCEPT ![w] = pc'[w]] /\ pc[w] = "push" /\ pc'[w] # "push"
    BY <1>0, <1>6, <1>t DEF TypeOK, PushEvent
  <2>3. k = m - 1
    BY <1>w, <2>2
  <2>4. total' = taken' + queued' + dropped' + k
    <3>1. taken + (queued + 1) + dropped + k = taken + queued + dropped + m
      BY <1>n, <2>3
    <3>2. taken + queued + (dropped + 1) + k = taken + queued + dropped + m
      BY <1>n, <2>3
    <3>3. CASE queued' = queued + 1 /\ dropped' = dropped
      BY <1>a, <2>1, <3>1, <3>3
    <3>4. CASE queued' = queued /\ dropped' = dropped + 1
      BY <1>a, <2>1, <3>2, <3>4
    <3> QED
      BY <2>1, <3>3, <3>4
  <2>5. sent' = total' + Carried(packets') + lost'
    BY <1>a, <2>1
  <2> QED
    BY <1>b, <2>4, <2>5
<1>7. ASSUME NEW c \in Contexts, ReceiveCompletes(c) PROVE MessagesAccounted'
  <2>1. /\ packets' = IF iocp THEN Append(packets, Packet(c, "message")) ELSE packets
        /\ sent' = sent + 1 /\ lost' = IF iocp THEN lost ELSE lost + 1
        /\ UNCHANGED <<queued, total, taken, dropped, pc>>
    BY <1>7 DEF ReceiveCompletes, Complete
  <2>2. Packet(c, "message") \in Packets /\ Packet(c, "message").kind = "message"
    BY DEF Packet, Packets
  <2>3. Carried(packets') + lost' = Carried(packets) + lost + 1
        /\ Carried(packets') \in Nat /\ lost' \in Nat
    <3>1. Carried(Append(packets, Packet(c, "message"))) = Carried(packets) + 1
      BY <1>t, <2>2, CarriedAppend
    <3>2. Carried(packets) \in Nat /\ lost \in Nat
      BY <1>n
    <3>3. CASE iocp
      <4>1. packets' = Append(packets, Packet(c, "message")) /\ lost' = lost
        BY <2>1, <3>3
      <4>2. Carried(packets') = Carried(packets) + 1
        BY <3>1, <4>1, Zenon
      <4> QED
        BY <3>2, <4>1, <4>2
    <3>4. CASE ~iocp
      BY <2>1, <3>2, <3>4
    <3> QED
      BY <3>3, <3>4
  <2>4. k = m
    BY <1>s, <2>1
  <2> QED
    BY <1>a, <1>b, <1>n, <2>1, <2>3, <2>4
<1>8. ASSUME NEW c \in Contexts, ReceiveFails(c) PROVE MessagesAccounted'
  <2>1. /\ packets' = IF iocp THEN Append(packets, Packet(c, "failed")) ELSE packets
        /\ UNCHANGED <<countVars, pc>>
    BY <1>8 DEF ReceiveFails, Complete
  <2>2. Packet(c, "failed") \in Packets /\ Packet(c, "failed").kind # "message"
    BY DEF Packet, Packets
  <2>3. Carried(packets') = Carried(packets)
    BY <1>n, <1>t, <2>1, <2>2, CarriedAppend
  <2>4. k = m
    BY <1>s, <2>1
  <2> QED
    BY <1>a, <1>b, <1>n, <2>1, <2>3, <2>4
<1>9. CASE ReceiveEvent
  <2>1. /\ UNCHANGED <<packets, pc, total, sent, dropped, lost>>
        /\ queued' = queued - 1 /\ taken' = taken + 1
    BY <1>9 DEF ReceiveEvent
  <2>2. k = m
    BY <1>s, <2>1
  <2> QED
    BY <1>a, <1>b, <1>n, <2>1, <2>2
<1>10. CASE PostDummies
  <2> DEFINE d == [i \in 1 .. Cardinality(Workers) |-> Packet(NoContext, "posted")]
  <2>1. d \in Seq(Packets) /\ \A i \in 1 .. Len(d) : d[i].kind # "message"
    <3>1. Cardinality(Workers) \in Nat
      BY CommunicatorAssumption, FS_CardinalityType
    <3>2. d \in [1 .. Cardinality(Workers) -> Packets]
      BY DEF Packet, Packets
    <3>3. d \in Seq(Packets) /\ Len(d) = Cardinality(Workers)
      BY <3>1, <3>2
    <3> QED
      BY <3>3 DEF Packet
  <2>2. packets' = packets \o d /\ UNCHANGED countVars
    BY <1>10 DEF PostDummies
  <2> HIDE DEF d
  <2>3. Carried(packets') = Carried(packets)
    BY <1>t, <2>1, <2>2, CarriedConcat
  <2>4. \A w \in Workers : pc'[w] = "push" <=> pc[w] = "push"
    BY <1>0, <1>10, <1>t DEF TypeOK, PostDummies
  <2>5. k = m
    BY <1>s, <2>4
  <2> QED
    BY <1>a, <1>b, <2>2, <2>3, <2>5
<1>11. CASE CloseHandles
  <2>1. /\ packets' = <<>> /\ lost' = lost + Carried(packets)
        /\ UNCHANGED <<queued, total, sent, taken, dropped>>
    BY <1>11 DEF CloseHandles
  <2>2. Carried(packets') = 0
    <3>1. {i \in DOMAIN packets' : packets'[i].kind = "message"} = {}
      BY <2>1
    <3> QED
      BY <3>1, FS_EmptySet, Zenon DEF Carried
  <2>4. \A w \in Workers : pc'[w] = "push" <=> pc[w] = "push"
    BY <1>0, <1>11, <1>t DEF TypeOK, CloseHandles
  <2>5. k = m
    BY <1>s, <2>4
  <2> QED
    BY <1>a, <1>b, <1>n, <2>1, <2>2, <2>5
<1> QED
  BY <1>1, <1>2, <1>3, <1>4, <1>5, <1>6, <1>7, <1>8, <1>9, <1>10, <1>11, <1>t
  DEF Next, Control, Kernel, SubmitReceive, IOCPWorkerThread

-----------------------------------------------------------------------------
(* The invariant holds at first. *)
LEMMA InvInit == Init => Inv
<1> SUFFICES ASSUME Init PROVE Inv
  OBVIOUS
<1> USE CommunicatorAssumption DEF Init
<1>1. packets = <<>> /\ Len(packets) = 0 /\ packets \in Seq(Packets)
  OBVIOUS
<1>2. 0 \in 0 .. Operations /\ 0 \in 0 .. QueueSize /\ 0 \in 0 .. MaxMessages
  OBVIOUS
<1>3. TypeOK
  <2>1. running \in BOOLEAN /\ port \in BOOLEAN /\ iocp \in BOOLEAN
    BY Zenon
  <2> QED
    BY <1>1, <1>2, <2>1 DEF TypeOK
<1>4. Stages
  BY DEF Stages, Starting, Connected, Stopping, Closing, WorkerPcs, Threads
<1>5. Places /\ Marks
  BY <1>1 DEF Places, Marks, Placed, Holding, Threads
<1>6. MessagesAccounted
  <2>1. {i \in DOMAIN packets : packets[i].kind = "message"} = {}
    BY <1>1
  <2>2. Carried(packets) = 0
    BY <2>1, FS_EmptySet, Zenon DEF Carried
  <2>3. {w \in Workers : pc[w] = "push"} = {}
    BY DEF Threads
  <2>4. Cardinality({w \in Workers : pc[w] = "push"}) = 0
    BY <2>3, FS_EmptySet, Zenon
  <2> QED
    BY <2>2, <2>4 DEF MessagesAccounted
<1>7. Escapes
  BY DEF Escapes, Threads
<1> QED
  BY <1>3, <1>4, <1>5, <1>6, <1>7 DEF Inv

(* Every step keeps it. *)
LEMMA InvStep == Inv /\ [Next]_vars => Inv'
  BY TypeStep, StagesStep, PlacesStep, AccountedStep, EscapesStep DEF Inv

(* The communicator keeps the invariant. *)
LEMMA InvAlways == Spec => []Inv
  BY InvInit, InvStep, PTL DEF Spec

(* Having a context at one place at most is to count one place at most. *)
LEMMA PlacesCount ==
  ASSUME Inv, NEW c \in Contexts
  PROVE  LET places == Cardinality(Holders(c)) + Cardinality(InPackets(c))
                         + (IF c \in pending THEN 1 ELSE 0)
         IN  places = IF Placed(c) THEN 1 ELSE 0
<1> DEFINE h == Cardinality(Holders(c))
           k == Cardinality(InPackets(c))
           pe == IF c \in pending THEN 1 ELSE 0
<1>0. Places /\ packets \in Seq(Packets) /\ DOMAIN packets = 1 .. Len(packets)
  BY ThreadFacts DEF Inv
<1>1. h = IF \E t \in Threads : held[t] = c THEN 1 ELSE 0
  <2>1. CASE \E t \in Threads : held[t] = c
    <3>1. PICK t \in Threads : held[t] = c
      BY <2>1
    <3>2. Holders(c) = {t}
      BY <1>0, <3>1 DEF Holders, Places
    <3>3. h = 1
      BY <3>2, FS_Singleton, Zenon
    <3> QED
      BY <2>1, <3>3
  <2>2. CASE ~\E t \in Threads : held[t] = c
    <3>1. Holders(c) = {}
      BY <2>2 DEF Holders
    <3>2. h = 0
      BY <3>1, FS_EmptySet, Zenon
    <3> QED
      BY <2>2, <3>2
  <2> QED
    BY <2>1, <2>2
<1>2. k = IF \E i \in 1 .. Len(packets) : packets[i].ctx = c THEN 1 ELSE 0
  <2>1. CASE \E i \in 1 .. Len(packets) : packets[i].ctx = c
    <3>1. PICK i \in 1 .. Len(packets) : packets[i].ctx = c
      BY <2>1
    <3>2. InPackets(c) = {i}
      BY <1>0, <3>1 DEF InPackets, Places
    <3>3. k = 1
      BY <3>2, FS_Singleton, Zenon
    <3> QED
      BY <2>1, <3>3
  <2>2. CASE ~\E i \in 1 .. Len(packets) : packets[i].ctx = c
    <3>1. InPackets(c) = {}
      BY <1>0, <2>2 DEF InPackets
    <3>2. k = 0
      BY <3>1, FS_EmptySet, Zenon
    <3> QED
      BY <2>2, <3>2
  <2> QED
    BY <2>1, <2>2
<1>3. /\ (\E t \in Threads : held[t] = c) =>
           c \notin pending /\ ~\E i \in 1 .. Len(packets) : packets[i].ctx = c
      /\ (\E i \in 1 .. Len(packets) : packets[i].ctx = c) => c \notin pending
  BY <1>0 DEF Places
<1> HIDE DEF h, k
<1>4. h + k + pe = IF Placed(c) THEN 1 ELSE 0
  BY <1>1, <1>2, <1>3 DEF Placed
<1> QED
  BY <1>4 DEF h, k

(* What the runs check follows from the invariant. *)
LEMMA InvImplies == Inv => NothingLost /\ ClosedAfterUse
<1> SUFFICES ASSUME Inv PROVE NothingLost /\ ClosedAfterUse
  OBVIOUS
<1>1. OnePlaceEach
  <2> SUFFICES ASSUME NEW c \in Contexts
               PROVE  LET places == Cardinality(Holders(c)) + Cardinality(InPackets(c))
                                      + (IF c \in pending THEN 1 ELSE 0)
                      IN  /\ places <= 1
                          /\ pc[Main] # "closed" /\ places = 1 => c \in inUse
                          /\ running /\ c \in inUse => places = 1
    BY DEF OnePlaceEach
  <2> DEFINE places == Cardinality(Holders(c)) + Cardinality(InPackets(c))
                         + (IF c \in pending THEN 1 ELSE 0)
  <2>1. places = IF Placed(c) THEN 1 ELSE 0
    BY PlacesCount
  <2>2. /\ pc[Main] # "closed" /\ Placed(c) => c \in inUse
        /\ running /\ c \in inUse => Placed(c)
    BY DEF Inv, Marks
  <2> HIDE DEF places
  <2>3. /\ places <= 1
        /\ pc[Main] # "closed" /\ places = 1 => c \in inUse
        /\ running /\ c \in inUse => places = 1
    BY <2>1, <2>2
  <2> QED
    BY <2>3 DEF places
<1>2. HandlesOutliveWorkers
  <2> SUFFICES ASSUME NEW w \in Workers
               PROVE  /\ pc[w] \notin {"none", "exit"} => port /\ iocp
                      /\ held[w] # NoContext => held[w] \in pool
    BY DEF HandlesOutliveWorkers
  <2>1. pc[w] \notin {"none", "exit"} => port /\ iocp /\ pool = Contexts
    BY DEF Inv, Stages, Starting, Connected, Stopping, Closing
  <2>2. held[w] # NoContext => held[w] \in Contexts /\ pc[w] \in Holding
    BY ThreadFacts
  <2> QED
    BY <2>1, <2>2 DEF Holding
<1>3. EscapesInFlight
  BY DEF Inv, Escapes, EscapesInFlight
<1> QED
  BY <1>1, <1>2, <1>3 DEF Inv, NothingLost, ClosedAfterUse

(* No receive context of IOCPFilterPortCommunicator is handed on twice or  *)
(* forgotten while the service runs, and every message the driver sent is  *)
(* accounted for by total_messages_ and the queue, whatever the number of  *)
(* contexts, workers, receives and messages.                               *)
THEOREM CommunicatorLosesNothing == Spec => []NothingLost
  BY InvAlways, InvImplies, PTL

(* Disconnect closes the handles and frees the pool when no worker uses    *)
(* them, and the only receives it leaves to the kernel are those that were *)
(* submitted too late for CancelIoEx.                                      *)
THEOREM CommunicatorClosesLast == Spec => []ClosedAfterUse
  BY InvAlways, InvImplies, PTL
=============================================================================
