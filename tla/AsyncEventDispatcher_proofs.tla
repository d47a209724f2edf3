-------------------- MODULE AsyncEventDispatcher_proofs --------------------
(***************************************************************************)
(* Proofs about AsyncEventDispatcher, for any number of callbacks, of      *)
(* connections, of ring slots and of calls, and, in the second part, about *)
(* the byte ring, which SlotRing models in detail, for any sizes of ring,  *)
(* header, granule and buffer and any number of writers and events.        *)
(***************************************************************************)
EXTENDS AsyncEventDispatcher, SlotRing, FiniteSetTheorems, TLAPS

(* The worker has an event in its send buffer exactly between taking it    *)
(* from the ring and settling its fate; there is no worker before          *)
(* Initialize.                                                             *)
HeldInv ==
  /\ held # NoTicket <=> wpc \in {"route", "send", "call", "sending"}
  /\ lpc \in {"created", "filtering"} => wpc = "none"

(* A ticket is owned by the producer that fills it until it is committed.  *)
SlotsOwned ==
  /\ \A p, q \in InState("fill") : p # q => ticket[p] # ticket[q]
  /\ \A p \in InState("fill") :
       head <= ticket[p] /\ ticket[p] < tail /\ ticket[p] \notin ready

(* Until the ring breaks, its slots lie between its ends, and those being  *)
(* filled are owned.                                                       *)
RingInv ==
  /\ broken => ready = {}
  /\ ~broken => head <= tail /\ ready \subseteq head .. tail - 1 /\ SlotsOwned

USE DEF lifeVars, prodVars, ringVars, workVars, portVars, fateVars, oweVars

(* Flags stay Boolean. *)
LEMMA FlagsInductive == FlagsOK /\ [Next]_vars => FlagsOK'
<1> SUFFICES ASSUME FlagsOK, [Next]_vars PROVE FlagsOK'
  OBVIOUS
<1> USE DEF FlagsOK
<1>1. CASE Load
  BY <1>1, Zenon DEF Load, StartFiltering, InitializeFails, InitializeStart,
                     InitializeActivate
<1>2. CASE Unload
  BY <1>2, Zenon DEF Unload, UninitializeDeactivate, UninitializeSignal,
                     UninitializeFree, UnloadClosePorts, UnloadUnregister
<1>3. ASSUME NEW p \in Producers, Enqueue(p) PROVE FlagsOK'
  BY <1>3, Zenon DEF Enqueue, EnqueueRejected, EnqueueEnter,
       EnqueueUnserialized, EnqueueSerialized, ProduceStart, ProduceFull,
       ProduceRetry, ProducePadBreaks, ProduceClaim, ProduceCommit,
       ProduceCount, Break
<1>4. CASE Client
  BY <1>4, Zenon DEF Client, PortConnect, OnClientConnected,
                     OnClientDisconnected, ClosePort
<1>5. CASE Worker
  <2>1. CASE WakeStop \/ WakeData \/ WakeIdle
    BY <2>1, Zenon DEF WakeStop, WakeData, WakeIdle
  <2>2. CASE \/ DrainNothing \/ DrainTake \/ DrainSkipStuck \/ DrainSkipFree
             \/ RouteNoClient \/ RouteClient
    BY <2>2, Zenon DEF DrainNothing, DrainTake, DrainSkipStuck, DrainSkipFree,
                       Break, RouteNoClient, RouteClient
  <2>3. CASE SendNoPort \/ SendCopyPort \/ SendCall
    BY <2>3, Zenon DEF SendNoPort, SendCopyPort, SendCall
  <2>4. CASE SendSucceeds \/ SendTimesOut \/ SendFails
    BY <2>4, Zenon DEF SendSucceeds, SendTimesOut, SendFails
  <2>5. QED
    BY <1>5, <2>1, <2>2, <2>3, <2>4 DEF Worker
<1>6. CASE UNCHANGED vars
  BY <1>6, Zenon DEF vars
<1>7. QED
  BY <1>1, <1>2, <1>3, <1>4, <1>5, <1>6 DEF Next

(* The type invariant needs HeldInv: a fate is given to the event held.    *)
LEMMA TypeInductive ==
  TypeOK /\ HeldInv /\ [Next]_vars => TypeOK' /\ HeldInv'
<1> SUFFICES ASSUME TypeOK, HeldInv, [Next]_vars PROVE TypeOK' /\ HeldInv'
  OBVIOUS
<1>0. FlagsOK'
  BY FlagsInductive DEF TypeOK
<1> USE <1>0, DispatcherAssumption
    DEF TypeOK, HeldInv, LoadPcs, UnloadPcs, WorkerPcs, ProducerPcs
<1>1. CASE Load
  <2>1. CASE StartFiltering
    BY <2>1 DEF StartFiltering
  <2>2. CASE InitializeFails
    BY <2>2 DEF InitializeFails
  <2>3. CASE InitializeStart
    BY <2>3 DEF InitializeStart
  <2>4. CASE InitializeActivate
    BY <2>4 DEF InitializeActivate
  <2>5. QED
    BY <1>1, <2>1, <2>2, <2>3, <2>4 DEF Load
<1>2. CASE Unload
  <2>1. CASE UninitializeDeactivate
    BY <2>1 DEF UninitializeDeactivate
  <2>2. CASE UninitializeSignal
    BY <2>2 DEF UninitializeSignal
  <2>3. CASE UninitializeFree
    BY <2>3 DEF UninitializeFree
  <2>4. CASE UnloadClosePorts
    BY <2>4 DEF UnloadClosePorts
  <2>5. CASE UnloadUnregister
    BY <2>5 DEF UnloadUnregister
  <2>6. QED
    BY <1>2, <2>1, <2>2, <2>3, <2>4, <2>5 DEF Unload
<1>3. ASSUME NEW p \in Producers, Enqueue(p) PROVE TypeOK' /\ HeldInv'
  <2>1. CASE EnqueueRejected(p)
    BY <2>1 DEF EnqueueRejected, Goto, CanCall
  <2>2. CASE EnqueueEnter(p)
    BY <2>2 DEF EnqueueEnter, Goto, CanCall
  <2>3. CASE EnqueueUnserialized(p)
    BY <2>3 DEF EnqueueUnserialized, Goto, CanCall
  <2>4. CASE EnqueueSerialized(p)
    BY <2>4 DEF EnqueueSerialized, Goto, CanCall
  <2>5. CASE ProduceFull(p)
    BY <2>5 DEF ProduceFull, Goto, CanCall
  <2>6. CASE ProduceClaim(p)
    <3>1. (ready \in SUBSET Nat)'
      BY <2>6 DEF ProduceClaim, Break
    <3>2. (ppc \in [Producers -> ProducerPcs])' /\ (tail \in Nat)'
      BY <2>6 DEF ProduceClaim, Goto
    <3>3. UNCHANGED <<lifeVars, ticket, calls, rejected, head, workVars,
                      portVars, fateVars, enqueued, dropped, oweVars>>
      BY <2>6 DEF ProduceClaim
    <3>4. QED
      BY <3>1, <3>2, <3>3
  <2>7. CASE ProduceCommit(p)
    <3>1. ticket[p] \in Nat
      OBVIOUS
    <3>2. (ready \in SUBSET Nat)'
      BY <2>7, <3>1 DEF ProduceCommit
    <3>3. (ppc \in [Producers -> ProducerPcs])'
      BY <2>7 DEF ProduceCommit, Goto
    <3>4. (ticket \in [Producers -> Nat])'
      BY <2>7 DEF ProduceCommit
    <3>5. UNCHANGED <<lifeVars, calls, rejected, head, tail, workVars,
                      portVars, fateVars, enqueued, dropped, oweVars>>
      BY <2>7 DEF ProduceCommit
    <3>6. QED
      BY <3>2, <3>3, <3>4, <3>5
  <2>8. CASE ProduceCount(p)
    BY <2>8 DEF ProduceCount, Goto, CanCall
  <2>9. CASE ProduceStart(p)
    BY <2>9 DEF ProduceStart, Goto
  <2>10. CASE ProduceRetry(p)
    BY <2>10 DEF ProduceRetry, Goto
  <2>11. CASE ProducePadBreaks(p)
    BY <2>11 DEF ProducePadBreaks, Break, Goto
  <2>12. QED
    BY <1>3, <2>1, <2>2, <2>3, <2>4, <2>5, <2>6, <2>7, <2>8, <2>9, <2>10,
       <2>11 DEF Enqueue
<1>4. CASE Client
  <2>1. CASE PortConnect
    BY <2>1 DEF PortConnect
  <2>2. CASE OnClientConnected
    BY <2>2 DEF OnClientConnected
  <2>3. CASE OnClientDisconnected
    BY <2>3 DEF OnClientDisconnected
  <2>4. CASE ClosePort
    BY <2>4 DEF ClosePort
  <2>5. QED
    BY <1>4, <2>1, <2>2, <2>3, <2>4 DEF Client
<1>5. CASE Worker
  <2>1. CASE WakeStop
    BY <2>1 DEF WakeStop, EndDrain, HeadReady
  <2>2. CASE WakeData
    BY <2>2 DEF WakeData, EndDrain, HeadReady
  <2>3. CASE WakeIdle
    BY <2>3 DEF WakeIdle, EndDrain, HeadReady
  <2>4. CASE DrainNothing
    BY <2>4 DEF DrainNothing, EndDrain, HeadReady
  <2>5. CASE DrainTake
    BY <2>5 DEF DrainTake, EndDrain, HeadReady
  <2>6. CASE RouteNoClient
    BY <2>6 DEF RouteNoClient, EndDrain, HeadReady
  <2>7. CASE RouteClient
    BY <2>7 DEF RouteClient, EndDrain, HeadReady
  <2>8. CASE SendNoPort
    BY <2>8 DEF SendNoPort, EndDrain, HeadReady
  <2>9. CASE SendCopyPort
    BY <2>9 DEF SendCopyPort, EndDrain, HeadReady
  <2>10. CASE SendCall
    BY <2>10 DEF SendCall, EndDrain, HeadReady
  <2>11. CASE SendSucceeds
    BY <2>11 DEF SendSucceeds, EndDrain, HeadReady
  <2>12. CASE SendTimesOut
    BY <2>12 DEF SendTimesOut, EndDrain, HeadReady
  <2>13. CASE SendFails
    BY <2>13 DEF SendFails, EndDrain, HeadReady
  <2>14. CASE DrainSkipStuck
    BY <2>14 DEF DrainSkipStuck, Break
  <2>15. CASE DrainSkipFree
    BY <2>15 DEF DrainSkipFree, Break, EndDrain
  <2>16. QED
    BY <1>5, <2>1, <2>2, <2>3, <2>4, <2>5, <2>6, <2>7, <2>8, <2>9, <2>10,
       <2>11, <2>12, <2>13, <2>14, <2>15 DEF Worker
<1>6. CASE UNCHANGED vars
  BY <1>6 DEF vars
<1>7. QED
  BY <1>1, <1>2, <1>3, <1>4, <1>5, <1>6 DEF Next

-----------------------------------------------------------------------------
(* The type invariant: every variable keeps its type, from the creation of *)
(* the port to the end of the unload.                                      *)
THEOREM TypeCorrect == Spec => [](TypeOK /\ HeldInv)
<1>1. Init => TypeOK /\ HeldInv
  <2> SUFFICES ASSUME Init PROVE TypeOK /\ HeldInv
    OBVIOUS
  <2>1. FlagsOK
    BY Zenon DEF Init, FlagsOK
  <2>2. QED
    BY <2>1, DispatcherAssumption DEF Init, TypeOK, HeldInv, LoadPcs, WorkerPcs,
         ProducerPcs
<1>2. QED
  BY <1>1, TypeInductive, PTL DEF Spec

(* Only Enqueue, the taking of an event and the steps that break the ring  *)
(* touch it.                                                               *)
LEMMA RingInductive ==
  TypeOK /\ TypeOK' /\ RingInv /\ [Next]_vars => RingInv'
<1> SUFFICES ASSUME TypeOK, TypeOK', RingInv, [Next]_vars PROVE RingInv'
  OBVIOUS
<1>b. broken \in BOOLEAN /\ broken' \in BOOLEAN
  BY DEF TypeOK, FlagsOK
<1>k. ASSUME Break PROVE RingInv'
  BY <1>k DEF Break, RingInv
<1> USE DEF TypeOK, RingInv, SlotsOwned, InState
<1>1. CASE UNCHANGED <<ppc, ticket, head, tail, ready, broken>>
  BY <1>1
<1>2. CASE Load
  BY <1>1, <1>2 DEF Load, StartFiltering, InitializeFails, InitializeStart,
                    InitializeActivate
<1>3. CASE Unload
  BY <1>1, <1>3 DEF Unload, UninitializeDeactivate, UninitializeSignal,
                    UninitializeFree, UnloadClosePorts, UnloadUnregister
<1>4. CASE Client
  BY <1>1, <1>4 DEF Client, PortConnect, OnClientConnected,
                    OnClientDisconnected, ClosePort
<1>5. ASSUME NEW p \in Producers, Enqueue(p) PROVE RingInv'
  <2>1. CASE EnqueueRejected(p)
    BY <1>1, <2>1 DEF EnqueueRejected
  <2>2. CASE EnqueueEnter(p) \/ EnqueueUnserialized(p) \/ EnqueueSerialized(p)
             \/ ProduceStart(p) \/ ProduceFull(p) \/ ProduceRetry(p)
             \/ ProduceCount(p)
    <3>1. ppc[p] # "fill" /\ ppc'[p] # "fill"
      BY <2>2 DEF EnqueueEnter, EnqueueUnserialized, EnqueueSerialized,
                  ProduceStart, ProduceFull, ProduceRetry, ProduceCount, Goto,
                  CanCall
    <3>2. \A q \in Producers : q # p => ppc'[q] = ppc[q] /\ ticket'[q] = ticket[q]
      BY <2>2 DEF EnqueueEnter, EnqueueUnserialized, EnqueueSerialized,
                  ProduceStart, ProduceFull, ProduceRetry, ProduceCount, Goto
    <3>3. UNCHANGED <<head, tail, ready, broken>>
      BY <2>2 DEF EnqueueEnter, EnqueueUnserialized, EnqueueSerialized,
                  ProduceStart, ProduceFull, ProduceRetry, ProduceCount
    <3>4. QED
      BY <3>1, <3>2, <3>3
  <2>3. CASE ProducePadBreaks(p)
    BY <1>k, <2>3 DEF ProducePadBreaks
  <2>4. CASE ProduceClaim(p) /\ ~Break
    <3>1. /\ ppc' = [ppc EXCEPT ![p] = "fill"] /\ ticket[p] = tail
          /\ tail' = tail + 1
          /\ UNCHANGED <<ticket, head, ready, broken>>
      BY <2>4 DEF ProduceClaim, Goto
    <3>2. QED
      BY <3>1
  <2>5. CASE ProduceCommit(p)
    <3>1. /\ ppc[p] = "fill" /\ ppc' = [ppc EXCEPT ![p] = "count"]
          /\ ready' = IF broken THEN {} ELSE ready \cup {ticket[p]}
          /\ \A q \in Producers : q # p => ticket'[q] = ticket[q]
          /\ UNCHANGED <<head, tail, broken>>
      BY <2>5 DEF ProduceCommit, Goto
    <3>2. CASE broken
      BY <3>1, <3>2
    <3>3. CASE ~broken
      BY <3>1, <3>3
    <3>4. QED
      BY <3>2, <3>3
  <2>6. CASE ProduceClaim(p) /\ Break
    BY <1>k, <2>6
  <2>7. QED
    BY <1>5, <2>1, <2>2, <2>3, <2>4, <2>5, <2>6 DEF Enqueue
<1>6. CASE Worker
  <2>1. CASE DrainTake
    <3>1. /\ head' = head + 1 /\ ready' = ready \ {head}
          /\ UNCHANGED <<ppc, ticket, tail, broken>>
      BY <2>1 DEF DrainTake
    <3>2. ~broken => head < tail /\ head \in ready
      BY <2>1 DEF DrainTake, HeadReady
    <3>3. QED
      BY <3>1, <3>2
  <2>2. CASE DrainSkipStuck \/ DrainSkipFree
    BY <1>k, <2>2 DEF DrainSkipStuck, DrainSkipFree
  <2>3. CASE WakeStop \/ WakeData \/ WakeIdle \/ DrainNothing \/ RouteNoClient
             \/ RouteClient \/ SendNoPort \/ SendCopyPort \/ SendCall
             \/ SendSucceeds \/ SendTimesOut \/ SendFails
    BY <1>1, <2>3 DEF WakeStop, WakeData, WakeIdle, DrainNothing,
         RouteNoClient, RouteClient, SendNoPort, SendCopyPort, SendCall,
         SendSucceeds, SendTimesOut, SendFails
  <2>4. QED
    BY <1>6, <2>1, <2>2, <2>3 DEF Worker
<1>7. CASE UNCHANGED vars
  BY <1>1, <1>7 DEF vars
<1>8. QED
  BY <1>2, <1>3, <1>4, <1>5, <1>6, <1>7 DEF Next

(* Until the ring breaks, no callback fills a slot of another one or one   *)
(* that the worker may take.                                               *)
LEMMA RingInvariant == Spec => []RingInv
<1>1. Init => RingInv
  BY DEF Init, RingInv, SlotsOwned, InState
<1>2. QED
  BY <1>1, RingInductive, TypeCorrect, PTL DEF Spec

(* The buffers outlive the worker: m_ring and m_sendBuf are allocated      *)
(* before the thread runs and freed only after it has ended.               *)
THEOREM WorkerMemorySafe == Spec => []RingOutlivesWorker
<1>1. Init => RingOutlivesWorker
  BY DEF Init, RingOutlivesWorker
<1>2. RingOutlivesWorker /\ [Next]_vars => RingOutlivesWorker'
  <2> SUFFICES ASSUME RingOutlivesWorker, [Next]_vars
               PROVE  RingOutlivesWorker'
    OBVIOUS
  <2> USE DEF RingOutlivesWorker
  <2>1. CASE Load
    BY <2>1 DEF Load, StartFiltering, InitializeFails, InitializeStart,
                InitializeActivate
  <2>2. CASE Unload
    BY <2>2 DEF Unload, UninitializeDeactivate, UninitializeSignal,
                UninitializeFree, UnloadClosePorts, UnloadUnregister
  <2>3. ASSUME NEW p \in Producers, Enqueue(p) PROVE RingOutlivesWorker'
    BY <2>3 DEF Enqueue, EnqueueRejected, EnqueueEnter, EnqueueUnserialized,
                EnqueueSerialized, ProduceStart, ProduceFull, ProduceRetry,
                ProducePadBreaks, ProduceClaim, ProduceCommit, ProduceCount
  <2>4. CASE Client
    BY <2>4 DEF Client, PortConnect, OnClientConnected, OnClientDisconnected,
                ClosePort
  <2>5. CASE Worker
    BY <2>5 DEF Worker, WakeStop, WakeData, WakeIdle, DrainNothing, DrainTake,
         DrainSkipStuck, DrainSkipFree, RouteNoClient, RouteClient, SendNoPort, SendCopyPort, SendCall,
         SendSucceeds, SendTimesOut, SendFails
  <2>6. CASE UNCHANGED vars
    BY <2>6 DEF vars
  <2>7. QED
    BY <2>1, <2>2, <2>3, <2>4, <2>5, <2>6 DEF Next
<1>3. QED
  BY <1>1, <1>2, PTL DEF Spec

-----------------------------------------------------------------------------
(* Only the worker gives fates, one to the event it holds. *)
LEMMA FateInductive ==
  TypeOK /\ HeldInv /\ OneFateEach /\ [Next]_vars => OneFateEach'
<1> SUFFICES ASSUME TypeOK, HeldInv, OneFateEach, [Next]_vars
             PROVE  OneFateEach'
  OBVIOUS
<1> USE DispatcherAssumption DEF TypeOK, HeldInv, OneFateEach, Holding
<1>1. CASE UNCHANGED <<delivered, timedOut, failed, unsent, held, head>>
  BY <1>1
<1>2. CASE Load
  BY <1>1, <1>2 DEF Load, StartFiltering, InitializeFails, InitializeStart,
                    InitializeActivate
<1>3. CASE Unload
  BY <1>1, <1>3 DEF Unload, UninitializeDeactivate, UninitializeSignal,
                    UninitializeFree, UnloadClosePorts, UnloadUnregister
<1>4. CASE Client
  BY <1>1, <1>4 DEF Client, PortConnect, OnClientConnected,
                    OnClientDisconnected, ClosePort
<1>5. ASSUME NEW p \in Producers, Enqueue(p) PROVE OneFateEach'
  BY <1>1, <1>5 DEF Enqueue, EnqueueRejected, EnqueueEnter,
       EnqueueUnserialized, EnqueueSerialized, ProduceStart, ProduceFull,
       ProduceRetry, ProducePadBreaks, ProduceClaim, ProduceCommit,
       ProduceCount
<1>6. CASE Worker
  <2>1. CASE DrainTake
    <3>1. held = NoTicket /\ held' = head /\ head' = head + 1 /\ head \in Nat
      BY <2>1 DEF DrainTake
    <3>2. 0 .. head' - 1 = (0 .. head - 1) \cup {head} /\ head \notin 0 .. head - 1
      BY <3>1
    <3>3. Holding = {} /\ Holding' = {head}
      BY <3>1
    <3>4. UNCHANGED <<delivered, timedOut, failed, unsent>>
      BY <2>1 DEF DrainTake
    <3>5. QED
      BY <3>2, <3>3, <3>4
  <2>2. CASE RouteNoClient
    BY <2>2 DEF RouteNoClient
  <2>3. CASE SendSucceeds
    BY <2>3 DEF SendSucceeds
  <2>4. CASE SendTimesOut
    BY <2>4 DEF SendTimesOut
  <2>5. CASE SendNoPort \/ SendFails
    BY <2>5 DEF SendNoPort, SendFails
  <2>6. CASE WakeStop \/ WakeData \/ WakeIdle \/ DrainNothing
             \/ DrainSkipStuck \/ DrainSkipFree
             \/ RouteClient \/ SendCopyPort \/ SendCall
    BY <1>1, <2>6 DEF WakeStop, WakeData, WakeIdle, DrainNothing,
         DrainSkipStuck, DrainSkipFree, RouteClient, SendCopyPort, SendCall
  <2>7. QED
    BY <1>6, <2>1, <2>2, <2>3, <2>4, <2>5, <2>6 DEF Worker
<1>7. CASE UNCHANGED vars
  BY <1>1, <1>7 DEF vars
<1>8. QED
  BY <1>2, <1>3, <1>4, <1>5, <1>6, <1>7 DEF Next

(* No event is lost track of and none is handled twice, whatever the       *)
(* client and the unload do while the worker holds it.                     *)
THEOREM FateUnique == Spec => []OneFateEach
<1>1. Init => OneFateEach
  <2> SUFFICES ASSUME Init PROVE OneFateEach
    OBVIOUS
  <2>1. head = 0 /\ held = NoTicket
    BY DEF Init
  <2>2. QED
    BY <2>1 DEF Init, OneFateEach, Holding
<1>2. QED
  BY <1>1, FateInductive, TypeCorrect, PTL DEF Spec

-----------------------------------------------------------------------------
(* The number of callbacks at a place changes by one with the callback     *)
(* that enters or leaves it.                                               *)
LEMMA CountPlus ==
  ASSUME NEW S, IsFiniteSet(S), NEW x, x \notin S
  PROVE  IsFiniteSet(S \cup {x}) /\ Cardinality(S \cup {x}) = Cardinality(S) + 1
         /\ Cardinality(S) \in Nat
BY FS_AddElement, FS_CardinalityType

(* Likewise for the callback that leaves. *)
LEMMA CountMinus ==
  ASSUME NEW S, IsFiniteSet(S), NEW x, x \in S
  PROVE  IsFiniteSet(S \ {x}) /\ Cardinality(S \ {x}) = Cardinality(S) - 1
         /\ Cardinality(S) \in Nat
BY FS_RemoveElement, FS_CardinalityType

(* The sets that are counted are finite. *)
LEMMA CountedSetsFinite ==
  ASSUME TypeOK, RingInv, OneFateEach
  PROVE  /\ IsFiniteSet(ready) /\ IsFiniteSet(unsent)
         /\ \A l : IsFiniteSet(InState(l))
         /\ IsFiniteSet(Busy)
<1>1. IsFiniteSet(ready)
  <2>1. IsFiniteSet(head .. tail - 1)
    BY FS_Interval DEF TypeOK
  <2>2. CASE broken
    BY <2>2, FS_EmptySet DEF RingInv
  <2>3. CASE ~broken
    BY <2>1, <2>3, FS_Subset DEF RingInv
  <2>4. QED
    BY <2>2, <2>3
<1>2. IsFiniteSet(unsent)
  <2>1. IsFiniteSet(0 .. head - 1)
    BY FS_Interval DEF TypeOK
  <2>2. unsent \subseteq 0 .. head - 1
    BY DEF OneFateEach
  <2>3. QED
    BY <2>1, <2>2, FS_Subset
<1>3. \A l : IsFiniteSet(InState(l))
  BY DispatcherAssumption, FS_Subset DEF InState
<1>4. IsFiniteSet(Busy)
  BY DispatcherAssumption, FS_Subset DEF Busy
<1>5. QED
  BY <1>1, <1>2, <1>3, <1>4

(* Where a callback is counted before and after one of its steps. *)
LEMMA PlacesAfterGoto ==
  ASSUME TypeOK, NEW p \in Producers, NEW l, Goto(p, l)
  PROVE  /\ InState("count")' = IF l = "count" THEN InState("count") \cup {p}
                                ELSE InState("count") \ {p}
         /\ Busy' = IF l # "idle" THEN Busy \cup {p} ELSE Busy \ {p}
BY DEF TypeOK, Goto, InState, Busy

(* A ring that has lost its slots does not find them again. *)
LEMMA BrokenStays == broken /\ [Next]_vars => broken'
<1> SUFFICES ASSUME broken, [Next]_vars PROVE broken'
  OBVIOUS
<1>1. CASE Load
  BY <1>1, Zenon DEF Load, StartFiltering, InitializeFails, InitializeStart,
                     InitializeActivate
<1>2. CASE Unload
  BY <1>2, Zenon DEF Unload, UninitializeDeactivate, UninitializeSignal,
                     UninitializeFree, UnloadClosePorts, UnloadUnregister
<1>3. ASSUME NEW p \in Producers, Enqueue(p) PROVE broken'
  BY <1>3, Zenon DEF Enqueue, EnqueueRejected, EnqueueEnter,
       EnqueueUnserialized, EnqueueSerialized, ProduceStart, ProduceFull,
       ProduceRetry, ProducePadBreaks, ProduceClaim, ProduceCommit,
       ProduceCount, Break
<1>4. CASE Client
  BY <1>4, Zenon DEF Client, PortConnect, OnClientConnected,
                     OnClientDisconnected, ClosePort
<1>5. CASE Worker
  BY <1>5, Zenon DEF Worker, WakeStop, WakeData, WakeIdle, DrainNothing,
       DrainTake, DrainSkipStuck, DrainSkipFree, Break, RouteNoClient,
       RouteClient, SendNoPort, SendCopyPort, SendCall, SendSucceeds,
       SendTimesOut, SendFails
<1>6. CASE UNCHANGED vars
  BY <1>6, Zenon DEF vars
<1>7. QED
  BY <1>1, <1>2, <1>3, <1>4, <1>5, <1>6 DEF Next

(* Every step keeps the accounts of m_enqueued and m_dropped balanced. *)
LEMMA CountersInductive ==
  TypeOK /\ HeldInv /\ RingInv /\ OneFateEach /\ CountersExact /\ [Next]_vars
    => CountersExact'
<1> SUFFICES ASSUME TypeOK, HeldInv, RingInv, OneFateEach, CountersExact,
                    [Next]_vars
             PROVE  CountersExact'
  OBVIOUS
<1>0. /\ IsFiniteSet(ready) /\ IsFiniteSet(unsent) /\ IsFiniteSet(Busy)
      /\ IsFiniteSet(InState("count"))
      /\ Cardinality(ready) \in Nat /\ Cardinality(unsent) \in Nat
      /\ Cardinality(Busy) \in Nat /\ Cardinality(InState("count")) \in Nat
  BY CountedSetsFinite, FS_CardinalityType
<1>t. /\ head \in Nat /\ enqueued \in Nat /\ dropped \in Nat /\ calls \in Nat
      /\ rejected \in Nat
  BY DEF TypeOK
<1>c. calls + Cardinality(unsent)
        = rejected + Cardinality(Busy) + enqueued + dropped
  BY DEF CountersExact
<1>b. broken \in BOOLEAN /\ broken' \in BOOLEAN /\ (broken => broken')
  <2>1. broken \in BOOLEAN /\ broken' \in BOOLEAN
    BY FlagsInductive DEF TypeOK, FlagsOK
  <2>2. broken => broken'
    BY BrokenStays
  <2>3. QED
    BY <2>1, <2>2
<1>1. CASE UNCHANGED <<ppc, ready, head, unsent, enqueued, dropped, calls,
                       rejected, broken>>
  BY <1>1 DEF CountersExact, InState, Busy
<1>2. CASE Load
  BY <1>1, <1>2 DEF Load, StartFiltering, InitializeFails, InitializeStart,
                    InitializeActivate
<1>3. CASE Unload
  BY <1>1, <1>3 DEF Unload, UninitializeDeactivate, UninitializeSignal,
                    UninitializeFree, UnloadClosePorts, UnloadUnregister
<1>4. CASE Client
  BY <1>1, <1>4 DEF Client, PortConnect, OnClientConnected,
                    OnClientDisconnected, ClosePort
<1>5. ASSUME NEW p \in Producers, Enqueue(p) PROVE CountersExact'
  <2>0. /\ p \in Busy <=> ppc[p] # "idle"
        /\ p \in InState("count") <=> ppc[p] = "count"
    BY DEF Busy, InState
  <2>1. CASE EnqueueRejected(p)
    <3>1. UNCHANGED <<ppc, ready, head, unsent, enqueued, dropped, broken>>
      BY <2>1 DEF EnqueueRejected
    <3>2. InState("count")' = InState("count") /\ Busy' = Busy
      BY <3>1 DEF InState, Busy
    <3>3. QED
      BY <1>0, <1>t, <2>1, <3>1, <3>2 DEF EnqueueRejected, CountersExact
  <2>2. CASE EnqueueEnter(p)
    <3>1. ppc[p] = "idle" /\ Goto(p, "serialize")
      BY <2>2 DEF EnqueueEnter, CanCall
    <3>2. InState("count")' = InState("count") /\ Busy' = Busy \cup {p}
      BY <2>0, <3>1, PlacesAfterGoto
    <3>3. Cardinality(Busy') = Cardinality(Busy) + 1
      BY <1>0, <2>0, <3>1, <3>2, CountPlus
    <3>4. QED
      BY <1>0, <1>t, <2>2, <3>2, <3>3 DEF EnqueueEnter, CountersExact
  <2>3. CASE EnqueueUnserialized(p) \/ ProduceFull(p)
    <3>1. /\ ppc[p] \in {"serialize", "check"} /\ Goto(p, "idle")
          /\ dropped' = dropped + 1
          /\ UNCHANGED <<ready, head, unsent, enqueued, calls, rejected, broken>>
      BY <2>3 DEF EnqueueUnserialized, ProduceFull
    <3>2. InState("count")' = InState("count") /\ Busy' = Busy \ {p}
      BY <2>0, <3>1, PlacesAfterGoto
    <3>3. Cardinality(Busy') = Cardinality(Busy) - 1
      BY <1>0, <2>0, <3>1, <3>2, CountMinus
    <3>4. calls' + Cardinality(unsent')
            = rejected' + Cardinality(Busy') + enqueued' + dropped'
      BY <1>0, <1>t, <1>c, <3>1, <3>2, <3>3
    <3>5. QED
      BY <3>1, <3>2, <3>4 DEF CountersExact
  <2>4. CASE EnqueueSerialized(p) \/ ProduceStart(p) \/ ProduceRetry(p)
             \/ ProducePadBreaks(p) \/ ProduceClaim(p)
    <3>1. /\ ppc[p] \in {"serialize", "produce", "check"}
          /\ Goto(p, "produce") \/ Goto(p, "check") \/ Goto(p, "fill")
          /\ UNCHANGED <<head, unsent, enqueued, dropped, calls, rejected>>
          /\ broken' \/ UNCHANGED <<broken, ready>>
      BY <2>4 DEF EnqueueSerialized, ProduceStart, ProduceRetry,
                  ProducePadBreaks, ProduceClaim, Break
    <3>2. InState("count")' = InState("count") /\ Busy' = Busy
      BY <2>0, <3>1, PlacesAfterGoto
    <3>3. QED
      BY <3>1, <3>2 DEF CountersExact
  <2>5. CASE ProduceCommit(p)
    <3>1. ppc[p] = "fill" /\ Goto(p, "count")
      BY <2>5 DEF ProduceCommit
    <3>2. InState("count")' = InState("count") \cup {p} /\ Busy' = Busy
      BY <2>0, <3>1, PlacesAfterGoto
    <3>3. Cardinality(InState("count")') = Cardinality(InState("count")) + 1
      BY <1>0, <2>0, <3>1, <3>2, CountPlus
    <3>4. ~broken => ticket[p] \notin ready
      BY <3>1 DEF RingInv, SlotsOwned, InState
    <3>5. ~broken => Cardinality(ready') = Cardinality(ready) + 1
      BY <1>0, <2>5, <3>4, CountPlus DEF ProduceCommit
    <3>6. UNCHANGED <<head, unsent, enqueued, dropped, calls, rejected, broken>>
      BY <2>5 DEF ProduceCommit
    <3>7. QED
      BY <1>0, <1>t, <3>2, <3>3, <3>5, <3>6 DEF CountersExact
  <2>6. CASE ProduceCount(p)
    <3>1. ppc[p] = "count" /\ Goto(p, "idle")
      BY <2>6 DEF ProduceCount
    <3>2. InState("count")' = InState("count") \ {p} /\ Busy' = Busy \ {p}
      BY <2>0, <3>1, PlacesAfterGoto
    <3>3. /\ Cardinality(InState("count")') = Cardinality(InState("count")) - 1
          /\ Cardinality(Busy') = Cardinality(Busy) - 1
      BY <1>0, <2>0, <3>1, <3>2, CountMinus
    <3>4. /\ enqueued' = enqueued + 1
          /\ UNCHANGED <<ready, head, unsent, dropped, calls, rejected, broken>>
      BY <2>6 DEF ProduceCount
    <3>5. QED
      BY <1>0, <1>t, <3>3, <3>4 DEF CountersExact
  <2>7. QED
    BY <1>5, <2>1, <2>2, <2>3, <2>4, <2>5, <2>6 DEF Enqueue
<1>6. CASE Worker
  <2>1. CASE DrainTake
    <3>1. /\ ~broken => head \in ready
          /\ ready' = ready \ {head} /\ head' = head + 1
          /\ UNCHANGED <<ppc, unsent, enqueued, dropped, calls, rejected, broken>>
      BY <2>1 DEF DrainTake, HeadReady
    <3>2. ~broken => Cardinality(ready') = Cardinality(ready) - 1
      BY <1>0, <3>1, CountMinus
    <3>3. InState("count")' = InState("count") /\ Busy' = Busy
      BY <3>1 DEF InState, Busy
    <3>4. QED
      BY <1>0, <1>t, <3>1, <3>2, <3>3 DEF CountersExact
  <2>2. CASE RouteNoClient
    <3>1. /\ unsent' = unsent \cup {held} /\ dropped' = dropped + 1
          /\ UNCHANGED <<ppc, ready, head, enqueued, calls, rejected, broken>>
      BY <2>2 DEF RouteNoClient
    <3>2. held \notin unsent
      BY <2>2 DEF RouteNoClient, HeldInv, OneFateEach, Holding
    <3>3. Cardinality(unsent') = Cardinality(unsent) + 1
      BY <1>0, <3>1, <3>2, CountPlus
    <3>4. InState("count")' = InState("count") /\ Busy' = Busy
      BY <3>1 DEF InState, Busy
    <3>5. calls' + Cardinality(unsent')
            = rejected' + Cardinality(Busy') + enqueued' + dropped'
      BY <1>0, <1>t, <1>c, <3>1, <3>3, <3>4
    <3>6. QED
      BY <3>1, <3>4, <3>5 DEF CountersExact
  <2>3. CASE WakeStop \/ WakeData \/ WakeIdle \/ DrainNothing \/ RouteClient
             \/ SendNoPort \/ SendCopyPort \/ SendCall \/ SendSucceeds
             \/ SendTimesOut \/ SendFails
    BY <1>1, <2>3 DEF WakeStop, WakeData, WakeIdle, DrainNothing, RouteClient,
         SendNoPort, SendCopyPort, SendCall, SendSucceeds, SendTimesOut,
         SendFails
  <2>4. CASE DrainSkipStuck \/ DrainSkipFree
    <3>1. /\ broken'
          /\ UNCHANGED <<ppc, head, unsent, enqueued, dropped, calls, rejected>>
      BY <2>4 DEF DrainSkipStuck, DrainSkipFree, Break
    <3>2. QED
      BY <3>1 DEF CountersExact, InState, Busy
  <2>5. QED
    BY <1>6, <2>1, <2>2, <2>3, <2>4 DEF Worker
<1>7. CASE UNCHANGED vars
  BY <1>1, <1>7 DEF vars
<1>8. QED
  BY <1>2, <1>3, <1>4, <1>5, <1>6, <1>7 DEF Next

(* m_enqueued and m_dropped account for every call of Enqueue and every    *)
(* event drained without a client, at every moment.                        *)
THEOREM CountersCorrect == Spec => []CountersExact
<1>1. Init => CountersExact
  <2> SUFFICES ASSUME Init PROVE CountersExact
    OBVIOUS
  <2>1. InState("count") = {} /\ Busy = {}
    BY DEF Init, InState, Busy
  <2>2. QED
    BY <2>1, FS_EmptySet DEF Init, CountersExact
<1>2. QED
  BY <1>1, CountersInductive, TypeCorrect, RingInvariant, FateUnique, PTL DEF Spec

-----------------------------------------------------------------------------
(* The worker exits only after the stop event, which Uninitialize sets     *)
(* after it has cleared m_active.                                          *)
StopInv ==
  /\ stopEvent => lpc \in UnloadPcs \ {"stopping"}
  /\ stopping => stopEvent
  /\ wpc = "exited" => stopping

(* What was committed when Uninitialize began has been taken, or is        *)
(* committed still.                                                        *)
OwedInv == ~broken => \A t \in owed : t < head \/ t \in ready

(* The stop event and the flag of the worker follow the unload. *)
LEMMA StopInductive == HeldInv /\ StopInv /\ [Next]_vars => StopInv'
<1> SUFFICES ASSUME HeldInv, StopInv, [Next]_vars PROVE StopInv'
  OBVIOUS
<1> USE DEF StopInv, UnloadPcs
<1>1. CASE UNCHANGED <<lpc, stopEvent, stopping, wpc>>
  BY <1>1
<1>2. CASE Load
  BY <1>2 DEF Load, StartFiltering, InitializeFails, InitializeStart,
              InitializeActivate
<1>3. CASE Unload
  BY <1>3 DEF Unload, UninitializeDeactivate, UninitializeSignal,
              UninitializeFree, UnloadClosePorts, UnloadUnregister
<1>4. CASE Client
  BY <1>1, <1>4 DEF Client, PortConnect, OnClientConnected,
                    OnClientDisconnected, ClosePort
<1>5. ASSUME NEW p \in Producers, Enqueue(p) PROVE StopInv'
  BY <1>1, <1>5 DEF Enqueue, EnqueueRejected, EnqueueEnter,
       EnqueueUnserialized, EnqueueSerialized, ProduceStart, ProduceFull,
       ProduceRetry, ProducePadBreaks, ProduceClaim, ProduceCommit,
       ProduceCount
<1>6. CASE Worker
  <2>1. CASE WakeStop \/ WakeData \/ WakeIdle
    BY <2>1 DEF WakeStop, WakeData, WakeIdle
  <2>2. CASE DrainNothing \/ DrainTake \/ DrainSkipStuck \/ DrainSkipFree
    BY <2>2 DEF DrainNothing, DrainTake, DrainSkipStuck, DrainSkipFree, EndDrain
  <2>3. CASE RouteNoClient \/ RouteClient \/ SendNoPort \/ SendCopyPort
    BY <2>3 DEF RouteNoClient, RouteClient, SendNoPort, SendCopyPort, EndDrain
  <2>4. CASE SendCall \/ SendSucceeds \/ SendTimesOut \/ SendFails
    BY <2>4 DEF SendCall, SendSucceeds, SendTimesOut, SendFails, EndDrain
  <2>5. QED
    BY <1>6, <2>1, <2>2, <2>3, <2>4 DEF Worker
<1>7. CASE UNCHANGED vars
  BY <1>1, <1>7 DEF vars
<1>8. QED
  BY <1>2, <1>3, <1>4, <1>5, <1>6, <1>7 DEF Next

(* An event leaves a whole ring only by being taken, in order. *)
LEMMA OwedInductive ==
  TypeOK /\ TypeOK' /\ RingInv /\ OwedInv /\ [Next]_vars => OwedInv'
<1> SUFFICES ASSUME TypeOK, TypeOK', RingInv, OwedInv, [Next]_vars
             PROVE  OwedInv'
  OBVIOUS
<1>t. head \in Nat /\ owed \subseteq Nat
  BY DEF TypeOK
<1> USE DEF OwedInv
<1>1. CASE UNCHANGED <<head, ready, broken, owed>>
  BY <1>1
<1>2. CASE Load
  BY <1>1, <1>2 DEF Load, StartFiltering, InitializeFails, InitializeStart,
                    InitializeActivate
<1>3. CASE Unload
  <2>1. CASE UninitializeDeactivate
    BY <2>1 DEF UninitializeDeactivate
  <2>2. CASE UninitializeSignal \/ UninitializeFree \/ UnloadClosePorts
             \/ UnloadUnregister
    BY <1>1, <2>2 DEF UninitializeSignal, UninitializeFree, UnloadClosePorts,
                      UnloadUnregister
  <2>3. QED
    BY <1>3, <2>1, <2>2 DEF Unload
<1>4. CASE Client
  BY <1>1, <1>4 DEF Client, PortConnect, OnClientConnected,
                    OnClientDisconnected, ClosePort
<1>5. ASSUME NEW p \in Producers, Enqueue(p) PROVE OwedInv'
  <2>1. CASE ProducePadBreaks(p) \/ ProduceClaim(p)
    BY <1>1, <2>1 DEF ProducePadBreaks, ProduceClaim, Break
  <2>2. CASE ProduceCommit(p)
    BY <2>2 DEF ProduceCommit
  <2>3. CASE EnqueueRejected(p) \/ EnqueueEnter(p) \/ EnqueueUnserialized(p)
             \/ EnqueueSerialized(p) \/ ProduceStart(p) \/ ProduceFull(p)
             \/ ProduceRetry(p) \/ ProduceCount(p)
    BY <1>1, <2>3 DEF EnqueueRejected, EnqueueEnter, EnqueueUnserialized,
         EnqueueSerialized, ProduceStart, ProduceFull, ProduceRetry,
         ProduceCount
  <2>4. QED
    BY <1>5, <2>1, <2>2, <2>3 DEF Enqueue
<1>6. CASE Worker
  <2>1. CASE DrainTake
    BY <1>t, <2>1 DEF DrainTake
  <2>2. CASE DrainSkipStuck \/ DrainSkipFree
    BY <2>2 DEF DrainSkipStuck, DrainSkipFree, Break
  <2>3. CASE WakeStop \/ WakeData \/ WakeIdle \/ DrainNothing \/ RouteNoClient
             \/ RouteClient \/ SendNoPort \/ SendCopyPort \/ SendCall
             \/ SendSucceeds \/ SendTimesOut \/ SendFails
    BY <1>1, <2>3 DEF WakeStop, WakeData, WakeIdle, DrainNothing,
         RouteNoClient, RouteClient, SendNoPort, SendCopyPort, SendCall,
         SendSucceeds, SendTimesOut, SendFails
  <2>4. QED
    BY <1>6, <2>1, <2>2, <2>3 DEF Worker
<1>7. CASE UNCHANGED vars
  BY <1>1, <1>7 DEF vars
<1>8. QED
  BY <1>2, <1>3, <1>4, <1>5, <1>6, <1>7 DEF Next

(* The worker finds nothing more to take before it exits, and nothing      *)
(* committed before Uninitialize appears behind it.                        *)
LEMMA PromiseInductive ==
  TypeOK /\ TypeOK' /\ RingInv /\ StopInv /\ OwedInv /\ DrainKeepsPromise
  /\ [Next]_vars
    => DrainKeepsPromise'
<1> SUFFICES ASSUME TypeOK, TypeOK', RingInv, StopInv, OwedInv,
                    DrainKeepsPromise, [Next]_vars
             PROVE  DrainKeepsPromise'
  OBVIOUS
<1>t. head \in Nat /\ tail \in Nat
  BY DEF TypeOK
<1> USE DEF DrainKeepsPromise
<1>1. CASE UNCHANGED <<wpc, head, cut, owed>> /\ (broken => broken')
  BY <1>1
<1>b. broken => broken'
  BY BrokenStays
<1>2. CASE Load
  <2>1. CASE InitializeStart
    BY <2>1 DEF InitializeStart
  <2>2. CASE StartFiltering \/ InitializeFails \/ InitializeActivate
    BY <1>1, <1>b, <2>2 DEF StartFiltering, InitializeFails, InitializeActivate
  <2>3. QED
    BY <1>2, <2>1, <2>2 DEF Load
<1>3. CASE Unload
  <2>1. CASE UninitializeDeactivate
    <3>1. lpc = "running" /\ wpc' = wpc
      BY <2>1 DEF UninitializeDeactivate
    <3>2. wpc # "exited"
      BY <3>1 DEF StopInv, UnloadPcs
    <3>3. QED
      BY <3>1, <3>2
  <2>2. CASE UninitializeSignal \/ UninitializeFree \/ UnloadClosePorts
             \/ UnloadUnregister
    BY <1>1, <1>b, <2>2 DEF UninitializeSignal, UninitializeFree,
                            UnloadClosePorts, UnloadUnregister
  <2>3. QED
    BY <1>3, <2>1, <2>2 DEF Unload
<1>4. CASE Client
  BY <1>1, <1>b, <1>4 DEF Client, PortConnect, OnClientConnected,
                          OnClientDisconnected, ClosePort
<1>5. ASSUME NEW p \in Producers, Enqueue(p) PROVE DrainKeepsPromise'
  <2>1. UNCHANGED <<wpc, head, cut, owed>>
    BY <1>5 DEF Enqueue, EnqueueRejected, EnqueueEnter, EnqueueUnserialized,
         EnqueueSerialized, ProduceStart, ProduceFull, ProduceRetry,
         ProducePadBreaks, ProduceClaim, ProduceCommit, ProduceCount
  <2>2. QED
    BY <1>1, <1>b, <2>1
<1>6. CASE Worker
  <2>1. CASE DrainNothing
    <3>1. /\ broken \/ ~HeadReady
          /\ UNCHANGED <<head, ready, broken, owed>>
      BY <2>1 DEF DrainNothing
    <3>2. ~broken => head \notin ready
      BY <1>t, <3>1 DEF HeadReady, RingInv
    <3>3. ~broken => head \notin owed
      BY <1>t, <3>2 DEF OwedInv
    <3>4. QED
      BY <3>1, <3>3
  <2>2. CASE DrainSkipStuck \/ DrainSkipFree
    BY <2>2 DEF DrainSkipStuck, DrainSkipFree, Break
  <2>3. CASE SendNoPort \/ SendFails
    <3>1. /\ wpc' = IF stopping THEN "exited" ELSE "wait"
          /\ cut' = (cut \/ stopping)
      BY <2>3 DEF SendNoPort, SendFails, EndDrain
    <3>2. QED
      BY <3>1
  <2>4. CASE WakeStop \/ WakeData \/ WakeIdle \/ DrainTake \/ RouteNoClient
             \/ RouteClient
    BY <2>4 DEF WakeStop, WakeData, WakeIdle, DrainTake, RouteNoClient,
                RouteClient
  <2>5. CASE SendCopyPort \/ SendCall \/ SendSucceeds \/ SendTimesOut
    BY <2>5 DEF SendCopyPort, SendCall, SendSucceeds, SendTimesOut
  <2>6. QED
    BY <1>6, <2>1, <2>2, <2>3, <2>4, <2>5 DEF Worker
<1>7. CASE UNCHANGED vars
  BY <1>1, <1>b, <1>7 DEF vars
<1>8. QED
  BY <1>2, <1>3, <1>4, <1>5, <1>6, <1>7 DEF Next

(* Uninitialize drains what it promises: unless the ring broke or a failed *)
(* send cut the last drain short, the first event the worker leaves behind *)
(* was not committed when m_active was cleared.                            *)
THEOREM LastDrainComplete == Spec => []DrainKeepsPromise
<1>1. Init => StopInv /\ OwedInv /\ DrainKeepsPromise
  BY DEF Init, StopInv, OwedInv, DrainKeepsPromise
<1>2. QED
  BY <1>1, StopInductive, OwedInductive, PromiseInductive, TypeCorrect,
     RingInvariant, PTL DEF Spec

(***************************************************************************)
(* The byte ring (SlotRing).  The invariant, SlotInv, has five parts: the  *)
(* types; Tiled, that the live slots follow one another from the position  *)
(* being read to the position claimed, less than a lap in all; Owned, that *)
(* each writer in ProduceSlot holds the slot it claimed; AllPrepared, that *)
(* the slots no writer holds are ready; and HeadersMatch.  LayoutSound is  *)
(* a consequence, and the refinement of SlotQueue reads its queue off the  *)
(* live slots.  First come lemmas about positions modulo the ring size.    *)
(***************************************************************************)

(* A position is a number of laps and an offset. *)
LEMMA Division ==
  ASSUME NEW R \in Nat \ {0}, NEW x \in Int
  PROVE  /\ x \div R \in Int /\ x % R \in 0 .. R - 1
         /\ x = R * (x \div R) + (x % R)
OBVIOUS

(* A multiple of the ring size that is smaller than it is zero. *)
LEMMA NoLap ==
  ASSUME NEW R \in Nat \ {0}, NEW k \in Int, 0 <= R * k, R * k < R
  PROVE  k = 0
<1>1. ASSUME k >= 1 PROVE FALSE
  <2>1. R * k = R + R * (k - 1)
    OBVIOUS
  <2>2. R * (k - 1) >= 0
    BY <1>1
  <2> QED
    BY <2>1, <2>2
<1>2. ASSUME k <= -1 PROVE FALSE
  <2>1. PICK j \in Nat : k = -1 - j
    BY <1>2
  <2>2. R * j >= 0
    OBVIOUS
  <2>3. R * k = -R - R * j
    BY <2>1
  <2> QED
    BY <2>2, <2>3
<1> QED
  BY <1>1, <1>2

(* An offset and a number of laps are those of one position. *)
LEMMA LapUnique ==
  ASSUME NEW R \in Nat \ {0}, NEW q \in Int, NEW o \in 0 .. R - 1
  PROVE  (R * q + o) % R = o
<1> DEFINE x == R * q + o
<1>0. x \in Int /\ R * q \in Int
  OBVIOUS
<1>1. x \div R \in Int /\ x % R \in 0 .. R - 1 /\ x = R * (x \div R) + (x % R)
  BY <1>0, Division
<1>2. PICK d : d = x \div R
  OBVIOUS
<1>3. PICK m : m = x % R
  OBVIOUS
<1>4. R * q + o = R * d + m /\ d \in Int /\ m \in 0 .. R - 1
  BY <1>1, <1>2, <1>3
<1>5. CASE o >= m
  <2>1. R * (d - q) = o - m
    BY <1>4
  <2>2. d - q = 0
    BY <1>4, <1>5, <2>1, NoLap
  <2>3. o - m = 0
    BY <1>4, <2>1, <2>2
  <2> QED
    BY <1>3, <1>4, <2>3
<1>6. CASE o < m
  <2>1. R * (q - d) = m - o
    BY <1>4
  <2>2. q - d = 0
    BY <1>4, <1>6, <2>1, NoLap
  <2>3. m - o = 0
    BY <1>4, <2>1, <2>2
  <2> QED
    BY <1>6, <1>4, <2>3
<1> QED
  BY <1>4, <1>5, <1>6

(* The offset of a position lies in the ring. *)
LEMMA OffType ==
  ASSUME NEW x \in Nat
  PROVE  Off(x) \in Offsets /\ SpaceToEnd(x) \in 1 .. RingSize
<1>1. RingSize \in Nat \ {0}
  BY SizesAssumption
<1>2. x % RingSize \in 0 .. RingSize - 1
  BY <1>1, Division
<1> QED
  BY <1>1, <1>2 DEF Off, Offsets, SpaceToEnd

(* Within one lap an offset is that of one position only. *)
LEMMA OffNear ==
  ASSUME NEW x \in Nat, NEW y \in Nat, x <= y, y < x + RingSize, Off(x) = Off(y)
  PROVE  x = y
<1>1. RingSize \in Nat \ {0}
  BY SizesAssumption
<1>2. PICK a \in Int, b \in Int, o \in Int : x = RingSize * a + o /\ y = RingSize * b + o
  <2>1. PICK a, b, o : a = x \div RingSize /\ b = y \div RingSize /\ o = x % RingSize
    OBVIOUS
  <2>2. x = RingSize * (x \div RingSize) + (x % RingSize) /\ y = RingSize * (y \div RingSize) + (y % RingSize)
    BY <1>1, Division
  <2>3. a \in Int /\ b \in Int /\ o \in Int
    BY <1>1, <2>1, Division
  <2>4. x = RingSize * a + o /\ y = RingSize * b + o
    BY <2>1, <2>2 DEF Off
  <2> QED
    BY <2>3, <2>4
<1>3. RingSize * (b - a) = y - x
  BY <1>1, <1>2
<1>4. b - a = 0
  BY <1>1, <1>3, NoLap
<1> QED
  BY <1>1, <1>2, <1>4

(* Offsets follow one another up to the end of the ring. *)
LEMMA OffAdd ==
  ASSUME NEW x \in Nat, NEW d \in Nat, Off(x) + d < RingSize
  PROVE  Off(x + d) = Off(x) + d
<1>1. RingSize \in Nat \ {0}
  BY SizesAssumption
<1>2. PICK o : o = x % RingSize
  OBVIOUS
<1>3. PICK q \in Int : x = RingSize * q + o /\ o \in 0 .. RingSize - 1
  <2>1. /\ x \div RingSize \in Int /\ x % RingSize \in 0 .. RingSize - 1
        /\ x = RingSize * (x \div RingSize) + (x % RingSize)
    BY <1>1, Division
  <2> QED
    BY <1>2, <2>1
<1>4. o + d \in 0 .. RingSize - 1
  BY <1>1, <1>2, <1>3 DEF Off
<1>5. (RingSize * q + (o + d)) % RingSize = o + d
  BY <1>1, <1>4, LapUnique
<1>6. RingSize * q + (o + d) = x + d
  BY <1>1, <1>3
<1> QED
  BY <1>2, <1>5, <1>6 DEF Off

(* The masked difference is the difference, unless the ring is full. *)
LEMMA UsedIs ==
  ASSUME NEW w \in Nat, NEW r \in Nat, r <= w, w < r + RingSize
  PROVE  Used(w, r) = w - r
<1>1. RingSize \in Nat \ {0}
  BY SizesAssumption
<1>2. (RingSize * 0 + (w - r)) % RingSize = w - r
  BY <1>1, LapUnique
<1>3. RingSize * 0 + (w - r) = w - r
  BY <1>1
<1> QED
  BY <1>2, <1>3 DEF Used

-----------------------------------------------------------------------------
(* Types. *)

(* What a producer's locals are while it is in ProduceSlot, and what is    *)
(* left of the history after the first fault.                              *)
LocalsOK ==
  /\ \A p \in Writers : pc[p] # "idle" => stride[p] \in HdrSize .. MaxStride /\ enqueues[p] >= 1
  /\ \A p \in Writers : pc[p] \in PadPcs => SpaceToEnd(cur[p]) \in HdrSize .. MaxStride
  /\ \A p \in Writers : pc[p] \in SlotPcs => stride[p] <= SpaceToEnd(cur[p])
  /\ consumer = "poison" => fault # "none"
  /\ fault # "none" => live = {}

RingTypes == RingTypeOK /\ LocalsOK

(* The sizes are numbers. *)
LEMMA SizesAre ==
  /\ RingSize \in Nat \ {0} /\ HdrSize \in Nat \ {0} /\ MaxStride \in Nat
  /\ HdrSize <= MaxStride /\ MaxStride < RingSize
BY SizesAssumption DEF MaxStride

(* The headers that are written without looking at what was there. *)
LEMMA HeadersAre == ZeroHdr \in Headers /\ JunkHdr \in Headers
BY SizesAre DEF ZeroHdr, JunkHdr, Headers, Free, Claimed, Committed, Junk

(* The strides an event may have. *)
LEMMA StridesAre == \A s \in EventStrides : s \in Nat /\ s > HdrSize
BY SizesAssumption

(* The event of a call that was made. *)
LEMMA MyEventType ==
  ASSUME RingTypes, NEW p \in Writers, pc[p] # "idle"
  PROVE  MyEvent(p) \in Events
<1>1. enqueues[p] \in 1 .. MaxEvents
  BY SizesAssumption DEF RingTypes, RingTypeOK, LocalsOK
<1> QED
  BY <1>1 DEF MyEvent, Events

(* Only the history changes when a slot is claimed. *)
LEMMA ClaimTypes ==
  ASSUME RingTypes, NEW p \in Writers, NEW len \in Nat, NEW e \in Events \cup {NoEvent},
         Claim(p, len, e)
  PROVE  /\ writeHead' \in Nat /\ live' \in SUBSET Slots
         /\ fault' \in {"none", "full", "fragment", "unpublished", "poison"}
         /\ fault # "none" => fault' # "none"
         /\ fault' # "none" => live' = {}
<1>1. writeHead' \in Nat
  BY DEF Claim, RingTypes, RingTypeOK
<1>2. fault' \in {"none", "full", "fragment", "unpublished", "poison"}
  BY DEF Claim, FaultOnClaim, RingTypes, RingTypeOK
<1>3. fault # "none" => fault' # "none"
  BY DEF Claim, FaultOnClaim
<1>4. [pos |-> cur[p], len |-> len, by |-> p, ev |-> e] \in Slots
  BY DEF RingTypes, RingTypeOK, Slots
<1>5. live' \in SUBSET Slots /\ (fault' # "none" => live' = {})
  BY <1>4 DEF Claim, RingTypes, RingTypeOK
<1> QED
  BY <1>1, <1>2, <1>3, <1>5

(* The worker passes its slot. *)
LEMMA PassTypes ==
  ASSUME RingTypes, NEW f \in {"none", "full", "fragment", "unpublished", "poison"}, PassHead(f)
  PROVE  /\ live' \in SUBSET Slots
         /\ fault' \in {"none", "full", "fragment", "unpublished", "poison"}
         /\ fault # "none" => fault' # "none"
         /\ fault' # "none" => live' = {}
         /\ f # "none" => fault' # "none"
BY DEF PassHead, RingTypes, RingTypeOK

(* A producer writes its header. *)
LEMMA SetHdrType ==
  ASSUME RingTypes, NEW p \in Writers, NEW h \in Headers, SetHdr(p, h)
  PROVE  ring' \in [Offsets -> Headers]
BY DEF SetHdr, RingTypes, RingTypeOK

(* The header it changes. *)
LEMMA MyHdrType ==
  ASSUME RingTypes, NEW p \in Writers
  PROVE  MyHdr(p) \in Headers
<1>1. Off(cur[p]) \in Offsets
  BY OffType DEF RingTypes, RingTypeOK
<1> QED
  BY <1>1 DEF MyHdr, RingTypes, RingTypeOK

(* What a producer notes of the room it saw is a truth value. *)
LEMMA SeeRoomType ==
  ASSUME RingTypes, NEW p \in Writers, NEW s \in Nat, SeeRoom(p, s)
  PROVE  (hadRoom \in [Writers -> BOOLEAN])'
<1>1. FreeUnits \in Int
  BY SizesAre DEF FreeUnits, RingTypes, RingTypeOK
<1>2. (s <= FreeUnits) \in BOOLEAN
  BY <1>1
<1>3. PICK b \in BOOLEAN : hadRoom' = [hadRoom EXCEPT ![p] = b]
  BY <1>2, Zenon DEF SeeRoom
<1>4. hadRoom \in [Writers -> BOOLEAN]
  BY DEF RingTypes, RingTypeOK
<1> QED
  BY <1>3, <1>4

(* The steps of a producer that leave the ring alone keep the types. *)
LEMMA TypesLocal ==
  ASSUME RingTypes, NEW p \in Writers,
         \/ ProduceTooLarge(p) \/ ProduceEnter(p) \/ ProduceLoad(p)
         \/ ProduceCheck(p) \/ ProduceNoRoom(p) \/ CasFails(p)
  PROVE  RingTypes'
<1> USE SizesAre
<1>1. CASE ProduceTooLarge(p)
  <2>1. RingTypeOK'
    BY <1>1, SizesAssumption DEF ProduceTooLarge, Drop, cvars, RingTypes, RingTypeOK
  <2>2. LocalsOK'
    BY <1>1, SizesAssumption DEF ProduceTooLarge, cvars, RingTypes, RingTypeOK, LocalsOK, SpaceToEnd, Off
  <2> QED
    BY <2>1, <2>2 DEF RingTypes
<1>2. CASE ProduceEnter(p)
  <2>1. PICK s \in EventStrides : s <= MaxStride /\ stride' = [stride EXCEPT ![p] = s]
    BY <1>2 DEF ProduceEnter
  <2>2. s \in Nat /\ s > HdrSize
    BY StridesAre
  <2>h. (hadRoom \in [Writers -> BOOLEAN])'
    <3>1. PICK t \in EventStrides : SeeRoom(p, t)
      BY <1>2 DEF ProduceEnter
    <3> QED
      BY <3>1, SeeRoomType, StridesAre
  <2>u. /\ enqueues[p] < MaxEvents /\ enqueues' = [enqueues EXCEPT ![p] = @ + 1]
        /\ cur' = [cur EXCEPT ![p] = writeHead] /\ StepTo(p, "check")
        /\ UNCHANGED <<writeHead, readHead, ring, cvars, count, live, fault>>
    BY <1>2 DEF ProduceEnter
  <2>3. RingTypeOK'
    BY <2>1, <2>2, <2>h, <2>u, SizesAssumption
    DEF StepTo, cvars, RingTypes, RingTypeOK, Pcs
  <2>4. LocalsOK'
    BY <1>2, <2>1, <2>2, SizesAssumption
    DEF ProduceEnter, StepTo, cvars, RingTypes, RingTypeOK, LocalsOK, PadPcs, SlotPcs, SpaceToEnd, Off
  <2> QED
    BY <2>3, <2>4 DEF RingTypes
<1>3. CASE ProduceLoad(p)
  <2>h. (hadRoom \in [Writers -> BOOLEAN])'
    BY <1>3, SeeRoomType DEF ProduceLoad, RingTypes, RingTypeOK
  <2>1. RingTypeOK'
    BY <1>3, <2>h DEF ProduceLoad, StepTo, cvars, RingTypes, RingTypeOK, Pcs
  <2>2. LocalsOK'
    BY <1>3
    DEF ProduceLoad, StepTo, cvars, RingTypes, RingTypeOK, LocalsOK, PadPcs, SlotPcs, SpaceToEnd, Off
  <2> QED
    BY <2>1, <2>2 DEF RingTypes
<1>4. CASE ProduceCheck(p) \/ ProduceNoRoom(p) \/ CasFails(p)
  <2>1. PICK l \in {"cas", "idle", "load"} :
          /\ StepTo(p, l) /\ pc[p] # "idle"
          /\ UNCHANGED <<writeHead, readHead, ring, enqueues, stride, cur, hadRoom, cvars, live, fault>>
    BY <1>4 DEF ProduceCheck, ProduceNoRoom, CasFails
  <2>2. count' \in [enqueued : Nat, dropped : Nat, poisoned : Nat]
    BY <1>4 DEF ProduceCheck, ProduceNoRoom, CasFails, Drop, RingTypes, RingTypeOK
  <2>3. RingTypeOK'
    BY <2>1, <2>2 DEF StepTo, cvars, RingTypes, RingTypeOK, Pcs
  <2>4. LocalsOK'
    BY <2>1 DEF StepTo, cvars, RingTypes, RingTypeOK, LocalsOK, PadPcs, SlotPcs, SpaceToEnd, Off
  <2> QED
    BY <2>3, <2>4 DEF RingTypes
<1> QED
  BY <1>1, <1>2, <1>3, <1>4

(* The two ways to move m_writeHead keep the types. *)
LEMMA TypesClaim ==
  ASSUME RingTypes, NEW p \in Writers, CasWrap(p) \/ CasClaim(p)
  PROVE  RingTypes'
<1> USE SizesAre
<1>0. pc[p] = "cas" /\ cur[p] \in Nat /\ stride[p] \in HdrSize .. MaxStride /\ SpaceToEnd(cur[p]) \in 1 .. RingSize
  BY OffType DEF CasWrap, CasClaim, RingTypes, RingTypeOK, LocalsOK
<1>1. PICK len \in Nat, e \in Events \cup {NoEvent}, l \in {"padMark", "load", "mark"} :
        /\ Claim(p, len, e) /\ StepTo(p, l)
        /\ l = "padMark" => SpaceToEnd(cur[p]) \in HdrSize .. MaxStride
        /\ l = "mark" => stride[p] <= SpaceToEnd(cur[p])
  <2>1. CASE CasWrap(p)
    <3>1. SpaceToEnd(cur[p]) \in Nat /\ NoEvent \in Events \cup {NoEvent}
      BY <1>0
    <3>2. PICK l \in {"padMark", "load"} : StepTo(p, l) /\ (l = "padMark" => SpaceToEnd(cur[p]) >= HdrSize)
      BY <2>1 DEF CasWrap
    <3>3. Claim(p, SpaceToEnd(cur[p]), NoEvent) /\ SpaceToEnd(cur[p]) < stride[p]
      BY <1>0, <2>1 DEF CasWrap
    <3> QED
      BY <1>0, <3>1, <3>2, <3>3
  <2>2. CASE CasClaim(p)
    <3>1. stride[p] \in Nat /\ MyEvent(p) \in Events \cup {NoEvent}
      BY <1>0, MyEventType
    <3>2. Claim(p, stride[p], MyEvent(p)) /\ StepTo(p, "mark") /\ stride[p] <= SpaceToEnd(cur[p])
      BY <2>2 DEF CasClaim
    <3> QED
      BY <3>1, <3>2
  <2> QED
    BY <2>1, <2>2
<1>2. UNCHANGED <<readHead, ring, enqueues, stride, cur, hadRoom, cvars, count>>
  BY DEF CasWrap, CasClaim
<1>3. /\ writeHead' \in Nat /\ live' \in SUBSET Slots
      /\ fault' \in {"none", "full", "fragment", "unpublished", "poison"}
      /\ fault # "none" => fault' # "none"
      /\ fault' # "none" => live' = {}
  BY <1>1, ClaimTypes
<1>4. RingTypeOK'
  BY <1>1, <1>2, <1>3 DEF StepTo, cvars, RingTypes, RingTypeOK, Pcs, PadPcs, SlotPcs
<1>5. LocalsOK'
  BY <1>0, <1>1, <1>2, <1>3
  DEF StepTo, cvars, RingTypes, RingTypeOK, LocalsOK, PadPcs, SlotPcs, SpaceToEnd, Off
<1> QED
  BY <1>4, <1>5 DEF RingTypes

(* What is written into a header is one. *)
LEMMA HdrWrites ==
  ASSUME NEW h \in Headers
  PROVE  /\ [h EXCEPT !.state = Claimed] \in Headers
         /\ [h EXCEPT !.state = Committed] \in Headers
         /\ [h EXCEPT !.state = Free] \in Headers
         /\ [h EXCEPT !.ticked = TRUE] \in Headers
         /\ \A n \in HdrSize .. MaxStride :
              [h EXCEPT !.pad = TRUE, !.ticked = FALSE, !.stride = n] \in Headers
         /\ \A n \in HdrSize .. MaxStride, e \in Events :
              [h EXCEPT !.pad = FALSE, !.stride = n, !.ev = e] \in Headers
<1> USE SizesAre DEF Headers, Claimed, Committed, Free, Junk
<1>1. [h EXCEPT !.state = Claimed] \in Headers /\ [h EXCEPT !.state = Committed] \in Headers
      /\ [h EXCEPT !.state = Free] \in Headers
  OBVIOUS
<1>2. [h EXCEPT !.ticked = TRUE] \in Headers
  OBVIOUS
<1>3. ASSUME NEW n \in HdrSize .. MaxStride
      PROVE  [h EXCEPT !.pad = TRUE, !.ticked = FALSE, !.stride = n] \in Headers
  OBVIOUS
<1>4. ASSUME NEW n \in HdrSize .. MaxStride, NEW e \in Events
      PROVE  [h EXCEPT !.pad = FALSE, !.stride = n, !.ev = e] \in Headers
  OBVIOUS
<1> QED
  BY <1>1, <1>2, <1>3, <1>4

(* A producer that fills its slot, by the labels it passes. *)
WriteStep(p) ==
  \/ PadMark(p) \/ PadFill(p) \/ PadCommit(p)
  \/ SlotMark(p) \/ SlotStamp(p) \/ SlotFill(p) \/ SlotCommit(p)

(* What such a step leaves alone, and where it leads. *)
LEMMA WriteFrame ==
  ASSUME NEW p \in Writers, WriteStep(p)
  PROVE  /\ UNCHANGED <<writeHead, readHead, enqueues, stride, cur, hadRoom, cvars, live, fault>>
         /\ pc[p] \in PadPcs \cup SlotPcs
         /\ \E l : /\ StepTo(p, l)
                   /\ \/ pc[p] \in PadPcs /\ l \in PadPcs
                      \/ pc[p] \in SlotPcs /\ l \in SlotPcs
                      \/ pc[p] = "padCommit" /\ l = "load"
                      \/ pc[p] = "commit" /\ l = "idle"
<1> USE DEF PadPcs, SlotPcs
<1>1. CASE PadMark(p)
  BY <1>1 DEF PadMark
<1>2. CASE PadFill(p)
  BY <1>2 DEF PadFill
<1>3. CASE PadCommit(p)
  BY <1>3 DEF PadCommit
<1>4. CASE SlotMark(p)
  BY <1>4 DEF SlotMark
<1>5. CASE SlotStamp(p)
  BY <1>5 DEF SlotStamp
<1>6. CASE SlotFill(p)
  BY <1>6 DEF SlotFill
<1>7. CASE SlotCommit(p)
  BY <1>7 DEF SlotCommit
<1> QED
  BY <1>1, <1>2, <1>3, <1>4, <1>5, <1>6, <1>7 DEF WriteStep

(* The header at o after SlotFill(p). *)
Filled(p, o) ==
  IF o = Off(cur[p]) THEN [MyHdr(p) EXCEPT !.pad = FALSE, !.stride = stride[p], !.ev = MyEvent(p)]
  ELSE IF o \in Off(cur[p]) .. Off(cur[p]) + stride[p] - 1 THEN JunkHdr
  ELSE ring[o]

(* What it writes are headers. *)
LEMMA WriteRing ==
  ASSUME RingTypes, NEW p \in Writers, WriteStep(p)
  PROVE  ring' \in [Offsets -> Headers]
<1>0. MyHdr(p) \in Headers /\ pc[p] # "idle"
  BY MyHdrType, WriteFrame DEF PadPcs, SlotPcs
<1>00. stride[p] \in HdrSize .. MaxStride /\ MyEvent(p) \in Events
  BY <1>0, MyEventType DEF RingTypes, LocalsOK
<1>1. CASE PadMark(p)
  BY <1>0, <1>1, HdrWrites, SetHdrType DEF PadMark
<1>2. CASE PadFill(p)
  <2>1. SpaceToEnd(cur[p]) \in HdrSize .. MaxStride
    BY <1>2 DEF PadFill, RingTypes, LocalsOK, PadPcs
  <2> QED
    BY <1>0, <1>2, <2>1, HdrWrites, SetHdrType DEF PadFill
<1>3. CASE PadCommit(p)
  BY <1>0, <1>3, HdrWrites, SetHdrType DEF PadCommit
<1>4. CASE SlotMark(p)
  BY <1>0, <1>4, HdrWrites, SetHdrType DEF SlotMark
<1>5. CASE SlotStamp(p)
  BY <1>0, <1>5, HdrWrites, SetHdrType DEF SlotStamp
<1>6. CASE SlotFill(p)
  <2>1. ring' = [o \in Offsets |-> Filled(p, o)]
    BY <1>6 DEF SlotFill, Filled
  <2>2. [MyHdr(p) EXCEPT !.pad = FALSE, !.stride = stride[p], !.ev = MyEvent(p)] \in Headers
    BY <1>0, <1>00, HdrWrites
  <2>3. ASSUME NEW o \in Offsets PROVE Filled(p, o) \in Headers
    BY <2>2, HeadersAre DEF Filled, RingTypes, RingTypeOK
  <2> QED
    BY <2>1, <2>3
<1>7. CASE SlotCommit(p)
  BY <1>0, <1>7, HdrWrites, SetHdrType DEF SlotCommit
<1> QED
  BY <1>1, <1>2, <1>3, <1>4, <1>5, <1>6, <1>7 DEF WriteStep

(* The steps that fill a slot keep the types. *)
LEMMA TypesWrite ==
  ASSUME RingTypes, NEW p \in Writers, WriteStep(p)
  PROVE  RingTypes'
<1> USE SizesAre
<1>1. /\ UNCHANGED <<writeHead, readHead, enqueues, stride, cur, hadRoom, cvars, live, fault>>
      /\ pc[p] \in PadPcs \cup SlotPcs
  BY WriteFrame
<1>2. PICK l : /\ StepTo(p, l)
               /\ \/ pc[p] \in PadPcs /\ l \in PadPcs
                  \/ pc[p] \in SlotPcs /\ l \in SlotPcs
                  \/ pc[p] = "padCommit" /\ l = "load"
                  \/ pc[p] = "commit" /\ l = "idle"
  BY WriteFrame
<1>3. ring' \in [Offsets -> Headers]
  BY WriteRing
<1>4. count' \in [enqueued : Nat, dropped : Nat, poisoned : Nat]
  <2>1. CASE SlotCommit(p)
    BY <2>1 DEF SlotCommit, RingTypes, RingTypeOK
  <2>2. CASE ~SlotCommit(p)
    <3>1. count' = count
      BY <2>2 DEF WriteStep, PadMark, PadFill, PadCommit, SlotMark, SlotStamp, SlotFill
    <3> QED
      BY <3>1 DEF RingTypes, RingTypeOK
  <2> QED
    BY <2>1, <2>2
<1>5. RingTypeOK'
  BY <1>1, <1>2, <1>3, <1>4 DEF StepTo, cvars, RingTypes, RingTypeOK, Pcs, PadPcs, SlotPcs
<1>6. LocalsOK'
  BY <1>1, <1>2 DEF StepTo, cvars, RingTypes, RingTypeOK, LocalsOK, PadPcs, SlotPcs, SpaceToEnd, Off
<1> QED
  BY <1>5, <1>6 DEF RingTypes

(* What the worker reads at its head. *)
LEMMA HeadType ==
  ASSUME RingTypes
  PROVE  /\ Off(readHead) \in Offsets /\ AtHead \in Headers
         /\ \A r \in Readings(AtHead) : r.stride \in HdrSize .. MaxStride
<1>1. Off(readHead) \in Offsets
  BY OffType DEF RingTypes, RingTypeOK
<1>2. AtHead \in Headers
  BY <1>1 DEF AtHead, RingTypes, RingTypeOK
<1> QED
  BY <1>1, <1>2 DEF Readings

(* The worker keeps the types. *)
LEMMA TypesWorker ==
  ASSUME RingTypes, ConsumeOne
  PROVE  RingTypes'
<1> USE SizesAre
<1>1. CASE ConsumeCommitted
  <2>1. advance' \in HdrSize .. MaxStride
    BY <1>1, HeadType DEF ConsumeCommitted
  <2>2. sendBuf' \in Events \cup {NoEvent}
    BY <1>1, HeadType DEF ConsumeCommitted, RingTypes, RingTypeOK, Headers
  <2>3. ring' \in [Offsets -> Headers]
    <3>1. ring' = [ring EXCEPT ![Off(readHead)] = [AtHead EXCEPT !.state = Free]]
      BY <1>1 DEF ConsumeCommitted, AtHead
    <3>2. [AtHead EXCEPT !.state = Free] \in Headers
      BY HeadType, HdrWrites
    <3> QED
      BY <3>1, <3>2 DEF RingTypes, RingTypeOK
  <2>4. PICK f \in {"none", "unpublished"} : PassHead(f)
    BY <1>1 DEF ConsumeCommitted
  <2>5. /\ live' \in SUBSET Slots
        /\ fault' \in {"none", "full", "fragment", "unpublished", "poison"}
        /\ fault' # "none" => live' = {}
    BY <2>4, PassTypes
  <2>6. consumer' = "advance" /\ UNCHANGED <<writeHead, readHead, pvars, count>>
    BY <1>1 DEF ConsumeCommitted
  <2>7. RingTypeOK'
    BY <2>1, <2>2, <2>3, <2>5, <2>6 DEF RingTypes, RingTypeOK, pvars
  <2>8. LocalsOK'
    BY <2>5, <2>6 DEF RingTypes, LocalsOK, pvars, SpaceToEnd, Off
  <2> QED
    BY <2>7, <2>8 DEF RingTypes
<1>2. CASE ConsumeStuck
  <2>1. advance' \in HdrSize .. MaxStride
    BY <1>2, HeadType DEF ConsumeStuck
  <2>2. PassHead("poison")
    BY <1>2 DEF ConsumeStuck
  <2>3. /\ live' \in SUBSET Slots
        /\ fault' \in {"none", "full", "fragment", "unpublished", "poison"}
        /\ fault' # "none" /\ live' = {}
    BY <2>2, PassTypes
  <2>4. consumer' = "poison" /\ UNCHANGED <<writeHead, readHead, ring, pvars, sendBuf, count>>
    BY <1>2 DEF ConsumeStuck
  <2>5. RingTypeOK'
    BY <2>1, <2>3, <2>4 DEF RingTypes, RingTypeOK, pvars
  <2>6. LocalsOK'
    BY <2>3, <2>4 DEF RingTypes, LocalsOK, pvars, SpaceToEnd, Off
  <2> QED
    BY <2>5, <2>6 DEF RingTypes
<1>3. CASE ConsumePoison
  <2>1. ring' \in [Offsets -> Headers]
    BY <1>3, HeadersAre DEF ConsumePoison, RingTypes, RingTypeOK
  <2>2. count' \in [enqueued : Nat, dropped : Nat, poisoned : Nat]
    BY <1>3 DEF ConsumePoison, RingTypes, RingTypeOK
  <2>3. consumer' = "advance" /\ UNCHANGED <<writeHead, readHead, pvars, advance, sendBuf, live, fault>>
    BY <1>3 DEF ConsumePoison
  <2>4. RingTypeOK'
    BY <2>1, <2>2, <2>3 DEF RingTypes, RingTypeOK, pvars
  <2>5. LocalsOK'
    BY <2>3 DEF RingTypes, LocalsOK, pvars, SpaceToEnd, Off
  <2> QED
    BY <2>4, <2>5 DEF RingTypes
<1>4. CASE ConsumeFree
  <2>1. PassHead("unpublished") /\ readHead' = readHead + HdrSize
        /\ UNCHANGED <<writeHead, ring, pvars, cvars, count>>
    BY <1>4 DEF ConsumeFree
  <2>2. /\ live' \in SUBSET Slots
        /\ fault' \in {"none", "full", "fragment", "unpublished", "poison"}
        /\ fault' # "none" /\ live' = {}
    BY <2>1, PassTypes
  <2>3. RingTypeOK'
    BY <2>1, <2>2 DEF RingTypes, RingTypeOK, pvars, cvars
  <2>4. LocalsOK'
    BY <2>1, <2>2 DEF RingTypes, LocalsOK, pvars, cvars, SpaceToEnd, Off
  <2> QED
    BY <2>3, <2>4 DEF RingTypes
<1>5. CASE ConsumeAdvance
  <2>1. readHead' = readHead + advance /\ consumer' = "scan"
        /\ UNCHANGED <<writeHead, ring, pvars, advance, sendBuf, count, live, fault>>
    BY <1>5 DEF ConsumeAdvance
  <2>2. RingTypeOK'
    BY <2>1 DEF RingTypes, RingTypeOK, pvars
  <2>3. LocalsOK'
    BY <2>1 DEF RingTypes, LocalsOK, pvars, SpaceToEnd, Off
  <2> QED
    BY <2>2, <2>3 DEF RingTypes
<1> QED
  BY <1>1, <1>2, <1>3, <1>4, <1>5 DEF ConsumeOne

(* The step of a producer, sorted by what it touches. *)
LEMMA RingCases ==
  ASSUME [RingNext]_slotVars
  PROVE  \/ \E p \in Writers : \/ ProduceTooLarge(p) \/ ProduceEnter(p) \/ ProduceLoad(p)
                               \/ ProduceCheck(p) \/ ProduceNoRoom(p) \/ CasFails(p)
         \/ \E p \in Writers : CasWrap(p) \/ CasClaim(p)
         \/ \E p \in Writers : WriteStep(p)
         \/ ConsumeOne
         \/ UNCHANGED slotVars
BY DEF RingNext, ProduceSlot, WriteStep

(* Every step keeps the types. *)
LEMMA RingTypesStep == RingTypes /\ [RingNext]_slotVars => RingTypes'
<1> SUFFICES ASSUME RingTypes, [RingNext]_slotVars PROVE RingTypes'
  OBVIOUS
<1>1. CASE UNCHANGED slotVars
  BY <1>1 DEF slotVars, pvars, cvars, RingTypes, RingTypeOK, LocalsOK, SpaceToEnd, Off
<1> QED
  BY <1>1, RingCases, TypesLocal, TypesClaim, TypesWrite, TypesWorker

(* They hold when the ring is initialized. *)
LEMMA RingTypesInit == RingInit => RingTypes
BY HeadersAre, SizesAssumption DEF RingInit, RingTypes, RingTypeOK, LocalsOK, Pcs, PadPcs, SlotPcs

-----------------------------------------------------------------------------
(* The counters. *)

(* The calls made and those that are going on are finitely many. *)
LEMMA RingFinite ==
  /\ IsFiniteSet(Made) /\ Cardinality(Made) \in Nat
  /\ IsFiniteSet(InProduce) /\ Cardinality(InProduce) \in Nat
<1>1. IsFiniteSet(1 .. MaxEvents)
  BY SizesAssumption, FS_Interval
<1>2. IsFiniteSet(Events)
  BY <1>1, SizesAssumption, FS_Product DEF Events
<1>3. IsFiniteSet(Made)
  BY <1>2, FS_Subset DEF Made
<1>4. IsFiniteSet(InProduce)
  BY SizesAssumption, FS_Subset DEF InProduce
<1> QED
  BY <1>3, <1>4, FS_CardinalityType

(* One more call is made. *)
LEMMA MadeGrows ==
  ASSUME RingTypes, NEW p \in Writers, enqueues[p] < MaxEvents,
         enqueues' = [enqueues EXCEPT ![p] = @ + 1]
  PROVE  Cardinality(Made') = Cardinality(Made) + 1
<1>1. PICK n : n = enqueues[p] + 1
  OBVIOUS
<1>2. n \in 1 .. MaxEvents /\ enqueues[p] = n - 1 /\ enqueues \in [Writers -> 0 .. MaxEvents]
  BY <1>1, SizesAssumption DEF RingTypes, RingTypeOK
<1>3. PICK e : e = <<p, n>>
  OBVIOUS
<1>4. e \in Events /\ e[1] = p /\ e[2] = n
  BY <1>2, <1>3 DEF Events
<1>5. e \notin Made
  BY <1>2, <1>4, SizesAssumption DEF Made
<1>6. Made' = Made \cup {e}
  <2>1. ASSUME NEW x \in Events PROVE x \in Made' <=> x \in Made \/ x = e
    <3>1. PICK a \in Writers, b \in 1 .. MaxEvents : x = <<a, b>>
      BY DEF Events
    <3>2. x[1] = a /\ x[2] = b
      BY <3>1
    <3>3. x \in Made <=> b <= enqueues[a]
      BY <3>2 DEF Made
    <3>4. x \in Made' <=> b <= enqueues'[a]
      BY <3>2 DEF Made
    <3>5. CASE a = p
      <4>1. enqueues'[a] = n
        BY <1>1, <1>2, <3>5
      <4>2. x = e <=> b = n
        BY <1>3, <3>1, <3>5
      <4> QED
        BY <1>2, <3>3, <3>4, <3>5, <4>1, <4>2, SizesAssumption
    <3>6. CASE a # p
      <4>1. enqueues'[a] = enqueues[a]
        BY <1>2, <3>6
      <4>2. x # e
        BY <1>4, <3>2, <3>6
      <4> QED
        BY <3>3, <3>4, <4>1, <4>2
    <3> QED
      BY <3>5, <3>6
  <2>2. Made \subseteq Events /\ Made' \subseteq Events
    BY DEF Made, Events
  <2> QED
    BY <1>4, <2>1, <2>2
<1>7. Cardinality(Made \cup {e}) = Cardinality(Made) + 1
  BY <1>5, RingFinite, FS_AddElement
<1> QED
  BY <1>6, <1>7

(* A producer enters ProduceSlot, stays in it, or leaves it. *)
LEMMA InProduceMoves ==
  ASSUME RingTypes, NEW p \in Writers, NEW l, StepTo(p, l)
  PROVE  /\ pc[p] = "idle" /\ l # "idle" => Cardinality(InProduce') = Cardinality(InProduce) + 1
         /\ pc[p] # "idle" /\ l # "idle" => InProduce' = InProduce
         /\ pc[p] # "idle" /\ l = "idle" => Cardinality(InProduce') = Cardinality(InProduce) - 1
<1>0. pc' = [pc EXCEPT ![p] = l] /\ pc \in [Writers -> Pcs]
  BY DEF StepTo, RingTypes, RingTypeOK
<1>1. ASSUME pc[p] = "idle", l # "idle" PROVE Cardinality(InProduce') = Cardinality(InProduce) + 1
  <2>1. InProduce' = InProduce \cup {p} /\ p \notin InProduce
    BY <1>0, <1>1 DEF InProduce
  <2>2. Cardinality(InProduce \cup {p}) = Cardinality(InProduce) + 1
    BY <2>1, RingFinite, FS_AddElement
  <2> QED
    BY <2>1, <2>2
<1>2. ASSUME pc[p] # "idle", l # "idle" PROVE InProduce' = InProduce
  BY <1>0, <1>2 DEF InProduce
<1>3. ASSUME pc[p] # "idle", l = "idle" PROVE Cardinality(InProduce') = Cardinality(InProduce) - 1
  <2>1. InProduce' = InProduce \ {p} /\ p \in InProduce
    BY <1>0, <1>3 DEF InProduce
  <2>2. Cardinality(InProduce \ {p}) = Cardinality(InProduce) - 1
    BY <2>1, RingFinite, FS_RemoveElement
  <2> QED
    BY <2>1, <2>2
<1> QED
  BY <1>1, <1>2, <1>3

(* Every step keeps the account. *)
LEMMA CountedStep == RingTypes /\ EveryCallCounted /\ [RingNext]_slotVars => EveryCallCounted'
<1> SUFFICES ASSUME RingTypes, EveryCallCounted, [RingNext]_slotVars PROVE EveryCallCounted'
  OBVIOUS
<1>0. /\ count \in [enqueued : Nat, dropped : Nat, poisoned : Nat]
      /\ Cardinality(Made) \in Nat /\ Cardinality(InProduce) \in Nat
      /\ count.enqueued + count.dropped + Cardinality(InProduce) = Cardinality(Made)
  BY RingFinite DEF RingTypes, RingTypeOK, EveryCallCounted
<1>1. ASSUME count'.enqueued = count.enqueued, count'.dropped = count.dropped,
             enqueues' = enqueues, InProduce' = InProduce
      PROVE  EveryCallCounted'
  <2>1. Made' = Made
    BY <1>1 DEF Made
  <2> QED
    BY <1>0, <1>1, <2>1 DEF EveryCallCounted
<1>2. ASSUME NEW p \in Writers, NEW l, StepTo(p, l), pc[p] # "idle", l = "idle",
             enqueues' = enqueues,
             count'.enqueued + count'.dropped = count.enqueued + count.dropped + 1
      PROVE  EveryCallCounted'
  <2>1. Made' = Made
    BY <1>2 DEF Made
  <2>2. Cardinality(InProduce') = Cardinality(InProduce) - 1
    BY <1>2, InProduceMoves
  <2> QED
    BY <1>0, <1>2, <2>1, <2>2 DEF EveryCallCounted
<1>3. ASSUME NEW p \in Writers, ProduceTooLarge(p) PROVE EveryCallCounted'
  <2>1. Cardinality(Made') = Cardinality(Made) + 1
    BY <1>3, MadeGrows DEF ProduceTooLarge
  <2>2. InProduce' = InProduce
    BY <1>3 DEF ProduceTooLarge, InProduce
  <2>3. count'.enqueued = count.enqueued /\ count'.dropped = count.dropped + 1
    BY <1>0, <1>3 DEF ProduceTooLarge, Drop
  <2> QED
    BY <1>0, <2>1, <2>2, <2>3 DEF EveryCallCounted
<1>4. ASSUME NEW p \in Writers, ProduceEnter(p) PROVE EveryCallCounted'
  <2>1. Cardinality(Made') = Cardinality(Made) + 1
    BY <1>4, MadeGrows DEF ProduceEnter
  <2>2. StepTo(p, "check") /\ pc[p] = "idle" /\ count' = count
    BY <1>4 DEF ProduceEnter
  <2>3. Cardinality(InProduce') = Cardinality(InProduce) + 1
    BY <2>2, InProduceMoves
  <2> QED
    BY <1>0, <2>1, <2>2, <2>3 DEF EveryCallCounted
<1>5. ASSUME NEW p \in Writers, ProduceLoad(p) \/ ProduceCheck(p) \/ CasFails(p)
      PROVE  EveryCallCounted'
  <2>1. PICK l \in {"check", "cas", "load"} : StepTo(p, l) /\ pc[p] # "idle"
    BY <1>5 DEF ProduceLoad, ProduceCheck, CasFails
  <2>2. enqueues' = enqueues /\ count' = count
    BY <1>5 DEF ProduceLoad, ProduceCheck, CasFails
  <2> QED
    BY <1>1, <2>1, <2>2, InProduceMoves
<1>6. ASSUME NEW p \in Writers, ProduceNoRoom(p) PROVE EveryCallCounted'
  <2>1. StepTo(p, "idle") /\ pc[p] # "idle" /\ enqueues' = enqueues
    BY <1>6 DEF ProduceNoRoom
  <2>2. count'.enqueued + count'.dropped = count.enqueued + count.dropped + 1
    BY <1>0, <1>6 DEF ProduceNoRoom, Drop
  <2> QED
    BY <1>2, <2>1, <2>2
<1>7. ASSUME NEW p \in Writers, CasWrap(p) \/ CasClaim(p) PROVE EveryCallCounted'
  <2>1. PICK l \in {"padMark", "load", "mark"} : StepTo(p, l) /\ pc[p] # "idle"
    BY <1>7 DEF CasWrap, CasClaim
  <2>2. enqueues' = enqueues /\ count' = count
    BY <1>7 DEF CasWrap, CasClaim
  <2> QED
    BY <1>1, <2>1, <2>2, InProduceMoves
<1>8. ASSUME NEW p \in Writers, SlotCommit(p) PROVE EveryCallCounted'
  <2>1. StepTo(p, "idle") /\ pc[p] # "idle" /\ enqueues' = enqueues
    BY <1>8 DEF SlotCommit
  <2>2. count'.enqueued + count'.dropped = count.enqueued + count.dropped + 1
    BY <1>0, <1>8 DEF SlotCommit
  <2> QED
    BY <1>2, <2>1, <2>2
<1>9. ASSUME NEW p \in Writers,
             PadMark(p) \/ PadFill(p) \/ PadCommit(p) \/ SlotMark(p) \/ SlotStamp(p) \/ SlotFill(p)
      PROVE  EveryCallCounted'
  <2>1. PICK l \in {"padFill", "padCommit", "load", "stamp", "fill", "commit"} :
          StepTo(p, l) /\ pc[p] # "idle"
    BY <1>9 DEF PadMark, PadFill, PadCommit, SlotMark, SlotStamp, SlotFill
  <2>2. enqueues' = enqueues /\ count' = count
    BY <1>9 DEF PadMark, PadFill, PadCommit, SlotMark, SlotStamp, SlotFill
  <2> QED
    BY <1>1, <2>1, <2>2, InProduceMoves
<1>10. CASE ConsumeOne
  <2>1. UNCHANGED pvars
    BY <1>10 DEF ConsumeOne, ConsumeCommitted, ConsumeStuck, ConsumePoison, ConsumeFree, ConsumeAdvance, cvars
  <2>2. count'.enqueued = count.enqueued /\ count'.dropped = count.dropped
    BY <1>0, <1>10 DEF ConsumeOne, ConsumeCommitted, ConsumeStuck, ConsumePoison, ConsumeFree, ConsumeAdvance
  <2>3. InProduce' = InProduce
    BY <2>1 DEF InProduce, pvars
  <2> QED
    BY <1>1, <2>1, <2>2, <2>3 DEF pvars
<1>11. CASE UNCHANGED slotVars
  <2>1. InProduce' = InProduce
    BY <1>11 DEF InProduce, pvars, slotVars
  <2> QED
    BY <1>1, <1>11, <2>1 DEF slotVars, pvars
<1> QED
  BY <1>3, <1>4, <1>5, <1>6, <1>7, <1>8, <1>9, <1>10, <1>11, RingCases DEF WriteStep

(* EveryCallCounted: whatever the worker does to their slots, every call   *)
(* of Enqueue that has returned from ProduceSlot is in m_enqueued or in    *)
(* m_dropped, once.                                                        *)
THEOREM EnqueueCounts == RingSpec => []EveryCallCounted
<1>1. RingInit => EveryCallCounted
  <2> SUFFICES ASSUME RingInit PROVE EveryCallCounted
    OBVIOUS
  <2>1. Made = {}
    <3>1. ASSUME NEW x \in Events PROVE x \notin Made
      <4>1. PICK a \in Writers, b \in 1 .. MaxEvents : x = <<a, b>>
        BY DEF Events
      <4>2. x[1] = a /\ x[2] = b
        BY <4>1
      <4>3. ~(b <= enqueues[a])
        BY SizesAssumption DEF RingInit
      <4> QED
        BY <4>2, <4>3 DEF Made
    <3> QED
      BY <3>1 DEF Made
  <2>2. InProduce = {}
    BY DEF RingInit, InProduce
  <2> QED
    BY <2>1, <2>2, FS_EmptySet DEF RingInit, EveryCallCounted
<1> QED
  BY <1>1, RingTypesInit, RingTypesStep, CountedStep, PTL DEF RingSpec

-----------------------------------------------------------------------------
(* The layout. *)

(* Slots L tile the positions from a up to b, none across the end of the   *)
(* ring.                                                                   *)
Apart(s, t) == s.pos + s.len <= t.pos \/ t.pos + t.len <= s.pos
Within(s, a, b) ==
  /\ s.len >= HdrSize /\ a <= s.pos /\ s.pos + s.len <= b
  /\ Off(s.pos) + s.len <= RingSize
Tile(L, a, b) ==
  /\ a <= b
  /\ \A s \in L : Within(s, a, b)
  /\ \A s, t \in L : s # t => Apart(s, t)
  /\ \A x \in a .. b - 1 : \E s \in L : Covers(s, x)

Tiled ==
  fault = "none" =>
    /\ readHead <= WorkerPos /\ writeHead < readHead + RingSize
    /\ Tile(live, WorkerPos, writeHead)

(* The slot of a producer that fills it. *)
MySlot(p) == [pos |-> cur[p], len |-> stride[p], by |-> p, ev |-> MyEvent(p)]
MyPad(p) == [pos |-> cur[p], len |-> SpaceToEnd(cur[p]), by |-> p, ev |-> NoEvent]

(* What a producer may rely on: its slot is live, m_writeHead has not gone *)
(* back, and if it has not moved either there is room.                     *)
Owns(p) ==
  /\ pc[p] \in SlotPcs => MySlot(p) \in live
  /\ pc[p] \in PadPcs => MyPad(p) \in live
  /\ pc[p] # "idle" => cur[p] <= writeHead
  /\ pc[p] = "cas" /\ cur[p] = writeHead => cur[p] + stride[p] <= readHead + RingSize
Owned == fault = "none" => \A p \in Writers : Owns(p)

(* A slot is put behind the others. *)
LEMMA TileAdd ==
  ASSUME NEW L \in SUBSET Slots, NEW a \in Nat, NEW b \in Nat, Tile(L, a, b),
         NEW s \in Slots, s.pos = b, s.len >= HdrSize, Off(b) + s.len <= RingSize
  PROVE  Tile(L \cup {s}, a, b + s.len)
<1> USE SizesAre
<1>0. /\ a <= b /\ \A t \in L : Within(t, a, b)
      /\ \A t, u \in L : t # u => Apart(t, u)
      /\ \A x \in a .. b - 1 : \E t \in L : Covers(t, x)
  BY DEF Tile
<1>1. s.pos \in Nat /\ s.len \in Nat /\ \A t \in L : t.pos \in Nat /\ t.len \in Nat
  BY DEF Slots
<1>2. Within(s, a, b + s.len)
  BY <1>0, <1>1 DEF Within
<1>3. ASSUME NEW t \in L PROVE Within(t, a, b + s.len) /\ Apart(s, t) /\ Apart(t, s)
  <2>1. Within(t, a, b)
    BY <1>0
  <2> QED
    BY <1>1, <2>1 DEF Within, Apart
<1>4. ASSUME NEW x \in a .. (b + s.len) - 1 PROVE \E t \in L \cup {s} : Covers(t, x)
  <2>1. CASE x < b
    <3>1. x \in a .. b - 1
      BY <2>1
    <3> QED
      BY <1>0, <3>1
  <2>2. CASE x >= b
    BY <1>1, <2>2 DEF Covers
  <2> QED
    BY <2>1, <2>2
<1>5. \A t \in L \cup {s} : Within(t, a, b + s.len)
  BY <1>2, <1>3
<1>6. \A t, u \in L \cup {s} : t # u => Apart(t, u)
  BY <1>0, <1>3
<1>7. a <= b + s.len
  BY <1>0, <1>1
<1> QED
  BY <1>4, <1>5, <1>6, <1>7 DEF Tile

(* Two slots that begin at the same place are one. *)
LEMMA SamePos ==
  ASSUME NEW L \in SUBSET Slots, NEW a \in Nat, NEW b \in Nat, Tile(L, a, b),
         NEW s \in L, NEW t \in L, s.pos = t.pos
  PROVE  s = t
<1>1. s.pos \in Nat /\ s.len \in Nat /\ t.len \in Nat
  BY DEF Slots
<1>2. Within(s, a, b) /\ Within(t, a, b) /\ (s # t => Apart(s, t))
  BY DEF Tile
<1> QED
  BY <1>1, <1>2, SizesAre DEF Within, Apart

(* The first slot is passed. *)
LEMMA TilePass ==
  ASSUME NEW L \in SUBSET Slots, NEW a \in Nat, NEW b \in Nat, Tile(L, a, b),
         NEW s \in L, s.pos = a
  PROVE  Tile({t \in L : t.pos # a}, a + s.len, b)
<1> USE SizesAre
<1> DEFINE M == {t \in L : t.pos # a}
<1>0. /\ a <= b /\ \A t \in L : Within(t, a, b)
      /\ \A t, u \in L : t # u => Apart(t, u)
      /\ \A x \in a .. b - 1 : \E t \in L : Covers(t, x)
  BY DEF Tile
<1>1. s.pos \in Nat /\ s.len \in Nat /\ \A t \in L : t.pos \in Nat /\ t.len \in Nat
  BY DEF Slots
<1>2. a + s.len <= b /\ s.len > 0
  BY <1>0, <1>1 DEF Within
<1>3. ASSUME NEW t \in M PROVE Within(t, a + s.len, b)
  <2>1. Within(t, a, b) /\ Apart(s, t) /\ t \in L /\ t.len \in Nat /\ t.pos \in Nat
    BY <1>0, <1>1
  <2> QED
    BY <1>1, <2>1 DEF Within, Apart
<1>4. ASSUME NEW x \in a + s.len .. b - 1 PROVE \E t \in M : Covers(t, x)
  <2>1. x \in a .. b - 1
    BY <1>1
  <2>2. PICK t \in L : Covers(t, x)
    BY <1>0, <2>1
  <2>3. t.pos # a
    <3> SUFFICES ASSUME t.pos = a PROVE FALSE
      OBVIOUS
    <3>1. t = s
      BY SamePos
    <3> QED
      BY <1>1, <2>2, <3>1 DEF Covers
  <2> QED
    BY <2>2, <2>3
<1>5. \A t, u \in M : t # u => Apart(t, u)
  BY <1>0
<1>6. Tile(M, a + s.len, b)
  BY <1>2, <1>3, <1>4, <1>5 DEF Tile
<1> QED
  BY <1>6

(* What the types say of the positions. *)
LEMMA PosTypes ==
  ASSUME RingTypes
  PROVE  /\ WorkerPos \in Nat /\ writeHead \in Nat /\ readHead \in Nat /\ live \in SUBSET Slots
         /\ \A p \in Writers : cur[p] \in Nat /\ stride[p] \in Nat
         /\ \A s \in live : s.pos \in Nat /\ s.len \in Nat
BY DEF RingTypes, RingTypeOK, WorkerPos, Slots

(* Inside a lap two positions with one offset are one. *)
LEMMA OffOnce ==
  ASSUME NEW r \in Nat, NEW x \in Nat, NEW y \in Nat, r <= x, x < r + RingSize,
         r <= y, y < r + RingSize, Off(x) = Off(y)
  PROVE  x = y
<1> USE SizesAre
<1>1. CASE x <= y
  <2>1. y < x + RingSize
    OBVIOUS
  <2> QED
    BY <1>1, <2>1, OffNear
<1>2. CASE y <= x
  <2>1. x < y + RingSize
    OBVIOUS
  <2> QED
    BY <1>2, <2>1, OffNear
<1> QED
  BY <1>1, <1>2

(* The claim that a fault does not end. *)
LEMMA ClaimSound ==
  ASSUME RingTypes, Tiled, NEW p \in Writers, NEW len \in Nat, NEW e \in Events \cup {NoEvent},
         Claim(p, len, e), fault' = "none", Off(cur[p]) + len <= RingSize,
         writeHead + len <= readHead + RingSize, UNCHANGED <<readHead, consumer, advance>>
  PROVE  /\ Tiled' /\ fault = "none" /\ writeHead = cur[p] /\ writeHead' > writeHead
         /\ live' = live \cup {[pos |-> cur[p], len |-> len, by |-> p, ev |-> e]}
<1> USE SizesAre
<1>1. PICK s : s = [pos |-> cur[p], len |-> len, by |-> p, ev |-> e]
  OBVIOUS
<1>2. /\ writeHead = cur[p] /\ writeHead' = writeHead + len
      /\ fault = "none" /\ writeHead + len - readHead # RingSize /\ len >= HdrSize
      /\ live' = live \cup {s}
  BY <1>1 DEF Claim, FaultOnClaim
<1>3. s \in Slots /\ s.pos = writeHead /\ s.len = len
  BY <1>1, <1>2, PosTypes DEF Slots
<1>4. Tile(live, WorkerPos, writeHead) /\ readHead <= WorkerPos
  BY <1>2 DEF Tiled
<1>5. Tile(live \cup {s}, WorkerPos, writeHead + s.len)
  BY <1>2, <1>3, <1>4, PosTypes, TileAdd
<1>6. WorkerPos' = WorkerPos
  BY DEF WorkerPos
<1>7. writeHead' < readHead' + RingSize
  BY <1>2, PosTypes
<1>8. Tile(live', WorkerPos', writeHead')
  BY <1>2, <1>3, <1>5, <1>6
<1>9. Tiled'
  BY <1>4, <1>6, <1>7, <1>8 DEF Tiled
<1> QED
  BY <1>1, <1>2, <1>9, PosTypes

(* The claims of a producer are sound. *)
LEMMA CasSound ==
  ASSUME RingTypes, Tiled, Owned, NEW p \in Writers, CasWrap(p) \/ CasClaim(p), fault' = "none"
  PROVE  /\ Tiled' /\ fault = "none" /\ writeHead = cur[p] /\ writeHead' > writeHead
         /\ UNCHANGED <<readHead, ring, enqueues, stride, cur, cvars, count>>
         /\ \/ StepTo(p, "mark") /\ live' = live \cup {MySlot(p)}
            \/ StepTo(p, "padMark") /\ live' = live \cup {MyPad(p)}
<1> USE SizesAre
<1>0. /\ pc[p] = "cas" /\ cur[p] \in Nat /\ stride[p] \in HdrSize .. MaxStride
      /\ SpaceToEnd(cur[p]) \in 1 .. RingSize /\ Off(cur[p]) \in Offsets
  BY OffType DEF CasWrap, CasClaim, RingTypes, RingTypeOK, LocalsOK
<1>1. writeHead = cur[p] /\ fault = "none"
  BY DEF CasWrap, CasClaim, Claim, FaultOnClaim
<1>2. writeHead + stride[p] <= readHead + RingSize
  BY <1>0, <1>1 DEF Owned, Owns
<1>3. UNCHANGED <<readHead, ring, enqueues, stride, cur, cvars, count>>
  BY DEF CasWrap, CasClaim
<1>4. UNCHANGED <<readHead, consumer, advance>>
  BY <1>3 DEF cvars
<1>5. CASE CasClaim(p)
  <2>1. Claim(p, stride[p], MyEvent(p)) /\ StepTo(p, "mark") /\ stride[p] <= SpaceToEnd(cur[p])
    BY <1>5 DEF CasClaim
  <2>2. MyEvent(p) \in Events \cup {NoEvent} /\ stride[p] \in Nat
    BY <1>0, MyEventType
  <2>3. Off(cur[p]) + stride[p] <= RingSize
    BY <1>0, <2>1 DEF SpaceToEnd, Offsets
  <2>4. Tiled' /\ writeHead' > writeHead /\ live' = live \cup {MySlot(p)}
    BY <1>2, <1>4, <2>1, <2>2, <2>3, ClaimSound DEF MySlot
  <2> QED
    BY <1>1, <1>3, <2>1, <2>4
<1>6. CASE CasWrap(p)
  <2>1. PICK n : n = SpaceToEnd(cur[p])
    OBVIOUS
  <2>2. Claim(p, n, NoEvent) /\ n < stride[p]
    BY <1>0, <1>6, <2>1 DEF CasWrap
  <2>3. n >= HdrSize
    BY <1>0, <2>1, <2>2 DEF Claim, FaultOnClaim
  <2>4. StepTo(p, "padMark")
    BY <1>6, <2>1, <2>3 DEF CasWrap
  <2>5. n \in Nat /\ Off(cur[p]) + n <= RingSize /\ writeHead + n <= readHead + RingSize
    <3>1. writeHead \in Nat /\ readHead \in Nat
      BY PosTypes
    <3> QED
      BY <1>0, <1>2, <2>1, <2>2, <3>1 DEF SpaceToEnd, Offsets
  <2>6. Tiled' /\ writeHead' > writeHead /\ live' = live \cup {MyPad(p)}
    BY <1>4, <2>1, <2>2, <2>5, ClaimSound DEF MyPad
  <2> QED
    BY <1>1, <1>3, <2>4, <2>6
<1> QED
  BY <1>5, <1>6

(* The worker passes a published slot, or the history of the ring ends. *)
LEMMA PassSound ==
  ASSUME RingTypes, Tiled, HeadersMatch, ConsumeCommitted, fault' = "none"
  PROVE  /\ fault = "none" /\ live' = {t \in live : t.pos # readHead} /\ Tiled'
         /\ \E s \in live : s.pos = readHead /\ ~InFlight(s) /\ advance' = s.len
<1> USE SizesAre
<1>1. fault = "none" /\ Published /\ live' = {t \in live : t.pos # readHead}
  BY DEF ConsumeCommitted, PassHead
<1>2. PICK s \in live : s.pos = readHead /\ ~InFlight(s)
  BY <1>1 DEF Published
<1>3. AtHead.stride = s.len
  BY <1>1, <1>2 DEF HeadersMatch, AtHead
<1>4. WorkerPos = readHead
  BY DEF ConsumeCommitted, WorkerPos
<1>5. Tile(live, readHead, writeHead) /\ writeHead < readHead + RingSize
  BY <1>1, <1>4 DEF Tiled
<1>6. s.len \in Nat /\ s.len >= HdrSize
  BY <1>5, PosTypes DEF Tile, Within
<1>7. advance' = s.len
  BY <1>3, <1>6 DEF ConsumeCommitted, Readings, Junk
<1>8. WorkerPos' = readHead + s.len /\ UNCHANGED <<readHead, writeHead>>
  BY <1>7 DEF ConsumeCommitted, WorkerPos
<1>9. Tile(live', readHead + s.len, writeHead)
  BY <1>1, <1>2, <1>5, PosTypes, TilePass
<1>10. Tiled'
  BY <1>5, <1>6, <1>8, <1>9, PosTypes DEF Tiled
<1> QED
  BY <1>1, <1>2, <1>7, <1>10

(* What else the worker does, until the first fault. *)
LEMMA WorkerCases ==
  ASSUME RingTypes, ConsumeOne, fault' = "none"
  PROVE  fault = "none" /\ (ConsumeCommitted \/ ConsumeAdvance)
<1>1. CASE ConsumeStuck
  BY <1>1 DEF ConsumeStuck, PassHead
<1>2. CASE ConsumeFree
  BY <1>2 DEF ConsumeFree, PassHead
<1>3. CASE ConsumePoison
  BY <1>3 DEF ConsumePoison, RingTypes, LocalsOK
<1>4. CASE ConsumeCommitted
  BY <1>4 DEF ConsumeCommitted, PassHead
<1>5. CASE ConsumeAdvance
  BY <1>5 DEF ConsumeAdvance
<1> QED
  BY <1>1, <1>2, <1>3, <1>4, <1>5 DEF ConsumeOne

(* A step that leaves the slots and the heads alone keeps the tiling. *)
LEMMA TiledSame ==
  ASSUME Tiled, UNCHANGED <<writeHead, readHead, consumer, advance, live, fault>>
  PROVE  Tiled'
<1>1. WorkerPos' = WorkerPos
  BY DEF WorkerPos
<1> QED
  BY <1>1 DEF Tiled

(* Every step keeps the tiling. *)
LEMMA TiledStep ==
  ASSUME RingTypes, Tiled, Owned, HeadersMatch, [RingNext]_slotVars
  PROVE  Tiled'
<1>1. ASSUME NEW p \in Writers,
             \/ ProduceTooLarge(p) \/ ProduceEnter(p) \/ ProduceLoad(p)
             \/ ProduceCheck(p) \/ ProduceNoRoom(p) \/ CasFails(p)
      PROVE  Tiled'
  <2>1. UNCHANGED <<writeHead, readHead, consumer, advance, live, fault>>
    BY <1>1 DEF ProduceTooLarge, ProduceEnter, ProduceLoad, ProduceCheck, ProduceNoRoom, CasFails, cvars
  <2> QED
    BY <2>1, TiledSame
<1>2. ASSUME NEW p \in Writers, CasWrap(p) \/ CasClaim(p) PROVE Tiled'
  <2>1. CASE fault' = "none"
    BY <1>2, <2>1, CasSound
  <2> QED
    BY <2>1 DEF Tiled
<1>3. ASSUME NEW p \in Writers, WriteStep(p) PROVE Tiled'
  <2>1. UNCHANGED <<writeHead, readHead, consumer, advance, live, fault>>
    BY <1>3, WriteFrame DEF cvars
  <2> QED
    BY <2>1, TiledSame
<1>4. CASE ConsumeOne
  <2>1. CASE fault' # "none"
    BY <2>1 DEF Tiled
  <2>2. CASE fault' = "none" /\ ConsumeCommitted
    BY <2>2, PassSound
  <2>3. CASE fault' = "none" /\ ConsumeAdvance
    <3>1. WorkerPos' = WorkerPos /\ UNCHANGED <<writeHead, live, fault>>
      BY <2>3 DEF ConsumeAdvance, WorkerPos
    <3>2. readHead' \in Nat /\ readHead' >= readHead /\ readHead' = WorkerPos'
      BY <2>3, PosTypes DEF ConsumeAdvance, WorkerPos, RingTypes, RingTypeOK
    <3>3. /\ readHead <= WorkerPos /\ writeHead < readHead + RingSize
          /\ Tile(live, WorkerPos, writeHead)
      BY <2>3, <3>1 DEF Tiled
    <3>4. writeHead < readHead' + RingSize
      BY <3>2, <3>3, PosTypes, SizesAre
    <3> QED
      BY <3>1, <3>2, <3>3, <3>4 DEF Tiled
  <2> QED
    BY <1>4, <2>1, <2>2, <2>3, WorkerCases
<1>5. CASE UNCHANGED slotVars
  BY <1>5, TiledSame DEF slotVars, cvars
<1> QED
  BY <1>1, <1>2, <1>3, <1>4, <1>5, RingCases

(* A producer that does not move, in a ring that has not lost its slot. *)
LEMMA OwnsKept ==
  ASSUME RingTypes, NEW q \in Writers, Owns(q), pc'[q] = pc[q],
         pc[q] # "idle" => cur'[q] = cur[q] /\ stride'[q] = stride[q] /\ enqueues'[q] = enqueues[q],
         pc[q] \in SlotPcs => MySlot(q) \in live',
         pc[q] \in PadPcs => MyPad(q) \in live',
         writeHead' \in Nat, writeHead' >= writeHead, readHead' \in Nat, readHead' >= readHead
  PROVE  Owns(q)'
<1>1. pc[q] \in SlotPcs => MySlot(q)' = MySlot(q)
  BY DEF MySlot, MyEvent, SlotPcs
<1>2. pc[q] \in PadPcs => MyPad(q)' = MyPad(q)
  BY DEF MyPad, SpaceToEnd, Off, PadPcs
<1>3. pc[q] # "idle" => cur'[q] <= writeHead'
  BY PosTypes DEF Owns
<1>4. ASSUME pc[q] = "cas", cur'[q] = writeHead'
      PROVE  cur'[q] + stride'[q] <= readHead' + RingSize
  BY <1>4, PosTypes, SizesAre DEF Owns
<1> QED
  BY <1>1, <1>2, <1>3, <1>4 DEF Owns

(* The steps of a producer that leave the ring alone. *)
LEMMA OwnedLocal ==
  ASSUME RingTypes, Tiled, Owned, NEW p \in Writers,
         \/ ProduceTooLarge(p) \/ ProduceEnter(p) \/ ProduceLoad(p)
         \/ ProduceCheck(p) \/ ProduceNoRoom(p) \/ CasFails(p)
  PROVE  Owned'
<1> SUFFICES ASSUME fault' = "none", NEW q \in Writers PROVE Owns(q)'
  BY DEF Owned
<1>0. UNCHANGED <<writeHead, readHead, live, fault>>
  BY DEF ProduceTooLarge, ProduceEnter, ProduceLoad, ProduceCheck, ProduceNoRoom, CasFails
<1>1. Owns(q) /\ fault = "none" /\ writeHead \in Nat /\ readHead \in Nat
  BY <1>0, PosTypes DEF Owned
<1>2. CASE q # p
  <2>1. pc'[q] = pc[q] /\ cur'[q] = cur[q] /\ stride'[q] = stride[q] /\ enqueues'[q] = enqueues[q]
    BY <1>2 DEF ProduceTooLarge, ProduceEnter, ProduceLoad, ProduceCheck, ProduceNoRoom, CasFails,
               StepTo, RingTypes, RingTypeOK
  <2>2. /\ pc[q] \in SlotPcs => MySlot(q) \in live'
        /\ pc[q] \in PadPcs => MyPad(q) \in live'
    BY <1>0, <1>1 DEF Owns
  <2> QED
    BY <1>0, <1>1, <2>1, <2>2, OwnsKept
<1>3. CASE q = p
  <2> USE SizesAre DEF SlotPcs, PadPcs
  <2>1. CASE ProduceTooLarge(p)
    <3>1. pc'[q] = "idle"
      BY <1>3, <2>1 DEF ProduceTooLarge
    <3> QED
      BY <3>1 DEF Owns
  <2>2. CASE ProduceEnter(p) \/ ProduceLoad(p)
    <3>1. pc'[q] = "check" /\ cur'[q] = writeHead
      BY <1>3, <2>2 DEF ProduceEnter, ProduceLoad, StepTo, RingTypes, RingTypeOK
    <3> QED
      BY <1>0, <1>1, <3>1 DEF Owns
  <2>3. CASE ProduceNoRoom(p) \/ CasFails(p)
    <3>1. pc'[q] \in {"idle", "load"} /\ cur'[q] = cur[q] /\ pc[q] # "idle"
      BY <1>3, <2>3 DEF ProduceNoRoom, CasFails, StepTo, RingTypes, RingTypeOK
    <3> QED
      BY <1>0, <1>1, <3>1 DEF Owns
  <2>4. CASE ProduceCheck(p)
    <3>1. /\ pc'[q] = "cas" /\ cur'[q] = cur[q] /\ stride'[q] = stride[q] /\ pc[q] # "idle"
          /\ stride[q] <= RingSize - Used(cur[q], readHead)
      BY <1>3, <2>4 DEF ProduceCheck, StepTo, Fits, RingTypes, RingTypeOK
    <3>2. ASSUME cur[q] = writeHead PROVE cur[q] + stride[q] <= readHead + RingSize
      <4>1. readHead <= writeHead /\ writeHead < readHead + RingSize
        BY <1>1, PosTypes DEF Tiled, Tile
      <4>2. Used(cur[q], readHead) = writeHead - readHead
        BY <1>1, <3>2, <4>1, UsedIs
      <4> QED
        BY <1>1, <3>1, <3>2, <4>2, PosTypes
    <3> QED
      BY <1>0, <1>1, <3>1, <3>2 DEF Owns
  <2> QED
    BY <2>1, <2>2, <2>3, <2>4
<1> QED
  BY <1>2, <1>3

(* The claims. *)
LEMMA OwnedClaim ==
  ASSUME RingTypes, RingTypes', Tiled, Owned, NEW p \in Writers, CasWrap(p) \/ CasClaim(p)
  PROVE  Owned'
<1> SUFFICES ASSUME fault' = "none", NEW q \in Writers PROVE Owns(q)'
  BY DEF Owned
<1>1. /\ fault = "none" /\ writeHead = cur[p] /\ writeHead' > writeHead
      /\ UNCHANGED <<readHead, ring, enqueues, stride, cur, cvars, count>>
      /\ \/ StepTo(p, "mark") /\ live' = live \cup {MySlot(p)}
         \/ StepTo(p, "padMark") /\ live' = live \cup {MyPad(p)}
  BY CasSound
<1>2. Owns(q) /\ writeHead \in Nat /\ readHead \in Nat /\ writeHead' \in Nat
  BY <1>1, PosTypes DEF Owned, RingTypes, RingTypeOK
<1>3. CASE q # p
  <2>1. pc'[q] = pc[q] /\ cur'[q] = cur[q] /\ stride'[q] = stride[q] /\ enqueues'[q] = enqueues[q]
    BY <1>1, <1>3 DEF StepTo, RingTypes, RingTypeOK
  <2>2. /\ pc[q] \in SlotPcs => MySlot(q) \in live'
        /\ pc[q] \in PadPcs => MyPad(q) \in live'
    BY <1>1, <1>2 DEF Owns
  <2>3. readHead' = readHead
    BY <1>1
  <2> QED
    BY <1>1, <1>2, <2>1, <2>2, <2>3, OwnsKept
<1>4. CASE q = p
  <2> USE DEF SlotPcs, PadPcs
  <2>1. MySlot(q)' = MySlot(q) /\ MyPad(q)' = MyPad(q)
    BY <1>1 DEF MySlot, MyPad, MyEvent, SpaceToEnd, Off
  <2>2. \/ pc'[q] = "mark" /\ MySlot(q) \in live'
        \/ pc'[q] = "padMark" /\ MyPad(q) \in live'
    BY <1>1, <1>4 DEF StepTo, RingTypes, RingTypeOK
  <2>3. cur'[q] <= writeHead'
    BY <1>1, <1>2, <1>4
  <2> QED
    BY <2>1, <2>2, <2>3 DEF Owns
<1> QED
  BY <1>3, <1>4

(* A producer fills its slot. *)
LEMMA OwnedWrite ==
  ASSUME RingTypes, Owned, NEW p \in Writers, WriteStep(p)
  PROVE  Owned'
<1> SUFFICES ASSUME fault' = "none", NEW q \in Writers PROVE Owns(q)'
  BY DEF Owned
<1>1. /\ UNCHANGED <<writeHead, readHead, enqueues, stride, cur, cvars, live, fault>>
      /\ pc[p] \in PadPcs \cup SlotPcs
  BY WriteFrame
<1>2. PICK l : /\ StepTo(p, l)
               /\ \/ pc[p] \in PadPcs /\ l \in PadPcs
                  \/ pc[p] \in SlotPcs /\ l \in SlotPcs
                  \/ pc[p] = "padCommit" /\ l = "load"
                  \/ pc[p] = "commit" /\ l = "idle"
  BY WriteFrame
<1>3. Owns(q)
  BY <1>1 DEF Owned
<1>4. MySlot(q)' = MySlot(q) /\ MyPad(q)' = MyPad(q)
  BY <1>1 DEF MySlot, MyPad, MyEvent, SpaceToEnd, Off
<1>5. CASE q # p
  <2>1. pc'[q] = pc[q]
    BY <1>2, <1>5 DEF StepTo, RingTypes, RingTypeOK
  <2> QED
    BY <1>1, <1>3, <1>4, <2>1 DEF Owns
<1>6. CASE q = p
  <2>1. pc'[q] = l
    BY <1>2, <1>6 DEF StepTo, RingTypes, RingTypeOK
  <2> QED
    BY <1>1, <1>2, <1>3, <1>4, <1>6, <2>1 DEF Owns, SlotPcs, PadPcs
<1> QED
  BY <1>5, <1>6

(* The slot of a producer is in flight, and so is none that was published. *)
LEMMA MineInFlight ==
  ASSUME NEW q \in Writers
  PROVE  /\ pc[q] \in SlotPcs => InFlight(MySlot(q)) /\ MySlot(q).pos = cur[q]
         /\ pc[q] \in PadPcs => InFlight(MyPad(q)) /\ MyPad(q).pos = cur[q]
BY DEF MySlot, MyPad, InFlight

(* The worker passes no slot that a producer still fills. *)
LEMMA OwnedWorker ==
  ASSUME RingTypes, RingTypes', Tiled, Owned, HeadersMatch, ConsumeOne
  PROVE  Owned'
<1> SUFFICES ASSUME fault' = "none", NEW q \in Writers PROVE Owns(q)'
  BY DEF Owned
<1>1. fault = "none" /\ (ConsumeCommitted \/ ConsumeAdvance)
  BY WorkerCases
<1>2. UNCHANGED <<pvars, writeHead>> /\ readHead' \in Nat /\ readHead' >= readHead
  BY <1>1, PosTypes DEF ConsumeCommitted, ConsumeAdvance, RingTypes, RingTypeOK
<1>3. Owns(q)
  BY <1>1 DEF Owned
<1>4. /\ pc[q] \in SlotPcs => MySlot(q) \in live'
      /\ pc[q] \in PadPcs => MyPad(q) \in live'
  <2>1. CASE ConsumeAdvance
    BY <1>3, <2>1 DEF ConsumeAdvance, Owns
  <2>2. CASE ConsumeCommitted
    <3>1. live' = {t \in live : t.pos # readHead}
      BY <2>2, PassSound
    <3>2. PICK s \in live : s.pos = readHead /\ ~InFlight(s)
      BY <2>2, PassSound
    <3>3. ASSUME NEW t \in live, InFlight(t) PROVE t \in live'
      <4>1. Tile(live, WorkerPos, writeHead)
        BY <1>1 DEF Tiled
      <4>2. t.pos = readHead => t = s
        BY <3>2, <4>1, PosTypes, SamePos
      <4> QED
        BY <3>1, <3>2, <3>3, <4>2
    <3> QED
      BY <1>3, <3>3, MineInFlight DEF Owns
  <2> QED
    BY <1>1, <2>1, <2>2
<1>5. pc'[q] = pc[q] /\ cur'[q] = cur[q] /\ stride'[q] = stride[q] /\ enqueues'[q] = enqueues[q]
  BY <1>2 DEF pvars
<1>6. writeHead' = writeHead /\ writeHead \in Nat
  BY <1>2, PosTypes
<1> QED
  BY <1>2, <1>3, <1>4, <1>5, <1>6, OwnsKept

(* Every step keeps what the producers rely on. *)
LEMMA OwnedStep ==
  ASSUME RingTypes, RingTypes', Tiled, Owned, HeadersMatch, [RingNext]_slotVars
  PROVE  Owned'
<1>1. CASE UNCHANGED slotVars
  <2> SUFFICES ASSUME fault' = "none", NEW q \in Writers PROVE Owns(q)'
    BY DEF Owned
  <2>1. MySlot(q)' = MySlot(q) /\ MyPad(q)' = MyPad(q)
    BY <1>1 DEF MySlot, MyPad, MyEvent, SpaceToEnd, Off, slotVars, pvars
  <2>2. Owns(q)
    BY <1>1 DEF Owned, slotVars
  <2> QED
    BY <1>1, <2>1, <2>2 DEF Owns, slotVars, pvars
<1> QED
  BY <1>1, RingCases, OwnedLocal, OwnedClaim, OwnedWrite, OwnedWorker

-----------------------------------------------------------------------------
(* The headers. *)

(* Header h is the one that the owner of slot s publishes. *)
Matches(h, s) ==
  /\ h.state = Committed /\ h.stride = s.len
  /\ h.pad <=> s.ev = NoEvent
  /\ ~h.pad => h.ev = s.ev

(* Before the commit the rest of the header is in place. *)
Prepared(p) ==
  /\ pc[p] = "padCommit" => MyHdr(p).pad /\ MyHdr(p).stride = SpaceToEnd(cur[p])
  /\ pc[p] = "commit" => /\ ~MyHdr(p).pad /\ MyHdr(p).stride = stride[p]
                         /\ MyHdr(p).ev = MyEvent(p)
AllPrepared == fault = "none" => \A p \in Writers : Prepared(p)

(* The headers of the published slots, one by one. *)
LEMMA HeadersMatchIs ==
  HeadersMatch <=>
    (fault = "none" => \A s \in live : ~InFlight(s) => Matches(ring[Off(s.pos)], s))
BY DEF HeadersMatch, Matches

(* The slot that a producer fills. *)
Mine(p) == IF pc[p] \in SlotPcs THEN MySlot(p) ELSE MyPad(p)

(* It is live. *)
LEMMA MineLive ==
  ASSUME RingTypes, Owned, fault = "none", NEW p \in Writers, pc[p] \in PadPcs \cup SlotPcs
  PROVE  /\ Mine(p) \in live /\ Mine(p).pos = cur[p] /\ Mine(p).by = p
         /\ pc[p] \in SlotPcs => Mine(p).len = stride[p] /\ Mine(p).ev = MyEvent(p)
         /\ pc[p] \in PadPcs => Mine(p).len = SpaceToEnd(cur[p]) /\ Mine(p).ev = NoEvent
<1>1. PadPcs \cap SlotPcs = {}
  BY DEF PadPcs, SlotPcs
<1>2. Owns(p)
  BY DEF Owned
<1>3. CASE pc[p] \in SlotPcs
  BY <1>1, <1>2, <1>3 DEF Owns, Mine, MySlot
<1>4. CASE pc[p] \in PadPcs
  BY <1>1, <1>2, <1>4 DEF Owns, Mine, MyPad
<1> QED
  BY <1>3, <1>4

(* Live slots lie within a lap from the read head. *)
LEMMA LiveNear ==
  ASSUME RingTypes, Tiled, fault = "none", NEW s \in live
  PROVE  /\ readHead <= s.pos /\ s.pos < s.pos + s.len /\ s.pos + s.len <= writeHead
         /\ writeHead < readHead + RingSize /\ Off(s.pos) + s.len <= RingSize
         /\ s.pos \in Nat /\ s.len \in Nat
         /\ \A t \in live : s # t => Apart(s, t)
<1>1. Within(s, WorkerPos, writeHead) /\ \A t \in live : s # t => Apart(s, t)
  BY DEF Tiled, Tile
<1>2. readHead <= WorkerPos /\ writeHead < readHead + RingSize
  BY DEF Tiled
<1> QED
  BY <1>1, <1>2, PosTypes, SizesAre DEF Within

(* A producer that fills its slot does not write into another one. *)
LEMMA WriteElsewhere ==
  ASSUME RingTypes, Tiled, Owned, fault = "none", NEW p \in Writers, WriteStep(p),
         NEW t \in live, t # Mine(p)
  PROVE  ring'[Off(t.pos)] = ring[Off(t.pos)]
<1> USE SizesAre
<1>1. pc[p] \in PadPcs \cup SlotPcs
  BY WriteFrame
<1>2. PICK s \in live : s = Mine(p) /\ s.pos = cur[p]
  BY <1>1, MineLive
<1>3. /\ readHead <= s.pos /\ s.pos < s.pos + s.len /\ s.pos + s.len <= writeHead
      /\ writeHead < readHead + RingSize /\ Off(s.pos) + s.len <= RingSize
      /\ s.pos \in Nat /\ s.len \in Nat /\ Apart(s, t)
  BY <1>2, LiveNear
<1>4. readHead <= t.pos /\ t.pos < writeHead /\ t.pos \in Nat
  <2>1. /\ readHead <= t.pos /\ t.pos < t.pos + t.len /\ t.pos + t.len <= writeHead
        /\ t.pos \in Nat /\ t.len \in Nat
    BY LiveNear
  <2> QED
    BY <2>1, PosTypes
<1>5. ASSUME NEW y \in Nat, s.pos <= y, y < s.pos + s.len PROVE Off(y) # Off(t.pos)
  <2>1. t.len \in Nat /\ t.len > 0
    BY LiveNear
  <2>2. y # t.pos
    BY <1>3, <1>4, <1>5, <2>1 DEF Apart
  <2>3. readHead <= y /\ y < readHead + RingSize /\ t.pos < readHead + RingSize /\ readHead \in Nat
    BY <1>3, <1>4, <1>5, PosTypes
  <2> QED
    BY <1>4, <2>2, <2>3, OffOnce
<1>6. Off(cur[p]) # Off(t.pos) /\ Off(t.pos) \in Offsets
  BY <1>2, <1>3, <1>4, <1>5, OffType
<1>7. ring = [o \in Offsets |-> ring[o]]
  BY DEF RingTypes, RingTypeOK
<1>8. CASE ~SlotFill(p)
  <2>1. PICK h : SetHdr(p, h)
    BY <1>8 DEF WriteStep, PadMark, PadFill, PadCommit, SlotMark, SlotStamp, SlotCommit
  <2> QED
    BY <1>6, <1>7, <2>1 DEF SetHdr
<1>9. CASE SlotFill(p)
  <2>1. ring'[Off(t.pos)] = Filled(p, Off(t.pos))
    BY <1>6, <1>9 DEF SlotFill, Filled
  <2>2. s.len = stride[p]
    BY <1>1, <1>2, <1>9, MineLive DEF SlotFill, SlotPcs
  <2>3. Off(t.pos) \notin Off(cur[p]) .. Off(cur[p]) + stride[p] - 1
    <3> SUFFICES ASSUME Off(t.pos) \in Off(cur[p]) .. Off(cur[p]) + stride[p] - 1 PROVE FALSE
      OBVIOUS
    <3>1. Off(cur[p]) \in Nat /\ Off(t.pos) \in Nat /\ Off(t.pos) < RingSize
      BY <1>2, <1>3, <1>4, OffType DEF Offsets
    <3>2. PICK d \in Nat : Off(t.pos) = Off(cur[p]) + d /\ d < s.len
      <4>1. PICK a \in Nat, b \in Nat : a = Off(t.pos) /\ b = Off(cur[p])
        BY <3>1
      <4>2. a \in b .. b + s.len - 1
        BY <2>2, <4>1
      <4>3. a - b \in Nat /\ a = b + (a - b) /\ a - b < s.len
        BY <1>3, <4>2
      <4> QED
        BY <4>1, <4>3
    <3>3. Off(s.pos + d) = Off(t.pos)
      BY <1>2, <1>3, <3>1, <3>2, OffAdd
    <3>4. s.pos + d \in Nat /\ s.pos <= s.pos + d /\ s.pos + d < s.pos + s.len
      BY <1>3, <3>2
    <3> QED
      BY <1>5, <3>3, <3>4
  <2> QED
    BY <1>6, <2>1, <2>3 DEF Filled
<1> QED
  BY <1>8, <1>9

(* The headers that are ready stay so. *)
LEMMA PreparedSame ==
  ASSUME NEW q \in Writers, Prepared(q),
         pc'[q] \in {"padCommit", "commit"} =>
           /\ pc'[q] = pc[q] /\ cur'[q] = cur[q] /\ stride'[q] = stride[q]
           /\ enqueues'[q] = enqueues[q]
           /\ MyHdr(q)'.pad = MyHdr(q).pad /\ MyHdr(q)'.stride = MyHdr(q).stride
           /\ MyHdr(q)'.ev = MyHdr(q).ev
  PROVE  Prepared(q)'
<1>1. pc'[q] \in {"padCommit", "commit"} =>
        SpaceToEnd(cur[q])' = SpaceToEnd(cur[q]) /\ MyEvent(q)' = MyEvent(q)
  BY DEF SpaceToEnd, Off, MyEvent
<1> QED
  BY <1>1 DEF Prepared

(* The steps of a producer outside its slot. *)
LEMMA PreparedOutside ==
  ASSUME RingTypes, AllPrepared, NEW p \in Writers,
         \/ ProduceTooLarge(p) \/ ProduceEnter(p) \/ ProduceLoad(p)
         \/ ProduceCheck(p) \/ ProduceNoRoom(p) \/ CasFails(p)
         \/ CasWrap(p) \/ CasClaim(p)
  PROVE  AllPrepared'
<1> SUFFICES ASSUME fault' = "none", NEW q \in Writers PROVE Prepared(q)'
  BY DEF AllPrepared
<1>1. fault = "none" /\ ring' = ring
  BY DEF ProduceTooLarge, ProduceEnter, ProduceLoad, ProduceCheck, ProduceNoRoom, CasFails,
         CasWrap, CasClaim, Claim, FaultOnClaim
<1>2. Prepared(q)
  BY <1>1 DEF AllPrepared
<1>3. CASE q # p
  <2>1. pc'[q] = pc[q] /\ cur'[q] = cur[q] /\ stride'[q] = stride[q] /\ enqueues'[q] = enqueues[q]
    <3>1. /\ enqueues' \in {enqueues, [enqueues EXCEPT ![p] = @ + 1]}
          /\ cur' \in {cur, [cur EXCEPT ![p] = writeHead]}
          /\ \E l : pc' \in {pc, [pc EXCEPT ![p] = l]}
      BY DEF ProduceTooLarge, ProduceEnter, ProduceLoad, ProduceCheck, ProduceNoRoom, CasFails,
             CasWrap, CasClaim, StepTo
    <3>2. \E n : stride' \in {stride, [stride EXCEPT ![p] = n]}
      BY DEF ProduceTooLarge, ProduceEnter, ProduceLoad, ProduceCheck, ProduceNoRoom, CasFails,
             CasWrap, CasClaim
    <3> QED
      BY <1>3, <3>1, <3>2 DEF RingTypes, RingTypeOK
  <2>2. MyHdr(q)' = MyHdr(q)
    BY <1>1, <2>1 DEF MyHdr, Off
  <2> QED
    BY <1>2, <2>1, <2>2, PreparedSame
<1>4. CASE q = p
  <2>1. pc'[q] \notin {"padCommit", "commit"}
    <3>1. CASE ProduceTooLarge(p)
      BY <1>4, <3>1 DEF ProduceTooLarge
    <3>2. CASE ~ProduceTooLarge(p)
      <4>1. PICK l \in {"check", "cas", "idle", "load", "padMark", "mark"} : StepTo(p, l)
        BY <3>2 DEF ProduceEnter, ProduceLoad, ProduceCheck, ProduceNoRoom, CasFails, CasWrap, CasClaim
      <4> QED
        BY <1>4, <4>1 DEF StepTo, RingTypes, RingTypeOK
    <3> QED
      BY <3>1, <3>2
  <2> QED
    BY <1>2, <2>1, PreparedSame
<1> QED
  BY <1>3, <1>4

(* A producer fills its slot. *)
LEMMA PreparedWrite ==
  ASSUME RingTypes, Tiled, Owned, AllPrepared, NEW p \in Writers, WriteStep(p)
  PROVE  AllPrepared'
<1> SUFFICES ASSUME fault' = "none", NEW q \in Writers PROVE Prepared(q)'
  BY DEF AllPrepared
<1>1. /\ UNCHANGED <<writeHead, readHead, enqueues, stride, cur, cvars, live, fault>>
      /\ pc[p] \in PadPcs \cup SlotPcs
  BY WriteFrame
<1>2. Prepared(q) /\ fault = "none"
  BY <1>1 DEF AllPrepared
<1>3. CASE q # p
  <2>1. pc'[q] = pc[q]
    <3>1. PICK l : StepTo(p, l)
      BY WriteFrame
    <3> QED
      BY <1>3, <3>1 DEF StepTo, RingTypes, RingTypeOK
  <2>2. ASSUME pc[q] \in {"padCommit", "commit"} PROVE MyHdr(q)' = MyHdr(q)
    <3>1. pc[q] \in PadPcs \cup SlotPcs
      BY <2>2 DEF PadPcs, SlotPcs
    <3>2. Mine(q) \in live /\ Mine(q).pos = cur[q] /\ Mine(q).by = q /\ Mine(p).by = p
      BY <1>1, <1>2, <3>1, MineLive
    <3>3. ring'[Off(Mine(q).pos)] = ring[Off(Mine(q).pos)]
      BY <1>2, <1>3, <3>2, WriteElsewhere
    <3>4. MyHdr(q)' = ring'[Off(cur[q])] /\ MyHdr(q) = ring[Off(cur[q])]
      BY <1>1 DEF MyHdr, Off
    <3> QED
      BY <3>2, <3>3, <3>4
  <2> QED
    BY <1>1, <1>2, <2>1, <2>2, PreparedSame
<1>4. CASE q = p
  <2>0. Off(cur[p]) \in Offsets /\ MyHdr(p) \in Headers /\ ring \in [Offsets -> Headers]
    BY OffType, MyHdrType DEF RingTypes, RingTypeOK
  <2>00. /\ MyHdr(p)' = ring'[Off(cur[p])] /\ SpaceToEnd(cur[p])' = SpaceToEnd(cur[p])
         /\ MyEvent(p)' = MyEvent(p) /\ stride'[p] = stride[p]
    BY <1>1 DEF MyHdr, Off, SpaceToEnd, MyEvent
  <2>1. CASE PadFill(p)
    <3>1. pc'[p] = "padCommit"
      BY <2>1 DEF PadFill, StepTo, RingTypes, RingTypeOK
    <3>2. ring'[Off(cur[p])] = [MyHdr(p) EXCEPT !.pad = TRUE, !.ticked = FALSE,
                                                !.stride = SpaceToEnd(cur[p])]
      BY <2>0, <2>1 DEF PadFill, SetHdr
    <3>3. ring'[Off(cur[p])].pad /\ ring'[Off(cur[p])].stride = SpaceToEnd(cur[p])
      BY <2>0, <3>2 DEF Headers
    <3> QED
      BY <1>4, <2>00, <3>1, <3>3 DEF Prepared
  <2>2. CASE SlotFill(p)
    <3>1. pc'[p] = "commit"
      BY <2>2 DEF SlotFill, StepTo, RingTypes, RingTypeOK
    <3>2. ring'[Off(cur[p])] = [MyHdr(p) EXCEPT !.pad = FALSE, !.stride = stride[p],
                                                !.ev = MyEvent(p)]
      BY <2>0, <2>2 DEF SlotFill
    <3>3. /\ ~ring'[Off(cur[p])].pad /\ ring'[Off(cur[p])].stride = stride[p]
          /\ ring'[Off(cur[p])].ev = MyEvent(p)
      BY <2>0, <3>2 DEF Headers
    <3> QED
      BY <1>4, <2>00, <3>1, <3>3 DEF Prepared
  <2>3. CASE ~PadFill(p) /\ ~SlotFill(p)
    <3>1. PICK l \in {"padFill", "load", "stamp", "fill", "idle"} : StepTo(p, l)
      BY <2>3 DEF WriteStep, PadMark, PadCommit, SlotMark, SlotStamp, SlotCommit
    <3>2. pc'[p] = l
      BY <3>1 DEF StepTo, RingTypes, RingTypeOK
    <3> QED
      BY <1>2, <1>4, <3>2, PreparedSame
  <2> QED
    BY <2>1, <2>2, <2>3
<1> QED
  BY <1>3, <1>4

(* The worker changes no more than the state of a header. *)
LEMMA PreparedWorker ==
  ASSUME RingTypes, AllPrepared, ConsumeOne
  PROVE  AllPrepared'
<1> SUFFICES ASSUME fault' = "none", NEW q \in Writers PROVE Prepared(q)'
  BY DEF AllPrepared
<1>1. fault = "none" /\ (ConsumeCommitted \/ ConsumeAdvance)
  BY WorkerCases
<1>2. Prepared(q)
  BY <1>1 DEF AllPrepared
<1>3. UNCHANGED pvars
  BY <1>1 DEF ConsumeCommitted, ConsumeAdvance
<1>4. MyHdr(q)' = ring'[Off(cur[q])] /\ MyHdr(q) = ring[Off(cur[q])]
  BY <1>3 DEF MyHdr, Off, pvars
<1>5. /\ ring'[Off(cur[q])].pad = ring[Off(cur[q])].pad
      /\ ring'[Off(cur[q])].stride = ring[Off(cur[q])].stride
      /\ ring'[Off(cur[q])].ev = ring[Off(cur[q])].ev
  <2>1. CASE ConsumeAdvance
    BY <2>1 DEF ConsumeAdvance
  <2>2. CASE ConsumeCommitted
    <3>1. ring' = [ring EXCEPT ![Off(readHead)] = [AtHead EXCEPT !.state = Free]]
      BY <2>2 DEF ConsumeCommitted, AtHead
    <3>2. Off(readHead) \in Offsets /\ AtHead \in Headers /\ Off(cur[q]) \in Offsets
          /\ ring \in [Offsets -> Headers]
      BY HeadType, OffType DEF RingTypes, RingTypeOK
    <3>3. PICK h : h = [AtHead EXCEPT !.state = Free]
      OBVIOUS
    <3>4. h.pad = AtHead.pad /\ h.stride = AtHead.stride /\ h.ev = AtHead.ev
      BY <3>2, <3>3 DEF Headers
    <3>5. ring'[Off(cur[q])] = IF Off(cur[q]) = Off(readHead) THEN h ELSE ring[Off(cur[q])]
      BY <3>1, <3>2, <3>3
    <3> QED
      BY <3>4, <3>5 DEF AtHead
  <2> QED
    BY <1>1, <2>1, <2>2
<1> QED
  BY <1>2, <1>3, <1>4, <1>5, PreparedSame DEF pvars

(* Every step keeps the headers that are ready. *)
LEMMA PreparedStep ==
  ASSUME RingTypes, Tiled, Owned, AllPrepared, [RingNext]_slotVars
  PROVE  AllPrepared'
<1>1. CASE UNCHANGED slotVars
  <2> SUFFICES ASSUME fault' = "none", NEW q \in Writers PROVE Prepared(q)'
    BY DEF AllPrepared
  <2>1. MyHdr(q)' = MyHdr(q) /\ Prepared(q) /\ UNCHANGED pvars
    BY <1>1 DEF MyHdr, Off, slotVars, pvars, AllPrepared
  <2> QED
    BY <2>1, PreparedSame DEF pvars
<1> QED
  BY <1>1, RingCases, PreparedOutside, PreparedWrite, PreparedWorker

(* Which slots are in flight when a producer moves outside its slot, *)
LEMMA FlightLocal ==
  ASSUME RingTypes, NEW p \in Writers,
         \/ ProduceTooLarge(p) \/ ProduceEnter(p) \/ ProduceLoad(p)
         \/ ProduceCheck(p) \/ ProduceNoRoom(p) \/ CasFails(p),
         NEW s \in live
  PROVE  InFlight(s)' <=> InFlight(s)
<1> USE DEF PadPcs, SlotPcs
<1>0. s.by \in Writers
  BY DEF RingTypes, RingTypeOK, Slots
<1>1. PICK q \in Writers : q = s.by
  BY <1>0
<1>2. CASE q # p
  <2>1. pc'[q] = pc[q] /\ cur'[q] = cur[q]
    BY <1>2 DEF ProduceTooLarge, ProduceEnter, ProduceLoad, ProduceCheck, ProduceNoRoom, CasFails,
               StepTo, RingTypes, RingTypeOK
  <2> QED
    BY <1>1, <2>1 DEF InFlight
<1>3. CASE q = p
  <2>1. pc[p] \in {"idle", "load", "check", "cas"}
    BY DEF ProduceTooLarge, ProduceEnter, ProduceLoad, ProduceCheck, ProduceNoRoom, CasFails
  <2>2. pc'[p] \in {"idle", "load", "check", "cas"}
    <3>1. CASE ProduceTooLarge(p)
      BY <3>1 DEF ProduceTooLarge
    <3>2. CASE ~ProduceTooLarge(p)
      <4>1. PICK l \in {"check", "cas", "idle", "load"} : StepTo(p, l)
        BY <3>2 DEF ProduceEnter, ProduceLoad, ProduceCheck, ProduceNoRoom, CasFails
      <4> QED
        BY <4>1 DEF StepTo, RingTypes, RingTypeOK
    <3> QED
      BY <3>1, <3>2
  <2> QED
    BY <1>1, <1>3, <2>1, <2>2 DEF InFlight
<1> QED
  BY <1>2, <1>3

(* when it claims one, *)
LEMMA FlightClaim ==
  ASSUME RingTypes, Tiled, Owned, NEW p \in Writers, CasWrap(p) \/ CasClaim(p), fault' = "none",
         NEW s \in live'
  PROVE  /\ s \in live => (InFlight(s)' <=> InFlight(s))
         /\ s \notin live => InFlight(s)'
<1>1. /\ fault = "none" /\ writeHead = cur[p] /\ cur' = cur /\ pc[p] = "cas"
      /\ \/ StepTo(p, "mark") /\ live' = live \cup {MySlot(p)}
         \/ StepTo(p, "padMark") /\ live' = live \cup {MyPad(p)}
  BY CasSound DEF CasWrap, CasClaim
<1>2. pc'[p] \in PadPcs \cup SlotPcs /\ \A q \in Writers : q # p => pc'[q] = pc[q]
  BY <1>1 DEF StepTo, RingTypes, RingTypeOK, PadPcs, SlotPcs
<1>3. ASSUME s \in live PROVE InFlight(s)' <=> InFlight(s)
  <2>1. s.by \in Writers /\ s.pos # cur[p]
    <3>1. s.pos < s.pos + s.len /\ s.pos + s.len <= writeHead /\ s.pos \in Nat /\ s.len \in Nat
      BY <1>1, <1>3, LiveNear
    <3>2. s.by \in Writers
      BY <1>3 DEF RingTypes, RingTypeOK, Slots
    <3> QED
      BY <1>1, <3>1, <3>2, PosTypes
  <2> QED
    BY <1>1, <1>2, <2>1 DEF InFlight
<1>4. ASSUME s \notin live PROVE InFlight(s)'
  <2>1. s.by = p /\ s.pos = cur[p]
    BY <1>1, <1>4 DEF MySlot, MyPad
  <2> QED
    BY <1>1, <1>2, <2>1 DEF InFlight
<1> QED
  BY <1>3, <1>4

(* and when it fills one. *)
LEMMA FlightWrite ==
  ASSUME RingTypes, Tiled, Owned, fault = "none", NEW p \in Writers, WriteStep(p), NEW s \in live
  PROVE  /\ s # Mine(p) => (InFlight(s)' <=> InFlight(s))
         /\ s = Mine(p) => InFlight(s) /\ (InFlight(s)' <=> pc'[p] \in PadPcs \cup SlotPcs)
<1>1. cur' = cur /\ pc[p] \in PadPcs \cup SlotPcs
  BY WriteFrame
<1>2. \A q \in Writers : q # p => pc'[q] = pc[q]
  <2>1. PICK l : StepTo(p, l)
    BY WriteFrame
  <2> QED
    BY <2>1 DEF StepTo, RingTypes, RingTypeOK
<1>3. Mine(p) \in live /\ Mine(p).pos = cur[p] /\ Mine(p).by = p
  BY <1>1, MineLive
<1>4. s.by \in Writers
  BY DEF RingTypes, RingTypeOK, Slots
<1>5. ASSUME s # Mine(p) PROVE InFlight(s)' <=> InFlight(s)
  <2>1. s.pos # cur[p]
    <3>1. Tile(live, WorkerPos, writeHead)
      BY DEF Tiled
    <3> QED
      BY <1>3, <1>5, <3>1, PosTypes, SamePos
  <2> QED
    BY <1>1, <1>2, <1>4, <2>1 DEF InFlight
<1>6. ASSUME s = Mine(p) PROVE InFlight(s) /\ (InFlight(s)' <=> pc'[p] \in PadPcs \cup SlotPcs)
  BY <1>1, <1>3, <1>6 DEF InFlight
<1> QED
  BY <1>5, <1>6

(* The header of a slot that its owner commits. *)
LEMMA CommitMatches ==
  ASSUME RingTypes, Tiled, Owned, AllPrepared, fault = "none", NEW p \in Writers, WriteStep(p),
         pc'[p] \notin PadPcs \cup SlotPcs
  PROVE  /\ Matches(ring'[Off(Mine(p).pos)], Mine(p))
         /\ PadCommit(p) \/ SlotCommit(p)
<1> USE DEF PadPcs, SlotPcs
<1>0. /\ Off(cur[p]) \in Offsets /\ MyHdr(p) \in Headers /\ ring \in [Offsets -> Headers]
      /\ pc \in [Writers -> Pcs]
  BY OffType, MyHdrType DEF RingTypes, RingTypeOK
<1>1. PadCommit(p) \/ SlotCommit(p)
  <2>1. ASSUME PadMark(p) \/ PadFill(p) \/ SlotMark(p) \/ SlotStamp(p) \/ SlotFill(p) PROVE FALSE
    <3>1. PICK l \in PadPcs \cup SlotPcs : StepTo(p, l)
      BY <2>1 DEF PadMark, PadFill, SlotMark, SlotStamp, SlotFill
    <3> QED
      BY <1>0, <3>1 DEF StepTo
  <2> QED
    BY <2>1 DEF WriteStep
<1>2. pc[p] \in PadPcs \cup SlotPcs /\ Prepared(p)
  BY WriteFrame DEF AllPrepared
<1>3. /\ Mine(p).pos = cur[p]
      /\ pc[p] \in SlotPcs => Mine(p).len = stride[p] /\ Mine(p).ev = MyEvent(p)
      /\ pc[p] \in PadPcs => Mine(p).len = SpaceToEnd(cur[p]) /\ Mine(p).ev = NoEvent
  BY <1>2, MineLive
<1>4. ring'[Off(cur[p])] = [MyHdr(p) EXCEPT !.state = Committed]
  BY <1>0, <1>1 DEF PadCommit, SlotCommit, SetHdr
<1>5. PICK h : h = ring'[Off(cur[p])]
  OBVIOUS
<1>6. /\ h.state = Committed /\ (h.pad <=> MyHdr(p).pad) /\ h.stride = MyHdr(p).stride
      /\ h.ev = MyHdr(p).ev
  BY <1>0, <1>4, <1>5 DEF Headers
<1>7. CASE PadCommit(p)
  <2>1. pc[p] = "padCommit"
    BY <1>7 DEF PadCommit
  <2>2. MyHdr(p).pad /\ MyHdr(p).stride = SpaceToEnd(cur[p])
    BY <1>2, <2>1 DEF Prepared
  <2>3. Matches(h, Mine(p))
    BY <1>3, <1>6, <2>1, <2>2 DEF Matches
  <2> QED
    BY <1>1, <1>3, <1>5, <2>3
<1>8. CASE SlotCommit(p)
  <2>1. pc[p] = "commit"
    BY <1>8 DEF SlotCommit
  <2>2. ~MyHdr(p).pad /\ MyHdr(p).stride = stride[p] /\ MyHdr(p).ev = MyEvent(p)
    BY <1>2, <2>1 DEF Prepared
  <2>3. MyEvent(p) # NoEvent
    BY <2>1, MyEventType, SizesAssumption
  <2>4. Matches(h, Mine(p))
    BY <1>3, <1>6, <2>1, <2>2, <2>3 DEF Matches
  <2> QED
    BY <1>1, <1>3, <1>5, <2>4
<1> QED
  BY <1>1, <1>7, <1>8

(* Every step keeps the headers of the published slots. *)
LEMMA HeadersStep ==
  ASSUME RingTypes, Tiled, Owned, AllPrepared, HeadersMatch, [RingNext]_slotVars
  PROVE  HeadersMatch'
<1> SUFFICES ASSUME fault' = "none", NEW s \in live', ~InFlight(s)'
             PROVE  Matches(ring'[Off(s.pos)], s)
  BY DEF HeadersMatch, Matches
<1>0. ASSUME fault = "none", s \in live, ~InFlight(s), ring'[Off(s.pos)] = ring[Off(s.pos)]
      PROVE  Matches(ring'[Off(s.pos)], s)
  BY <1>0, HeadersMatchIs
<1>1. ASSUME NEW p \in Writers,
             \/ ProduceTooLarge(p) \/ ProduceEnter(p) \/ ProduceLoad(p)
             \/ ProduceCheck(p) \/ ProduceNoRoom(p) \/ CasFails(p)
      PROVE  Matches(ring'[Off(s.pos)], s)
  <2>1. UNCHANGED <<ring, live, fault>>
    BY <1>1 DEF ProduceTooLarge, ProduceEnter, ProduceLoad, ProduceCheck, ProduceNoRoom, CasFails
  <2>2. ~InFlight(s)
    BY <1>1, <2>1, FlightLocal
  <2> QED
    BY <1>0, <2>1, <2>2
<1>2. ASSUME NEW p \in Writers, CasWrap(p) \/ CasClaim(p) PROVE Matches(ring'[Off(s.pos)], s)
  <2>1. fault = "none" /\ ring' = ring
    BY <1>2, CasSound
  <2>2. s \in live /\ ~InFlight(s)
    BY <1>2, FlightClaim
  <2> QED
    BY <1>0, <2>1, <2>2
<1>3. ASSUME NEW p \in Writers, WriteStep(p) PROVE Matches(ring'[Off(s.pos)], s)
  <2>1. fault = "none" /\ s \in live
    BY <1>3, WriteFrame
  <2>2. CASE s = Mine(p)
    <3>1. pc'[p] \notin PadPcs \cup SlotPcs
      BY <1>3, <2>1, <2>2, FlightWrite
    <3> QED
      BY <1>3, <2>1, <2>2, <3>1, CommitMatches
  <2>3. CASE s # Mine(p)
    <3>1. ~InFlight(s) /\ ring'[Off(s.pos)] = ring[Off(s.pos)]
      BY <1>3, <2>1, <2>3, FlightWrite, WriteElsewhere
    <3> QED
      BY <1>0, <2>1, <3>1
  <2> QED
    BY <2>2, <2>3
<1>4. CASE ConsumeOne
  <2>1. fault = "none" /\ (ConsumeCommitted \/ ConsumeAdvance)
    BY <1>4, WorkerCases
  <2>2. ~InFlight(s)
    BY <2>1 DEF ConsumeCommitted, ConsumeAdvance, pvars, InFlight
  <2>3. CASE ConsumeAdvance
    <3>1. ring' = ring /\ s \in live
      BY <2>3 DEF ConsumeAdvance
    <3> QED
      BY <1>0, <2>1, <2>2, <3>1
  <2>4. CASE ConsumeCommitted
    <3>1. s \in live /\ s.pos # readHead
      BY <2>4, PassSound
    <3>2. /\ readHead <= s.pos /\ s.pos < s.pos + s.len /\ s.pos + s.len <= writeHead
          /\ writeHead < readHead + RingSize /\ s.pos \in Nat /\ s.len \in Nat
      BY <2>1, <3>1, LiveNear
    <3>3. Off(s.pos) # Off(readHead)
      <4>1. /\ readHead <= readHead /\ readHead < readHead + RingSize
            /\ s.pos < readHead + RingSize /\ readHead \in Nat
        BY <3>2, PosTypes, SizesAre
      <4> QED
        BY <3>1, <3>2, <4>1, OffOnce
    <3>4. ring'[Off(s.pos)] = ring[Off(s.pos)]
      <4>1. Off(s.pos) \in Offsets /\ ring \in [Offsets -> Headers]
        BY <3>2, OffType DEF RingTypes, RingTypeOK
      <4>2. ring' = [ring EXCEPT ![Off(readHead)] = [AtHead EXCEPT !.state = Free]]
        BY <2>4 DEF ConsumeCommitted, AtHead
      <4> QED
        BY <3>3, <4>1, <4>2
    <3> QED
      BY <1>0, <2>1, <2>2, <3>1, <3>4
  <2> QED
    BY <2>1, <2>3, <2>4
<1>5. CASE UNCHANGED slotVars
  <2>1. UNCHANGED <<ring, live, fault>> /\ ~InFlight(s)
    BY <1>5 DEF slotVars, pvars, InFlight
  <2> QED
    BY <1>0, <2>1
<1> QED
  BY <1>1, <1>2, <1>3, <1>4, <1>5, RingCases

(* The invariant of the ring. *)
SlotInv == RingTypes /\ Tiled /\ Owned /\ AllPrepared /\ HeadersMatch

(* It holds when the ring is initialized. *)
LEMMA SlotInvInit == RingInit => SlotInv
<1> SUFFICES ASSUME RingInit PROVE SlotInv
  OBVIOUS
<1>1. RingTypes
  BY RingTypesInit
<1>2. Tiled
  <2>1. WorkerPos = 0 /\ writeHead = 0 /\ readHead = 0 /\ live = {}
    BY DEF RingInit, WorkerPos
  <2>2. Tile({}, 0, 0)
    BY DEF Tile
  <2> QED
    BY <2>1, <2>2, SizesAre DEF Tiled
<1>3. Owned
  BY DEF RingInit, Owned, Owns, SlotPcs, PadPcs
<1>4. AllPrepared
  BY DEF RingInit, AllPrepared, Prepared
<1>5. HeadersMatch
  BY DEF RingInit, HeadersMatch
<1> QED
  BY <1>1, <1>2, <1>3, <1>4, <1>5 DEF SlotInv

(* Every step keeps it. *)
LEMMA SlotInvStep == SlotInv /\ [RingNext]_slotVars => SlotInv'
<1> SUFFICES ASSUME SlotInv, [RingNext]_slotVars PROVE SlotInv'
  OBVIOUS
<1>1. RingTypes /\ Tiled /\ Owned /\ AllPrepared /\ HeadersMatch
  BY DEF SlotInv
<1>2. RingTypes'
  BY <1>1, RingTypesStep
<1> QED
  BY <1>1, <1>2, TiledStep, OwnedStep, PreparedStep, HeadersStep DEF SlotInv

(* The bytes of a slot that a producer fills. *)
LEMMA WritesMine ==
  ASSUME RingTypes, Owned, fault = "none", NEW p \in Writers
  PROVE  \/ Writes(p) = {}
         \/ Mine(p) \in live /\ Mine(p).by = p /\ Writes(p) = Cells(Mine(p).pos, Mine(p).len)
<1>1. CASE pc[p] \in PadPcs \cup SlotPcs
  <2>1. /\ Mine(p) \in live /\ Mine(p).pos = cur[p] /\ Mine(p).by = p
        /\ pc[p] \in SlotPcs => Mine(p).len = stride[p]
        /\ pc[p] \in PadPcs => Mine(p).len = SpaceToEnd(cur[p])
    BY <1>1, MineLive
  <2>2. CASE pc[p] \in SlotPcs
    BY <2>1, <2>2 DEF Writes
  <2>3. CASE pc[p] \notin SlotPcs
    BY <1>1, <2>1, <2>3 DEF Writes
  <2> QED
    BY <2>1, <2>2, <2>3
<1>2. CASE pc[p] \notin PadPcs \cup SlotPcs
  BY <1>2 DEF Writes
<1> QED
  BY <1>1, <1>2

(* The invariant gives the layout. *)
LEMMA LayoutFrom == SlotInv => LayoutSound
<1> SUFFICES ASSUME SlotInv PROVE LayoutSound
  OBVIOUS
<1>0. RingTypes /\ Tiled /\ Owned /\ HeadersMatch
  BY DEF SlotInv
<1>1. SlotsTile
  <2> SUFFICES ASSUME fault = "none"
               PROVE  /\ WorkerPos <= writeHead /\ writeHead < readHead + RingSize
                      /\ \A s \in live : WorkerPos <= s.pos /\ s.pos + s.len <= writeHead
                      /\ \A x \in WorkerPos .. writeHead - 1 :
                           \E s \in live : Covers(s, x) /\ \A t \in live : Covers(t, x) => t = s
    BY DEF SlotsTile
  <2>1. writeHead < readHead + RingSize /\ Tile(live, WorkerPos, writeHead)
    BY <1>0 DEF Tiled
  <2>2. WorkerPos <= writeHead /\ \A s \in live : WorkerPos <= s.pos /\ s.pos + s.len <= writeHead
    BY <2>1 DEF Tile, Within
  <2>3. ASSUME NEW x \in WorkerPos .. writeHead - 1
        PROVE  \E s \in live : Covers(s, x) /\ \A t \in live : Covers(t, x) => t = s
    <3>1. PICK s \in live : Covers(s, x)
      BY <2>1 DEF Tile
    <3>2. x \in Int
      BY <1>0, PosTypes
    <3>3. ASSUME NEW t \in live, Covers(t, x), t # s PROVE FALSE
      <4>1. Apart(s, t)
        BY <2>1, <3>3 DEF Tile
      <4>2. s.pos \in Nat /\ s.len \in Nat /\ t.pos \in Nat /\ t.len \in Nat
        BY <1>0, PosTypes
      <4> QED
        BY <3>1, <3>2, <3>3, <4>1, <4>2 DEF Covers, Apart
    <3> QED
      BY <3>1, <3>3
  <2> QED
    BY <2>1, <2>2, <2>3
<1>2. NoSharedBytes
  <2> SUFFICES ASSUME fault = "none"
               PROVE  /\ \A p, q \in Writers : p # q => Writes(p) \cap Writes(q) = {}
                      /\ \A p \in Writers : Writes(p) \cap Reads = {}
    BY DEF NoSharedBytes
  <2>0. readHead \in Nat /\ writeHead \in Nat /\ writeHead < readHead + RingSize /\ RingSize \in Nat
    BY <1>0, PosTypes, SizesAre DEF Tiled
  <2>1. ASSUME NEW a \in Nat, NEW m \in Nat, NEW b \in Nat, NEW n \in Nat,
               readHead <= a, a + m <= writeHead, readHead <= b, b + n <= writeHead,
               a + m <= b \/ b + n <= a
        PROVE  Cells(a, m) \cap Cells(b, n) = {}
    <3> SUFFICES ASSUME NEW o \in Cells(a, m), o \in Cells(b, n) PROVE FALSE
      OBVIOUS
    <3>1. PICK x \in a .. a + m - 1 : o = Off(x)
      BY DEF Cells
    <3>2. PICK y \in b .. b + n - 1 : o = Off(y)
      BY DEF Cells
    <3>3. /\ x \in Nat /\ y \in Nat /\ readHead <= x /\ x < readHead + RingSize
          /\ readHead <= y /\ y < readHead + RingSize /\ x # y
      BY <2>0, <2>1, <3>1, <3>2
    <3> QED
      BY <2>0, <3>1, <3>2, <3>3, OffOnce
  <2>2. ASSUME NEW p \in Writers, NEW q \in Writers, p # q PROVE Writes(p) \cap Writes(q) = {}
    <3>1. CASE Writes(p) = {} \/ Writes(q) = {}
      BY <3>1
    <3>2. CASE Writes(p) # {} /\ Writes(q) # {}
      <4>1. PICK s \in live : s.by = p /\ Writes(p) = Cells(s.pos, s.len)
        BY <1>0, <3>2, WritesMine
      <4>2. PICK t \in live : t.by = q /\ Writes(q) = Cells(t.pos, t.len)
        BY <1>0, <3>2, WritesMine
      <4>3. /\ readHead <= s.pos /\ s.pos + s.len <= writeHead /\ s.pos \in Nat /\ s.len \in Nat
            /\ s # t => Apart(s, t)
        BY <1>0, LiveNear
      <4>4. readHead <= t.pos /\ t.pos + t.len <= writeHead /\ t.pos \in Nat /\ t.len \in Nat
        BY <1>0, LiveNear
      <4>5. Apart(s, t)
        BY <2>2, <4>1, <4>2, <4>3
      <4>6. Cells(s.pos, s.len) \cap Cells(t.pos, t.len) = {}
        BY <2>1, <4>3, <4>4, <4>5 DEF Apart
      <4> QED
        BY <4>1, <4>2, <4>6
    <3> QED
      BY <3>1, <3>2
  <2>3. ASSUME NEW p \in Writers PROVE Writes(p) \cap Reads = {}
    <3>1. CASE Writes(p) = {} \/ consumer # "advance"
      BY <3>1 DEF Reads
    <3>2. CASE Writes(p) # {} /\ consumer = "advance"
      <4>1. PICK s \in live : Writes(p) = Cells(s.pos, s.len)
        BY <1>0, <3>2, WritesMine
      <4>2. Reads = Cells(readHead, advance) /\ WorkerPos = readHead + advance /\ advance \in Nat
        BY <1>0, <3>2 DEF Reads, WorkerPos, RingTypes, RingTypeOK
      <4>3. readHead <= s.pos /\ s.pos + s.len <= writeHead /\ s.pos \in Nat /\ s.len \in Nat
        BY <1>0, LiveNear
      <4>4. WorkerPos <= s.pos /\ WorkerPos <= writeHead
        BY <1>0 DEF Tiled, Tile, Within
      <4>5. Cells(s.pos, s.len) \cap Cells(readHead, advance) = {}
        BY <2>0, <2>1, <4>2, <4>3, <4>4
      <4> QED
        BY <4>1, <4>2, <4>5
    <3> QED
      BY <3>1, <3>2
  <2> QED
    BY <2>2, <2>3
<1> QED
  BY <1>0, <1>1, <1>2 DEF LayoutSound, RingTypes

(* LayoutSound: for any ring, header and event sizes and any number of     *)
(* producers ProduceSlot and ConsumeOne agree, up to the first fault, on   *)
(* where every slot begins and ends and on whose bytes are whose.          *)
THEOREM RingLayoutSound == RingSpec => []LayoutSound
BY SlotInvInit, SlotInvStep, LayoutFrom, PTL DEF RingSpec

(* A producer that saw room for its event when it read m_writeHead still   *)
(* sees it, unless the worker has passed the position read: m_readHead     *)
(* only grows.                                                             *)
RoomOf(p) ==
  pc[p] = "check" /\ hadRoom[p] /\ readHead <= cur[p]
    => stride[p] <= RingSize - (cur[p] - readHead)
RoomKept == fault = "none" => \A p \in Writers : RoomOf(p)

(* A producer that does not move keeps it. *)
LEMMA RoomSame ==
  ASSUME RingTypes, NEW q \in Writers, RoomOf(q),
         pc'[q] = "check" =>
           /\ pc[q] = "check" /\ cur'[q] = cur[q] /\ stride'[q] = stride[q]
           /\ (hadRoom'[q] <=> hadRoom[q]),
         readHead' \in Nat, readHead' >= readHead
  PROVE  RoomOf(q)'
<1>1. /\ cur[q] \in Nat /\ stride[q] \in Nat /\ hadRoom[q] \in BOOLEAN
      /\ readHead \in Nat /\ RingSize \in Nat
  BY SizesAre DEF RingTypes, RingTypeOK
<1> QED
  BY <1>1 DEF RoomOf

(* Every step of the ring keeps it. *)
LEMMA RoomStep ==
  ASSUME RingTypes, RoomKept, [RingNext]_slotVars
  PROVE  RoomKept'
<1> SUFFICES ASSUME fault' = "none", NEW q \in Writers PROVE RoomOf(q)'
  BY DEF RoomKept
<1>t. /\ readHead \in Nat /\ writeHead \in Nat /\ pc \in [Writers -> Pcs]
      /\ cur \in [Writers -> Nat] /\ stride \in [Writers -> Nat]
      /\ hadRoom \in [Writers -> BOOLEAN]
  BY DEF RingTypes, RingTypeOK
<1>1. ASSUME NEW p \in Writers, ProduceTooLarge(p) PROVE RoomOf(q)'
  BY <1>t, <1>1, RoomSame DEF ProduceTooLarge, RoomKept
<1>2. ASSUME NEW p \in Writers, ProduceEnter(p) \/ ProduceLoad(p) PROVE RoomOf(q)'
  <2>1. /\ UNCHANGED <<readHead, writeHead, fault>>
        /\ pc' = [pc EXCEPT ![p] = "check"] /\ cur' = [cur EXCEPT ![p] = writeHead]
    BY <1>2 DEF ProduceEnter, ProduceLoad, StepTo
  <2>2. \E s : /\ stride' = [stride EXCEPT ![p] = s]
               /\ hadRoom' = [hadRoom EXCEPT ![p] = s <= FreeUnits]
    <3>1. CASE ProduceEnter(p)
      BY <3>1 DEF ProduceEnter, SeeRoom
    <3>2. CASE ProduceLoad(p)
      <4>1. stride' = [stride EXCEPT ![p] = stride[p]]
        BY <1>t, <3>2 DEF ProduceLoad
      <4> QED
        BY <3>2, <4>1 DEF ProduceLoad, SeeRoom
    <3> QED
      BY <1>2, <3>1, <3>2
  <2>3. PICK s : /\ stride' = [stride EXCEPT ![p] = s]
                 /\ hadRoom' = [hadRoom EXCEPT ![p] = s <= FreeUnits]
    BY <2>2
  <2>4. CASE q = p
    <3>1. /\ cur'[q] = writeHead /\ stride'[q] = s
          /\ (hadRoom'[q] <=> s <= RingSize - (writeHead - readHead))
      BY <1>t, <2>1, <2>3, <2>4 DEF FreeUnits
    <3> QED
      BY <2>1, <3>1 DEF RoomOf
  <2>5. CASE q # p
    BY <1>t, <2>1, <2>3, <2>5, RoomSame DEF RoomKept
  <2> QED
    BY <2>4, <2>5
<1>3. ASSUME NEW p \in Writers,
             \/ ProduceCheck(p) \/ ProduceNoRoom(p) \/ CasFails(p)
             \/ CasWrap(p) \/ CasClaim(p) \/ WriteStep(p)
      PROVE  RoomOf(q)'
  <2>1. /\ UNCHANGED <<readHead, cur, stride, hadRoom>>
        /\ \E l : StepTo(p, l) /\ l # "check"
    <3>1. CASE ProduceCheck(p) \/ ProduceNoRoom(p) \/ CasFails(p)
      BY <3>1 DEF ProduceCheck, ProduceNoRoom, CasFails
    <3>2. CASE CasWrap(p)
      <4>1. StepTo(p, "padMark") \/ StepTo(p, "load")
        BY <3>2 DEF CasWrap
      <4> QED
        BY <3>2, <4>1 DEF CasWrap
    <3>3. CASE CasClaim(p)
      BY <3>3 DEF CasClaim
    <3>4. CASE WriteStep(p)
      <4>1. UNCHANGED <<readHead, cur, stride, hadRoom>>
        BY <3>4 DEF WriteStep, PadMark, PadFill, PadCommit, SlotMark, SlotStamp,
                    SlotFill, SlotCommit
      <4>2. PICK l : StepTo(p, l) /\ l \in PadPcs \cup SlotPcs \cup {"load", "idle"}
        BY <3>4, WriteFrame
      <4> QED
        BY <4>1, <4>2 DEF PadPcs, SlotPcs
    <3> QED
      BY <1>3, <3>1, <3>2, <3>3, <3>4
  <2>2. PICK l : StepTo(p, l) /\ l # "check"
    BY <2>1
  <2>3. pc'[q] = "check" => pc[q] = "check"
    BY <1>t, <2>2 DEF StepTo
  <2>4. fault = "none"
    BY <1>3, WriteFrame DEF ProduceCheck, ProduceNoRoom, CasFails, CasWrap,
       CasClaim, Claim, FaultOnClaim
  <2> QED
    BY <1>t, <2>1, <2>3, <2>4, RoomSame DEF RoomKept
<1>4. CASE ConsumeOne
  <2>1. fault = "none" /\ (ConsumeCommitted \/ ConsumeAdvance)
    BY <1>4, WorkerCases
  <2>2. /\ UNCHANGED <<pc, cur, stride, hadRoom>>
        /\ readHead' \in Nat /\ readHead' >= readHead
    BY <1>t, <2>1 DEF ConsumeCommitted, ConsumeAdvance, pvars, RingTypes, RingTypeOK
  <2> QED
    BY <2>1, <2>2, RoomSame DEF RoomKept
<1>5. CASE UNCHANGED slotVars
  BY <1>t, <1>5, RoomSame DEF slotVars, pvars, RoomKept
<1> QED
  BY <1>1, <1>2, <1>3, <1>4, <1>5, RingCases

(* A call that is refused found no room at first, or was lapped. *)
LEMMA DropStep ==
  ASSUME SlotInv, RoomKept, [RingNext]_slotVars, NEW p \in Writers,
         pc[p] = "check", pc'[p] = "idle", fault = "none"
  PROVE  ~hadRoom[p] \/ readHead > cur[p]
<1>0. RingTypes /\ Tiled
  BY DEF SlotInv
<1>1. ProduceNoRoom(p)
  <2>0. pc \in [Writers -> Pcs]
    BY <1>0 DEF RingTypes, RingTypeOK
  <2>1. ASSUME NEW q \in Writers, NEW l, StepTo(q, l), l # "idle" PROVE FALSE
    BY <2>0, <2>1 DEF StepTo
  <2>2. ASSUME NEW q \in Writers,
               \/ ProduceTooLarge(q) \/ ProduceEnter(q) \/ ProduceLoad(q)
               \/ ProduceCheck(q) \/ CasFails(q)
        PROVE  FALSE
    BY <2>1, <2>2 DEF ProduceTooLarge, ProduceEnter, ProduceLoad, ProduceCheck, CasFails
  <2>3. ASSUME NEW q \in Writers, CasWrap(q) \/ CasClaim(q) PROVE FALSE
    <3>1. PICK l \in {"padMark", "load", "mark"} : StepTo(q, l)
      BY <2>3 DEF CasWrap, CasClaim
    <3> QED
      BY <2>1, <3>1
  <2>4. ASSUME NEW q \in Writers, WriteStep(q) PROVE FALSE
    <3>1. PICK l : StepTo(q, l)
      BY <2>4, WriteFrame
    <3>2. q = p
      BY <2>0, <3>1 DEF StepTo
    <3> QED
      BY <2>4, <3>2, WriteFrame DEF PadPcs, SlotPcs
  <2>5. ASSUME NEW q \in Writers, ProduceNoRoom(q) PROVE ProduceNoRoom(p)
    <3>1. StepTo(q, "idle")
      BY <2>5 DEF ProduceNoRoom
    <3>2. q = p
      BY <2>0, <3>1 DEF StepTo
    <3> QED
      BY <2>5, <3>2
  <2>6. ~ConsumeOne
    BY DEF ConsumeOne, ConsumeCommitted, ConsumeStuck, ConsumePoison, ConsumeFree, ConsumeAdvance, pvars
  <2>7. ~UNCHANGED slotVars
    BY DEF slotVars, pvars
  <2> QED
    BY <2>2, <2>3, <2>4, <2>5, <2>6, <2>7, RingCases
<1>2. ~(stride[p] <= RingSize - Used(cur[p], readHead))
  BY <1>1 DEF ProduceNoRoom, Fits
<1>3. /\ writeHead \in Nat /\ readHead \in Nat /\ stride[p] \in Nat
      /\ cur[p] \in Nat /\ hadRoom[p] \in BOOLEAN
      /\ writeHead < readHead + RingSize
  BY <1>0, PosTypes DEF Tiled, RingTypes, RingTypeOK
<1>4. cur[p] <= writeHead
  BY DEF SlotInv, Owned, Owns
<1> SUFFICES ASSUME hadRoom[p], readHead <= cur[p] PROVE FALSE
  BY <1>3
<1>5. Used(cur[p], readHead) = cur[p] - readHead
  BY <1>3, <1>4, SizesAre, UsedIs
<1>6. stride[p] <= RingSize - (cur[p] - readHead)
  BY DEF RoomKept, RoomOf
<1> QED
  BY <1>2, <1>5, <1>6

(* DropNeedsFullOrLapped: until the first fault, ProduceSlot refuses an    *)
(* event for want of room only when there was none for it at the moment it *)
(* read m_writeHead, or when the worker has passed the position it read.   *)
THEOREM RefusesOnlyWhenFullOrLapped == RingSpec => DropNeedsFullOrLapped
<1>1. RingInit => RoomKept
  BY DEF RingInit, RoomKept, RoomOf
<1>2. SlotInv /\ RoomKept /\ [RingNext]_slotVars => RoomKept'
  BY RoomStep DEF SlotInv
<1>3. SlotInv /\ RoomKept /\ [RingNext]_slotVars =>
        [\A p \in Writers : pc[p] = "check" /\ pc'[p] = "idle" /\ fault = "none"
           => ~hadRoom[p] \/ readHead > cur[p]]_slotVars
  BY DropStep
<1> QED
  BY <1>1, <1>2, <1>3, SlotInvInit, SlotInvStep, PTL DEF RingSpec, DropNeedsFullOrLapped

-----------------------------------------------------------------------------
(* The ring as a queue. *)

(* What the ring has for the entry of a slot, and for the queue. *)
Entry(s) == [at |-> s.pos, ev |-> s.ev, ready |-> ~InFlight(s)]
Waiting == {Entry(s) : s \in {t \in live : t.ev # NoEvent}}

(* The entry of a slot that stays in flight, or stays published. *)
LEMMA EntrySame ==
  ASSUME NEW s, InFlight(s)' <=> InFlight(s)
  PROVE  Entry(s)' = Entry(s)
<1>1. CASE InFlight(s)
  BY <1>1 DEF Entry
<1>2. CASE ~InFlight(s)
  BY <1>2 DEF Entry
<1> QED
  BY <1>1, <1>2

(* The queue stays when its slots and their entries do. *)
LEMMA WaitingSame ==
  ASSUME \A s \in live : s.ev # NoEvent => s \in live' /\ Entry(s)' = Entry(s),
         \A s \in live' : s.ev # NoEvent => s \in live
  PROVE  Waiting' = Waiting
<1>1. ASSUME NEW y \in Waiting PROVE y \in Waiting'
  <2>1. PICK s \in live : s.ev # NoEvent /\ y = Entry(s)
    BY DEF Waiting
  <2>2. s \in live' /\ y = Entry(s)'
    BY <2>1
  <2> QED
    BY <2>1, <2>2 DEF Waiting
<1>2. ASSUME NEW y \in Waiting' PROVE y \in Waiting
  <2>1. PICK s \in live' : s.ev # NoEvent /\ y = Entry(s)'
    BY DEF Waiting
  <2>2. s \in live /\ y = Entry(s)
    BY <2>1
  <2> QED
    BY <2>1, <2>2 DEF Waiting
<1> QED
  BY <1>1, <1>2

(* A claim is a claim, or padding that the queue does not show. *)
LEMMA FifoClaim ==
  ASSUME SlotInv, NEW p \in Writers, CasWrap(p) \/ CasClaim(p), fault' = "none"
  PROVE  Fifo!Claim \/ UNCHANGED Fifo!vars
<1>0. RingTypes /\ Tiled /\ Owned
  BY DEF SlotInv
<1>1. /\ fault = "none" /\ writeHead = cur[p] /\ sendBuf' = sendBuf /\ pc[p] # "idle"
      /\ \/ live' = live \cup {MySlot(p)}
         \/ live' = live \cup {MyPad(p)}
  BY <1>0, CasSound DEF cvars, CasWrap, CasClaim
<1>2. PICK n : live' = live \cup {n} /\ n.pos = writeHead /\ n.ev \in Events \cup {NoEvent}
  <2>1. MyEvent(p) \in Events
    BY <1>0, <1>1, MyEventType
  <2>2. MySlot(p).pos = writeHead /\ MySlot(p).ev \in Events
    BY <1>1, <2>1 DEF MySlot
  <2>3. MyPad(p).pos = writeHead /\ MyPad(p).ev = NoEvent
    BY <1>1 DEF MyPad
  <2> QED
    BY <1>1, <2>2, <2>3
<1>3. ASSUME NEW s \in live PROVE s.pos < writeHead /\ Entry(s)' = Entry(s)
  <2>1. s.pos < s.pos + s.len /\ s.pos + s.len <= writeHead /\ s.pos \in Nat /\ s.len \in Nat
    BY <1>0, <1>1, LiveNear
  <2>2. InFlight(s)' <=> InFlight(s)
    BY <1>0, <1>2, FlightClaim
  <2> QED
    BY <1>0, <2>1, <2>2, EntrySame, PosTypes
<1>4. n \notin live /\ writeHead \in Nat
  BY <1>0, <1>2, <1>3, PosTypes
<1>5. CASE n.ev = NoEvent
  <2>1. Waiting' = Waiting
    BY <1>2, <1>3, <1>5, WaitingSame
  <2> QED
    BY <1>1, <2>1 DEF Fifo!vars, Waiting, Entry
<1>6. CASE n.ev # NoEvent
  <2>1. PICK x : x = Entry(n)'
    OBVIOUS
  <2>2. InFlight(n)'
    BY <1>0, <1>2, <1>4, FlightClaim
  <2>3. x.at = n.pos /\ x.ev = n.ev /\ ~x.ready
    BY <2>1, <2>2 DEF Entry
  <2>4. Waiting' = Waiting \cup {x}
    <3>1. ASSUME NEW y \in Waiting PROVE y \in Waiting'
      <4>1. PICK s \in live : s.ev # NoEvent /\ y = Entry(s)
        BY DEF Waiting
      <4>2. s \in live' /\ y = Entry(s)'
        BY <1>2, <1>3, <4>1
      <4> QED
        BY <4>1, <4>2 DEF Waiting
    <3>2. x \in Waiting'
      BY <1>2, <1>6, <2>1 DEF Waiting
    <3>3. ASSUME NEW y \in Waiting', y # x PROVE y \in Waiting
      <4>1. PICK s \in live' : s.ev # NoEvent /\ y = Entry(s)'
        BY DEF Waiting
      <4>2. s \in live
        BY <1>2, <2>1, <3>3, <4>1
      <4>3. y = Entry(s)
        BY <1>3, <4>1, <4>2
      <4> QED
        BY <4>1, <4>2, <4>3 DEF Waiting
    <3> QED
      BY <3>1, <3>2, <3>3
  <2>5. ASSUME NEW y \in Waiting PROVE y.at < x.at
    <3>1. PICK s \in live : y = Entry(s)
      BY DEF Waiting
    <3>2. y.at = s.pos
      BY <3>1 DEF Entry
    <3> QED
      BY <1>2, <1>3, <2>3, <3>2
  <2>6. x \in Waiting' /\ x.ev \in Events
    BY <1>2, <1>6, <2>3, <2>4
  <2>7. (fault # "none")' = (fault # "none")
    BY <1>1
  <2> QED
    BY <1>1, <2>3, <2>4, <2>5, <2>6, <2>7 DEF Fifo!Claim, Waiting, Entry
<1> QED
  BY <1>5, <1>6

(* Filling a slot is no step of the queue, its commit is a publication. *)
LEMMA FifoWrite ==
  ASSUME SlotInv, NEW p \in Writers, WriteStep(p), fault' = "none"
  PROVE  (\E x \in Waiting : Fifo!Publish(x)) \/ UNCHANGED Fifo!vars
<1>0. RingTypes /\ Tiled /\ Owned /\ AllPrepared
  BY DEF SlotInv
<1>1. UNCHANGED <<live, fault, sendBuf>> /\ fault = "none" /\ pc[p] \in PadPcs \cup SlotPcs
  BY WriteFrame DEF cvars
<1>2. Mine(p) \in live /\ Mine(p).pos = cur[p]
  BY <1>0, <1>1, MineLive
<1>3. PICK m \in live : m = Mine(p)
  BY <1>2
<1>4. ASSUME NEW s \in live, s # m PROVE Entry(s)' = Entry(s) /\ s.pos # m.pos
  <2>1. InFlight(s)' <=> InFlight(s)
    BY <1>0, <1>1, <1>3, <1>4, FlightWrite
  <2>2. Tile(live, WorkerPos, writeHead)
    BY <1>0, <1>1 DEF Tiled
  <2> QED
    BY <1>0, <1>4, <2>1, <2>2, EntrySame, PosTypes, SamePos
<1>5. CASE m.ev = NoEvent \/ pc'[p] \in PadPcs \cup SlotPcs
  <2>1. m.ev # NoEvent => Entry(m)' = Entry(m)
    <3>1. m.ev # NoEvent => (InFlight(m)' <=> InFlight(m))
      BY <1>0, <1>1, <1>3, <1>5, FlightWrite
    <3> QED
      BY <3>1, EntrySame
  <2>2. \A s \in live : s.ev # NoEvent => s \in live' /\ Entry(s)' = Entry(s)
    BY <1>1, <1>4, <2>1
  <2>3. Waiting' = Waiting
    BY <1>1, <2>2, WaitingSame
  <2> QED
    BY <1>1, <2>3 DEF Fifo!vars, Waiting, Entry
<1>6. CASE m.ev # NoEvent /\ pc'[p] \notin PadPcs \cup SlotPcs
  <2>1. InFlight(m) /\ ~InFlight(m)'
    BY <1>0, <1>1, <1>3, <1>6, FlightWrite
  <2>2. PICK x : x = Entry(m)
    OBVIOUS
  <2>3. x = [at |-> m.pos, ev |-> m.ev, ready |-> FALSE] /\ x.at = m.pos
    BY <2>1, <2>2 DEF Entry
  <2>4. PICK z : z = Entry(m)'
    OBVIOUS
  <2>5. z = [at |-> m.pos, ev |-> m.ev, ready |-> TRUE] /\ z.at = m.pos
    BY <2>1, <2>4 DEF Entry
  <2>6. [x EXCEPT !.ready = TRUE] = z
    <3>1. PICK c : x = [at |-> m.pos, ev |-> m.ev, ready |-> c]
      BY <2>3, Zenon
    <3>2. PICK r : r = TRUE
      OBVIOUS
    <3>3. [x EXCEPT !.ready = r] = [at |-> m.pos, ev |-> m.ev, ready |-> r]
      BY <3>1
    <3> QED
      BY <2>5, <3>2, <3>3, Zenon
  <2>7. Waiting' = (Waiting \ {x}) \cup {z}
    <3>1. ASSUME NEW y \in Waiting' PROVE y \in (Waiting \ {x}) \cup {z}
      <4>1. PICK s \in live : s.ev # NoEvent /\ y = Entry(s)'
        BY <1>1 DEF Waiting
      <4>2. CASE s = m
        BY <2>4, <4>1, <4>2
      <4>3. CASE s # m
        <5>1. y = Entry(s) /\ s.pos # m.pos
          BY <1>4, <4>1, <4>3
        <5>2. y # x
          BY <2>3, <5>1 DEF Entry
        <5> QED
          BY <4>1, <5>1, <5>2 DEF Waiting
      <4> QED
        BY <4>2, <4>3
    <3>2. z \in Waiting'
      BY <1>1, <1>6, <2>4 DEF Waiting
    <3>3. ASSUME NEW y \in Waiting, y # x PROVE y \in Waiting'
      <4>1. PICK s \in live : s.ev # NoEvent /\ y = Entry(s)
        BY DEF Waiting
      <4>2. s # m
        BY <2>2, <3>3, <4>1
      <4>3. s \in live' /\ y = Entry(s)'
        BY <1>1, <1>4, <4>1, <4>2
      <4> QED
        BY <4>1, <4>3 DEF Waiting
    <3> QED
      BY <3>1, <3>2, <3>3
  <2>8. x \in Waiting /\ ~x.ready
    <3>1. ~x.ready
      BY <2>3
    <3>2. x \in Waiting
      BY <1>6, <2>2 DEF Waiting
    <3> QED
      BY <3>1, <3>2
  <2>9. Waiting' = (Waiting \ {x}) \cup {[x EXCEPT !.ready = TRUE]}
    BY <2>6, <2>7
  <2>10. (fault # "none")' = (fault # "none")
    BY <1>1
  <2>11. Fifo!Publish(x)
    BY <1>1, <2>8, <2>9, <2>10 DEF Fifo!Publish, Waiting, Entry
  <2> QED
    BY <2>8, <2>11
<1> QED
  BY <1>5, <1>6

(* The worker takes the oldest event, or passes padding or a freed slot. *)
LEMMA FifoTake ==
  ASSUME SlotInv, ConsumeOne, fault' = "none"
  PROVE  (\E x \in Waiting : Fifo!Take(x)) \/ UNCHANGED Fifo!vars
<1>0. RingTypes /\ Tiled /\ Owned /\ HeadersMatch
  BY DEF SlotInv
<1>1. fault = "none" /\ (ConsumeCommitted \/ ConsumeAdvance)
  BY <1>0, WorkerCases
<1>2. UNCHANGED pvars
  BY <1>1 DEF ConsumeCommitted, ConsumeAdvance
<1>3. ASSUME NEW s PROVE Entry(s)' = Entry(s)
  <2>1. InFlight(s)' <=> InFlight(s)
    BY <1>2 DEF pvars, InFlight
  <2> QED
    BY <2>1, EntrySame
<1>4. CASE ConsumeAdvance
  <2>1. UNCHANGED <<live, fault, sendBuf>>
    BY <1>4 DEF ConsumeAdvance
  <2>2. Waiting' = Waiting
    BY <1>3, <2>1, WaitingSame
  <2> QED
    BY <2>1, <2>2 DEF Fifo!vars, Waiting, Entry
<1>5. CASE ConsumeCommitted
  <2>1. live' = {t \in live : t.pos # readHead}
    BY <1>0, <1>5, PassSound
  <2>2. PICK s \in live : s.pos = readHead /\ ~InFlight(s)
    BY <1>0, <1>5, PassSound
  <2>3. Matches(AtHead, s)
    BY <1>0, <1>1, <2>2, HeadersMatchIs DEF AtHead
  <2>4. ASSUME NEW t \in live, t # s PROVE t \in live' /\ readHead <= t.pos
    <3>1. Tile(live, WorkerPos, writeHead)
      BY <1>0, <1>1 DEF Tiled
    <3>2. t.pos # s.pos
      BY <1>0, <2>4, <3>1, PosTypes, SamePos
    <3> QED
      BY <1>0, <1>1, <2>1, <2>2, <3>2, LiveNear
  <2>5. s \notin live' /\ live' \subseteq live
    BY <2>1, <2>2
  <2>6. (fault # "none")' = (fault # "none")
    BY <1>1
  <2>7. CASE s.ev = NoEvent
    <3>1. sendBuf' = sendBuf
      BY <1>5, <2>3, <2>7 DEF ConsumeCommitted, Matches
    <3>2. Waiting' = Waiting
      BY <1>3, <2>4, <2>5, <2>7, WaitingSame
    <3> QED
      BY <2>6, <3>1, <3>2 DEF Fifo!vars, Waiting, Entry
  <2>8. CASE s.ev # NoEvent
    <3>1. sendBuf' = s.ev
      BY <1>5, <2>3, <2>8 DEF ConsumeCommitted, Matches
    <3>2. PICK x : x = Entry(s)
      OBVIOUS
    <3>3. x.at = readHead /\ x.ev = s.ev /\ x.ready /\ x \in Waiting
      BY <2>2, <2>8, <3>2 DEF Entry, Waiting
    <3>4. ASSUME NEW y \in Waiting PROVE x.at <= y.at
      <4>1. PICK t \in live : y = Entry(t)
        BY DEF Waiting
      <4>2. y.at = t.pos
        BY <4>1 DEF Entry
      <4>3. readHead <= t.pos
        BY <1>0, <1>1, LiveNear
      <4> QED
        BY <3>3, <4>2, <4>3
    <3>5. Waiting' = Waiting \ {x}
      <4>1. ASSUME NEW y \in Waiting' PROVE y \in Waiting \ {x}
        <5>1. PICK t \in live' : t.ev # NoEvent /\ y = Entry(t)'
          BY DEF Waiting
        <5>2. y = Entry(t) /\ t \in live /\ t.pos # readHead
          BY <1>3, <2>1, <5>1
        <5>3. y # x
          BY <3>3, <5>2 DEF Entry
        <5> QED
          BY <5>1, <5>2, <5>3 DEF Waiting
      <4>2. ASSUME NEW y \in Waiting, y # x PROVE y \in Waiting'
        <5>1. PICK t \in live : t.ev # NoEvent /\ y = Entry(t)
          BY DEF Waiting
        <5>2. t \in live' /\ y = Entry(t)'
          BY <1>3, <2>4, <3>2, <4>2, <5>1
        <5> QED
          BY <5>1, <5>2 DEF Waiting
      <4> QED
        BY <4>1, <4>2
    <3>6. Fifo!Take(x)
      BY <2>6, <3>1, <3>3, <3>4, <3>5 DEF Fifo!Take, Waiting, Entry
    <3> QED
      BY <3>3, <3>6
  <2> QED
    BY <2>7, <2>8
<1> QED
  BY <1>1, <1>4, <1>5

(* A fault stays, and until there is one a step is one of the queue. *)
LEMMA FifoStep == SlotInv /\ [RingNext]_slotVars => [Fifo!Next]_Fifo!vars
<1> SUFFICES ASSUME SlotInv, [RingNext]_slotVars PROVE [Fifo!Next]_Fifo!vars
  OBVIOUS
<1>0. RingTypes
  BY DEF SlotInv
<1>1. CASE fault' # "none"
  <2>1. (fault # "none")' = TRUE
    BY <1>1
  <2> QED
    BY <2>1 DEF Fifo!Next, Fifo!Break
<1>2. CASE fault' = "none"
  <2>1. ASSUME NEW p \in Writers,
               \/ ProduceTooLarge(p) \/ ProduceEnter(p) \/ ProduceLoad(p)
               \/ ProduceCheck(p) \/ ProduceNoRoom(p) \/ CasFails(p)
        PROVE  UNCHANGED Fifo!vars
    <3>1. UNCHANGED <<live, fault, sendBuf>>
      BY <2>1 DEF ProduceTooLarge, ProduceEnter, ProduceLoad, ProduceCheck, ProduceNoRoom, CasFails, cvars
    <3>2. \A s \in live : Entry(s)' = Entry(s)
      BY <1>0, <2>1, FlightLocal, EntrySame
    <3>3. Waiting' = Waiting
      BY <3>1, <3>2, WaitingSame
    <3> QED
      BY <3>1, <3>3 DEF Fifo!vars, Waiting, Entry
  <2>2. ASSUME NEW p \in Writers, CasWrap(p) \/ CasClaim(p) PROVE Fifo!Claim \/ UNCHANGED Fifo!vars
    BY <1>2, <2>2, FifoClaim
  <2>3. ASSUME NEW p \in Writers, WriteStep(p)
        PROVE  (\E x \in Waiting : Fifo!Publish(x)) \/ UNCHANGED Fifo!vars
    BY <1>2, <2>3, FifoWrite
  <2>4. CASE ConsumeOne
    <3>1. (\E x \in Waiting : Fifo!Take(x)) \/ UNCHANGED Fifo!vars
      BY <1>2, <2>4, FifoTake
    <3> QED
      BY <3>1 DEF Fifo!Next, Waiting, Entry
  <2>5. CASE UNCHANGED slotVars
    <3>1. UNCHANGED <<live, fault, sendBuf, pc, cur>>
      BY <2>5 DEF slotVars, pvars, cvars
    <3>2. \A s \in live : InFlight(s)' <=> InFlight(s)
      BY <3>1 DEF InFlight
    <3>3. Waiting' = Waiting
      BY <3>1, <3>2, EntrySame, WaitingSame
    <3> QED
      BY <3>1, <3>3 DEF Fifo!vars, Waiting, Entry
  <2>6. CASE \E p \in Writers : WriteStep(p)
    <3>1. (\E x \in Waiting : Fifo!Publish(x)) \/ UNCHANGED Fifo!vars
      BY <2>3, <2>6
    <3> QED
      BY <3>1 DEF Fifo!Next, Waiting, Entry
  <2>7. CASE \E p \in Writers : CasWrap(p) \/ CasClaim(p)
    <3>1. Fifo!Claim \/ UNCHANGED Fifo!vars
      BY <2>2, <2>7
    <3> QED
      BY <3>1 DEF Fifo!Next
  <2> QED
    BY <2>1, <2>4, <2>5, <2>6, <2>7, RingCases
<1> QED
  BY <1>1, <1>2

(* RingIsQueue: every step of ProduceSlot and ConsumeOne is a step of      *)
(* SlotQueue or leaves it alone; events come out in the order in which     *)
(* room was claimed for them, once each, and only when published, until    *)
(* the ring breaks.                                                        *)
THEOREM RingImplementsQueue == RingSpec => RingIsQueue
<1>1. RingInit => Fifo!Init
  <2> SUFFICES ASSUME RingInit PROVE Fifo!Init
    OBVIOUS
  <2>1. (fault # "none") = FALSE
    BY DEF RingInit
  <2>2. {t \in live : t.ev # NoEvent} = {} /\ sendBuf = NoEvent
    BY DEF RingInit
  <2> QED
    BY <2>1, <2>2 DEF Fifo!Init
<1> QED
  BY <1>1, FifoStep, SlotInvInit, SlotInvStep, PTL DEF RingSpec, RingIsQueue, Fifo!Spec
=============================================================================
