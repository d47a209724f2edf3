------------------------ MODULE AsyncEventDispatcher ------------------------
(***************************************************************************)
(* The event dispatcher of the driver around its ring: the life cycle that *)
(* RegisterFilter and InstanceFilterUnloadCallback give it, the file       *)
(* system callbacks that call Enqueue, the client that connects and        *)
(* disconnects, and the worker thread that drains the ring to the port.    *)
(*                                                                         *)
(* The byte ring is the subject of SlotRing; here an event is the ticket   *)
(* of its claim: tickets head .. tail-1 are in the ring, and those of them *)
(* that are in ready are committed.  The steps of ProduceSlot and          *)
(* ConsumeOne at which the ring loses its slots are there too: they set    *)
(* broken.  From then on head is no more than the number of takes, ready   *)
(* is empty, and the worker may find nothing or find an event, whatever    *)
(* was put in.  (A copy from a broken ring may also overrun memory, which  *)
(* is not followed.)  Events are of one size; padding holds no event and   *)
(* is a step only when it breaks the ring.  ProduceSlot's refusal of a     *)
(* large event is absent: a Buffer ends at 32 KB, a quarter of the ring is *)
(* 64 KB.                                                                  *)
(***************************************************************************)
EXTENDS Integers, FiniteSets

CONSTANTS
  Producers,  \* threads in a file system callback
  Ports,      \* client port handles, one per connection
  NoPort,     \* a null PFLT_PORT
  NoTicket,   \* the send buffer holds no event
  Capacity,   \* slots the ring holds
  MaxCalls,   \* bound: calls of Enqueue
  MaxTakes    \* bound: events the worker takes from a broken ring

ASSUME DispatcherAssumption ==
  /\ IsFiniteSet(Producers)
  /\ NoPort \notin Ports
  /\ NoTicket \notin Nat
  /\ Capacity \in Nat \ {0}
  /\ MaxCalls \in Nat /\ MaxTakes \in Nat

VARIABLES
  lpc,        \* where RegisterFilter / InstanceFilterUnloadCallback are
  active,     \* m_active
  ringAlive,  \* m_ring and m_sendBuf are allocated
  dataReady,  \* m_dataReady, reset by the wait it satisfies
  stopEvent,  \* m_stopEvent, stays set
  ppc,        \* where each producer is in Enqueue
  ticket,     \* local cur of each producer, then claimed; 0 out of use
  head, tail, ready,        \* the ring
  broken,     \* history: the ring has lost its slots
  wpc,        \* where the worker is in WorkerLoop
  stopping,   \* local of WorkerLoop
  held,       \* the event in m_sendBuf
  wport,      \* local port of SendOne
  clientPort, \* g_ScannerData.ClientPort
  dispPort,   \* m_clientPort
  cpc,        \* where the port callbacks are
  argPort,    \* argument of ScannerPortConnect
  enqueued, dropped,        \* m_enqueued, m_dropped
  calls,      \* history: calls of Enqueue so far
  rejected,   \* history: calls that found m_active = 0
  closed,     \* history: port handles closed
  delivered, timedOut, failed, unsent, \* history: what became of an event
  owed,       \* history: events committed when Uninitialize began
  cut         \* history: a failed send ended a drain after the stop signal

lifeVars == <<lpc, active, ringAlive, stopEvent>>
prodVars == <<ppc, ticket, calls, rejected>>
ringVars == <<head, tail, ready, broken>>
workVars == <<wpc, stopping, held, wport>>
portVars == <<clientPort, dispPort, cpc, argPort, closed>>
fateVars == <<delivered, timedOut, failed, unsent>>
oweVars == <<owed, cut>>
vars == <<lifeVars, dataReady, prodVars, ringVars, workVars, portVars,
          fateVars, enqueued, dropped, oweVars>>

LoadPcs   == {"created", "filtering", "starting", "failed", "running"}
UnloadPcs == {"stopping", "joining", "freed", "closed", "unloaded"}
ProducerPcs == {"idle", "serialize", "produce", "check", "fill", "count"}
WorkerPcs == {"none", "wait", "drain", "route", "send", "call", "sending",
              "exited"}

FlagsOK ==
  /\ active \in BOOLEAN /\ ringAlive \in BOOLEAN
  /\ dataReady \in BOOLEAN /\ stopEvent \in BOOLEAN /\ stopping \in BOOLEAN
  /\ broken \in BOOLEAN /\ cut \in BOOLEAN

TypeOK ==
  /\ FlagsOK
  /\ lpc \in LoadPcs \cup UnloadPcs
  /\ ppc \in [Producers -> ProducerPcs]
  /\ ticket \in [Producers -> Nat]
  /\ head \in Nat /\ tail \in Nat /\ ready \in SUBSET Nat
  /\ wpc \in WorkerPcs
  /\ held \in Nat \cup {NoTicket}
  /\ wport \in Ports \cup {NoPort}
  /\ clientPort \in Ports \cup {NoPort} /\ dispPort \in Ports \cup {NoPort}
  /\ cpc \in {"none", "accepting", "connected", "closing"}
  /\ argPort \in Ports \cup {NoPort}
  /\ closed \in SUBSET Ports
  /\ enqueued \in Nat /\ dropped \in Nat /\ calls \in Nat /\ rejected \in Nat
  /\ delivered \in SUBSET Nat /\ timedOut \in SUBSET Nat
  /\ failed \in SUBSET Nat /\ unsent \in SUBSET Nat /\ owed \in SUBSET Nat

(* RegisterFilter has created the communication port. *)
Init ==
  /\ lpc = "created" /\ active = FALSE /\ ringAlive = FALSE
  /\ dataReady = FALSE /\ stopEvent = FALSE
  /\ ppc = [p \in Producers |-> "idle"] /\ ticket = [p \in Producers |-> 0]
  /\ head = 0 /\ tail = 0 /\ ready = {} /\ broken = FALSE
  /\ wpc = "none" /\ stopping = FALSE /\ held = NoTicket /\ wport = NoPort
  /\ clientPort = NoPort /\ dispPort = NoPort /\ cpc = "none"
  /\ argPort = NoPort /\ closed = {}
  /\ enqueued = 0 /\ dropped = 0 /\ calls = 0 /\ rejected = 0
  /\ delivered = {} /\ timedOut = {} /\ failed = {} /\ unsent = {}
  /\ owed = {} /\ cut = FALSE

-----------------------------------------------------------------------------
(* Load and unload. *)

StartFiltering ==
  /\ lpc = "created"
  /\ lpc' \in {"filtering", "failed"}
  /\ UNCHANGED <<active, ringAlive, stopEvent, dataReady, prodVars, ringVars,
                 workVars, portVars, fateVars, enqueued, dropped, oweVars>>

(* An allocation or the thread creation fails: what was allocated is freed *)
(* and the filter is unregistered.                                         *)
InitializeFails ==
  /\ lpc = "filtering"
  /\ lpc' = "failed"
  /\ dataReady' = FALSE
  /\ UNCHANGED <<active, ringAlive, stopEvent, prodVars, ringVars, workVars,
                 portVars, fateVars, enqueued, dropped, oweVars>>

(* Events are initialized, the buffers allocated, the thread started. *)
InitializeStart ==
  /\ lpc = "filtering"
  /\ lpc' = "starting"
  /\ ringAlive' = TRUE
  /\ dataReady' = FALSE /\ stopEvent' = FALSE
  /\ wpc' = "wait"
  /\ UNCHANGED <<active, stopping, held, wport, prodVars, ringVars, portVars,
                 fateVars, enqueued, dropped, oweVars>>

InitializeActivate ==
  /\ lpc = "starting"
  /\ lpc' = "running"
  /\ active' = TRUE
  /\ UNCHANGED <<ringAlive, stopEvent, dataReady, prodVars, ringVars, workVars,
                 portVars, fateVars, enqueued, dropped, oweVars>>

UninitializeDeactivate ==
  /\ lpc = "running"
  /\ lpc' = "stopping"
  /\ active' = FALSE
  /\ owed' = ready
  /\ UNCHANGED <<ringAlive, stopEvent, dataReady, prodVars, ringVars, workVars,
                 portVars, fateVars, enqueued, dropped, cut>>

(* Mutant: only the data event is set. *)
UninitializeSignalData ==
  /\ lpc = "stopping"
  /\ lpc' = "joining"
  /\ dataReady' = TRUE
  /\ UNCHANGED <<active, ringAlive, stopEvent, prodVars, ringVars, workVars,
                 portVars, fateVars, enqueued, dropped, oweVars>>

UninitializeSignal ==
  /\ lpc = "stopping"
  /\ lpc' = "joining"
  /\ stopEvent' = TRUE /\ dataReady' = TRUE
  /\ UNCHANGED <<active, ringAlive, prodVars, ringVars, workVars, portVars,
                 fateVars, enqueued, dropped, oweVars>>

(* Mutant: the thread is not waited for. *)
UninitializeFreeNoJoin ==
  /\ lpc = "joining"
  /\ lpc' = "freed"
  /\ ringAlive' = FALSE
  /\ UNCHANGED <<active, stopEvent, dataReady, prodVars, ringVars, workVars,
                 portVars, fateVars, enqueued, dropped, oweVars>>

(* The thread has ended: both buffers are freed. *)
UninitializeFree ==
  /\ lpc = "joining"
  /\ wpc = "exited"
  /\ lpc' = "freed"
  /\ ringAlive' = FALSE
  /\ UNCHANGED <<active, stopEvent, dataReady, prodVars, ringVars, workVars,
                 portVars, fateVars, enqueued, dropped, oweVars>>

UnloadClosePorts ==
  /\ lpc = "freed"
  /\ lpc' = "closed"
  /\ clientPort' = NoPort
  /\ closed' = closed \cup ({clientPort} \ {NoPort})
  /\ UNCHANGED <<active, ringAlive, stopEvent, dataReady, prodVars, ringVars,
                 workVars, dispPort, cpc, argPort, fateVars, enqueued, dropped,
                 oweVars>>

(* FltUnregisterFilter returns when no callback is running. *)
UnloadUnregister ==
  /\ lpc = "closed"
  /\ \A p \in Producers : ppc[p] = "idle"
  /\ lpc' = "unloaded"
  /\ UNCHANGED <<active, ringAlive, stopEvent, dataReady, prodVars, ringVars,
                 workVars, portVars, fateVars, enqueued, dropped, oweVars>>

-----------------------------------------------------------------------------
(* File system callbacks: Enqueue. *)

Goto(p, l) == ppc' = [ppc EXCEPT ![p] = l]

CanCall(p) ==
  /\ lpc \notin {"created", "failed", "unloaded"}
  /\ ppc[p] = "idle"
  /\ calls < MaxCalls

EnqueueRejected(p) ==
  /\ CanCall(p) /\ ~active
  /\ calls' = calls + 1 /\ rejected' = rejected + 1
  /\ UNCHANGED <<lifeVars, dataReady, ppc, ticket, ringVars, workVars,
                 portVars, fateVars, enqueued, dropped, oweVars>>

EnqueueEnter(p) ==
  /\ CanCall(p) /\ active
  /\ calls' = calls + 1
  /\ Goto(p, "serialize")
  /\ UNCHANGED <<lifeVars, dataReady, ticket, rejected, ringVars, workVars,
                 portVars, fateVars, enqueued, dropped, oweVars>>

(* Mutant: the counter is decremented. *)
EnqueueUnserializedMinus(p) ==
  /\ ppc[p] = "serialize"
  /\ dropped' = dropped - 1
  /\ Goto(p, "idle")
  /\ UNCHANGED <<lifeVars, dataReady, ticket, calls, rejected, ringVars,
                 workVars, portVars, fateVars, enqueued, oweVars>>

(* The buffer is not allocated, or the event does not fit into it. *)
EnqueueUnserialized(p) ==
  /\ ppc[p] = "serialize"
  /\ dropped' = dropped + 1
  /\ Goto(p, "idle")
  /\ UNCHANGED <<lifeVars, dataReady, ticket, calls, rejected, ringVars,
                 workVars, portVars, fateVars, enqueued, oweVars>>

EnqueueSerialized(p) ==
  /\ ppc[p] = "serialize"
  /\ Goto(p, "produce")
  /\ UNCHANGED <<lifeVars, dataReady, ticket, calls, rejected, ringVars,
                 workVars, portVars, fateVars, enqueued, dropped, oweVars>>

(* cur = m_writeHead. *)
ProduceStart(p) ==
  /\ ppc[p] = "produce"
  /\ ticket' = [ticket EXCEPT ![p] = tail]
  /\ Goto(p, "check")
  /\ UNCHANGED <<lifeVars, dataReady, calls, rejected, ringVars, workVars,
                 portVars, fateVars, enqueued, dropped, oweVars>>

(* What the masked difference of cur and m_readHead, read later, can show: *)
(* no room when the ring is full, or when the worker has passed cur.       *)
SeesFull(p) ==
  broken \/ ticket[p] - head >= Capacity \/ head > ticket[p]

(* No room in the ring: the event is dropped and the worker is woken. *)
ProduceFull(p) ==
  /\ ppc[p] = "check"
  /\ SeesFull(p)
  /\ dropped' = dropped + 1
  /\ dataReady' = TRUE
  /\ ticket' = [ticket EXCEPT ![p] = 0]
  /\ Goto(p, "idle")
  /\ UNCHANGED <<lifeVars, calls, rejected, ringVars, workVars, portVars,
                 fateVars, enqueued, oweVars>>

(* The interlocked exchange fails: another producer moved m_writeHead. *)
ProduceRetry(p) ==
  /\ ppc[p] = "check"
  /\ tail # ticket[p]
  /\ ticket' = [ticket EXCEPT ![p] = 0]
  /\ Goto(p, "produce")
  /\ UNCHANGED <<lifeVars, dataReady, calls, rejected, ringVars, workVars,
                 portVars, fateVars, enqueued, dropped, oweVars>>

(* The ring breaks: nothing is known of its slots any more. *)
Break == broken' = TRUE /\ ready' = {}

(* The event does not fit before the end of the ring, and the padding that *)
(* is claimed first leaves a tail with no header in it, or fills the ring  *)
(* to its last unit, or is passed by the worker before it is published.    *)
ProducePadBreaks(p) ==
  /\ ppc[p] = "check" /\ ~broken
  /\ tail = ticket[p]
  /\ Break
  /\ ticket' = [ticket EXCEPT ![p] = 0]
  /\ Goto(p, "produce")
  /\ UNCHANGED <<lifeVars, dataReady, calls, rejected, head, tail, workVars,
                 portVars, fateVars, enqueued, dropped, oweVars>>

(* The exchange succeeds.  If the slot fills the ring to its last unit the *)
(* worker takes the ring for empty from now on, and producers for free.    *)
ProduceClaim(p) ==
  /\ ppc[p] = "check"
  /\ broken \/ ticket[p] - head < Capacity
  /\ tail = ticket[p]
  /\ tail' = tail + 1
  /\ Goto(p, "fill")
  /\ Break \/ UNCHANGED <<broken, ready>>
  /\ UNCHANGED <<lifeVars, dataReady, ticket, calls, rejected, head, workVars,
                 portVars, fateVars, enqueued, dropped, oweVars>>

ProduceCommit(p) ==
  /\ ppc[p] = "fill"
  /\ ready' = IF broken THEN {} ELSE ready \cup {ticket[p]}
  /\ ticket' = [ticket EXCEPT ![p] = 0]
  /\ Goto(p, "count")
  /\ UNCHANGED <<lifeVars, dataReady, calls, rejected, head, tail, broken,
                 workVars, portVars, fateVars, enqueued, dropped, oweVars>>

ProduceCount(p) ==
  /\ ppc[p] = "count"
  /\ enqueued' = enqueued + 1
  /\ dataReady' = TRUE
  /\ Goto(p, "idle")
  /\ UNCHANGED <<lifeVars, ticket, calls, rejected, ringVars, workVars,
                 portVars, fateVars, dropped, oweVars>>

-----------------------------------------------------------------------------
(* The client: ScannerPortConnect and ScannerPortDisconnect.  The filter   *)
(* manager admits one connection and the server port admits none once it   *)
(* is closed.                                                              *)

PortConnect ==
  /\ cpc = "none"
  /\ lpc \notin {"failed", "closed", "unloaded"}
  /\ \E q \in Ports \ closed : clientPort' = q /\ argPort' = q
  /\ cpc' = "accepting"
  /\ UNCHANGED <<lifeVars, dataReady, prodVars, ringVars, workVars, dispPort,
                 closed, fateVars, enqueued, dropped, oweVars>>

OnClientConnected ==
  /\ cpc = "accepting"
  /\ dispPort' = argPort /\ argPort' = NoPort
  /\ dataReady' = TRUE
  /\ cpc' = "connected"
  /\ UNCHANGED <<lifeVars, prodVars, ringVars, workVars, clientPort, closed,
                 fateVars, enqueued, dropped, oweVars>>

OnClientDisconnected ==
  /\ cpc = "connected"
  /\ dispPort' = NoPort
  /\ cpc' = "closing"
  /\ UNCHANGED <<lifeVars, dataReady, prodVars, ringVars, workVars, clientPort,
                 argPort, closed, fateVars, enqueued, dropped, oweVars>>

ClosePort ==
  /\ cpc = "closing"
  /\ clientPort' = NoPort
  /\ closed' = closed \cup ({clientPort} \ {NoPort})
  /\ cpc' = "none"
  /\ UNCHANGED <<lifeVars, dataReady, prodVars, ringVars, workVars, dispPort,
                 argPort, fateVars, enqueued, dropped, oweVars>>

-----------------------------------------------------------------------------
(* The worker: WorkerLoop with ConsumeOne and SendOne. *)

(* Mutant: the stop event ends the worker without a last drain. *)
WakeStopExits ==
  /\ wpc = "wait" /\ stopEvent
  /\ stopping' = TRUE
  /\ wpc' = "exited"
  /\ UNCHANGED <<lifeVars, dataReady, prodVars, ringVars, held, wport,
                 portVars, fateVars, enqueued, dropped, oweVars>>

(* WaitAny over stop and data: stop wins and leaves the data event set. *)
WakeStop ==
  /\ wpc = "wait" /\ stopEvent
  /\ stopping' = TRUE
  /\ wpc' = "drain"
  /\ UNCHANGED <<lifeVars, dataReady, prodVars, ringVars, held, wport,
                 portVars, fateVars, enqueued, dropped, oweVars>>

WakeData ==
  /\ wpc = "wait" /\ ~stopEvent /\ dataReady
  /\ dataReady' = FALSE
  /\ wpc' = "drain"
  /\ UNCHANGED <<lifeVars, prodVars, ringVars, stopping, held, wport, portVars,
                 fateVars, enqueued, dropped, oweVars>>

(* Mutant: a wait that times out goes back to waiting. *)
WakeIdleAgain ==
  /\ wpc = "wait" /\ ~stopEvent /\ ~dataReady
  /\ UNCHANGED vars

(* The wait times out after ASYNC_IDLE_TIMEOUT_MS. *)
WakeIdle ==
  /\ wpc = "wait" /\ ~stopEvent /\ ~dataReady
  /\ wpc' = "drain"
  /\ UNCHANGED <<lifeVars, dataReady, prodVars, ringVars, stopping, held,
                 wport, portVars, fateVars, enqueued, dropped, oweVars>>

EndDrain == IF stopping THEN "exited" ELSE "wait"

(* ConsumeOne may return an event: the one at the read head when it is     *)
(* committed, and any bytes that look like one when the ring is broken.    *)
HeadReady ==
  \/ broken /\ head < MaxTakes
  \/ ~broken /\ head < tail /\ head \in ready

(* ConsumeOne returns 0: the ring is empty, its first slot is claimed and  *)
(* not yet old, or the broken ring shows nothing.                          *)
DrainNothing ==
  /\ wpc = "drain"
  /\ broken \/ ~HeadReady
  /\ wpc' = EndDrain
  /\ UNCHANGED <<lifeVars, dataReady, prodVars, ringVars, stopping, held,
                 wport, portVars, fateVars, enqueued, dropped, oweVars>>

DrainTake ==
  /\ wpc = "drain" /\ HeadReady
  /\ held' = head
  /\ head' = head + 1
  /\ ready' = ready \ {head}
  /\ wpc' = "route"
  /\ UNCHANGED <<lifeVars, dataReady, prodVars, tail, broken, stopping, wport,
                 portVars, fateVars, enqueued, dropped, oweVars>>

(* The first slot is claimed and not committed. *)
HeadUnpublished == ~broken /\ head < tail /\ head \notin ready

(* Its claim is older than ASYNC_CLAIM_TIMEOUT_MS: the slot is zeroed and  *)
(* skipped while its producer may still write to it; ConsumeOne goes on.   *)
DrainSkipStuck ==
  /\ wpc = "drain" /\ HeadUnpublished
  /\ Break
  /\ UNCHANGED <<lifeVars, dataReady, prodVars, head, tail, workVars, portVars,
                 fateVars, enqueued, dropped, oweVars>>

(* Its header still reads as a free slot: m_readHead moves by a header,    *)
(* into the middle of the slot, and ConsumeOne returns 0.                  *)
DrainSkipFree ==
  /\ wpc = "drain" /\ HeadUnpublished
  /\ Break
  /\ wpc' = EndDrain
  /\ UNCHANGED <<lifeVars, dataReady, prodVars, head, tail, stopping, held,
                 wport, portVars, fateVars, enqueued, dropped, oweVars>>

(* Mutant: the event is drained and not counted. *)
RouteNoClientUncounted ==
  /\ wpc = "route" /\ dispPort = NoPort
  /\ unsent' = unsent \cup {held}
  /\ held' = NoTicket
  /\ wpc' = "drain"
  /\ UNCHANGED <<lifeVars, dataReady, prodVars, ringVars, stopping, wport,
                 portVars, delivered, timedOut, failed, enqueued, dropped,
                 oweVars>>

(* No client: the event is drained and counted as dropped. *)
RouteNoClient ==
  /\ wpc = "route" /\ dispPort = NoPort
  /\ dropped' = dropped + 1
  /\ unsent' = unsent \cup {held}
  /\ held' = NoTicket
  /\ wpc' = "drain"
  /\ UNCHANGED <<lifeVars, dataReady, prodVars, ringVars, stopping, wport,
                 portVars, delivered, timedOut, failed, enqueued, oweVars>>

RouteClient ==
  /\ wpc = "route" /\ dispPort # NoPort
  /\ wpc' = "send"
  /\ UNCHANGED <<lifeVars, dataReady, prodVars, ringVars, stopping, held,
                 wport, portVars, fateVars, enqueued, dropped, oweVars>>

(* SendOne reads the port a second time: it may be gone by now. *)
SendNoPort ==
  /\ wpc = "send" /\ dispPort = NoPort
  /\ failed' = failed \cup {held}
  /\ held' = NoTicket
  /\ wpc' = EndDrain
  /\ cut' = (cut \/ stopping)
  /\ UNCHANGED <<lifeVars, dataReady, prodVars, ringVars, stopping, wport,
                 portVars, delivered, timedOut, unsent, enqueued, dropped,
                 owed>>

SendCopyPort ==
  /\ wpc = "send" /\ dispPort # NoPort
  /\ wport' = dispPort
  /\ wpc' = "call"
  /\ UNCHANGED <<lifeVars, dataReady, prodVars, ringVars, stopping, held,
                 portVars, fateVars, enqueued, dropped, oweVars>>

(* FltSendMessage is entered with the local copy of the port. *)
SendCall ==
  /\ wpc = "call"
  /\ wpc' = "sending"
  /\ UNCHANGED <<lifeVars, dataReady, prodVars, ringVars, stopping, held,
                 wport, portVars, fateVars, enqueued, dropped, oweVars>>

(* It returns success only while the client is there. *)
SendSucceeds ==
  /\ wpc = "sending" /\ wport \notin closed
  /\ delivered' = delivered \cup {held}
  /\ held' = NoTicket /\ wport' = NoPort
  /\ wpc' = "drain"
  /\ UNCHANGED <<lifeVars, dataReady, prodVars, ringVars, stopping, portVars,
                 timedOut, failed, unsent, enqueued, dropped, oweVars>>

(* Mutant: a send that timed out is retried. *)
SendTimesOutRetry ==
  /\ wpc = "sending"
  /\ timedOut' = timedOut \cup {held}
  /\ wport' = NoPort
  /\ wpc' = "send"
  /\ UNCHANGED <<lifeVars, dataReady, prodVars, ringVars, stopping, held,
                 portVars, delivered, failed, unsent, enqueued, dropped,
                 oweVars>>

(* STATUS_TIMEOUT satisfies NT_SUCCESS: SendOne and WorkerLoop take it for *)
(* success, and their branches for STATUS_TIMEOUT are never reached.       *)
SendTimesOut ==
  /\ wpc = "sending"
  /\ timedOut' = timedOut \cup {held}
  /\ held' = NoTicket /\ wport' = NoPort
  /\ wpc' = "drain"
  /\ UNCHANGED <<lifeVars, dataReady, prodVars, ringVars, stopping, portVars,
                 delivered, failed, unsent, enqueued, dropped, oweVars>>

(* Any other status ends the drain cycle. *)
SendFails ==
  /\ wpc = "sending"
  /\ failed' = failed \cup {held}
  /\ held' = NoTicket /\ wport' = NoPort
  /\ wpc' = EndDrain
  /\ cut' = (cut \/ stopping)
  /\ UNCHANGED <<lifeVars, dataReady, prodVars, ringVars, stopping, portVars,
                 delivered, timedOut, unsent, enqueued, dropped, owed>>

-----------------------------------------------------------------------------
Load == StartFiltering \/ InitializeFails \/ InitializeStart \/ InitializeActivate

Unload ==
  \/ UninitializeDeactivate \/ UninitializeSignal \/ UninitializeFree
  \/ UnloadClosePorts \/ UnloadUnregister

Enqueue(p) ==
  \/ EnqueueRejected(p) \/ EnqueueEnter(p)
  \/ EnqueueUnserialized(p) \/ EnqueueSerialized(p)
  \/ ProduceStart(p) \/ ProduceFull(p) \/ ProduceRetry(p)
  \/ ProducePadBreaks(p) \/ ProduceClaim(p)
  \/ ProduceCommit(p) \/ ProduceCount(p)

Client == PortConnect \/ OnClientConnected \/ OnClientDisconnected \/ ClosePort

Worker ==
  \/ WakeStop \/ WakeData \/ WakeIdle
  \/ DrainNothing \/ DrainTake \/ DrainSkipStuck \/ DrainSkipFree
  \/ RouteNoClient \/ RouteClient
  \/ SendNoPort \/ SendCopyPort \/ SendCall
  \/ SendSucceeds \/ SendTimesOut \/ SendFails

Next == Load \/ Unload \/ (\E p \in Producers : Enqueue(p)) \/ Client \/ Worker

Spec == Init /\ [][Next]_vars

-----------------------------------------------------------------------------
(* Safety. *)

Holding == IF held = NoTicket THEN {} ELSE {held}
InState(l) == {p \in Producers : ppc[p] = l}
Busy == {p \in Producers : ppc[p] # "idle"}

(* An event taken from the ring is in the worker's hands or has exactly    *)
(* one fate, whatever the client, the send status and the unload do        *)
(* meanwhile, and whatever the ring hands out once it is broken: the       *)
(* worker neither loses track of what it took nor handles it twice.        *)
OneFateEach ==
  /\ delivered \cup timedOut \cup failed \cup unsent \cup Holding
       = 0 .. head - 1
  /\ delivered \cap (timedOut \cup failed \cup unsent \cup Holding) = {}
  /\ timedOut \cap (failed \cup unsent \cup Holding) = {}
  /\ failed \cap (unsent \cup Holding) = {}
  /\ unsent \cap Holding = {}

(* While the ring is whole, m_enqueued lags the commits by the producers   *)
(* about to count theirs.  Whether it is or not, every call is rejected,   *)
(* enqueued, dropped before the ring, or running: m_dropped is what was    *)
(* refused on the way in plus what was drained without a client.           *)
CountersExact ==
  /\ ~broken =>
       enqueued + Cardinality(InState("count")) = head + Cardinality(ready)
  /\ calls + Cardinality(unsent)
       = rejected + Cardinality(Busy) + enqueued + dropped

(* Uninitialize frees the buffers only when the worker can no longer touch *)
(* them, and Initialize starts the worker only when they are there.        *)
RingOutlivesWorker == wpc \notin {"none", "exited"} => ringAlive

(* What was committed when Uninitialize began is drained before the worker *)
(* exits, in a whole ring, unless a failed send cuts the last drain short: *)
(* the first event left behind, if there is one, was not committed then.   *)
(* (Everything behind a slot that is still being filled is left behind     *)
(* with it and freed with the ring.)                                       *)
DrainKeepsPromise ==
  wpc = "exited" /\ ~broken /\ ~cut => head \notin owed

-----------------------------------------------------------------------------
(* Liveness.  The threads of the driver are scheduled; FltSendMessage      *)
(* returns within ASYNC_SEND_TIMEOUT_100NS and a wait within               *)
(* ASYNC_IDLE_TIMEOUT_MS.  Of the callbacks it is enough that, while there *)
(* are any under way, one of them goes on.  Nothing obliges a client to    *)
(* connect, a file operation to start or the driver to be unloaded.        *)
UnloadGoesOn ==
  UninitializeSignal \/ UninitializeFree \/ UnloadClosePorts \/ UnloadUnregister
EnqueueGoesOn == \E p \in Producers : ppc[p] # "idle" /\ Enqueue(p)

Fairness ==
  WF_vars(Worker) /\ WF_vars(UnloadGoesOn) /\ WF_vars(EnqueueGoesOn)

FairSpec == Spec /\ Fairness

(* Committed events are all taken from the ring once the callbacks pause   *)
(* (MaxCalls bounds their calls), unless the ring breaks, which empties    *)
(* ready, or the worker is told to stop: no wake-up is lost, and a failed  *)
(* send that ends a drain cycle does not strand the events behind it.      *)
CommittedIsTaken == ready # {} ~> ready = {} \/ stopEvent

(* Unloading ends, with a broken ring too: Uninitialize does not wait for  *)
(* ever on a worker that keeps draining, and callbacks that are under way  *)
(* finish.  (Each event taken frees its header, so that even a broken ring *)
(* has finitely many to hand out between two commits.)                     *)
UnloadCompletes == (lpc = "stopping") ~> (lpc = "unloaded")

-----------------------------------------------------------------------------
(* Claims of comments and documentation that the code does not keep. *)

(* Filter.cpp, ScannerPortDisconnect: clearing the dispatcher's reference  *)
(* before closing means that the worker cannot call FltSendMessage on a    *)
(* handle that is about to be freed.                                       *)
NoSendOnClosedPort ==
  [][wpc = "call" /\ wpc' = "sending" => wport \notin closed]_vars
=============================================================================
