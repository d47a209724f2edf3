---------------------------- MODULE UserService ----------------------------
(***************************************************************************)
(* The service as a process: main, the configuration store, the event      *)
(* loops that MonitoringService starts and joins, the gRPC server with its *)
(* streaming clients, and SignalHandler.  Windows runs the handler of an   *)
(* interrupt on a thread of its own and resets it first, so there is one   *)
(* run of it at most: the next interrupt ends the process at once.         *)
(* IOCPFilterPortCommunicator and FeederEventPublisher model what is       *)
(* behind Connect, ReceiveEvent, Disconnect and Publish.                   *)
(***************************************************************************)
EXTENDS ConfigStore

CONSTANT Clients    \* clients that may watch alerts or logs

Loops == 1..MaxThreads
Callers == {"main", "handler"}

VARIABLES
  main,       \* where main is
  handler,    \* where SignalHandler is
  wanted,     \* config.service_worker_threads
  connected,  \* the event receiver is connected
  running,    \* MonitoringService::running_
  loop,       \* where each event loop is
  threads,    \* worker_threads_: the loops whose std::thread is in it
  joined,     \* loops that were joined
  stop,       \* where each caller of Stop is
  walk,       \* the threads between begin and end when its walk began
  server,     \* g_server
  stream,     \* the stream of each client
  early       \* history: the signal came before g_server was assigned

mainVars == <<main, wanted, connected>>
loopVars == <<running, loop, threads, joined>>
stopVars == <<stop, walk>>
rpcVars == <<server, stream>>
signalVars == <<handler, early>>
vars == <<storeVars, mainVars, loopVars, stopVars, rpcVars, signalVars>>

TypeOK ==
  /\ StoreTypeOK
  /\ main \in {"load", "stamp", "watch", "create", "connect", "start", "loops",
               "build", "wait", "stopping", "unwatch", "join watcher", "return",
               "exited", "aborted"}
  /\ handler \in {"none", "stopping", "server", "shutdown", "done"}
  /\ wanted \in 0..MaxThreads
  /\ connected \in BOOLEAN /\ running \in BOOLEAN /\ early \in BOOLEAN
  /\ loop \in [Loops -> {"none", "top", "receive", "publish", "ended"}]
  /\ threads \subseteq Loops /\ joined \subseteq Loops
  /\ stop \in [Callers -> {"out", "called", "clear flag", "join", "clear", "disconnect"}]
  /\ walk \in [Callers -> SUBSET Loops]
  /\ server \in {"none", "up", "shutting down", "down"}
  /\ stream \in [Clients -> {"none", "open", "stalled"}]

Init ==
  /\ StoreInit
  /\ main = "load" /\ handler = "none" /\ wanted = 0 /\ early = FALSE
  /\ connected = FALSE /\ running = FALSE
  /\ loop = [l \in Loops |-> "none"] /\ threads = {} /\ joined = {}
  /\ stop = [c \in Callers |-> "out"] /\ walk = [c \in Callers |-> {}]
  /\ server = "none" /\ stream = [c \in Clients |-> "none"]

Alive == main \notin {"exited", "aborted"}
Started == Cardinality({l \in Loops : loop[l] # "none"})

(* std::terminate, or memory that a data race has ruined. *)
Abort == main' = "aborted" /\ UNCHANGED <<wanted, connected>>

GoTo(pc) == main' = pc /\ UNCHANGED <<wanted, connected>>

(* A return from main destroys the store, whose watching thread must have  *)
(* been joined by then.                                                    *)
ReturnFromMain ==
  IF watcher \in {"none", "joined"} THEN GoTo("exited") ELSE Abort

----------------------------------------------------------------------------
(* main *)

MainLoad ==
  /\ main = "load"
  /\ \/ LoadRead /\ wanted' \in ParseJson(file.text) /\ main' = "stamp" /\ UNCHANGED connected
     \/ LoadFails /\ ReturnFromMain
  /\ UNCHANGED <<threadVars, loopVars, stopVars, rpcVars, signalVars>>

MainStamp ==
  /\ main = "stamp"
  /\ \/ LoadStamp /\ GoTo("watch")
     \/ LoadThrows /\ ReturnFromMain
  /\ UNCHANGED <<threadVars, loopVars, stopVars, rpcVars, signalVars>>

MainWatch ==
  /\ main = "watch" /\ GoTo("create") /\ Watch
  /\ UNCHANGED <<loopVars, stopVars, rpcVars, signalVars>>

(* g_monitoring_service is assigned. *)
MainCreate ==
  /\ main = "create" /\ GoTo("connect")
  /\ UNCHANGED <<storeVars, loopVars, stopVars, rpcVars, signalVars>>

(* MonitoringService::Start: Connect, running_, and the loops one by one.  *)
Connect ==
  /\ main = "connect"
  /\ \/ main' = "start" /\ connected' = TRUE /\ UNCHANGED wanted
     \/ ReturnFromMain
  /\ UNCHANGED <<storeVars, loopVars, stopVars, rpcVars, signalVars>>

StartRunning ==
  /\ main = "start" /\ GoTo("loops") /\ running' = TRUE
  /\ UNCHANGED <<storeVars, loop, threads, joined, stopVars, rpcVars, signalVars>>

(* Stop of another thread is between begin and end of worker_threads_, or  *)
(* empties it.                                                             *)
Walked == \E c \in Callers : stop[c] \in {"join", "clear"}

(* A thread is started and emplaced.  The vector has no lock: emplacing    *)
(* while Stop walks it may move what Stop reads.                           *)
EmplaceLoop ==
  /\ main = "loops" /\ Started < wanted
  /\ loop' = [loop EXCEPT ![Started + 1] = "top"]
  /\ threads' = threads \cup {Started + 1}
  /\ GoTo("loops") \/ (Walked /\ Abort)
  /\ UNCHANGED <<storeVars, running, joined, stopVars, rpcVars, signalVars>>

(* std::thread throws when the system refuses another thread. *)
EmplaceThrows ==
  /\ main = "loops" /\ Started < wanted /\ ReturnFromMain
  /\ UNCHANGED <<storeVars, loopVars, stopVars, rpcVars, signalVars>>

StartReturns ==
  /\ main = "loops" /\ Started = wanted /\ GoTo("build")
  /\ UNCHANGED <<storeVars, loopVars, stopVars, rpcVars, signalVars>>

BuildAndStart ==
  /\ main = "build"
  /\ \/ GoTo("wait") /\ server' = "up"
     \/ ReturnFromMain /\ UNCHANGED server
  /\ UNCHANGED <<storeVars, loopVars, stopVars, stream, signalVars>>

(* g_server->Wait() returns when Shutdown is through; main calls Stop.     *)
MainWaits ==
  /\ main = "wait" /\ server = "down" /\ GoTo("stopping")
  /\ stop' = [stop EXCEPT !["main"] = "called"]
  /\ UNCHANGED <<storeVars, loopVars, walk, rpcVars, signalVars>>

MainStopped ==
  /\ main = "stopping" /\ stop["main"] = "out" /\ GoTo("unwatch")
  /\ UNCHANGED <<storeVars, loopVars, stopVars, rpcVars, signalVars>>

MainUnwatch ==
  /\ main = "unwatch" /\ GoTo("join watcher") /\ StopWatching
  /\ UNCHANGED <<loopVars, stopVars, rpcVars, signalVars>>

MainJoinsWatcher ==
  /\ main = "join watcher" /\ GoTo("return") /\ JoinWatcher
  /\ UNCHANGED <<loopVars, stopVars, rpcVars, signalVars>>

(* The return from main and the destructors of the globals: Stop has       *)
(* nothing to do, and a thread still in worker_threads_ ends the process.  *)
MainReturns ==
  /\ main = "return"
  /\ IF threads = {} THEN ReturnFromMain ELSE Abort
  /\ UNCHANGED <<storeVars, loopVars, stopVars, rpcVars, signalVars>>

Main ==
  \/ MainLoad \/ MainStamp \/ MainWatch \/ MainCreate \/ Connect \/ StartRunning
  \/ EmplaceLoop \/ EmplaceThrows \/ StartReturns \/ BuildAndStart \/ MainWaits
  \/ MainStopped \/ MainUnwatch \/ MainJoinsWatcher \/ MainReturns

----------------------------------------------------------------------------
(* MonitoringService::Stop, called by SignalHandler and by main *)

StopAt(c, pc, next) ==
  /\ stop[c] = pc /\ stop' = [stop EXCEPT ![c] = next]

StopCheck(c) ==
  /\ StopAt(c, "called", IF running THEN "clear flag" ELSE "out")
  /\ UNCHANGED <<storeVars, mainVars, loopVars, walk, rpcVars, signalVars>>

(* Mutant: Stop disconnects before it joins the loops. *)
StopClearFlagDisconnects(c) ==
  /\ StopAt(c, "clear flag", "join")
  /\ running' = FALSE /\ walk' = [walk EXCEPT ![c] = threads]
  /\ connected' = FALSE
  /\ UNCHANGED <<storeVars, main, wanted, loop, threads, joined, rpcVars, signalVars>>

StopClearFlag(c) ==
  /\ StopAt(c, "clear flag", "join")
  /\ running' = FALSE /\ walk' = [walk EXCEPT ![c] = threads]
  /\ UNCHANGED <<storeVars, mainVars, loop, threads, joined, rpcVars, signalVars>>

StopJoin(c) ==
  /\ StopAt(c, "join", "clear") /\ \A l \in walk[c] : loop[l] = "ended"
  /\ joined' = joined \cup walk[c]
  /\ UNCHANGED <<storeVars, mainVars, running, loop, threads, walk, rpcVars, signalVars>>

(* worker_threads_.clear(): a thread that was not joined ends the process. *)
StopClear(c) ==
  /\ StopAt(c, "clear", "disconnect")
  /\ IF threads \subseteq joined THEN UNCHANGED mainVars ELSE Abort
  /\ threads' = {}
  /\ UNCHANGED <<storeVars, running, loop, joined, walk, rpcVars, signalVars>>

StopDisconnect(c) ==
  /\ StopAt(c, "disconnect", "out") /\ connected' = FALSE
  /\ UNCHANGED <<storeVars, main, wanted, loopVars, walk, rpcVars, signalVars>>

Stop(c) == StopCheck(c) \/ StopClearFlag(c) \/ StopJoin(c) \/ StopClear(c) \/ StopDisconnect(c)

----------------------------------------------------------------------------
(* The event loops *)

LoopAt(l, pc, next) == loop[l] = pc /\ loop' = [loop EXCEPT ![l] = next]
OnlyLoop == UNCHANGED <<storeVars, mainVars, running, threads, joined, stopVars, rpcVars, signalVars>>

LoopTop(l) == LoopAt(l, "top", IF running THEN "receive" ELSE "ended") /\ OnlyLoop

(* Mutant: a loop waits for an event as long as it takes. *)
ReceiveWaits(l) == LoopAt(l, "receive", "receive") /\ OnlyLoop

(* ReceiveEvent returns an event, or nothing after its timeout. *)
Receive(l) == LoopAt(l, "receive", "publish") /\ OnlyLoop
ReceiveTimesOut(l) == LoopAt(l, "receive", "top") /\ OnlyLoop

(* Publish writes to every stream, and a write to a client that does not   *)
(* read returns only when the client reads on or is gone.                  *)
PublishReturns(l) ==
  /\ LoopAt(l, "publish", "top") /\ \A c \in Clients : stream[c] # "stalled"
  /\ OnlyLoop

EventLoop(l) == LoopTop(l) \/ ReceiveTimesOut(l) \/ PublishReturns(l)

----------------------------------------------------------------------------
(* The signal, and the clients of the server *)

(* The handler reads g_monitoring_service: main assigns it in MainCreate.  *)
Signal ==
  /\ handler = "none" /\ early' = (server = "none")
  /\ IF main \in {"load", "stamp", "watch", "create"}
       THEN handler' = "server" /\ UNCHANGED stop
       ELSE handler' = "stopping" /\ stop' = [stop EXCEPT !["handler"] = "called"]
  /\ UNCHANGED <<storeVars, mainVars, loopVars, walk, rpcVars>>

HandlerStopped ==
  /\ handler = "stopping" /\ stop["handler"] = "out" /\ handler' = "server"
  /\ UNCHANGED <<storeVars, mainVars, loopVars, stopVars, rpcVars, early>>

HandlerReadsServer ==
  /\ handler = "server"
  /\ IF server = "none"
       THEN handler' = "done" /\ UNCHANGED server
       ELSE handler' = "shutdown" /\ server' = "shutting down"
  /\ UNCHANGED <<storeVars, mainVars, loopVars, stopVars, stream, early>>

(* Shutdown without a deadline waits for the calls in progress. *)
ShutdownReturns ==
  /\ handler = "shutdown" /\ \A c \in Clients : stream[c] = "none"
  /\ handler' = "done" /\ server' = "down"
  /\ UNCHANGED <<storeVars, mainVars, loopVars, stopVars, stream, early>>

Handler == HandlerStopped \/ HandlerReadsServer \/ ShutdownReturns

StreamTo(c, from, state) ==
  /\ stream[c] = from /\ stream' = [stream EXCEPT ![c] = state]
  /\ UNCHANGED <<storeVars, mainVars, loopVars, stopVars, server, signalVars>>

ClientOpens(c) == server = "up" /\ StreamTo(c, "none", "open")
ClientStalls(c) == StreamTo(c, "open", "stalled")
ClientReads(c) == StreamTo(c, "stalled", "open")
ClientLeaves(c) == StreamTo(c, "open", "none") \/ StreamTo(c, "stalled", "none")

Environment ==
  \/ \E text \in Texts \cup {"missing"} :
       Edit(text) /\ UNCHANGED <<mainVars, loopVars, stopVars, rpcVars, signalVars>>
  \/ Signal
  \/ \E c \in Clients : ClientOpens(c) \/ ClientStalls(c) \/ ClientReads(c) \/ ClientLeaves(c)

Watching == Watcher /\ UNCHANGED <<mainVars, loopVars, stopVars, rpcVars, signalVars>>

Ended == ~Alive /\ UNCHANGED vars

Next ==
  \/ Alive /\ \/ Main \/ Handler \/ Environment \/ Watching
              \/ \E c \in Callers : Stop(c)
              \/ \E l \in Loops : EventLoop(l) \/ Receive(l)
  \/ Ended

(* The scheduler runs every thread of the process.  ReceiveEvent returns   *)
(* after its timeout; nothing makes an event arrive, a client read or      *)
(* leave, or the administrator edit the file.                              *)
Fairness ==
  /\ WF_vars(Main) /\ WF_vars(Alive /\ Handler) /\ WF_vars(Alive /\ Watching)
  /\ \A c \in Callers : WF_vars(Alive /\ Stop(c))
  /\ \A l \in Loops : WF_vars(Alive /\ EventLoop(l))

Spec == Init /\ [][Next]_vars /\ Fairness

----------------------------------------------------------------------------
(* Properties *)

(* No event loop is inside ReceiveEvent or Publish once Stop has           *)
(* disconnected the receiver and destroyed its buffers.                    *)
LoopsOutlived ==
  \A l \in Loops : Alive /\ loop[l] \in {"receive", "publish"} => connected

(* Stop has no lock; main and SignalHandler are never in its body at the   *)
(* same time, because main calls it only when Shutdown, which the handler  *)
(* calls after Stop, is through.                                           *)
OneStopper ==
  Cardinality({c \in Callers : stop[c] \notin {"out", "called"}}) <= 1

(* A process that leaves main after its server has run has stopped every   *)
(* thread it started and closed what it opened.                            *)
CleanExit ==
  main = "exited" /\ server = "down" =>
    /\ threads = {} /\ ~connected /\ watcher = "joined"
    /\ \A l \in Loops : loop[l] \in {"none", "ended"}

(* The process is aborted only when it could not start, or when the signal *)
(* came before it had: from then on a stop is orderly.                     *)
AbortsOnlyInStart ==
  main = "aborted" => server = "none" \/ early

(* Once the file stays as it is and can be parsed, a process that goes on  *)
(* watching has it returned to the callback of Watch, unless an edit       *)
(* overtook its last Load: WatchThreadFunc tries again what failed.        *)
ChangesDelivered ==
  \A v \in Versions :
    <>[](/\ Alive /\ watching /\ ~overtaken
         /\ file.time = v /\ ParseJson(file.text) # {})
      => <>[](seen = v)

(* A signal that comes once the server is up ends the process, provided    *)
(* that the clients leave sooner or later.                                 *)
SignalStops ==
  <>[](\A c \in Clients : stream[c] = "none")
    => (handler # "none" /\ ~early) ~> (main = "exited")

(* The process stops in order whatever the moment of the signal: types,    *)
(* event loops inside an open receiver, one thread in Stop, nothing left   *)
(* at the exit, and no abort outside the start.                            *)
StopIsOrderly == TypeOK /\ LoopsOutlived /\ OneStopper /\ CleanExit /\ AbortsOnlyInStart
=============================================================================
