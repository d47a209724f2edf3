------------------------- MODULE UserService_proofs -------------------------
(***************************************************************************)
(* The service stops in order, for any number of event loops, clients and  *)
(* edits of its configuration file, whatever the moment of the signal.     *)
(* Stop has no lock: the inductive invariant says which of main and        *)
(* SignalHandler may be where in it (Turns), what Stop has done to the     *)
(* loops by then (Stopped), and that a signal that comes when the server   *)
(* is up finds every loop started (InTime).                                *)
(***************************************************************************)
EXTENDS UserService, FiniteSetTheorems, TLAPS

Before == {"load", "stamp", "watch", "create", "connect", "start"}
Starting == Before \cup {"loops", "build"}
Leaving == {"stopping", "unwatch", "join watcher", "return"}
Serving == {"loops", "build", "wait"} \cup Leaving

(* Places in Stop after running_ was cleared. *)
Clearing == {"join", "clear", "disconnect"}

(* The loops are started in order. *)
InOrder == \E n \in 0..MaxThreads : {l \in Loops : loop[l] # "none"} = 1..n

(* What holds of the server, the receiver and the loops at the places of   *)
(* main.                                                                   *)
Phases ==
  /\ main \in Starting => server = "none"
  /\ main \in Leaving => server = "down"
  /\ main = "start" => connected
  /\ main = "return" => watcher = "joined"
  /\ main \in Before =>
       /\ ~running /\ \A c \in Callers : stop[c] \in {"out", "called"}
       /\ \A l \in Loops : loop[l] = "none"

(* SignalHandler and main call Stop one after the other. *)
Turns ==
  /\ server = "down" => handler = "done"
  /\ server = "shutting down" <=> handler = "shutdown"
  /\ stop["main"] # "out" => handler = "done" /\ main \in {"stopping", "aborted"}
  /\ stop["handler"] # "out" => handler = "stopping"

(* What Stop has done to the event loops. *)
Stopped ==
  /\ \A l \in joined : loop[l] = "ended"
  /\ Alive => \A l \in Loops : loop[l] \notin {"none", "ended"} => l \in threads
  /\ running => connected
  /\ \A c \in Callers : stop[c] \in Clearing => ~running
  /\ \A c \in Callers : Alive /\ stop[c] = "disconnect" =>
       \A l \in Loops : loop[l] \notin {"receive", "publish"}
  /\ main \in Serving /\ ~running =>
       ~connected \/ \E c \in Callers : stop[c] \in Clearing
  /\ main = "stopping" /\ stop["main"] \notin {"called", "clear flag"} => ~running
  /\ main \in Leaving \ {"stopping"} => ~running

(* A signal that comes when the server is up. *)
InTime ==
  /\ handler = "none" /\ main \in {"loops", "build", "wait"} => running
  /\ handler # "none" /\ ~early =>
       /\ main \notin Starting /\ server # "none"
       /\ stop["main"] \in {"out", "called"}
       /\ stop["handler"] = "called" => running
       /\ stop["handler"] = "join" => walk["handler"] = threads
       /\ stop["handler"] = "clear" => threads \subseteq joined
       /\ stop["handler"] = "disconnect" => threads = {}
       /\ stop["handler"] = "out" => threads = {} /\ ~running

Inv ==
  /\ TypeOK /\ InOrder /\ Phases /\ Turns /\ Stopped /\ InTime
  /\ LoopsOutlived /\ CleanExit /\ AbortsOnlyInStart

USE DEF storeVars, threadVars, mainVars, loopVars, stopVars, rpcVars, signalVars

-----------------------------------------------------------------------------
(* ParseJson yields a number of threads within the bound. *)
LEMMA ParsedThreads == \A text : ParseJson(text) \subseteq 0..MaxThreads
  BY ConfigAssumption DEF ParseJson

(* Started counts the loops up to the last one started. *)
LEMMA StartedCounts ==
  ASSUME InOrder
  PROVE  /\ Started \in 0..MaxThreads
         /\ \A l \in Loops : loop[l] # "none" <=> l <= Started
<1>1. PICK n \in 0..MaxThreads : {l \in Loops : loop[l] # "none"} = 1..n
  BY DEF InOrder
<1>2. n \in Nat /\ MaxThreads \in Nat
  BY ConfigAssumption
<1>3. Cardinality(1..n) = n
  BY <1>2, FS_Interval
<1>4. Started = n
  BY <1>1, <1>3, Zenon DEF Started
<1>5. \A l \in Loops : l \in Int /\ l >= 1 /\ (loop[l] # "none" <=> l \in 1..n)
  BY <1>1, <1>2 DEF Loops
<1> QED
  BY <1>2, <1>4, <1>5

(* The steps of the store keep its types. *)
LEMMA StoreTypes ==
  ASSUME StoreTypeOK,
         \/ LoadRead /\ threadVars' = threadVars
         \/ LoadFails /\ threadVars' = threadVars
         \/ LoadStamp /\ threadVars' = threadVars
         \/ LoadThrows /\ threadVars' = threadVars
         \/ Watch \/ StopWatching \/ JoinWatcher \/ Watcher
         \/ \E text \in Texts \cup {"missing"} : Edit(text)
         \/ UNCHANGED storeVars
  PROVE  StoreTypeOK'
<1> USE ConfigAssumption DEF Versions, NoTime
<1>1. watching' \in BOOLEAN /\ overtaken' \in BOOLEAN
  BY Zenon DEF StoreTypeOK, LoadRead, LoadFails, LoadStamp, LoadThrows, Watch, StopWatching,
       JoinWatcher, Watcher, WatchTop, WatchCheck, WatchLoad, WatchDeliver, Edit
<1>2. watcher' \in {"none", "top", "asleep", "load", "stamp", "ended", "joined"}
  BY DEF StoreTypeOK, LoadRead, LoadFails, LoadStamp, LoadThrows, Watch, StopWatching,
       JoinWatcher, Watcher, WatchTop, WatchCheck, WatchLoad, WatchDeliver, Edit
<1>3. file' \in [text : AllTexts \cup {"missing"}, time : Versions]
  <2>1. CASE file' = file
    BY <2>1 DEF StoreTypeOK
  <2>2. CASE \E text \in Texts \cup {"missing"} : Edit(text)
    <3>1. PICK text \in Texts \cup {"missing"} : Edit(text)
      BY <2>2
    <3>2. file.time + 1 \in Versions
      BY <3>1 DEF StoreTypeOK, Edit
    <3> QED
      BY <3>1, <3>2 DEF Edit
  <2> QED
    BY <2>1, <2>2 DEF LoadRead, LoadFails, LoadStamp, LoadThrows, Watch, StopWatching,
         JoinWatcher, Watcher, WatchTop, WatchCheck, WatchLoad, WatchDeliver
<1>4. file.time \in Versions
  BY DEF StoreTypeOK
<1>5. /\ lastWrite' \in Versions \cup {NoTime} /\ seen' \in Versions \cup {NoTime}
      /\ read' \in Versions
  BY <1>4 DEF StoreTypeOK, LoadRead, LoadFails, LoadStamp, LoadThrows, Watch, StopWatching,
       JoinWatcher, Watcher, WatchTop, WatchCheck, WatchLoad, WatchDeliver, Edit
<1> QED
  BY <1>1, <1>2, <1>3, <1>5 DEF StoreTypeOK

(* Every action keeps the types. *)
LEMMA TypeStep == Inv /\ [Next]_vars => TypeOK'
<1> SUFFICES ASSUME Inv, [Next]_vars PROVE TypeOK'
  OBVIOUS
<1>0. TypeOK /\ InOrder
  BY DEF Inv
<1>s. StoreTypeOK'
  BY <1>0, StoreTypes DEF TypeOK, Next, Main, MainLoad, MainStamp, MainWatch, MainCreate,
       Connect, StartRunning, EmplaceLoop, EmplaceThrows, StartReturns, BuildAndStart,
       MainWaits, MainStopped, MainUnwatch, MainJoinsWatcher, MainReturns,
       Stop, StopCheck, StopClearFlag, StopJoin, StopClear, StopDisconnect,
       EventLoop, LoopTop, Receive, ReceiveTimesOut, PublishReturns, OnlyLoop,
       Handler, HandlerStopped, HandlerReadsServer, ShutdownReturns, Signal,
       StreamTo, ClientOpens, ClientStalls, ClientReads, ClientLeaves, Environment,
       Watching, Ended, vars
<1>b. running' \in BOOLEAN /\ connected' \in BOOLEAN /\ early' \in BOOLEAN
  <2>1. CASE Main
    BY <1>0, <2>1, Zenon DEF TypeOK, Main, MainLoad, MainStamp, MainWatch, MainCreate,
       Connect, StartRunning, EmplaceLoop, EmplaceThrows, StartReturns, BuildAndStart,
       MainWaits, MainStopped, MainUnwatch, MainJoinsWatcher, MainReturns, GoTo, Abort,
       ReturnFromMain
  <2>2. CASE \E c \in Callers : Stop(c)
    BY <1>0, <2>2, Zenon DEF TypeOK, Stop, StopCheck, StopClearFlag, StopJoin, StopClear,
       StopDisconnect, Abort
  <2>3. CASE \E l \in Loops : EventLoop(l) \/ Receive(l)
    BY <1>0, <2>3, Zenon DEF TypeOK, EventLoop, LoopTop, Receive, ReceiveTimesOut,
       PublishReturns, OnlyLoop
  <2>4. CASE Handler \/ Environment \/ Watching
    BY <1>0, <2>4, Zenon DEF TypeOK, Handler, HandlerStopped, HandlerReadsServer,
       ShutdownReturns, Signal, StreamTo, ClientOpens, ClientStalls, ClientReads,
       ClientLeaves, Environment, Watching
  <2>5. CASE UNCHANGED vars
    BY <1>0, <2>5, Zenon DEF TypeOK, vars
  <2> QED
    BY <2>1, <2>2, <2>3, <2>4, <2>5 DEF Next, Ended
<1>m. wanted' \in 0..MaxThreads
  BY <1>0, ParsedThreads DEF TypeOK, Next, Main, MainLoad, MainStamp, MainWatch, MainCreate,
       Connect, StartRunning, EmplaceLoop, EmplaceThrows, StartReturns, BuildAndStart,
       MainWaits, MainStopped, MainUnwatch, MainJoinsWatcher, MainReturns, GoTo, Abort,
       ReturnFromMain, Stop, StopCheck, StopClearFlag, StopJoin, StopClear, StopDisconnect,
       EventLoop, LoopTop, Receive, ReceiveTimesOut, PublishReturns, OnlyLoop,
       Handler, HandlerStopped, HandlerReadsServer, ShutdownReturns, Signal,
       StreamTo, ClientOpens, ClientStalls, ClientReads, ClientLeaves, Environment,
       Watching, Ended, vars
<1> USE <1>s, <1>b, <1>m
<1>1. CASE EmplaceLoop
  <2>1. Started + 1 \in Loops
    <3>1. Started \in 0..MaxThreads /\ wanted \in 0..MaxThreads /\ MaxThreads \in Nat
      BY <1>0, StartedCounts, ConfigAssumption DEF TypeOK
    <3>2. Started < wanted
      BY <1>1 DEF EmplaceLoop
    <3> QED
      BY <3>1, <3>2 DEF Loops
  <2> QED
    BY <1>0, <1>1, <2>1 DEF TypeOK, EmplaceLoop, GoTo, Abort
<1>2. CASE Main /\ ~EmplaceLoop
  BY <1>0, <1>2 DEF TypeOK, Main, MainLoad, MainStamp, MainWatch, MainCreate,
       Connect, StartRunning, EmplaceThrows, StartReturns, BuildAndStart,
       MainWaits, MainStopped, MainUnwatch, MainJoinsWatcher, MainReturns, GoTo, Abort,
       ReturnFromMain
<1>3. ASSUME NEW c \in Callers, Stop(c) PROVE TypeOK'
  <2>1. stop' \in [Callers -> {"out", "called", "clear flag", "join", "clear", "disconnect"}]
    BY <1>0, <1>3 DEF TypeOK, Stop, StopAt, StopCheck, StopClearFlag, StopJoin, StopClear,
         StopDisconnect
  <2>2. walk' \in [Callers -> SUBSET Loops]
    <3>1. CASE walk' = [walk EXCEPT ![c] = threads]
      BY <1>0, <3>1 DEF TypeOK
    <3> QED
      BY <1>0, <1>3, <3>1 DEF TypeOK, Stop, StopCheck, StopClearFlag, StopJoin, StopClear,
           StopDisconnect
  <2>3. walk[c] \subseteq Loops
    BY <1>0 DEF TypeOK
  <2>4. threads' \subseteq Loops /\ joined' \subseteq Loops
    BY <1>0, <1>3, <2>3 DEF TypeOK, Stop, StopCheck, StopClearFlag, StopJoin, StopClear,
         StopDisconnect
  <2>5. UNCHANGED <<loop, rpcVars, handler>> /\ main' \in {main, "aborted"}
    BY <1>3 DEF Stop, StopCheck, StopClearFlag, StopJoin, StopClear, StopDisconnect, Abort
  <2> QED
    BY <1>0, <2>1, <2>2, <2>4, <2>5 DEF TypeOK
<1>4. ASSUME NEW l \in Loops, EventLoop(l) \/ Receive(l) PROVE TypeOK'
  <2>1. /\ UNCHANGED <<mainVars, threads, joined, stopVars, rpcVars, signalVars>>
        /\ \E x \in {"top", "receive", "publish", "ended"} : loop' = [loop EXCEPT ![l] = x]
    BY <1>4 DEF EventLoop, LoopTop, Receive, ReceiveTimesOut, LoopAt, PublishReturns, OnlyLoop
  <2>2. loop' \in [Loops -> {"none", "top", "receive", "publish", "ended"}]
    BY <1>0, <2>1 DEF TypeOK
  <2> QED
    BY <1>0, <2>1, <2>2 DEF TypeOK
<1>5. CASE Handler \/ Signal
  BY <1>0, <1>5 DEF TypeOK, Handler, HandlerStopped, HandlerReadsServer, ShutdownReturns,
       Signal
<1>6. ASSUME NEW c \in Clients, ClientOpens(c) \/ ClientStalls(c) \/ ClientReads(c) \/ ClientLeaves(c)
      PROVE  TypeOK'
  <2>1. /\ UNCHANGED <<mainVars, loopVars, stopVars, server, signalVars>>
        /\ \E x \in {"none", "open", "stalled"} : stream' = [stream EXCEPT ![c] = x]
    BY <1>6 DEF StreamTo, ClientOpens, ClientStalls, ClientReads, ClientLeaves
  <2>2. stream' \in [Clients -> {"none", "open", "stalled"}]
    BY <1>0, <2>1 DEF TypeOK
  <2> QED
    BY <1>0, <2>1, <2>2 DEF TypeOK
<1>7. CASE UNCHANGED <<mainVars, loopVars, stopVars, rpcVars, signalVars>>
  BY <1>0, <1>7 DEF TypeOK
<1> QED
  BY <1>1, <1>2, <1>3, <1>4, <1>5, <1>6, <1>7 DEF Next, Environment, Watching, Ended, vars

(* Loops are started one after the other and never anew. *)
LEMMA OrderStep == Inv /\ [Next]_vars => InOrder'
<1> SUFFICES ASSUME Inv, [Next]_vars PROVE InOrder'
  OBVIOUS
<1>0. TypeOK /\ InOrder
  BY DEF Inv
<1>1. CASE EmplaceLoop
  <2>1. PICK n \in 0..MaxThreads : {l \in Loops : loop[l] # "none"} = 1..n
    BY <1>0 DEF InOrder
  <2>2. /\ Started \in 0..MaxThreads /\ wanted \in 0..MaxThreads /\ Started < wanted
        /\ MaxThreads \in Nat /\ \A l \in Loops : loop[l] # "none" <=> l <= Started
        /\ loop' = [loop EXCEPT ![Started + 1] = "top"]
    BY <1>0, <1>1, StartedCounts, ConfigAssumption DEF TypeOK, EmplaceLoop
  <2>3. PICK k \in 0..MaxThreads : k = Started
    BY <2>2
  <2>4. k + 1 \in 0..MaxThreads /\ k + 1 \in Loops /\ \A l \in Loops : l \in Int /\ l >= 1
    BY <2>2, <2>3 DEF Loops
  <2>5. ASSUME NEW l \in Loops PROVE loop'[l] # "none" <=> l <= k + 1
    <3>1. CASE l = k + 1
      <4>1. loop'[l] = "top"
        BY <1>0, <2>2, <2>3, <3>1 DEF TypeOK
      <4>2. l <= k + 1
        BY <2>4, <3>1
      <4> QED
        BY <4>1, <4>2
    <3>2. CASE l # k + 1
      <4>1. loop'[l] = loop[l] /\ (loop[l] # "none" <=> l <= k)
        BY <1>0, <2>2, <2>3, <3>2 DEF TypeOK
      <4>2. l <= k <=> l <= k + 1
        BY <2>4, <3>2
      <4> QED
        BY <4>1, <4>2
    <3> QED
      BY <3>1, <3>2
  <2>6. {l \in Loops : loop'[l] # "none"} = 1..(k + 1)
    BY <2>2, <2>4, <2>5 DEF Loops
  <2> QED
    BY <2>4, <2>6 DEF InOrder
<1>2. ASSUME NEW l \in Loops, EventLoop(l) \/ Receive(l) PROVE InOrder'
  <2>1. \A k \in Loops : loop'[k] # "none" <=> loop[k] # "none"
    BY <1>0, <1>2 DEF TypeOK, EventLoop, LoopTop, Receive, ReceiveTimesOut, LoopAt, PublishReturns
  <2>2. {k \in Loops : loop'[k] # "none"} = {k \in Loops : loop[k] # "none"}
    BY <2>1
  <2> QED
    BY <1>0, <2>2 DEF InOrder
<1>3. CASE loop' = loop
  BY <1>0, <1>3 DEF InOrder
<1>4. CASE Main /\ ~EmplaceLoop
  BY <1>3, <1>4 DEF Main, MainLoad, MainStamp, MainWatch, MainCreate,
       Connect, StartRunning, EmplaceThrows, StartReturns, BuildAndStart,
       MainWaits, MainStopped, MainUnwatch, MainJoinsWatcher, MainReturns
<1>5. CASE \E c \in Callers : Stop(c)
  BY <1>3, <1>5 DEF Stop, StopCheck, StopClearFlag, StopJoin, StopClear, StopDisconnect
<1>6. CASE Handler \/ Environment \/ Watching \/ UNCHANGED vars
  BY <1>3, <1>6 DEF Handler, HandlerStopped, HandlerReadsServer, ShutdownReturns, Signal,
       StreamTo, ClientOpens, ClientStalls, ClientReads, ClientLeaves, Environment, Watching, vars
<1> QED
  BY <1>1, <1>2, <1>4, <1>5, <1>6 DEF Next, Ended

(* The rest of the invariant. *)
Core ==
  Phases /\ Turns /\ Stopped /\ InTime /\ LoopsOutlived /\ CleanExit /\ AbortsOnlyInStart

(* A step of main keeps it. *)
LEMMA MainStep ==
  ASSUME Inv, Alive, Main PROVE Core'
<1>0. TypeOK /\ Core
  BY DEF Inv, Core
<1> USE DEF Core, Alive, Phases, Turns, Stopped, InTime, LoopsOutlived, CleanExit,
            AbortsOnlyInStart, Callers, Before, Starting, Leaving, Serving, Clearing
<1>1. CASE MainLoad
  BY <1>0, <1>1 DEF TypeOK, MainLoad, LoadRead, LoadFails, GoTo, Abort, ReturnFromMain
<1>2. CASE MainStamp
  BY <1>0, <1>2 DEF TypeOK, MainStamp, LoadStamp, LoadThrows, GoTo, Abort, ReturnFromMain
<1>3. CASE MainWatch \/ MainCreate
  <2>1. /\ main \in {"watch", "create"} /\ main' \in {"create", "connect"}
        /\ UNCHANGED <<connected, loopVars, stopVars, rpcVars, signalVars>>
    BY <1>3 DEF MainWatch, MainCreate, GoTo
  <2> QED
    BY <1>0, <2>1 DEF TypeOK
<1>4. CASE Connect
  BY <1>0, <1>4 DEF TypeOK, Connect, Abort, GoTo, ReturnFromMain
<1>5. CASE StartRunning
  BY <1>0, <1>5 DEF TypeOK, StartRunning, GoTo
<1>6. CASE EmplaceThrows \/ StartReturns
  <2>1. /\ main = "loops" /\ main' \in {"build", "exited", "aborted"}
        /\ UNCHANGED <<connected, watcher, loopVars, stopVars, rpcVars, signalVars>>
    BY <1>6 DEF EmplaceThrows, StartReturns, GoTo, Abort, ReturnFromMain
  <2> QED
    BY <1>0, <2>1 DEF TypeOK
<1>7. CASE BuildAndStart
  <2>1. /\ main = "build"
        /\ \/ main' = "wait" /\ server' = "up"
           \/ main' \in {"exited", "aborted"} /\ server' = server
        /\ UNCHANGED <<connected, watcher, loopVars, stopVars, signalVars>>
    BY <1>7 DEF BuildAndStart, GoTo, Abort, ReturnFromMain
  <2> QED
    BY <1>0, <2>1 DEF TypeOK
<1>8. CASE MainWaits
  BY <1>0, <1>8 DEF TypeOK, MainWaits, GoTo
<1>9. CASE MainStopped
  BY <1>0, <1>9 DEF TypeOK, MainStopped, GoTo
<1>10. CASE MainUnwatch \/ MainJoinsWatcher
  <2>1. /\ \/ main = "unwatch" /\ main' = "join watcher"
           \/ main = "join watcher" /\ main' = "return" /\ watcher' = "joined"
        /\ UNCHANGED <<connected, loopVars, stopVars, rpcVars, signalVars>>
    BY <1>10 DEF MainUnwatch, MainJoinsWatcher, JoinWatcher, GoTo
  <2> QED
    BY <1>0, <2>1 DEF TypeOK
<1>11. CASE MainReturns
  BY <1>0, <1>11 DEF TypeOK, MainReturns, GoTo, Abort, ReturnFromMain
<1>12. CASE EmplaceLoop
  <2>1. Started + 1 \in Loops /\ loop[Started + 1] = "none"
    <3>1. /\ Started \in 0..MaxThreads /\ wanted \in 0..MaxThreads /\ Started < wanted
          /\ MaxThreads \in Nat /\ \A l \in Loops : loop[l] # "none" <=> l <= Started
      BY <1>0, <1>12, StartedCounts, ConfigAssumption DEF Inv, TypeOK, EmplaceLoop
    <3> QED
      BY <3>1 DEF Loops
  <2>2. PICK k \in Loops : k = Started + 1
    BY <2>1
  <2>3. loop' = [loop EXCEPT ![k] = "top"] /\ threads' = threads \cup {k} /\ loop[k] = "none"
    BY <1>12, <2>1, <2>2 DEF EmplaceLoop
  <2>4. /\ loop'[k] = "top" /\ \A l \in Loops : l # k => loop'[l] = loop[l]
    BY <1>0, <2>3 DEF TypeOK
  <2>5. /\ main = "loops" /\ main' \in {"loops", "aborted"}
        /\ UNCHANGED <<wanted, connected, storeVars, running, joined, stopVars, rpcVars, signalVars>>
    BY <1>12 DEF EmplaceLoop, GoTo, Abort
  <2>6. k \notin joined
    BY <1>0, <2>3
  <2> QED
    BY <1>0, <2>3, <2>4, <2>5, <2>6 DEF TypeOK
<1> QED
  BY <1>1, <1>2, <1>3, <1>4, <1>5, <1>6, <1>7, <1>8, <1>9, <1>10, <1>11, <1>12 DEF Main

(* A step in Stop keeps it. *)
LEMMA StopStep ==
  ASSUME Inv, Alive, NEW c \in Callers, Stop(c) PROVE Core'
<1>0. TypeOK /\ Core
  BY DEF Inv, Core
<1>1. \A b \in Callers : b # c => stop'[b] = stop[b] /\ walk'[b] = walk[b]
  BY <1>0 DEF TypeOK, Stop, StopAt, StopCheck, StopClearFlag, StopJoin, StopClear, StopDisconnect
<1>2. c = "main" \/ c = "handler"
  BY DEF Callers
<1>3. UNCHANGED <<storeVars, loop, rpcVars, signalVars>>
  BY DEF Stop, StopCheck, StopClearFlag, StopJoin, StopClear, StopDisconnect
<1> USE <1>0, <1>1, <1>2, <1>3
    DEF Core, Alive, Phases, Turns, Stopped, InTime, LoopsOutlived, CleanExit,
        AbortsOnlyInStart, Callers, Before, Starting, Leaving, Serving, Clearing
<1>4. CASE StopCheck(c)
  <2>1. /\ stop[c] = "called" /\ stop'[c] = IF running THEN "clear flag" ELSE "out"
        /\ UNCHANGED <<mainVars, loopVars, walk>>
    BY <1>4 DEF StopCheck, StopAt, TypeOK
  <2> QED
    BY <2>1
<1>5. CASE StopClearFlag(c)
  <2>1. /\ stop[c] = "clear flag" /\ stop'[c] = "join" /\ ~running' /\ walk'[c] = threads
        /\ UNCHANGED <<mainVars, threads, joined>>
    BY <1>5 DEF StopClearFlag, StopAt, TypeOK
  <2> QED
    BY <2>1
<1>6. CASE StopJoin(c)
  <2>1. /\ stop[c] = "join" /\ stop'[c] = "clear" /\ joined' = joined \cup walk[c]
        /\ \A l \in walk[c] : loop[l] = "ended"
        /\ UNCHANGED <<mainVars, running, threads, walk>>
    BY <1>6 DEF StopJoin, StopAt, TypeOK
  <2> QED
    BY <2>1
<1>7. CASE StopClear(c)
  <2>1. /\ stop[c] = "clear" /\ stop'[c] = "disconnect" /\ threads' = {}
        /\ \/ threads \subseteq joined /\ main' = main
           \/ ~(threads \subseteq joined) /\ main' = "aborted"
        /\ UNCHANGED <<connected, running, joined, walk>>
    BY <1>7 DEF StopClear, StopAt, Abort, TypeOK
  <2> QED
    BY <2>1
<1>8. CASE StopDisconnect(c)
  <2>1. /\ stop[c] = "disconnect" /\ stop'[c] = "out" /\ ~connected'
        /\ UNCHANGED <<main, loopVars, walk>>
    BY <1>8 DEF StopDisconnect, StopAt, TypeOK
  <2> QED
    BY <2>1
<1> QED
  BY <1>4, <1>5, <1>6, <1>7, <1>8 DEF Stop

(* A step of an event loop keeps it. *)
LEMMA LoopStep ==
  ASSUME Inv, Alive, NEW l \in Loops, EventLoop(l) \/ Receive(l) PROVE Core'
<1>0. TypeOK /\ Core
  BY DEF Inv, Core
<1>1. UNCHANGED <<storeVars, mainVars, running, threads, joined, stopVars, rpcVars, signalVars>>
  BY DEF EventLoop, LoopTop, Receive, ReceiveTimesOut, PublishReturns, OnlyLoop
<1>2. \A k \in Loops : k # l => loop'[k] = loop[k]
  BY <1>0 DEF TypeOK, EventLoop, LoopTop, Receive, ReceiveTimesOut, PublishReturns, LoopAt
<1>3. /\ loop[l] \in {"top", "receive", "publish"}
      /\ loop'[l] = "receive" => loop[l] = "top" /\ running
      /\ loop'[l] = "publish" => loop[l] = "receive"
      /\ loop'[l] # "none"
  BY <1>0 DEF TypeOK, EventLoop, LoopTop, Receive, ReceiveTimesOut, PublishReturns, LoopAt
<1>4. joined \subseteq Loops
  BY <1>0 DEF TypeOK
<1>5. Phases' /\ Turns' /\ InTime' /\ CleanExit' /\ AbortsOnlyInStart'
  BY <1>0, <1>1, <1>2, <1>3, <1>4
  DEF Core, Alive, Phases, Turns, Stopped, InTime, CleanExit, AbortsOnlyInStart, Callers,
      Before, Starting, Leaving, Serving, Clearing
<1>6. Stopped'
  BY <1>0, <1>1, <1>2, <1>3, <1>4
  DEF Core, Alive, Phases, Stopped, Callers, Leaving, Serving, Clearing
<1>7. LoopsOutlived'
  BY <1>0, <1>1, <1>2, <1>3, <1>4 DEF Core, Alive, Stopped, LoopsOutlived
<1> QED
  BY <1>5, <1>6, <1>7 DEF Core

(* The handler, the signal, the clients, the administrator and the         *)
(* watching thread keep it.                                                *)
LEMMA OtherStep ==
  ASSUME Inv, Alive, Handler \/ Environment \/ Watching PROVE Core'
<1>0. TypeOK /\ Core
  BY DEF Inv, Core
<1> USE DEF Core, Alive, Phases, Turns, Stopped, InTime, LoopsOutlived, CleanExit,
            AbortsOnlyInStart, Callers, Before, Starting, Leaving, Serving, Clearing
<1>1. CASE HandlerStopped
  BY <1>0, <1>1 DEF HandlerStopped, TypeOK
<1>2. CASE HandlerReadsServer
  BY <1>0, <1>2 DEF HandlerReadsServer, TypeOK
<1>3. CASE ShutdownReturns
  BY <1>0, <1>3 DEF ShutdownReturns, TypeOK
<1>4. CASE Signal
  <2>1. /\ handler = "none" /\ early' = (server = "none")
        /\ handler' \in {"server", "stopping"}
        /\ UNCHANGED <<storeVars, mainVars, loopVars, walk, rpcVars>>
        /\ stop'["main"] = stop["main"]
        /\ \/ /\ handler' = "server" /\ stop'["handler"] = stop["handler"]
              /\ main \in {"load", "stamp", "watch", "create"}
           \/ handler' = "stopping" /\ stop'["handler"] = "called"
    BY <1>0, <1>4 DEF Signal, TypeOK
  <2>2. server # "none" => main = "wait"
    BY <1>0, <2>1 DEF TypeOK
  <2> QED
    BY <1>0, <2>1, <2>2
<1>5. CASE /\ UNCHANGED <<mainVars, loopVars, stopVars, server, signalVars>>
           /\ watcher = "joined" => watcher' = "joined"
  BY <1>0, <1>5
<1>6. CASE Watching
  BY <1>5, <1>6 DEF Watching, Watcher, WatchTop, WatchCheck, WatchLoad, WatchDeliver
<1>7. CASE Environment /\ ~Signal
  BY <1>5, <1>7 DEF Environment, StreamTo, ClientOpens, ClientStalls, ClientReads,
       ClientLeaves, Edit
<1> QED
  BY <1>1, <1>2, <1>3, <1>4, <1>6, <1>7 DEF Handler, Environment

-----------------------------------------------------------------------------
(* The invariant holds at first. *)
LEMMA InvInit == Init => Inv
<1> SUFFICES ASSUME Init PROVE Inv
  OBVIOUS
<1>0. MaxThreads \in Nat /\ MaxEdits \in Nat
  BY ConfigAssumption
<1>1. TypeOK
  <2>1. watching \in BOOLEAN /\ overtaken \in BOOLEAN
        /\ connected \in BOOLEAN /\ running \in BOOLEAN /\ early \in BOOLEAN
    BY Zenon DEF Init, StoreInit
  <2>2. file \in [text : AllTexts \cup {"missing"}, time : Versions]
    <3>1. file \in [text : Texts \cup {"missing"}, time : {0}] /\ 0 \in Versions
      BY <1>0 DEF Init, StoreInit, Versions
    <3>2. Texts \subseteq AllTexts
      BY ConfigAssumption
    <3> QED
      BY <3>1, <3>2
  <2>3. StoreTypeOK
    BY <1>0, <2>1, <2>2 DEF Init, StoreInit, StoreTypeOK, Versions
  <2> QED
    BY <1>0, <2>1, <2>3 DEF Init, TypeOK
<1>2. InOrder
  <2>1. {l \in Loops : loop[l] # "none"} = 1..0 /\ 0 \in 0..MaxThreads
    BY <1>0 DEF Init
  <2> QED
    BY <2>1 DEF InOrder
<1> QED
  BY <1>1, <1>2 DEF Init, Inv, Phases, Turns, Stopped, InTime, LoopsOutlived, CleanExit,
       AbortsOnlyInStart, Callers, Before, Starting, Leaving, Serving, Clearing

(* Every step keeps it; a process that has ended takes none. *)
LEMMA InvStep == Inv /\ [Next]_vars => Inv'
<1> SUFFICES ASSUME Inv, [Next]_vars PROVE Inv'
  OBVIOUS
<1>1. Core'
  <2>1. CASE UNCHANGED vars
    <3>1. UNCHANGED <<storeVars, mainVars, loopVars, stopVars, rpcVars, signalVars>>
      BY <2>1 DEF vars
    <3>2. Phases' /\ Turns' /\ CleanExit' /\ AbortsOnlyInStart'
      BY <3>1 DEF Inv, Phases, Turns, CleanExit, AbortsOnlyInStart
    <3>3. Stopped' /\ LoopsOutlived'
      BY <3>1 DEF Inv, Stopped, LoopsOutlived, Alive
    <3>4. InTime'
      BY <3>1 DEF Inv, InTime
    <3> QED
      BY <3>2, <3>3, <3>4 DEF Core
  <2> QED
    BY <2>1, MainStep, StopStep, LoopStep, OtherStep DEF Next, Ended
<1> QED
  BY <1>1, TypeStep, OrderStep DEF Inv, Core

(* The process keeps the invariant. *)
LEMMA InvAlways == Spec => []Inv
  BY InvInit, InvStep, PTL DEF Spec

(* The service stops in order, whatever the moment of the signal: no event *)
(* loop is left inside a disconnected receiver, main and SignalHandler are *)
(* never both inside Stop, a process that leaves main after serving has    *)
(* joined its threads, and it is aborted only when it could not start or   *)
(* the signal came before it had.                                          *)
THEOREM ServiceStopsInOrder == Spec => []StopIsOrderly
<1>1. Inv => OneStopper
  <2> SUFFICES ASSUME Inv PROVE OneStopper
    OBVIOUS
  <2> DEFINE S == {c \in Callers : stop[c] \notin {"out", "called"}}
  <2>1. S = {} \/ S = {"main"} \/ S = {"handler"}
    BY DEF Inv, Turns, Callers
  <2>2. Cardinality(S) = 0 \/ Cardinality(S) = 1
    BY <2>1, FS_EmptySet, FS_Singleton, Zenon
  <2>3. Cardinality(S) <= 1
    BY <2>2
  <2> QED
    BY <2>3 DEF OneStopper
<1>2. Inv => StopIsOrderly
  BY <1>1 DEF Inv, StopIsOrderly
<1> QED
  BY <1>2, InvAlways, PTL

-----------------------------------------------------------------------------
(* The time that Load has noted is never ahead of the file. *)
NotAhead == lastWrite <= file.time

(* Every step of the store keeps it, and skips no version. *)
LEMMA SkipStep ==
  StoreTypeOK /\ NotAhead /\ NothingSkipped /\ [Next]_vars => NotAhead' /\ NothingSkipped'
<1> SUFFICES ASSUME StoreTypeOK, NotAhead, NothingSkipped, [Next]_vars
             PROVE  NotAhead' /\ NothingSkipped'
  OBVIOUS
<1>0. /\ file.time \in Int /\ lastWrite \in Int
  BY ConfigAssumption DEF StoreTypeOK, Versions, NoTime
<1>1. CASE UNCHANGED <<file, lastWrite, seen, overtaken>>
  BY <1>1 DEF NotAhead, NothingSkipped
<1>2. CASE LoadStamp
  <2>1. lastWrite' = file.time /\ seen' = read /\ file' = file
        /\ (overtaken' <=> file.time # read)
    BY <1>2 DEF LoadStamp
  <2> QED
    BY <1>0, <2>1 DEF NotAhead, NothingSkipped
<1>3. ASSUME NEW text \in Texts \cup {"missing"}, Edit(text)
      PROVE  NotAhead' /\ NothingSkipped'
  <2>1. lastWrite' = lastWrite /\ file'.time = file.time + 1
    BY <1>3 DEF Edit
  <2> QED
    BY <1>0, <2>1 DEF NotAhead, NothingSkipped
<1>4. CASE Main
  BY <1>1, <1>2, <1>4 DEF Main, MainLoad, MainStamp, MainWatch, MainCreate,
       Connect, StartRunning, EmplaceLoop, EmplaceThrows, StartReturns, BuildAndStart,
       MainWaits, MainStopped, MainUnwatch, MainJoinsWatcher, MainReturns,
       LoadRead, LoadFails, LoadThrows, Watch, StopWatching, JoinWatcher
<1>5. CASE \E c \in Callers : Stop(c)
  BY <1>1, <1>5 DEF Stop, StopCheck, StopClearFlag, StopJoin, StopClear, StopDisconnect
<1>6. CASE \E l \in Loops : EventLoop(l) \/ Receive(l)
  BY <1>1, <1>6 DEF EventLoop, LoopTop, Receive, ReceiveTimesOut, PublishReturns, OnlyLoop
<1>7. CASE Handler
  BY <1>1, <1>7 DEF Handler, HandlerStopped, HandlerReadsServer, ShutdownReturns
<1>8. CASE Environment
  BY <1>1, <1>3, <1>8 DEF Environment, Signal, StreamTo, ClientOpens, ClientStalls,
       ClientReads, ClientLeaves
<1>9. CASE Watching
  BY <1>1, <1>2, <1>9 DEF Watching, Watcher, WatchTop, WatchCheck, WatchLoad, WatchDeliver,
       LoadRead, LoadFails, LoadThrows
<1>10. CASE UNCHANGED vars
  BY <1>1, <1>10 DEF vars
<1> QED
  BY <1>4, <1>5, <1>6, <1>7, <1>8, <1>9, <1>10 DEF Next, Ended

(* A version of the configuration file that WatchThreadFunc will not load  *)
(* again is the one that was last returned, unless an edit overtook Load.  *)
THEOREM StoreSkipsNothing == Spec => []NothingSkipped
<1>1. Init => NotAhead /\ NothingSkipped
  <2> SUFFICES ASSUME Init PROVE NotAhead /\ NothingSkipped
    OBVIOUS
  <2>1. lastWrite = -1 /\ file.time = 0
    BY DEF Init, StoreInit, NoTime
  <2> QED
    BY <2>1 DEF NotAhead, NothingSkipped
<1>2. Inv => StoreTypeOK
  BY DEF Inv, TypeOK
<1> QED
  BY <1>1, <1>2, SkipStep, InvAlways, PTL DEF Spec
=============================================================================
