------------------------ MODULE FeederEventPublisher ------------------------
(***************************************************************************)
(* FeederEventPublisher and the streaming calls of LogService.  Event      *)
(* loops of MonitoringService publish events to the streams that clients   *)
(* hold open; alerts and logs have a table of subscribers and a            *)
(* shared_mutex each.  A publisher keeps the lock shared while it writes   *)
(* to one stream after the other; subscribing and unsubscribing take it    *)
(* exclusively, for one step.  A Write may wait for its client.            *)
(***************************************************************************)
EXTENDS Integers, Sequences, FiniteSets, SequencesExt

CONSTANTS
  Streams,     \* calls of WatchAlerts and WatchLogs
  Publishers,  \* event loop threads
  MaxEvents,   \* bound on the events published
  Nobody       \* a mutex that is not held

ASSUME PublisherAssumption ==
  /\ IsFiniteSet(Streams) /\ IsFiniteSet(Publishers)
  /\ MaxEvents \in Nat /\ Nobody \notin Publishers

Kinds == {"alert", "log"}

VARIABLES
  call,       \* how far the call of each stream is
  kind,       \* WatchAlerts or WatchLogs
  gone,       \* the streams whose context is cancelled
  subs,       \* the subscribers of each kind, in the order of their ids
  active,     \* subscriber->active
  mutex,      \* the holder of write_mutex
  pc,         \* where each publisher is
  event,      \* the kind of its event
  todo,       \* the subscribers its loop has not come to
  published, dropped,  \* alerts_published_ and logs_published_; events_dropped_
  events,     \* events published so far, for the bound
  reached     \* history: streams the current Publish has written to

callVars == <<call, kind, gone>>
pubVars == <<pc, event, todo, reached>>
countVars == <<published, dropped, events>>
vars == <<callVars, subs, active, mutex, pubVars, countVars>>

TypeOK ==
  /\ call \in [Streams -> {"none", "subscribe", "watch", "unsubscribe", "ended"}]
  /\ kind \in [Streams -> Kinds]
  /\ gone \subseteq Streams
  /\ \A k \in Kinds : Range(subs[k]) \subseteq Streams
  /\ active \subseteq Streams
  /\ mutex \in [Streams -> Publishers \cup {Nobody}]
  /\ pc \in [Publishers -> {"idle", "lock", "next", "wait", "write"}]
  /\ event \in [Publishers -> Kinds]
  /\ \A p \in Publishers : Range(todo[p]) \subseteq Streams
  /\ published \in [Kinds -> Nat] /\ dropped \in Nat /\ events \in 0 .. MaxEvents
  /\ reached \in [Publishers -> SUBSET Streams]

Init ==
  /\ call = [s \in Streams |-> "none"]
  /\ kind = [s \in Streams |-> "log"]
  /\ gone = {} /\ active = {}
  /\ subs = [k \in Kinds |-> <<>>]
  /\ mutex = [s \in Streams |-> Nobody]
  /\ pc = [p \in Publishers |-> "idle"]
  /\ event = [p \in Publishers |-> "log"]
  /\ todo = [p \in Publishers |-> <<>>]
  /\ published = [k \in Kinds |-> 0] /\ dropped = 0 /\ events = 0
  /\ reached = [p \in Publishers |-> {}]

(* Publishers that hold the lock of a table, shared. *)
Readers(k) == {p \in Publishers : event[p] = k /\ pc[p] \in {"next", "wait", "write"}}

(* What erase leaves of the subscribers: find says where s is, if it is there. *)
Find(table, s) == CHOOSE i \in DOMAIN table : table[i] = s
Erase(table, s) == IF s \in Range(table) THEN RemoveAt(table, Find(table, s)) ELSE table

(* The subscriber a publisher has come to. *)
At(p) == Head(todo[p])

-----------------------------------------------------------------------------
(* A streaming call: WatchAlerts or WatchLogs. *)

Watch(s) ==
  /\ call[s] = "none"
  /\ \E k \in Kinds : kind' = [kind EXCEPT ![s] = k]
  /\ call' = [call EXCEPT ![s] = "subscribe"]
  /\ UNCHANGED <<gone, subs, active, mutex, pubVars, countVars>>

Subscribe(s) ==
  /\ call[s] = "subscribe" /\ Readers(kind[s]) = {}
  /\ subs' = [subs EXCEPT ![kind[s]] = Append(@, s)]
  /\ active' = active \cup {s}
  /\ call' = [call EXCEPT ![s] = "watch"]
  /\ UNCHANGED <<kind, gone, mutex, pubVars, countVars>>

(* The client goes away: IsCancelled turns true and writes fail. *)
ClientLeaves(s) ==
  /\ call[s] # "none" /\ s \notin gone
  /\ gone' = gone \cup {s}
  /\ UNCHANGED <<call, kind, subs, active, mutex, pubVars, countVars>>

WatchEnds(s) ==
  /\ call[s] = "watch" /\ s \in gone
  /\ call' = [call EXCEPT ![s] = "unsubscribe"]
  /\ UNCHANGED <<kind, gone, subs, active, mutex, pubVars, countVars>>

(* Mutant: the table is changed under the shared lock of a publisher. *)
UnsubscribeUnlocked(s) ==
  /\ call[s] = "unsubscribe"
  /\ subs' = [subs EXCEPT ![kind[s]] = Erase(@, s)]
  /\ active' = active \ {s}
  /\ call' = [call EXCEPT ![s] = "ended"]
  /\ UNCHANGED <<kind, gone, mutex, pubVars, countVars>>

(* The subscriber is erased and the call returns, which ends its writer. *)
Unsubscribe(s) ==
  /\ call[s] = "unsubscribe" /\ Readers(kind[s]) = {}
  /\ subs' = [subs EXCEPT ![kind[s]] = Erase(@, s)]
  /\ active' = active \ {s}
  /\ call' = [call EXCEPT ![s] = "ended"]
  /\ UNCHANGED <<kind, gone, mutex, pubVars, countVars>>

-----------------------------------------------------------------------------
(* Publish. *)

Publish(p) ==
  /\ pc[p] = "idle" /\ events < MaxEvents
  /\ events' = events + 1
  /\ \E k \in Kinds : event' = [event EXCEPT ![p] = k]
  /\ pc' = [pc EXCEPT ![p] = "lock"]
  /\ UNCHANGED <<callVars, subs, active, mutex, todo, reached, published, dropped>>

LockShared(p) ==
  /\ pc[p] = "lock"
  /\ todo' = [todo EXCEPT ![p] = subs[event[p]]]
  /\ reached' = [reached EXCEPT ![p] = {}]
  /\ pc' = [pc EXCEPT ![p] = "next"]
  /\ UNCHANGED <<callVars, subs, active, mutex, event, countVars>>

(* A subscriber that is not active is passed over. *)
SkipInactive(p) ==
  /\ pc[p] = "next" /\ todo[p] # <<>> /\ At(p) \notin active
  /\ todo' = [todo EXCEPT ![p] = Tail(@)]
  /\ UNCHANGED <<callVars, subs, active, mutex, pc, event, reached, countVars>>

PickSubscriber(p) ==
  /\ pc[p] = "next" /\ todo[p] # <<>> /\ At(p) \in active
  /\ pc' = [pc EXCEPT ![p] = "wait"]
  /\ UNCHANGED <<callVars, subs, active, mutex, event, todo, reached, countVars>>

LockWriter(p) ==
  /\ pc[p] = "wait" /\ mutex[At(p)] = Nobody
  /\ mutex' = [mutex EXCEPT ![At(p)] = p]
  /\ pc' = [pc EXCEPT ![p] = "write"]
  /\ UNCHANGED <<callVars, subs, active, event, todo, reached, countVars>>

(* Write returns, and write_mutex is released. *)
Wrote(p) ==
  /\ pc[p] = "write"
  /\ mutex' = [mutex EXCEPT ![At(p)] = Nobody]
  /\ pc' = [pc EXCEPT ![p] = "next"]

(* Write returns true; the client may just have gone. *)
WriteSucceeds(p) ==
  /\ Wrote(p)
  /\ todo' = [todo EXCEPT ![p] = Tail(@)]
  /\ reached' = [reached EXCEPT ![p] = @ \cup {At(p)}]
  /\ published' = [published EXCEPT ![event[p]] = @ + 1]
  /\ UNCHANGED <<callVars, subs, active, event, dropped, events>>

(* Mutants: a failure ends the loop; write_mutex is left locked. *)
WriteFailsReturns(p) ==
  /\ Wrote(p) /\ At(p) \in gone
  /\ todo' = [todo EXCEPT ![p] = <<>>]
  /\ active' = active \ {At(p)}
  /\ dropped' = dropped + 1
  /\ UNCHANGED <<callVars, subs, event, reached, published, events>>
WriteFailsLocked(p) ==
  /\ pc[p] = "write" /\ At(p) \in gone
  /\ pc' = [pc EXCEPT ![p] = "next"]
  /\ todo' = [todo EXCEPT ![p] = Tail(@)]
  /\ active' = active \ {At(p)}
  /\ dropped' = dropped + 1
  /\ UNCHANGED <<callVars, subs, mutex, event, reached, published, events>>

(* It returns false, or throws, when the client is gone. *)
WriteFails(p) ==
  /\ Wrote(p) /\ At(p) \in gone
  /\ todo' = [todo EXCEPT ![p] = Tail(@)]
  /\ active' = active \ {At(p)}
  /\ dropped' = dropped + 1
  /\ UNCHANGED <<callVars, subs, event, reached, published, events>>

PublishReturns(p) ==
  /\ pc[p] = "next" /\ todo[p] = <<>>
  /\ pc' = [pc EXCEPT ![p] = "idle"]
  /\ UNCHANGED <<callVars, subs, active, mutex, event, todo, reached, countVars>>

Handler(s) == Subscribe(s) \/ WatchEnds(s) \/ Unsubscribe(s)
Loop(p) ==
  \/ LockShared(p) \/ SkipInactive(p) \/ PickSubscriber(p) \/ LockWriter(p)
  \/ WriteFails(p) \/ PublishReturns(p)

Next ==
  \/ \E s \in Streams : Watch(s) \/ ClientLeaves(s) \/ Handler(s)
  \/ \E p \in Publishers : Publish(p) \/ Loop(p) \/ WriteSucceeds(p)

Spec == Init /\ [][Next]_vars

-----------------------------------------------------------------------------
(* A stream's writer is used by one publisher at a time, and only while    *)
(* the call it belongs to has not returned.                                *)
WriterUsedSafely ==
  \A p, q \in Publishers :
    pc[p] = "write" =>
      /\ call[At(p)] \in {"watch", "unsubscribe"}
      /\ pc[q] = "write" /\ q # p => At(q) # At(p)

(* When Publish returns, every subscriber of that kind that is still       *)
(* active has been given the event: a stream that fails, or that another   *)
(* publisher is writing to, costs no other stream an event.                *)
ActiveAreReached ==
  [][\A p \in Publishers :
       pc[p] = "next" /\ pc'[p] = "idle" =>
         \A s \in Range(subs[event[p]]) : s \in active => s \in reached[p]]_vars

(* The subscribers are those whose call is between subscribing and         *)
(* unsubscribing, so nothing of a stream outlives its call.                *)
SubscribersExact ==
  \A s \in Streams : \A k \in Kinds :
    s \in Range(subs[k]) <=> kind[s] = k /\ call[s] \in {"watch", "unsubscribe"}

-----------------------------------------------------------------------------
(* Threads are scheduled, a call polls IsCancelled every second, and a     *)
(* client that has not gone reads its stream, so that a Write returns.     *)
Fairness ==
  /\ \A s \in Streams : WF_vars(Handler(s))
  /\ \A p \in Publishers : WF_vars(Loop(p) \/ WriteSucceeds(p))

FairSpec == Spec /\ Fairness

(* The call of a client that has gone returns, wherever the publishers are *)
(* in their loops over its stream and others, if every client that stays   *)
(* reads its stream (Fairness).                                            *)
GoneStreamsEnd == \A s \in Streams : (s \in gone) ~> (call[s] = "ended")

(* The tables of subscribers hold exactly the streams of running calls,    *)
(* and their writers are used by one publisher at a time.                  *)
StreamsSound == TypeOK /\ WriterUsedSafely /\ SubscribersExact
=============================================================================
