-------------------------- MODULE ThreadSafeQueue --------------------------
(***************************************************************************)
(* The bounded queue between the threads of the user service               *)
(* (common/thread_safe_queue.h).  A call locks the mutex, may wait on a    *)
(* condition variable, which releases the mutex, and evaluates its         *)
(* predicate again each time it wakes.  Everything done under the mutex is *)
(* one step.  Items are counted, not told apart: nothing in the queue      *)
(* looks at them.                                                          *)
(***************************************************************************)
EXTENDS Integers, FiniteSets

CONSTANTS
  Threads,  \* threads that use the queue
  MaxSize   \* max_size_

ASSUME QueueAssumption == IsFiniteSet(Threads) /\ MaxSize \in Nat \ {0}

PushOps == {"push", "tryPush"}
PopOps == {"pop", "tryPop"}
TimedOps == {"tryPush", "tryPop"}

VARIABLES
  size,    \* queue_.size()
  closed,  \* closed_
  op,      \* the call a thread is in
  st       \* how far: it wants the mutex (enter), waits, was woken and wants
           \* the mutex again, or its time is up and it wants it for the last
           \* time (late)

queueVars == <<size, closed, op, st>>

QueueTypeOK ==
  /\ size \in 0 .. MaxSize
  /\ closed \in BOOLEAN
  /\ op \in [Threads -> PushOps \cup PopOps]
  /\ st \in [Threads -> {"idle", "enter", "wait", "woken", "late"}]

QueueInit ==
  /\ size = 0 /\ closed = FALSE
  /\ op = [t \in Threads |-> "push"]
  /\ st = [t \in Threads |-> "idle"]

Full == size >= MaxSize
Empty == size = 0

(* A thread that has the mutex before the predicate is evaluated. *)
Locks(t) == st[t] \in {"enter", "woken", "late"}

(* Threads that wait on cv_not_full_ and on cv_not_empty_. *)
PushWaiting == {t \in Threads : op[t] \in PushOps /\ st[t] = "wait"}
PopWaiting == {t \in Threads : op[t] \in PopOps /\ st[t] = "wait"}

Goto(t, s) == st' = [st EXCEPT ![t] = s]

(* The call of t returns, after notify_one on waiters W, or notify_all. *)
ReturnNotifyOne(t, W) ==
  IF W = {} THEN Goto(t, "idle")
  ELSE \E w \in W : st' = [st EXCEPT ![t] = "idle", ![w] = "woken"]
NotifyAll(W) == st' = [t \in Threads |-> IF t \in W THEN "woken" ELSE st[t]]

Call(t) ==
  /\ st[t] = "idle"
  /\ \E o \in PushOps \cup PopOps : op' = [op EXCEPT ![t] = o]
  /\ Goto(t, "enter")
  /\ UNCHANGED <<size, closed>>

-----------------------------------------------------------------------------
(* Push and TryPush. *)

(* Mutant: no thread is notified. *)
PushAcceptsSilently(t) ==
  /\ op[t] \in PushOps /\ Locks(t)
  /\ ~Full /\ ~closed
  /\ size' = size + 1
  /\ Goto(t, "idle")
  /\ UNCHANGED <<closed, op>>

PushAccepts(t) ==
  /\ op[t] \in PushOps /\ Locks(t)
  /\ ~Full /\ ~closed
  /\ size' = size + 1
  /\ ReturnNotifyOne(t, PopWaiting)
  /\ UNCHANGED <<closed, op>>

PushRefused(t) ==
  /\ op[t] \in PushOps /\ Locks(t)
  /\ closed
  /\ Goto(t, "idle")
  /\ UNCHANGED <<size, closed, op>>

PushWaits(t) ==
  /\ op[t] \in PushOps /\ st[t] \in {"enter", "woken"}
  /\ Full /\ ~closed
  /\ Goto(t, "wait")
  /\ UNCHANGED <<size, closed, op>>

PushTimesOut(t) ==
  /\ op[t] \in PushOps /\ st[t] = "late"
  /\ Full /\ ~closed
  /\ Goto(t, "idle")
  /\ UNCHANGED <<size, closed, op>>

-----------------------------------------------------------------------------
(* Pop and TryPop. *)

(* A closed queue still gives out what it holds. *)
PopTakes(t) ==
  /\ op[t] \in PopOps /\ Locks(t)
  /\ ~Empty
  /\ size' = size - 1
  /\ ReturnNotifyOne(t, PushWaiting)
  /\ UNCHANGED <<closed, op>>

(* Mutant: the predicate of the wait does not look at closed_. *)
PopClosedWaits(t) ==
  /\ op[t] \in PopOps /\ Locks(t)
  /\ Empty /\ closed
  /\ Goto(t, "wait")
  /\ UNCHANGED <<size, closed, op>>

PopClosed(t) ==
  /\ op[t] \in PopOps /\ Locks(t)
  /\ Empty /\ closed
  /\ Goto(t, "idle")
  /\ UNCHANGED <<size, closed, op>>

PopWaits(t) ==
  /\ op[t] \in PopOps /\ st[t] \in {"enter", "woken"}
  /\ Empty /\ ~closed
  /\ Goto(t, "wait")
  /\ UNCHANGED <<size, closed, op>>

PopTimesOut(t) ==
  /\ op[t] \in PopOps /\ st[t] = "late"
  /\ Empty /\ ~closed
  /\ Goto(t, "idle")
  /\ UNCHANGED <<size, closed, op>>

-----------------------------------------------------------------------------
(* The end of a wait that nobody notified: a spurious wake-up, or the time *)
(* of wait_for, counted from its start, is up.                             *)
SpuriousWake(t) ==
  /\ st[t] = "wait"
  /\ Goto(t, "woken")
  /\ UNCHANGED <<size, closed, op>>

(* Mutant: the time is counted anew after each wake-up. *)
TimeoutRestarts(t) ==
  /\ st[t] = "wait" /\ op[t] \in TimedOps
  /\ Goto(t, "woken")
  /\ UNCHANGED <<size, closed, op>>

Timeout(t) ==
  /\ st[t] = "wait" /\ op[t] \in TimedOps
  /\ Goto(t, "late")
  /\ UNCHANGED <<size, closed, op>>

(* Mutant: only the threads that wait for an item are notified. *)
ClosePopOnly ==
  /\ closed' = TRUE
  /\ NotifyAll(PopWaiting)
  /\ UNCHANGED <<size, op>>

Close ==
  /\ closed' = TRUE
  /\ NotifyAll(PopWaiting \cup PushWaiting)
  /\ UNCHANGED <<size, op>>

Clear ==
  /\ size' = 0
  /\ NotifyAll(PushWaiting)
  /\ UNCHANGED <<closed, op>>

-----------------------------------------------------------------------------
Push(t) == PushAccepts(t) \/ PushRefused(t) \/ PushWaits(t) \/ PushTimesOut(t)
Pop(t) == PopTakes(t) \/ PopClosed(t) \/ PopWaits(t) \/ PopTimesOut(t)

QueueNext ==
  \/ \E t \in Threads :
       Call(t) \/ Push(t) \/ Pop(t) \/ SpuriousWake(t) \/ Timeout(t)
  \/ Close \/ Clear

QueueSpec == QueueInit /\ [][QueueNext]_queueVars

PushWoken == {t \in Threads : op[t] \in PushOps /\ st[t] = "woken"}
PopWoken == {t \in Threads : op[t] \in PopOps /\ st[t] = "woken"}

(* No wake-up is lost: while a thread sleeps in Pop, as many others have   *)
(* been woken as there are items, and while one sleeps in Push, as many as *)
(* there are free places.  One notify_one per item is enough although a    *)
(* thread that never waited may take the item first, timed waits end by    *)
(* themselves and Clear frees many places at once.                         *)
WakeupsSuffice ==
  ~closed =>
    /\ PopWaiting # {} => size <= Cardinality(PopWoken)
    /\ PushWaiting # {} => MaxSize - size <= Cardinality(PushWoken)

(* Nobody sleeps on a closed queue. *)
NobodySleepsClosed == closed => \A t \in Threads : st[t] # "wait"

-----------------------------------------------------------------------------
(* A thread that can have the mutex gets it, and time passes: the deadline *)
(* of a timed wait does not move, however often the thread is woken.       *)
QueueFairness ==
  \A t \in Threads :
    /\ WF_queueVars(Push(t)) /\ WF_queueVars(Pop(t))
    /\ SF_queueVars(Timeout(t))

QueueFairSpec == QueueSpec /\ QueueFairness

(* Close releases every thread that is in a call, a blocked one included.  *)
CloseReleases ==
  \A t \in Threads : (closed /\ st[t] # "idle") ~> (st[t] = "idle")

(* TryPush and TryPop return, whatever the other threads do.               *)
TimedCallsReturn ==
  \A t \in Threads :
    (op[t] \in TimedOps /\ st[t] # "idle") ~> (st[t] = "idle")
=============================================================================
