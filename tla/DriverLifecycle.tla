-------------------------- MODULE DriverLifecycle --------------------------
(***************************************************************************)
(* DriverEntry and KarmorUnload of Karmor.cpp, the set-up and teardown of  *)
(* instances by Filter.cpp and Context.cpp, and the rule table of          *)
(* Globals.cpp and Rule.cpp under the device control requests that change  *)
(* it.  InsertRule and RemoveRule hold m_Lock; LookupRule takes no lock,   *)
(* and a request that has added a rule looks it up after InsertRule has    *)
(* released it.  The device can be opened only once DriverEntry has        *)
(* succeeded, and the driver is unloaded when no request is in progress.   *)
(***************************************************************************)
EXTENDS Integers, Sequences, FiniteSets, SequencesExt

CONSTANTS
  Requesters,   \* threads that send device control requests
  Volumes,      \* volumes the filter may attach to
  Paths,        \* paths of rules
  Blocks,       \* pool memory for rule entries
  NumBuckets,   \* NUM_BUCKETS
  HashIndex,    \* HashPath modulo NUM_BUCKETS
  MaxRequests,  \* bound on the requests
  None          \* the head of a list, an unlocked m_Lock, no path

ASSUME DriverAssumption ==
  /\ IsFiniteSet(Requesters) /\ IsFiniteSet(Blocks)
  /\ NumBuckets \in Nat \ {0} /\ MaxRequests \in Nat
  /\ HashIndex \in [Paths -> 0..NumBuckets-1]
  /\ None \notin Blocks \cup Requesters \cup Paths

(* Audit stands for Block too: the table tells only Allow apart. *)
RuleActions == {"Audit", "Allow"}
Buckets == 0..NumBuckets-1

VARIABLES
  entry,        \* how far DriverEntry or the unloading is
  held,         \* what the driver has registered or allocated
  symLinkCreated, notifyRegistered,  \* g_SymLinkCreated, g_ProcessNotifyRegistered
  instance,     \* the instance on each volume
  instRefs,     \* references to its InstanceContext
  table,        \* m_Table: the rule entries of each bucket
  live, rule,   \* rule entries allocated, and what is in them
  whitelist,    \* m_ProcessWhitelist
  lock,         \* the holder of m_Lock
  req,          \* the request of each thread
  requests,     \* requests sent, for the bound
  misread       \* history: a freed entry was read with another action

entryVars == <<entry, held, symLinkCreated, notifyRegistered>>
instVars == <<instance, instRefs>>
ruleVars == <<table, live, rule, whitelist, misread>>
reqVars == <<lock, req, requests>>
vars == <<entryVars, instVars, ruleVars, reqVars>>

NoRequest == [pc |-> "idle", path |-> None, action |-> "Audit", at |-> None]

Init ==
  /\ entry = "filter" /\ held = {}
  /\ symLinkCreated = FALSE /\ notifyRegistered = FALSE
  /\ instance = [v \in Volumes |-> "none"]
  /\ instRefs = [v \in Volumes |-> 0]
  /\ table = [i \in Buckets |-> << >>]
  /\ live = {} /\ rule \in [Blocks -> {[path |-> None, action |-> "Audit"]}]
  /\ whitelist = 0 /\ lock = None
  /\ req = [t \in Requesters |-> NoRequest]
  /\ requests = 0 /\ misread = FALSE

----------------------------------------------------------------------------
(* DriverEntry *)

FilterUnregistered ==
  /\ instance' = [v \in Volumes |-> IF instance[v] = "attached" THEN "detached" ELSE instance[v]]
  /\ instRefs' = [v \in Volumes |-> IF instance[v] = "attached" THEN instRefs[v] - 1
                                    ELSE instRefs[v]]

InstancesSettled ==
  \A v \in Volumes : instance[v] \in {"none", "attached", "noContext", "refused", "detached"}

(* RegisterFilter: FltRegisterFilter, the communication port,              *)
(* FltStartFiltering, the dispatcher.                                      *)
RegisterFilter ==
  /\ entry = "filter"
  /\ \/ entry' = "port" /\ held' = held \cup {"filter"}
     \/ entry' = "failed" /\ UNCHANGED held
  /\ UNCHANGED <<symLinkCreated, notifyRegistered, instVars, ruleVars, reqVars>>

RegisterPort ==
  /\ entry = "port"
  /\ \/ entry' = "start" /\ held' = held \cup {"port"}
     \/ entry' = "failed" /\ held' = held \ {"filter"}
  /\ UNCHANGED <<symLinkCreated, notifyRegistered, instVars, ruleVars, reqVars>>

RegisterStart ==
  /\ entry = "start"
  /\ \/ entry' = "dispatcher" /\ UNCHANGED held
     \/ entry' = "failed" /\ held' = held \ {"filter", "port"}
  /\ UNCHANGED <<symLinkCreated, notifyRegistered, instVars, ruleVars, reqVars>>

RegisterDispatcher ==
  /\ entry = "dispatcher"
  /\ \/ entry' = "etw" /\ held' = held \cup {"dispatcher"} /\ UNCHANGED <<instance, instRefs>>
     \/ /\ InstancesSettled
        /\ entry' = "failed" /\ held' = held \ {"filter", "port"}
        /\ FilterUnregistered
  /\ UNCHANGED <<symLinkCreated, notifyRegistered, ruleVars, reqVars>>

(* Nothing is undone when the ETW provider cannot be registered. *)
EntryETW ==
  /\ entry = "etw"
  /\ \/ entry' = "device" /\ held' = held \cup {"etw"}
     \/ entry' = "failed" /\ UNCHANGED held
  /\ UNCHANGED <<symLinkCreated, notifyRegistered, instVars, ruleVars, reqVars>>

EntryDevice ==
  /\ entry = "device"
  /\ \/ entry' = "link" /\ held' = held \cup {"device"}
     \/ entry' = "undo" /\ UNCHANGED held
  /\ UNCHANGED <<symLinkCreated, notifyRegistered, instVars, ruleVars, reqVars>>

EntryLink ==
  /\ entry = "link"
  /\ \/ entry' = "notify" /\ held' = held \cup {"link"} /\ symLinkCreated' = TRUE
     \/ entry' = "undo" /\ UNCHANGED <<held, symLinkCreated>>
  /\ UNCHANGED <<notifyRegistered, instVars, ruleVars, reqVars>>

EntryNotify ==
  /\ entry = "notify"
  /\ \/ entry' = "init" /\ held' = held \cup {"notify"} /\ notifyRegistered' = TRUE
     \/ entry' = "undo" /\ UNCHANGED <<held, notifyRegistered>>
  /\ UNCHANGED <<symLinkCreated, instVars, ruleVars, reqVars>>

(* Mutant: the symbolic link survives the failure. *)
UndoKeepsLink ==
  /\ entry = "undo" /\ entry' = "init"
  /\ held' = held \ {"device"}
  /\ UNCHANGED <<symLinkCreated, notifyRegistered, instVars, ruleVars, reqVars>>

(* The failure is undone and then forgotten: Init decides the status. *)
EntryUndo ==
  /\ entry = "undo" /\ entry' = "init"
  /\ held' = held \ (   (IF notifyRegistered THEN {"notify"} ELSE {})
                   \cup (IF symLinkCreated THEN {"link"} ELSE {}) \cup {"device"})
  /\ symLinkCreated' = FALSE /\ notifyRegistered' = FALSE
  /\ UNCHANGED <<instVars, ruleVars, reqVars>>

EntryInit ==
  /\ entry = "init"
  /\ \/ entry' = "up" /\ held' = held \cup {"table"}
     \/ entry' = "failed" /\ UNCHANGED held
  /\ UNCHANGED <<symLinkCreated, notifyRegistered, instVars, ruleVars, reqVars>>

DriverEntry ==
  \/ RegisterFilter \/ RegisterPort \/ RegisterStart \/ RegisterDispatcher
  \/ EntryETW \/ EntryDevice \/ EntryLink \/ EntryNotify
  \/ EntryUndo \/ EntryInit

----------------------------------------------------------------------------
(* Instances *)

(* InitializeInstanceContext always succeeds: what it cannot find out about *)
(* the volume is left unknown.                                             *)
InstanceAllocate(v) ==
  /\ instance[v] = "none" /\ "filter" \in held
  /\ entry \notin {"port", "start", "failed"}
  /\ \/ /\ instance' = [instance EXCEPT ![v] = "allocated"]
        /\ instRefs' = [instRefs EXCEPT ![v] = 1]
     \/ /\ instance' = [instance EXCEPT ![v] = "noContext"]
        /\ UNCHANGED instRefs
  /\ UNCHANGED <<entryVars, ruleVars, reqVars>>

InstanceSet(v) ==
  /\ instance[v] = "allocated"
  /\ instance' = [instance EXCEPT ![v] = "set"]
  /\ instRefs' = [instRefs EXCEPT ![v] = @ + 1]
  /\ UNCHANGED <<entryVars, ruleVars, reqVars>>

InstanceSetFails(v) ==
  /\ instance[v] = "allocated"
  /\ instance' = [instance EXCEPT ![v] = "notSet"]
  /\ instRefs' = [instRefs EXCEPT ![v] = @ - 1]
  /\ UNCHANGED <<entryVars, ruleVars, reqVars>>

(* The __finally block, after the release of the failing path too. *)
InstanceFinally(v) ==
  /\ instance[v] \in {"set", "notSet"}
  /\ instance' = [instance EXCEPT ![v] = IF @ = "set" THEN "attached" ELSE "refused"]
  /\ instRefs' = [instRefs EXCEPT ![v] = @ - 1]
  /\ UNCHANGED <<entryVars, ruleVars, reqVars>>

(* A volume is dismounted: the teardown callbacks give back what they get, *)
(* and the filter manager drops the context.                               *)
InstanceTeardown(v) ==
  /\ instance[v] = "attached"
  /\ instance' = [instance EXCEPT ![v] = "detached"]
  /\ instRefs' = [instRefs EXCEPT ![v] = @ - 1]
  /\ UNCHANGED <<entryVars, ruleVars, reqVars>>

Instance(v) ==
  \/ InstanceAllocate(v) \/ InstanceSet(v) \/ InstanceSetFails(v)
  \/ InstanceFinally(v) \/ InstanceTeardown(v)

----------------------------------------------------------------------------
(* KarmorDeviceControl *)

Go(t, pc) == req' = [req EXCEPT ![t].pc = pc]
Complete(t) == req' = [req EXCEPT ![t] = NoRequest]

(* Requests that are too short or have another code are completed at once. *)
AddRule(t, path, action) ==
  /\ entry = "up" /\ "device" \in held /\ req[t] = NoRequest /\ requests < MaxRequests
  /\ requests' = requests + 1
  /\ req' = [req EXCEPT ![t] = [NoRequest EXCEPT !.pc = "insert", !.path = path,
                                                !.action = action]]
  /\ UNCHANGED <<entryVars, instVars, ruleVars, lock>>

DropRule(t, path) ==
  /\ entry = "up" /\ "device" \in held /\ req[t] = NoRequest /\ requests < MaxRequests
  /\ requests' = requests + 1
  /\ req' = [req EXCEPT ![t] = [NoRequest EXCEPT !.pc = "remove", !.path = path]]
  /\ UNCHANGED <<entryVars, instVars, ruleVars, lock>>

(* Mutant: RemoveRule releases m_Lock before it searches. *)
AcquireLetsGo(t) ==
  /\ req[t].pc \in {"insert", "remove"} /\ lock = None
  /\ lock' = IF req[t].pc = "insert" THEN t ELSE None
  /\ Go(t, IF req[t].pc = "insert" THEN "allocate" ELSE "search")
  /\ UNCHANGED <<entryVars, instVars, ruleVars, requests>>

Acquire(t) ==
  /\ req[t].pc \in {"insert", "remove"} /\ lock = None
  /\ lock' = t
  /\ Go(t, IF req[t].pc = "insert" THEN "allocate" ELSE "search")
  /\ UNCHANGED <<entryVars, instVars, ruleVars, requests>>

(* AllocateRuleEntry fails and has freed what it had allocated. *)
InsertFails(t) ==
  /\ req[t].pc = "allocate"
  /\ lock' = None
  /\ Complete(t)
  /\ UNCHANGED <<entryVars, instVars, ruleVars, requests>>

InsertRule(t) ==
  /\ req[t].pc = "allocate"
  /\ \E b \in Blocks \ live :
       /\ live' = live \cup {b}
       /\ rule' = [rule EXCEPT ![b] = [path |-> req[t].path, action |-> req[t].action]]
       /\ table' = [table EXCEPT ![HashIndex[req[t].path]] = Append(@, b)]
  /\ whitelist' = IF req[t].action = "Allow" THEN whitelist + 1 ELSE whitelist
  /\ lock' = None
  /\ Go(t, "lookup")
  /\ UNCHANGED <<entryVars, instVars, misread, requests>>

Bucket(t) == table[HashIndex[req[t].path]]

Position(s, b) == CHOOSE j \in 1..Len(s) : s[j] = b

(* The entry after b in the list, None at its end.                         *)
After(s, b) ==
  LET i == IF b = None THEN 0 ELSE Position(s, b) IN
  IF i < Len(s) THEN s[i + 1] ELSE None

OnList(t) == req[t].at = None \/ req[t].at \in ToSet(Bucket(t))
Found(t) == req[t].at # None /\ rule[req[t].at].path = req[t].path
Walking(t) == req[t].pc \in {"lookup", "search"}

(* One turn of the loop of LookupRule that meets another rule. *)
LookupNext(t) ==
  /\ Walking(t) /\ OnList(t) /\ ~Found(t) /\ After(Bucket(t), req[t].at) # None
  /\ req' = [req EXCEPT ![t].at = After(Bucket(t), @)]
  /\ UNCHANGED <<entryVars, instVars, ruleVars, lock, requests>>

(* Mutant: RemoveRule returns without releasing m_Lock when it finds none. *)
LookupKeepsLock(t) ==
  /\ Walking(t) /\ OnList(t)
  /\ \/ ~Found(t) /\ After(Bucket(t), req[t].at) = None
     \/ Found(t) /\ req[t].pc = "lookup"
  /\ Complete(t)
  /\ UNCHANGED <<entryVars, instVars, ruleVars, lock, requests>>

(* LookupRule returns NULL, or the rule to the caller that just added it;  *)
(* RemoveRule, if it is the caller, then returns and releases m_Lock.      *)
LookupReturns(t) ==
  /\ Walking(t) /\ OnList(t)
  /\ \/ ~Found(t) /\ After(Bucket(t), req[t].at) = None
     \/ Found(t) /\ req[t].pc = "lookup"
  /\ lock' = IF lock = t THEN None ELSE lock
  /\ Complete(t)
  /\ UNCHANGED <<entryVars, instVars, ruleVars, requests>>

(* LookupRule stands on an entry that is not in its list any more: what it *)
(* reads there is undefined, and it may come back or not.                  *)
LookupStrays(t) ==
  /\ Walking(t) /\ ~OnList(t)
  /\ Go(t, "stray")
  /\ UNCHANGED <<entryVars, instVars, ruleVars, lock, requests>>

StrayReturns(t) ==
  /\ req[t].pc = "stray"
  /\ Complete(t)
  /\ UNCHANGED <<entryVars, instVars, ruleVars, lock, requests>>

FreeRuleEntry(b) == live' = live \ {b}

(* RemoveRule unlinks and frees the rule and then reads its action: the    *)
(* memory may hold anything by then.                                       *)
RemoveRule(t) ==
  /\ req[t].pc = "search" /\ OnList(t) /\ Found(t)
  /\ LET b == req[t].at IN
     /\ table' = [table EXCEPT ![HashIndex[req[t].path]] = RemoveAt(@, Position(@, b))]
     /\ FreeRuleEntry(b)
     /\ \E seen \in RuleActions :
          /\ whitelist' = IF seen = "Allow" /\ whitelist > 0 THEN whitelist - 1 ELSE whitelist
          /\ misread' = (misread \/ seen # rule[b].action)
  /\ lock' = None
  /\ Complete(t)
  /\ UNCHANGED <<entryVars, instVars, rule, requests>>

Step(t) ==
  \/ Acquire(t) \/ InsertFails(t) \/ InsertRule(t)
  \/ LookupNext(t) \/ LookupReturns(t) \/ LookupStrays(t) \/ RemoveRule(t)

Request(t) ==
  \/ StrayReturns(t)
  \/ \E p \in Paths : DropRule(t, p) \/ \E a \in RuleActions : AddRule(t, p, a)

----------------------------------------------------------------------------
(* Unloading: the filter manager detaches the instances in                 *)
(* FltUnregisterFilter, then KarmorUnload runs.                            *)

InstanceFilterUnload ==
  /\ entry = "up" /\ InstancesSettled
  /\ \A t \in Requesters : req[t] = NoRequest
  /\ entry' = "unloading"
  /\ held' = held \ {"dispatcher", "port", "filter"}
  /\ FilterUnregistered
  /\ UNCHANGED <<symLinkCreated, notifyRegistered, ruleVars, reqVars>>

DestroyRuleHashTable ==
  /\ table' = [i \in Buckets |-> << >>]
  /\ live' = live \ UNION {ToSet(table[i]) : i \in Buckets}

KarmorUnload ==
  /\ entry = "unloading" /\ entry' = "unloaded"
  /\ held' = held \ ((IF notifyRegistered THEN {"notify"} ELSE {})
                     \cup (IF symLinkCreated THEN {"link"} ELSE {})
                     \cup {"table", "device", "etw"})
  /\ DestroyRuleHashTable
  /\ UNCHANGED <<symLinkCreated, notifyRegistered, instVars, rule, whitelist, misread, reqVars>>

Next ==
  \/ DriverEntry
  \/ \E v \in Volumes : Instance(v)
  \/ \E t \in Requesters : Request(t) \/ Step(t)
  \/ InstanceFilterUnload \/ KarmorUnload

Spec == Init /\ [][Next]_vars

(* A request in progress is run to its end by its thread. *)
FairSpec == Spec /\ \A t \in Requesters : WF_vars(Step(t))

----------------------------------------------------------------------------
TypeOK ==
  /\ entry \in {"filter", "port", "start", "dispatcher", "etw", "device", "link", "notify", "undo", "init", "up",
                "failed", "unloading", "unloaded"}
  /\ held \subseteq {"filter", "port", "dispatcher", "etw", "device", "link", "notify", "table"}
  /\ symLinkCreated \in BOOLEAN /\ notifyRegistered \in BOOLEAN
  /\ instance \in [Volumes -> {"none", "allocated", "set", "notSet", "attached",
                               "noContext", "refused", "detached"}]
  /\ instRefs \in [Volumes -> Int]
  /\ table \in [Buckets -> Seq(Blocks)]
  /\ live \subseteq Blocks
  /\ rule \in [Blocks -> [path : Paths \cup {None}, action : RuleActions]]
  /\ whitelist \in Nat /\ lock \in Requesters \cup {None}
  /\ req \in [Requesters -> [pc : {"idle", "insert", "allocate", "lookup", "remove", "search",
                                   "stray"},
                             path : Paths \cup {None}, action : RuleActions,
                             at : Blocks \cup {None}]]
  /\ requests \in 0..MaxRequests /\ misread \in BOOLEAN

(* When DriverEntry returns success, the device, its link and the process  *)
(* callback are all there or all gone: a step that failed is undone        *)
(* completely, though its status is lost to that of g_State.Init.  When it *)
(* fails, nothing is left unless the ETW provider or the rule table is     *)
(* what failed: those two returns undo nothing.                            *)
EntryAllOrNothing ==
  LET filter == {"filter", "port", "dispatcher"}
      device == {"device", "link", "notify"} IN
  /\ entry = "up" => held \ device = filter \cup {"etw", "table"}
                     /\ held \cap device \in {{}, device}
  /\ entry = "failed" => held \in {{}, filter, filter \cup {"etw"},
                                   filter \cup {"etw"} \cup device}

(* Unloading gives everything back, after the failures DriverEntry passes  *)
(* over too: registrations, instance contexts and every rule.              *)
UnloadLeavesNothing ==
  entry = "unloaded" =>
    /\ held = {} /\ live = {}
    /\ \A v \in Volumes : instRefs[v] <= 0

(* An instance context is released as often as it is referenced, on every  *)
(* path of the set-up and the teardown but one: when FltSetInstanceContext *)
(* fails, the __finally block releases it a second time.                   *)
InstancesCounted ==
  \A v \in Volumes :
    instRefs[v] = CASE instance[v] \in {"none", "noContext", "notSet", "detached"} -> 0
                    [] instance[v] \in {"allocated", "attached"} -> 1
                    [] instance[v] = "set" -> 2
                    [] instance[v] = "refused" -> -1

(* The walk of RemoveRule stands on the list whatever the other requests   *)
(* do: it unlinks and frees an entry that is there, and no list holds a    *)
(* freed entry.  Only the LookupRule after an insertion can stray.         *)
LockedWalksAreSafe ==
  /\ \A t \in Requesters : req[t].pc = "search" => OnList(t)
  /\ \A i \in Buckets : ToSet(table[i]) \subseteq live

(* m_ProcessWhitelist counts the Allow rules, duplicates included, until   *)
(* RemoveRule has found another action in the entry it had freed.          *)
WhitelistExact ==
  entry = "up" /\ ~misread => whitelist = Cardinality({b \in live : rule[b].action = "Allow"})

(* Every device control request is completed, unless another request has   *)
(* freed the entry its LookupRule stood on: RemoveRule searches with       *)
(* m_Lock held, which LookupRule must therefore not take.                  *)
RequestsReturn ==
  \A t \in Requesters : req[t].pc # "idle" ~> req[t].pc \in {"idle", "stray"}

(* What the driver registers and allocates is given back: by a DriverEntry *)
(* that fails, by unloading, and by the set-up and teardown of instances,  *)
(* on every path but the ones the three parts name.                        *)
LifecycleClean == EntryAllOrNothing /\ UnloadLeavesNothing /\ InstancesCounted

(* The rule table is consistent under parallel requests: well typed, no    *)
(* freed entry on a list or under RemoveRule, and a right count of Allow   *)
(* rules until a freed entry was misread.                                  *)
RulesConsistent == TypeOK /\ LockedWalksAreSafe /\ WhitelistExact
=============================================================================
