---------------------- MODULE DriverLifecycle_proofs ----------------------
(***************************************************************************)
(* What the driver registers is given back, and its rule table stays       *)
(* consistent, for any number of requests, volumes, paths and buckets.     *)
(* The inductive invariant says what each stage of DriverEntry and of the  *)
(* unloading holds (Stages), that every rule is on the list of its own     *)
(* bucket and only once (Listed), and who is inside m_Lock (Locking).      *)
(***************************************************************************)
EXTENDS DriverLifecycle, FiniteSetTheorems, FunctionTheorems, SequenceTheorems, TLAPS

FilterParts == {"filter", "port", "dispatcher"}
DeviceParts == {"device", "link", "notify"}
AllParts == FilterParts \cup DeviceParts \cup {"etw", "table"}

(* What is held at each stage of DriverEntry and of the unloading. *)
Stages ==
  /\ entry = "filter" => held = {}
  /\ entry = "port" => held = {"filter"}
  /\ entry \in {"start", "dispatcher"} => held = {"filter", "port"}
  /\ entry = "etw" => held = FilterParts
  /\ entry = "device" => held = FilterParts \cup {"etw"}
  /\ entry = "link" => held = FilterParts \cup {"etw", "device"}
  /\ entry = "notify" => held = FilterParts \cup {"etw", "device", "link"}
  /\ entry = "undo" => held \ DeviceParts = FilterParts \cup {"etw"}
  /\ entry = "init" => held \in {FilterParts \cup {"etw"},
                                 FilterParts \cup {"etw"} \cup DeviceParts}
  /\ entry = "unloading" => held \in {{"etw", "table"}, {"etw", "table"} \cup DeviceParts}
  /\ entry = "unloaded" => held = {}

(* g_SymLinkCreated and g_ProcessNotifyRegistered tell what is registered, *)
(* until the driver is gone.                                               *)
Flags ==
  entry # "unloaded" =>
    /\ symLinkCreated <=> "link" \in held
    /\ notifyRegistered <=> "notify" \in held

(* No instance is left when the filter has been unregistered. *)
Detached ==
  entry \in {"unloading", "unloaded"} =>
    \A v \in Volumes : instance[v] \in {"none", "noContext", "refused", "detached"}

(* Requests come in only while the driver is up, have a path, and search    *)
(* from the head of the list.                                              *)
Requesting ==
  /\ entry # "up" => \A t \in Requesters : req[t] = NoRequest
  /\ \A t \in Requesters :
       /\ req[t].pc # "idle" => req[t].path \in Paths
       /\ req[t].pc \in {"insert", "remove"} => req[t].at = None

(* m_Lock is held by the request that inserts or that searches to remove. *)
Locking ==
  \A t \in Requesters : req[t].pc \in {"allocate", "search"} <=> lock = t

(* Every rule is on the list of its bucket, once, and on no other list. *)
Listed ==
  /\ \A i \in Buckets : \A m \in 1..Len(table[i]) :
       /\ table[i][m] \in live
       /\ rule[table[i][m]].path \in Paths
       /\ HashIndex[rule[table[i][m]].path] = i
  /\ \A i \in Buckets : \A m, n \in 1..Len(table[i]) : table[i][m] = table[i][n] => m = n
  /\ \A b \in live : \E i \in Buckets : \E m \in 1..Len(table[i]) : table[i][m] = b
  /\ entry = "unloaded" => live = {}

(* The walk of RemoveRule stands on an entry of the list. *)
OnTheWalk ==
  \A t \in Requesters : req[t].pc = "search" /\ req[t].at # None =>
    \E m \in 1..Len(Bucket(t)) : Bucket(t)[m] = req[t].at

AllowRules == {b \in live : rule[b].action = "Allow"}
Counted == entry # "unloaded" /\ ~misread => whitelist = Cardinality(AllowRules)

EntryInv == Stages /\ Flags /\ EntryAllOrNothing
InstInv == Detached /\ InstancesCounted
RuleInv == Requesting /\ Locking /\ Listed /\ OnTheWalk /\ Counted
Inv == TypeOK /\ EntryInv /\ InstInv /\ RuleInv

---------------------------------------------------------------------------
Distinct(s) == \A m, n \in 1..Len(s) : s[m] = s[n] => m = n

(* r has the entries of s but b. *)
Without(r, s, b) ==
  /\ \A m \in 1..Len(r) : r[m] # b /\ \E n \in 1..Len(s) : s[n] = r[m]
  /\ \A n \in 1..Len(s) : s[n] # b => \E m \in 1..Len(r) : r[m] = s[n]

(* RemoveEntryList takes b off the list and leaves the other entries. *)
LEMMA Unlinking ==
  ASSUME NEW S, NEW s \in Seq(S), NEW b, NEW k \in 1..Len(s), s[k] = b, Distinct(s)
  PROVE  /\ RemoveAt(s, Position(s, b)) \in Seq(S)
         /\ Without(RemoveAt(s, Position(s, b)), s, b)
         /\ Distinct(RemoveAt(s, Position(s, b)))
<1> DEFINE front == SubSeq(s, 1, k - 1)
           back == SubSeq(s, k + 1, Len(s))
           r == RemoveAt(s, Position(s, b))
<1>0. Len(s) \in Nat /\ k \in Nat /\ k >= 1 /\ k <= Len(s)
  OBVIOUS
<1>1. Position(s, b) = k
  BY <1>0 DEF Position, Distinct
<1>2. r = front \o back
  BY <1>1 DEF RemoveAt
<1>3. /\ front \in Seq(S) /\ Len(front) = k - 1
      /\ \A m \in 1..k-1 : front[m] = s[m]
  BY <1>0, SubSeqProperties
<1>4. /\ back \in Seq(S) /\ Len(back) = Len(s) - k
      /\ \A m \in 1..Len(s)-k : back[m] = s[k + m]
  <2>1. k + 1 \in 1..Len(s)+1 /\ Len(s) \in k..Len(s)
    BY <1>0
  <2>2. \A m \in 1..Len(s)-k : back[m] = s[k + 1 + m - 1]
    BY <1>0, <2>1, SubSeqProperties
  <2> QED  BY <1>0, <2>1, <2>2, SubSeqProperties
<1> HIDE DEF front, back, r
<1>5. /\ r \in Seq(S) /\ Len(r) = Len(s) - 1
      /\ \A m \in 1..Len(s)-1 : r[m] = IF m <= k - 1 THEN front[m] ELSE back[m - (k - 1)]
  <2>1. /\ r \in Seq(S) /\ Len(r) = Len(front) + Len(back)
        /\ \A m \in 1..Len(front)+Len(back) :
             r[m] = IF m <= Len(front) THEN front[m] ELSE back[m - Len(front)]
    <3>1. front \in Seq(S) /\ back \in Seq(S)
      BY <1>3, <1>4
    <3>2. /\ front \o back \in Seq(S)
          /\ Len(front \o back) = Len(front) + Len(back)
          /\ \A m \in 1..Len(front)+Len(back) :
               (front \o back)[m] = IF m <= Len(front) THEN front[m] ELSE back[m - Len(front)]
      BY <3>1, ConcatProperties
    <3> QED  BY <1>2, <3>2, Zenon
  <2>2. Len(front) \in Nat /\ Len(back) \in Nat /\ Len(front) + Len(back) = Len(s) - 1
    BY <1>0, <1>3, <1>4
  <2> QED  BY <1>3, <2>1, <2>2
<1>6. \A m \in 1..Len(r) : r[m] = IF m < k THEN s[m] ELSE s[m + 1]
  <2> SUFFICES ASSUME NEW m \in 1..Len(s)-1
               PROVE  r[m] = IF m < k THEN s[m] ELSE s[m + 1]
    BY <1>5
  <2>1. CASE m < k
    BY <2>1, <1>0, <1>3, <1>5
  <2>2. CASE m >= k
    <3>1. m - (k - 1) \in 1..Len(s)-k /\ k + (m - (k - 1)) = m + 1
      BY <2>2, <1>0
    <3>2. m \in 1..Len(s)-1 /\ ~(m <= k - 1) /\ ~(m < k)
      BY <2>2, <1>0
    <3>3. r[m] = back[m - (k - 1)]
      BY <3>2, <1>5
    <3>4. back[m - (k - 1)] = s[k + (m - (k - 1))]
      BY <3>1, <1>4
    <3> QED  BY <3>1, <3>2, <3>3, <3>4
  <2> QED  BY <2>1, <2>2, <1>0
<1>7. \A m \in 1..Len(r) : r[m] # b /\ \E n \in 1..Len(s) : s[n] = r[m]
  BY <1>0, <1>5, <1>6 DEF Distinct
<1>8. \A n \in 1..Len(s) : s[n] # b => \E m \in 1..Len(r) : r[m] = s[n]
  <2> SUFFICES ASSUME NEW n \in 1..Len(s), s[n] # b
               PROVE  \E m \in 1..Len(r) : r[m] = s[n]
    OBVIOUS
  <2>1. CASE n < k
    BY <2>1, <1>0, <1>5, <1>6
  <2>2. CASE n > k
    <3>1. n - 1 \in 1..Len(r) /\ ~(n - 1 < k) /\ (n - 1) + 1 = n
      BY <2>2, <1>0, <1>5
    <3> QED  BY <3>1, <1>6
  <2> QED  BY <2>1, <2>2, <1>0
<1>9. Distinct(r)
  BY <1>0, <1>5, <1>6 DEF Distinct
<1>10. Without(r, s, b)
  BY <1>7, <1>8 DEF Without
<1> QED
  BY <1>5, <1>9, <1>10 DEF r

(* The next entry of a list is on the list. *)
LEMMA Following ==
  ASSUME NEW S, NEW s \in Seq(S), NEW b, After(s, b) # None,
         b = None \/ \E m \in 1..Len(s) : s[m] = b
  PROVE  \E m \in 1..Len(s) : s[m] = After(s, b)
<1>1. CASE b = None
  BY <1>1 DEF After
<1>2. CASE b # None
  <2>1. Position(s, b) \in 1..Len(s)
    BY <1>2 DEF Position
  <2> QED  BY <1>2, <2>1 DEF After
<1> QED  BY <1>1, <1>2

(* The driver starts with nothing. *)
LEMMA InitInv == Init => Inv
<1> SUFFICES ASSUME Init PROVE Inv  OBVIOUS
<1>1. \A i \in Buckets : table[i] = << >> /\ Len(table[i]) = 0
  BY DEF Init
<1>2. TypeOK
  <2>1. \A i \in Buckets : table[i] \in Seq(Blocks)
    <3>1. << >> \in Seq(Blocks)
      OBVIOUS
    <3> QED  BY <1>1, <3>1, Zenon
  <2>2. symLinkCreated \in BOOLEAN /\ notifyRegistered \in BOOLEAN /\ misread \in BOOLEAN
    BY Zenon DEF Init
  <2>3. rule \in [Blocks -> [path : Paths \cup {None}, action : RuleActions]]
    BY DEF Init, RuleActions
  <2> QED  BY <2>1, <2>2, <2>3, DriverAssumption DEF Init, TypeOK, NoRequest, RuleActions
<1>3. EntryInv
  <2>1. entry = "filter" /\ held = {}
    BY DEF Init
  <2>2. Flags
    <3>1. symLinkCreated = FALSE /\ notifyRegistered = FALSE
      BY DEF Init
    <3> QED  BY <2>1, <3>1 DEF Flags
  <2>3. Stages /\ EntryAllOrNothing
    BY <2>1 DEF Stages, EntryAllOrNothing
  <2> QED  BY <2>2, <2>3 DEF EntryInv
<1>4. InstInv
  BY DEF Init, InstInv, Detached, InstancesCounted
<1>5. Requesting /\ Locking /\ OnTheWalk
  BY DriverAssumption DEF Init, Requesting, Locking, OnTheWalk, NoRequest
<1>6. Listed
  BY <1>1 DEF Init, Listed
<1>7. Counted
  <2>1. AllowRules = {}
    BY DEF Init, AllowRules
  <2> QED  BY <2>1, FS_EmptySet DEF Init, Counted
<1> QED  BY <1>2, <1>3, <1>4, <1>5, <1>6, <1>7 DEF Inv, RuleInv

---------------------------------------------------------------------------
(* A step that leaves the rules and the requests alone keeps them sound.   *)
LEMMA RulesKept ==
  ASSUME Inv, UNCHANGED <<ruleVars, reqVars>>, entry' # "unloaded",
         entry' = entry \/ \A t \in Requesters : req[t] = NoRequest,
         entry # "unloaded"
  PROVE  RuleInv'
<1> USE DEF Inv, RuleInv, ruleVars, reqVars
<1>1. Requesting' /\ Locking' /\ OnTheWalk'
  BY DriverAssumption DEF Requesting, Locking, OnTheWalk, Bucket, NoRequest
<1>2. Listed'
  BY DEF Listed
<1>3. Counted'
  BY DEF Counted, AllowRules
<1> QED  BY <1>1, <1>2, <1>3

(* The type of the rules and the requests does not change with them. *)
LEMMA TypeKept ==
  ASSUME TypeOK, UNCHANGED <<ruleVars, reqVars>>,
         entry' \in {"filter", "port", "start", "dispatcher", "etw", "device", "link", "notify",
                     "undo", "init", "up", "failed", "unloading", "unloaded"},
         held' \subseteq AllParts,
         symLinkCreated' \in BOOLEAN, notifyRegistered' \in BOOLEAN,
         instance' \in [Volumes -> {"none", "allocated", "set", "notSet", "attached",
                                    "noContext", "refused", "detached"}],
         instRefs' \in [Volumes -> Int]
  PROVE  TypeOK'
<1> USE DEF TypeOK, ruleVars, reqVars
<1>1. held' \subseteq {"filter", "port", "dispatcher", "etw", "device", "link", "notify", "table"}
  BY DEF AllParts, FilterParts, DeviceParts
<1>2. misread' \in BOOLEAN
  BY Zenon
<1>3. live' \subseteq Blocks /\ whitelist' \in Nat /\ lock' \in Requesters \cup {None}
      /\ requests' \in 0..MaxRequests
  BY Zenon
<1>4. table' \in [Buckets -> Seq(Blocks)] /\ rule' \in [Blocks -> [path : Paths \cup {None}, action : RuleActions]]
  BY Zenon
<1>5. req' \in [Requesters -> [pc : {"idle", "insert", "allocate", "lookup", "remove", "search",
                                   "stray"},
                             path : Paths \cup {None}, action : RuleActions,
                             at : Blocks \cup {None}]]
  BY Zenon
<1> QED  BY <1>1, <1>2, <1>3, <1>4, <1>5, Zenon

(* Unregistering the filter detaches every instance and drops its context. *)
LEMMA Unregistered ==
  ASSUME TypeOK, InstancesCounted, InstancesSettled, FilterUnregistered
  PROVE  /\ InstancesCounted'
         /\ instance' \in [Volumes -> {"none", "allocated", "set", "notSet", "attached",
                                       "noContext", "refused", "detached"}]
         /\ instRefs' \in [Volumes -> Int]
         /\ \A v \in Volumes : instance'[v] \in {"none", "noContext", "refused", "detached"}
<1> USE DEF TypeOK, InstancesCounted, InstancesSettled, FilterUnregistered
<1>1. \A v \in Volumes : instance'[v] = IF instance[v] = "attached" THEN "detached" ELSE instance[v]
  OBVIOUS
<1>2. \A v \in Volumes : instRefs'[v] = IF instance[v] = "attached" THEN instRefs[v] - 1 ELSE instRefs[v]
  OBVIOUS
<1>3. \A v \in Volumes : instRefs[v] \in Int
  OBVIOUS
<1> QED  BY <1>1, <1>2, <1>3

(* Every stage of DriverEntry, and every failure in it, keeps the          *)
(* invariant.                                                              *)
LEMMA EntryStep == Inv /\ DriverEntry => Inv'
<1> SUFFICES ASSUME Inv, DriverEntry PROVE Inv'  OBVIOUS
<1>1. UNCHANGED <<ruleVars, reqVars>> /\ entry' # "unloaded" /\ entry # "unloaded" /\ entry # "up"
      /\ entry \notin {"unloading", "unloaded"} /\ entry' \notin {"unloading", "unloaded"}
      /\ entry' \in {"filter", "port", "start", "dispatcher", "etw", "device", "link", "notify",
                     "undo", "init", "up", "failed", "unloading", "unloaded"}
  BY DEF DriverEntry, RegisterFilter, RegisterPort, RegisterStart, RegisterDispatcher,
         EntryETW, EntryDevice, EntryLink, EntryNotify, EntryUndo, EntryInit
<1>2. held \subseteq AllParts
  BY DEF Inv, TypeOK, AllParts, FilterParts, DeviceParts
<1>3. /\ symLinkCreated' \in BOOLEAN /\ notifyRegistered' \in BOOLEAN
      /\ held' \subseteq AllParts
  <2>1. symLinkCreated' \in {symLinkCreated, TRUE, FALSE} /\ notifyRegistered' \in {notifyRegistered, TRUE, FALSE}
    BY Zenon DEF DriverEntry, RegisterFilter, RegisterPort, RegisterStart, RegisterDispatcher,
         EntryETW, EntryDevice, EntryLink, EntryNotify, EntryUndo, EntryInit
  <2>2. symLinkCreated \in BOOLEAN /\ notifyRegistered \in BOOLEAN
    BY DEF Inv, TypeOK
  <2>3. held' \subseteq AllParts
    BY <1>2 DEF DriverEntry, RegisterFilter, RegisterPort, RegisterStart, RegisterDispatcher,
         EntryETW, EntryDevice, EntryLink, EntryNotify, EntryUndo, EntryInit,
         AllParts, FilterParts, DeviceParts
  <2> QED  BY <2>1, <2>2, <2>3, Zenon
<1>4. RuleInv'
  BY <1>1, RulesKept DEF Inv, RuleInv, Requesting
<1>5. /\ InstancesCounted'
      /\ instance' \in [Volumes -> {"none", "allocated", "set", "notSet", "attached",
                                    "noContext", "refused", "detached"}]
      /\ instRefs' \in [Volumes -> Int]
  <2>1. CASE InstancesSettled /\ FilterUnregistered
    BY <2>1, Unregistered DEF Inv, InstInv
  <2>2. CASE UNCHANGED <<instance, instRefs>>
    BY <2>2 DEF Inv, InstInv, TypeOK, InstancesCounted
  <2> QED  BY <2>1, <2>2 DEF DriverEntry, RegisterFilter, RegisterPort, RegisterStart,
         RegisterDispatcher, EntryETW, EntryDevice, EntryLink, EntryNotify, EntryUndo, EntryInit,
         instVars
<1>6. TypeOK'
  BY <1>1, <1>3, <1>5, TypeKept DEF Inv
<1>7. InstInv'
  BY <1>1, <1>5 DEF InstInv, Detached
<1>8. EntryInv'
  <2> USE DEF Inv, EntryInv, Stages, Flags, EntryAllOrNothing, FilterParts, DeviceParts
  <2>1. CASE RegisterFilter  BY <2>1 DEF RegisterFilter
  <2>2. CASE RegisterPort  BY <2>2 DEF RegisterPort
  <2>3. CASE RegisterStart  BY <2>3 DEF RegisterStart
  <2>4. CASE RegisterDispatcher  BY <2>4 DEF RegisterDispatcher
  <2>5. CASE EntryETW  BY <2>5 DEF EntryETW
  <2>6. CASE EntryDevice  BY <2>6 DEF EntryDevice
  <2>7. CASE EntryLink  BY <2>7 DEF EntryLink
  <2>8. CASE EntryNotify  BY <2>8 DEF EntryNotify
  <2>9. CASE EntryUndo  BY <2>9 DEF EntryUndo
  <2>10. CASE EntryInit  BY <2>10 DEF EntryInit
  <2> QED  BY <2>1, <2>2, <2>3, <2>4, <2>5, <2>6, <2>7, <2>8, <2>9, <2>10 DEF DriverEntry
<1> QED  BY <1>4, <1>6, <1>7, <1>8 DEF Inv

(* The set-up and the teardown of an instance keep the invariant. *)
LEMMA InstanceStep ==
  ASSUME Inv, NEW v \in Volumes, Instance(v)
  PROVE  Inv'
<1>0. "filter" \in held => entry # "unloading" /\ entry # "unloaded"
  BY DEF Inv, EntryInv, Stages, DeviceParts
<1>1. UNCHANGED <<entryVars, ruleVars, reqVars>>
  BY DEF Instance, InstanceAllocate, InstanceSet, InstanceSetFails, InstanceFinally,
         InstanceTeardown
<1>2. entry = "unloaded" => FALSE
  <2>1. ASSUME entry = "unloaded" PROVE FALSE
    <3>1. instance[v] \in {"none", "noContext", "refused", "detached"} /\ held = {}
      BY <2>1 DEF Inv, InstInv, Detached, EntryInv, Stages
    <3> QED  BY <3>1 DEF Instance, InstanceAllocate, InstanceSet, InstanceSetFails,
                         InstanceFinally, InstanceTeardown
  <2> QED  BY <2>1
<1>3. RuleInv'
  BY <1>1, <1>2, RulesKept DEF entryVars
<1>4. /\ InstInv'
      /\ instance' \in [Volumes -> {"none", "allocated", "set", "notSet", "attached",
                                    "noContext", "refused", "detached"}]
      /\ instRefs' \in [Volumes -> Int]
  <2> USE <1>1 DEF Inv, InstInv, Detached, InstancesCounted, TypeOK, entryVars
  <2>1. instRefs[v] \in Int
    OBVIOUS
  <2>2. CASE InstanceAllocate(v)
    <3>1. "filter" \in held
      BY <2>2 DEF InstanceAllocate
    <3>3. entry # "unloading" /\ entry # "unloaded"
      BY <1>0, <3>1
    <3>4. instance[v] = "none" /\ instRefs[v] = 0
      BY <2>2 DEF InstanceAllocate
    <3>5. CASE /\ instance' = [instance EXCEPT ![v] = "allocated"]
               /\ instRefs' = [instRefs EXCEPT ![v] = 1]
      BY <3>3, <3>4, <3>5
    <3>6. CASE instance' = [instance EXCEPT ![v] = "noContext"] /\ UNCHANGED instRefs
      BY <3>3, <3>4, <3>6
    <3> QED  BY <2>2, <3>5, <3>6 DEF InstanceAllocate
  <2>3. CASE InstanceSet(v)  BY <2>1, <2>3 DEF InstanceSet
  <2>4. CASE InstanceSetFails(v)  BY <2>1, <2>4 DEF InstanceSetFails
  <2>5. CASE InstanceFinally(v)  BY <2>1, <2>5 DEF InstanceFinally
  <2>6. CASE InstanceTeardown(v)  BY <2>1, <2>6 DEF InstanceTeardown
  <2> QED  BY <2>2, <2>3, <2>4, <2>5, <2>6 DEF Instance
<1>5. held' \subseteq AllParts
  BY <1>1 DEF entryVars, Inv, TypeOK, AllParts, FilterParts, DeviceParts
<1>6. symLinkCreated' \in BOOLEAN /\ notifyRegistered' \in BOOLEAN
  BY <1>1, Zenon DEF entryVars, Inv, TypeOK
<1>7. TypeOK'
  BY <1>1, <1>4, <1>5, <1>6, TypeKept DEF Inv, TypeOK, entryVars
<1>8. EntryInv'
  BY <1>1 DEF Inv, EntryInv, Stages, Flags, EntryAllOrNothing, entryVars
<1> QED  BY <1>3, <1>4, <1>7, <1>8 DEF Inv

(* A device control request leaves DriverEntry and the instances alone. *)
LEMMA DriverKept ==
  ASSUME Inv, UNCHANGED <<entryVars, instVars>>
  PROVE  EntryInv' /\ InstInv'
<1>1. EntryInv'
  BY DEF Inv, EntryInv, Stages, Flags, EntryAllOrNothing, entryVars
<1>2. InstInv'
  BY DEF Inv, InstInv, Detached, InstancesCounted, entryVars, instVars
<1> QED  BY <1>1, <1>2

RequestRecords ==
  [pc : {"idle", "insert", "allocate", "lookup", "remove", "search", "stray"},
   path : Paths \cup {None}, action : RuleActions, at : Blocks \cup {None}]

(* The types that a request can disturb. *)
LEMMA RequestTypes ==
  ASSUME TypeOK, UNCHANGED <<entryVars, instVars>>,
         table' \in [Buckets -> Seq(Blocks)], live' \subseteq Blocks,
         rule' \in [Blocks -> [path : Paths \cup {None}, action : RuleActions]],
         whitelist' \in Nat, lock' \in Requesters \cup {None},
         req' \in [Requesters -> RequestRecords],
         requests' \in 0..MaxRequests, misread' \in BOOLEAN
  PROVE  TypeOK'
BY Zenon DEF TypeOK, entryVars, instVars, RequestRecords

(* A request that changes no rule: what is left to show is where its       *)
(* thread is, and who holds m_Lock.                                        *)
LEMMA RequestMoves ==
  ASSUME Inv, NEW t \in Requesters, NEW r \in RequestRecords,
         UNCHANGED <<entryVars, instVars, ruleVars>>,
         req' = [req EXCEPT ![t] = r], entry = "up",
         r.pc # "idle" => r.path \in Paths,
         r.pc \in {"insert", "remove"} => r.at = None,
         lock' \in Requesters \cup {None}, requests' \in 0..MaxRequests,
         r.pc \in {"allocate", "search"} <=> lock' = t,
         \A u \in Requesters \ {t} : lock' = u <=> lock = u,
         r.pc = "search" /\ r.at # None =>
           \E m \in 1..Len(table[HashIndex[r.path]]) : table[HashIndex[r.path]][m] = r.at
  PROVE  Inv'
<1>1. req \in [Requesters -> RequestRecords]
  BY DEF Inv, TypeOK, RequestRecords
<1>2. /\ req' \in [Requesters -> RequestRecords] /\ req'[t] = r
      /\ \A u \in Requesters \ {t} : req'[u] = req[u]
  BY <1>1
<1>3. TypeOK'
  <2>1. misread' \in BOOLEAN
    BY Zenon DEF Inv, TypeOK, ruleVars
  <2>2. /\ table' \in [Buckets -> Seq(Blocks)] /\ live' \subseteq Blocks /\ whitelist' \in Nat
        /\ rule' \in [Blocks -> [path : Paths \cup {None}, action : RuleActions]]
    BY Zenon DEF Inv, TypeOK, ruleVars
  <2> QED  BY <1>2, <2>1, <2>2, RequestTypes DEF Inv
<1>4. EntryInv' /\ InstInv'
  BY DriverKept
<1>5. Requesting' /\ Locking'
  BY <1>2 DEF Inv, RuleInv, Requesting, Locking, entryVars
<1>6. Listed'
  BY DEF Inv, RuleInv, Listed, ruleVars, entryVars
<1>7. Counted'
  BY DEF Inv, RuleInv, Counted, AllowRules, ruleVars, entryVars
<1>8. OnTheWalk'
  BY <1>2 DEF Inv, RuleInv, OnTheWalk, Bucket, ruleVars
<1> QED  BY <1>3, <1>4, <1>5, <1>6, <1>7, <1>8 DEF Inv, RuleInv

(* The requests and the walks, up to the insertion or the removal. *)
LEMMA RequestStep ==
  ASSUME Inv, NEW t \in Requesters,
         Request(t) \/ Acquire(t) \/ InsertFails(t)
           \/ LookupNext(t) \/ LookupReturns(t) \/ LookupStrays(t)
  PROVE  Inv'
<1>1. req[t] \in RequestRecords /\ NoRequest \in RequestRecords
      /\ lock \in Requesters \cup {None} /\ requests \in 0..MaxRequests
  BY DEF Inv, TypeOK, RequestRecords, NoRequest, RuleActions
<1>2. entry # "up" => req[t] = NoRequest
  BY DEF Inv, RuleInv, Requesting
<1>3. NoRequest.pc = "idle" /\ t # None
  BY DriverAssumption DEF NoRequest
<1>4. /\ req[t].pc # "idle" => req[t].path \in Paths
      /\ \A u \in Requesters : req[u].pc \in {"allocate", "search"} <=> lock = u
  BY DEF Inv, RuleInv, Requesting, Locking
<1>5. req \in [Requesters -> RequestRecords] /\ MaxRequests \in Nat
  BY DriverAssumption DEF Inv, TypeOK, RequestRecords
<1>6. ASSUME NEW p \in Paths, DropRule(t, p)
      PROVE  Inv'
  <2> DEFINE r == [NoRequest EXCEPT !.pc = "remove", !.path = p]
  <2>1. r \in RequestRecords /\ r.pc = "remove" /\ r.path = p /\ r.at = None
    BY <1>1 DEF RequestRecords, NoRequest
  <2>2. requests' \in 0..MaxRequests /\ lock # t
    BY <1>1, <1>3, <1>4, <1>5, <1>6 DEF DropRule
  <2>3. /\ req' = [req EXCEPT ![t] = r] /\ entry = "up" /\ lock' = lock
        /\ UNCHANGED <<entryVars, instVars, ruleVars>>
    BY <1>6 DEF DropRule
  <2> HIDE DEF r
  <2> QED  BY <2>1, <2>2, <2>3, <1>1, RequestMoves
<1>7. ASSUME NEW p \in Paths, NEW a \in RuleActions, AddRule(t, p, a)
      PROVE  Inv'
  <2> DEFINE r == [NoRequest EXCEPT !.pc = "insert", !.path = p, !.action = a]
  <2>1. r \in RequestRecords /\ r.pc = "insert" /\ r.path = p /\ r.at = None
    BY <1>1 DEF RequestRecords, NoRequest
  <2>2. requests' \in 0..MaxRequests /\ lock # t
    BY <1>1, <1>3, <1>4, <1>5, <1>7 DEF AddRule
  <2>3. /\ req' = [req EXCEPT ![t] = r] /\ entry = "up" /\ lock' = lock
        /\ UNCHANGED <<entryVars, instVars, ruleVars>>
    BY <1>7 DEF AddRule
  <2> HIDE DEF r
  <2> QED  BY <2>1, <2>2, <2>3, <1>1, RequestMoves
<1>8. ASSUME req[t].pc # "idle", req' = [req EXCEPT ![t] = NoRequest],
             UNCHANGED <<entryVars, instVars, ruleVars, requests>>,
             lock' = IF lock = t THEN None ELSE lock
      PROVE  Inv'
  <2>1. entry = "up" /\ lock' # t /\ lock' \in Requesters \cup {None}
    BY <1>1, <1>2, <1>3, <1>8
  <2>2. \A u \in Requesters \ {t} : lock' = u <=> lock = u
    BY <1>8, DriverAssumption
  <2> QED  BY <2>1, <2>2, <1>1, <1>3, <1>8, RequestMoves
<1>9. ASSUME StrayReturns(t)  PROVE Inv'
  BY <1>4, <1>8, <1>9 DEF StrayReturns, Complete
<1>10. ASSUME InsertFails(t)  PROVE Inv'
  BY <1>4, <1>8, <1>10 DEF InsertFails, Complete
<1>11. ASSUME LookupReturns(t)  PROVE Inv'
  BY <1>8, <1>11 DEF LookupReturns, Complete, Walking
<1>12. ASSUME Acquire(t)  PROVE Inv'
  <2> DEFINE r == [req[t] EXCEPT !.pc = IF req[t].pc = "insert" THEN "allocate" ELSE "search"]
  <2>1. /\ r \in RequestRecords /\ r.pc \in {"allocate", "search"} /\ r.path = req[t].path
        /\ r.at = req[t].at
    BY <1>1 DEF RequestRecords
  <2>2. req' = [req EXCEPT ![t] = r] /\ lock = None /\ lock' = t /\ req[t].pc # "idle"
        /\ req[t].pc \in {"insert", "remove"}
        /\ UNCHANGED <<entryVars, instVars, ruleVars, requests>>
    BY <1>5, <1>12 DEF Acquire, Go
  <2>3. req[t].at = None
    BY <2>2 DEF Inv, RuleInv, Requesting
  <2> HIDE DEF r
  <2> QED  BY <2>1, <2>2, <2>3, <1>1, <1>2, <1>3, <1>4, DriverAssumption, RequestMoves
<1>13. ASSUME LookupNext(t)  PROVE Inv'
  <2> DEFINE b == After(Bucket(t), req[t].at)
             r == [req[t] EXCEPT !.at = b]
  <2>1. /\ req' = [req EXCEPT ![t] = r] /\ req[t].pc \in {"lookup", "search"} /\ b # None
        /\ OnList(t) /\ UNCHANGED <<entryVars, instVars, ruleVars, lock, requests>>
    BY <1>5, <1>13 DEF LookupNext, Walking
  <2>2. Bucket(t) \in Seq(Blocks)
    BY <1>4, <2>1, DriverAssumption DEF Inv, TypeOK, Bucket, Buckets
  <2>3. req[t].at = None \/ \E m \in 1..Len(Bucket(t)) : Bucket(t)[m] = req[t].at
    BY <2>1, <2>2 DEF OnList, ToSet
  <2>4. PICK m \in 1..Len(Bucket(t)) : Bucket(t)[m] = b
    BY <2>1, <2>2, <2>3, Following
  <2>5. b \in Blocks
    BY <2>2, <2>4
  <2>6. r \in RequestRecords /\ r.pc = req[t].pc /\ r.path = req[t].path /\ r.at = b
    BY <1>1, <2>5 DEF RequestRecords
  <2>7. entry = "up" /\ r.path \in Paths
    BY <1>2, <1>3, <1>4, <2>1, <2>6
  <2>8. \E n \in 1..Len(table[HashIndex[r.path]]) : table[HashIndex[r.path]][n] = r.at
    BY <2>4, <2>6 DEF Bucket
  <2>9. r.pc \in {"allocate", "search"} <=> lock' = t
    BY <1>4, <2>1, <2>6
  <2> HIDE DEF r, b
  <2> QED  BY <2>1, <2>6, <2>7, <2>8, <2>9, <1>1, RequestMoves
<1>14. ASSUME LookupStrays(t)  PROVE Inv'
  <2> DEFINE r == [req[t] EXCEPT !.pc = "stray"]
  <2>1. r \in RequestRecords /\ r.pc = "stray" /\ r.path = req[t].path
    BY <1>1 DEF RequestRecords
  <2>2. req' = [req EXCEPT ![t] = r] /\ req[t].pc \in {"lookup", "search"} /\ ~OnList(t)
        /\ UNCHANGED <<entryVars, instVars, ruleVars, lock, requests>>
    BY <1>5, <1>14 DEF LookupStrays, Go, Walking
  <2>3. Bucket(t) \in Seq(Blocks)
    BY <1>4, <2>2, DriverAssumption DEF Inv, TypeOK, Bucket, Buckets
  <2>4. req[t].pc # "search"
    BY <2>2, <2>3 DEF Inv, RuleInv, OnTheWalk, OnList, ToSet
  <2>5. entry = "up" /\ r.path \in Paths /\ lock # t
    BY <1>2, <1>3, <1>4, <2>1, <2>2, <2>4
  <2> HIDE DEF r
  <2> QED  BY <2>1, <2>2, <2>5, <1>1, RequestMoves
<1> QED  BY <1>6, <1>7, <1>9, <1>10, <1>11, <1>12, <1>13, <1>14 DEF Request

---------------------------------------------------------------------------
(* InsertRule puts a rule on the list of its bucket and counts it. *)
LEMMA InsertStep ==
  ASSUME Inv, NEW t \in Requesters, InsertRule(t)
  PROVE  Inv'
<1> DEFINE h == HashIndex[req[t].path]
<1>1. /\ req[t].pc = "allocate" /\ UNCHANGED <<entryVars, instVars, misread, requests>>
      /\ lock' = None /\ req' = [req EXCEPT ![t].pc = "lookup"]
      /\ whitelist' = IF req[t].action = "Allow" THEN whitelist + 1 ELSE whitelist
  BY DEF InsertRule, Go
<1>2. PICK b \in Blocks \ live :
        /\ live' = live \cup {b}
        /\ rule' = [rule EXCEPT ![b] = [path |-> req[t].path, action |-> req[t].action]]
        /\ table' = [table EXCEPT ![h] = Append(@, b)]
  BY DEF InsertRule
<1>3. /\ req \in [Requesters -> RequestRecords] /\ lock = t /\ req[t].path \in Paths
      /\ \A u \in Requesters : req[u].pc \in {"allocate", "search"} <=> lock = u
      /\ entry = "up" /\ t # None /\ h \in Buckets
  BY <1>1, DriverAssumption
     DEF Inv, TypeOK, RequestRecords, RuleInv, Locking, Requesting, NoRequest, Buckets
<1>4. /\ req' \in [Requesters -> RequestRecords]
      /\ req'[t].pc = "lookup" /\ req'[t].path = req[t].path
      /\ \A u \in Requesters \ {t} : req'[u] = req[u]
  BY <1>1, <1>3 DEF RequestRecords
<1>5. table \in [Buckets -> Seq(Blocks)] /\ live \subseteq Blocks /\ whitelist \in Nat
      /\ rule \in [Blocks -> [path : Paths \cup {None}, action : RuleActions]]
      /\ misread \in BOOLEAN /\ requests \in 0..MaxRequests
  BY DEF Inv, TypeOK
<1>6. /\ table' \in [Buckets -> Seq(Blocks)]
      /\ Len(table'[h]) = Len(table[h]) + 1 /\ Len(table[h]) \in Nat
      /\ table'[h][Len(table[h]) + 1] = b
      /\ \A m \in 1..Len(table[h]) : table'[h][m] = table[h][m]
      /\ \A i \in Buckets \ {h} : table'[i] = table[i]
  BY <1>2, <1>3, <1>5
<1>7. /\ rule' \in [Blocks -> [path : Paths \cup {None}, action : RuleActions]]
      /\ rule'[b].path = req[t].path /\ rule'[b].action = req[t].action
      /\ req[t].action \in RuleActions
      /\ \A c \in Blocks \ {b} : rule'[c] = rule[c]
  <2>1. req[t].action \in RuleActions
    BY <1>3 DEF RequestRecords
  <2> QED  BY <1>2, <1>3, <1>5, <2>1
<1> HIDE DEF h
<1>8. TypeOK'
  <2>1. misread' \in BOOLEAN /\ requests' \in 0..MaxRequests /\ lock' \in Requesters \cup {None}
    BY <1>1, <1>5, Zenon
  <2>2. whitelist' \in Nat /\ live' \subseteq Blocks
    BY <1>1, <1>2, <1>5
  <2> QED  BY <1>1, <1>4, <1>6, <1>7, <2>1, <2>2, RequestTypes DEF Inv
<1>9. EntryInv' /\ InstInv'
  BY <1>1, DriverKept
<1>10. Requesting' /\ Locking'
  BY <1>1, <1>3, <1>4, DriverAssumption DEF Inv, RuleInv, Requesting, Locking, entryVars
<1>11. Listed'
  <2> DEFINE n == Len(table[h])
  <2>0. Listed /\ entry' = "up"
    BY <1>1, <1>3 DEF Inv, RuleInv, entryVars
  <2>1. \A i \in Buckets : \A m \in 1..Len(table[i]) : table[i][m] \in live /\ table[i][m] # b
    BY <1>2, <2>0 DEF Listed
  <2>2. ASSUME NEW i \in Buckets, NEW m \in 1..Len(table'[i])
        PROVE  /\ table'[i][m] \in live'
               /\ rule'[table'[i][m]].path \in Paths
               /\ HashIndex[rule'[table'[i][m]].path] = i
    <3>1. CASE i # h
      BY <2>0, <2>1, <3>1, <1>2, <1>5, <1>6, <1>7 DEF Listed
    <3>2. CASE i = h /\ m <= n
      <4>1. m \in 1..n /\ table'[i][m] = table[h][m]
        BY <3>2, <1>6
      <4> QED  BY <2>0, <2>1, <3>2, <4>1, <1>2, <1>3, <1>5, <1>7 DEF Listed
    <3>3. CASE i = h /\ m = n + 1
      BY <3>3, <1>2, <1>3, <1>6, <1>7 DEF h
    <3> QED  BY <3>1, <3>2, <3>3, <1>6
  <2>3. ASSUME NEW i \in Buckets, NEW l \in 1..Len(table'[i]), NEW m \in 1..Len(table'[i]),
               table'[i][l] = table'[i][m]
        PROVE  l = m
    <3>1. CASE i # h
      <4>1. table'[i] = table[i]
        BY <3>1, <1>6
      <4>2. l \in 1..Len(table[i]) /\ m \in 1..Len(table[i]) /\ table[i][l] = table[i][m]
        BY <2>3, <4>1
      <4> QED  BY <2>0, <4>2 DEF Listed
    <3>2. CASE i = h /\ l <= n /\ m <= n
      <4>1. l \in 1..n /\ m \in 1..n /\ table[h][l] = table[h][m]
        BY <2>3, <3>2, <1>6
      <4> QED  BY <2>0, <4>1, <1>3 DEF Listed
    <3>3. CASE i = h /\ (l = n + 1 \/ m = n + 1)
      BY <2>1, <2>3, <3>3, <1>3, <1>6
    <3> QED  BY <3>1, <3>2, <3>3, <1>6
  <2>4. ASSUME NEW c \in live'
        PROVE  \E i \in Buckets : \E m \in 1..Len(table'[i]) : table'[i][m] = c
    <3>1. CASE c = b
      BY <3>1, <1>3, <1>6
    <3>2. CASE c \in live
      <4>1. PICK i \in Buckets : \E m \in 1..Len(table[i]) : table[i][m] = c
        BY <3>2, <2>0 DEF Listed
      <4>2. \E m \in 1..Len(table'[i]) : table'[i][m] = c
        BY <4>1, <1>6
      <4> QED  BY <4>2
    <3> QED  BY <3>1, <3>2, <1>2
  <2> QED  BY <2>0, <2>2, <2>3, <2>4 DEF Listed
<1>12. OnTheWalk'
  BY <1>3, <1>4 DEF OnTheWalk
<1>13. Counted'
  <2> SUFFICES ASSUME ~misread'  PROVE whitelist' = Cardinality(AllowRules')
    BY DEF Counted
  <2>1. whitelist = Cardinality(AllowRules)
    BY <1>1, <1>3 DEF Inv, RuleInv, Counted
  <2>2. IsFiniteSet(AllowRules) /\ b \notin AllowRules
    <3>1. AllowRules \subseteq Blocks /\ b \notin AllowRules
      BY <1>2, <1>5 DEF AllowRules
    <3> QED  BY <3>1, DriverAssumption, FS_Subset
  <2>3. CASE req[t].action = "Allow"
    <3>1. AllowRules' = AllowRules \cup {b}
      BY <2>3, <1>2, <1>5, <1>7 DEF AllowRules
    <3>2. Cardinality(AllowRules \cup {b}) = Cardinality(AllowRules) + 1
      BY <2>2, FS_AddElement
    <3> QED  BY <2>1, <2>3, <3>1, <3>2, <1>1
  <2>4. CASE req[t].action # "Allow"
    <3>1. AllowRules' = AllowRules
      BY <2>4, <1>2, <1>5, <1>7 DEF AllowRules
    <3> QED  BY <2>1, <2>4, <3>1, <1>1
  <2> QED  BY <2>3, <2>4
<1> QED  BY <1>8, <1>9, <1>10, <1>11, <1>12, <1>13 DEF Inv, RuleInv

(* RemoveRule takes the rule it has found off its list and frees it. *)
LEMMA RemoveStep ==
  ASSUME Inv, NEW t \in Requesters, RemoveRule(t)
  PROVE  Inv'
<1> DEFINE h == HashIndex[req[t].path]
<1>0. PICK b : b = req[t].at  OBVIOUS
<1>1. /\ req[t].pc = "search" /\ UNCHANGED <<entryVars, instVars, rule, requests>>
      /\ lock' = None /\ req' = [req EXCEPT ![t] = NoRequest]
      /\ live' = live \ {b} /\ b # None /\ rule[b].path = req[t].path
      /\ table' = [table EXCEPT ![h] = RemoveAt(@, Position(@, b))]
  BY <1>0 DEF RemoveRule, Complete, Found, FreeRuleEntry
<1>2. PICK seen \in RuleActions :
        /\ whitelist' = IF seen = "Allow" /\ whitelist > 0 THEN whitelist - 1 ELSE whitelist
        /\ misread' = (misread \/ seen # rule[b].action)
  BY <1>0 DEF RemoveRule
<1>3. /\ req \in [Requesters -> RequestRecords] /\ lock = t /\ req[t].path \in Paths
      /\ \A u \in Requesters : req[u].pc \in {"allocate", "search"} <=> lock = u
      /\ entry = "up" /\ t # None /\ h \in Buckets
  BY <1>1, DriverAssumption
     DEF Inv, TypeOK, RequestRecords, RuleInv, Locking, Requesting, NoRequest, Buckets
<1>4. /\ req' \in [Requesters -> RequestRecords] /\ req'[t] = NoRequest
      /\ \A u \in Requesters \ {t} : req'[u] = req[u]
  <2>1. NoRequest \in RequestRecords
    BY DEF NoRequest, RequestRecords, RuleActions
  <2> QED  BY <1>1, <1>3, <2>1
<1>5. table \in [Buckets -> Seq(Blocks)] /\ live \subseteq Blocks /\ whitelist \in Nat
      /\ rule \in [Blocks -> [path : Paths \cup {None}, action : RuleActions]]
      /\ misread \in BOOLEAN /\ requests \in 0..MaxRequests
  BY DEF Inv, TypeOK
<1>6. Listed /\ entry' = "up"
  BY <1>1, <1>3 DEF Inv, RuleInv, entryVars
<1>7. PICK k \in 1..Len(table[h]) : table[h][k] = b
  BY <1>0, <1>1 DEF Inv, RuleInv, OnTheWalk, Bucket
<1>8. b \in live /\ b \in Blocks
  BY <1>3, <1>5, <1>6, <1>7 DEF Listed
<1> HIDE DEF h
<1>9. PICK s : s = table[h]  OBVIOUS
<1>10. PICK r : r = RemoveAt(s, Position(s, b))  OBVIOUS
<1>11. r \in Seq(Blocks) /\ Without(r, s, b) /\ Distinct(r)
  <2>1. s \in Seq(Blocks) /\ k \in 1..Len(s) /\ s[k] = b
    BY <1>3, <1>5, <1>7, <1>9
  <2>2. Distinct(s)
    BY <1>3, <1>6, <1>9 DEF Listed, Distinct
  <2> QED  BY <1>10, <2>1, <2>2, Unlinking
<1>12. /\ table' \in [Buckets -> Seq(Blocks)] /\ table'[h] = r
       /\ \A i \in Buckets \ {h} : table'[i] = table[i]
  BY <1>1, <1>3, <1>5, <1>9, <1>10, <1>11
<1>13. TypeOK'
  <2>1. misread' \in BOOLEAN
    BY <1>2, Zenon
  <2>2. requests' \in 0..MaxRequests /\ lock' \in Requesters \cup {None} /\ rule' = rule
    BY <1>1, <1>5, Zenon
  <2>3. whitelist' \in Nat /\ live' \subseteq Blocks
    BY <1>1, <1>2, <1>5
  <2> QED  BY <1>1, <1>4, <1>5, <1>12, <2>1, <2>2, <2>3, RequestTypes DEF Inv
<1>14. EntryInv' /\ InstInv'
  BY <1>1, DriverKept
<1>15. Requesting' /\ Locking'
  BY <1>1, <1>3, <1>4, <1>6, DriverAssumption DEF Inv, RuleInv, Requesting, Locking, NoRequest
<1>16. Listed'
  <2>1. ASSUME NEW i \in Buckets, NEW m \in 1..Len(table'[i])
        PROVE  /\ table'[i][m] \in live'
               /\ rule[table'[i][m]].path \in Paths
               /\ HashIndex[rule[table'[i][m]].path] = i
    <3>1. CASE i = h
      <4>1. PICK n \in 1..Len(s) : s[n] = r[m] /\ r[m] # b
        BY <3>1, <1>11, <1>12 DEF Without
      <4> QED  BY <3>1, <4>1, <1>1, <1>6, <1>9, <1>12 DEF Listed
    <3>2. CASE i # h
      <4>1. table'[i] = table[i]
        BY <3>2, <1>12
      <4>2. /\ table[i][m] \in live /\ rule[table[i][m]].path \in Paths
            /\ HashIndex[rule[table[i][m]].path] = i
        BY <4>1, <1>6 DEF Listed
      <4>3. table[i][m] # b
        BY <3>2, <4>2, <1>1 DEF h
      <4> QED  BY <4>1, <4>2, <4>3, <1>1
    <3> QED  BY <3>1, <3>2
  <2>2. ASSUME NEW i \in Buckets, NEW l \in 1..Len(table'[i]), NEW m \in 1..Len(table'[i]),
               table'[i][l] = table'[i][m]
        PROVE  l = m
    <3>1. CASE i = h
      BY <2>2, <3>1, <1>11, <1>12 DEF Distinct
    <3>2. CASE i # h
      BY <2>2, <3>2, <1>6, <1>12 DEF Listed
    <3> QED  BY <3>1, <3>2
  <2>3. ASSUME NEW c \in live'
        PROVE  \E i \in Buckets : \E m \in 1..Len(table'[i]) : table'[i][m] = c
    <3>1. c # b /\ c \in live
      BY <1>1
    <3>2. PICK i \in Buckets : \E m \in 1..Len(table[i]) : table[i][m] = c
      BY <3>1, <1>6 DEF Listed
    <3>3. \E m \in 1..Len(table'[i]) : table'[i][m] = c
      <4>1. CASE i = h
        <5>1. PICK n \in 1..Len(s) : s[n] = c
          BY <3>2, <4>1, <1>9
        <5>2. \E m \in 1..Len(r) : r[m] = s[n]
          BY <3>1, <5>1, <1>11 DEF Without
        <5> QED  BY <4>1, <5>1, <5>2, <1>12
      <4>2. CASE i # h
        BY <3>2, <4>2, <1>12
      <4> QED  BY <4>1, <4>2
    <3> QED  BY <3>3
  <2>4. rule' = rule /\ entry' # "unloaded"
    BY <1>1, <1>6
  <2> QED  BY <2>1, <2>2, <2>3, <2>4 DEF Listed
<1>17. OnTheWalk'
  BY <1>3, <1>4 DEF OnTheWalk, NoRequest
<1>18. Counted'
  <2> SUFFICES ASSUME ~misread'  PROVE whitelist' = Cardinality(AllowRules')
    BY DEF Counted
  <2>0. ~misread /\ seen = rule[b].action
    BY <1>2
  <2>1. whitelist = Cardinality(AllowRules)
    BY <1>3, <2>0 DEF Inv, RuleInv, Counted
  <2>2. IsFiniteSet(AllowRules)
    <3>1. AllowRules \subseteq Blocks
      BY <1>5 DEF AllowRules
    <3> QED  BY <3>1, DriverAssumption, FS_Subset
  <2>3. CASE seen = "Allow"
    <3>1. AllowRules' = AllowRules \ {b} /\ b \in AllowRules
      BY <2>0, <2>3, <1>1, <1>8 DEF AllowRules
    <3>2. Cardinality(AllowRules \ {b}) = Cardinality(AllowRules) - 1
      BY <2>2, <3>1, FS_RemoveElement
    <3>3. Cardinality(AllowRules) # 0
      BY <2>2, <3>1, FS_EmptySet
    <3> QED  BY <2>1, <2>3, <3>1, <3>2, <3>3, <1>2, <1>5
  <2>4. CASE seen # "Allow"
    <3>1. AllowRules' = AllowRules
      BY <2>0, <2>4, <1>1 DEF AllowRules
    <3> QED  BY <2>1, <2>4, <3>1, <1>2
  <2> QED  BY <2>3, <2>4
<1> QED  BY <1>13, <1>14, <1>15, <1>16, <1>17, <1>18 DEF Inv, RuleInv

---------------------------------------------------------------------------
(* Unregistering the filter and KarmorUnload keep the invariant. *)
LEMMA UnloadStep == Inv /\ (InstanceFilterUnload \/ KarmorUnload) => Inv'
<1>1. ASSUME Inv, InstanceFilterUnload  PROVE Inv'
  <2>1. /\ entry = "up" /\ entry' = "unloading" /\ InstancesSettled /\ FilterUnregistered
        /\ held' = held \ {"dispatcher", "port", "filter"}
        /\ UNCHANGED <<symLinkCreated, notifyRegistered, ruleVars, reqVars>>
        /\ \A t \in Requesters : req[t] = NoRequest
    BY <1>1 DEF InstanceFilterUnload
  <2>2. RuleInv'
    BY <1>1, <2>1, RulesKept
  <2>3. /\ InstancesCounted'
        /\ instance' \in [Volumes -> {"none", "allocated", "set", "notSet", "attached",
                                      "noContext", "refused", "detached"}]
        /\ instRefs' \in [Volumes -> Int]
        /\ \A v \in Volumes : instance'[v] \in {"none", "noContext", "refused", "detached"}
    BY <1>1, <2>1, Unregistered DEF Inv, InstInv
  <2>4. InstInv'
    BY <2>3 DEF InstInv, Detached
  <2>5. held' \subseteq AllParts
    BY <1>1, <2>1 DEF Inv, TypeOK, AllParts, FilterParts, DeviceParts
  <2>6. symLinkCreated' \in BOOLEAN /\ notifyRegistered' \in BOOLEAN
    BY <1>1, <2>1, Zenon DEF Inv, TypeOK
  <2>7. TypeOK'
    BY <1>1, <2>1, <2>3, <2>5, <2>6, TypeKept DEF Inv
  <2>8. EntryInv'
    <3>1. Flags'
      BY <1>1, <2>1 DEF Inv, EntryInv, Flags
    <3>2. Stages' /\ EntryAllOrNothing'
      BY <1>1, <2>1 DEF Inv, EntryInv, Stages, EntryAllOrNothing, FilterParts, DeviceParts
    <3> QED  BY <3>1, <3>2 DEF EntryInv
  <2> QED  BY <2>2, <2>4, <2>7, <2>8 DEF Inv
<1>2. ASSUME Inv, KarmorUnload  PROVE Inv'
  <2>1. /\ entry = "unloading" /\ entry' = "unloaded"
        /\ held' = held \ ((IF notifyRegistered THEN {"notify"} ELSE {})
                           \cup (IF symLinkCreated THEN {"link"} ELSE {})
                           \cup {"table", "device", "etw"})
        /\ table' = [i \in Buckets |-> << >>]
        /\ live' = live \ UNION {ToSet(table[i]) : i \in Buckets}
        /\ UNCHANGED <<symLinkCreated, notifyRegistered, instVars, rule, whitelist, misread,
                       reqVars>>
    BY <1>2 DEF KarmorUnload, DestroyRuleHashTable
  <2>2. held' = {}
    BY <1>2, <2>1 DEF Inv, EntryInv, Stages, Flags, DeviceParts
  <2>3. live' = {}
    <3>1. ASSUME NEW b \in live  PROVE b \in UNION {ToSet(table[i]) : i \in Buckets}
      <4>1. PICK i \in Buckets : \E m \in 1..Len(table[i]) : table[i][m] = b
        BY <1>2 DEF Inv, RuleInv, Listed
      <4>2. table[i] \in Seq(Blocks)
        BY <1>2 DEF Inv, TypeOK
      <4>3. b \in ToSet(table[i])
        BY <4>1, <4>2 DEF ToSet
      <4> QED  BY <4>3
    <3> QED  BY <2>1, <3>1
  <2>4. /\ \A i \in Buckets : table'[i] = << >> /\ Len(table'[i]) = 0
        /\ table' \in [Buckets -> Seq(Blocks)]
    <3>1. << >> \in Seq(Blocks)
      OBVIOUS
    <3> QED  BY <2>1, <3>1
  <2>5. TypeOK'
    <3>1. /\ symLinkCreated' \in BOOLEAN /\ notifyRegistered' \in BOOLEAN /\ misread' \in BOOLEAN
      BY <1>2, <2>1, Zenon DEF Inv, TypeOK
    <3>2. instance' = instance /\ instRefs' = instRefs /\ rule' = rule /\ whitelist' = whitelist
          /\ lock' = lock /\ req' = req /\ requests' = requests
      BY <2>1 DEF instVars, reqVars
    <3>3. TypeOK  BY <1>2 DEF Inv
    <3>4. held' \subseteq {"filter", "port", "dispatcher", "etw", "device", "link", "notify", "table"}
          /\ live' \subseteq Blocks
          /\ entry' \in {"filter", "port", "start", "dispatcher", "etw", "device", "link", "notify",
                         "undo", "init", "up", "failed", "unloading", "unloaded"}
      BY <2>1, <2>2, <2>3
    <3> QED  BY <2>4, <3>1, <3>2, <3>3, <3>4, Zenon DEF TypeOK
  <2>6. EntryInv'
    BY <2>1, <2>2 DEF EntryInv, Stages, Flags, EntryAllOrNothing
  <2>7. InstInv'
    BY <1>2, <2>1 DEF Inv, InstInv, Detached, InstancesCounted, instVars
  <2>8. Requesting' /\ Locking' /\ Counted'
    BY <1>2, <2>1 DEF Inv, RuleInv, Requesting, Locking, Counted, reqVars
  <2>9. Listed'
    BY <2>3, <2>4 DEF Listed
  <2>10. OnTheWalk'
    <3>1. \A t \in Requesters : req'[t].pc = "idle"
      BY <1>2, <2>1 DEF Inv, RuleInv, Requesting, NoRequest, reqVars
    <3> QED  BY <3>1 DEF OnTheWalk
  <2> QED  BY <2>5, <2>6, <2>7, <2>8, <2>9, <2>10 DEF Inv, RuleInv
<1> QED  BY <1>1, <1>2

(* Nothing changes when no variable does. *)
LEMMA Stutter == Inv /\ UNCHANGED vars => Inv'
<1> SUFFICES ASSUME Inv, UNCHANGED vars  PROVE Inv'  OBVIOUS
<1>1. UNCHANGED <<entryVars, instVars, ruleVars, reqVars>>
  BY DEF vars
<1>2. EntryInv' /\ InstInv'
  BY <1>1, DriverKept
<1>3. TypeOK'
  <2>1. UNCHANGED <<entryVars, instVars>> /\ misread' = misread /\ table' = table /\ live' = live
        /\ rule' = rule /\ whitelist' = whitelist /\ lock' = lock /\ req' = req
        /\ requests' = requests
    BY <1>1 DEF ruleVars, reqVars
  <2>2. misread \in BOOLEAN /\ table \in [Buckets -> Seq(Blocks)] /\ live \subseteq Blocks
        /\ rule \in [Blocks -> [path : Paths \cup {None}, action : RuleActions]]
        /\ whitelist \in Nat /\ lock \in Requesters \cup {None}
        /\ req \in [Requesters -> RequestRecords] /\ requests \in 0..MaxRequests
    BY DEF Inv, TypeOK, RequestRecords
  <2>3. misread' \in BOOLEAN /\ table' \in [Buckets -> Seq(Blocks)] /\ live' \subseteq Blocks
        /\ rule' \in [Blocks -> [path : Paths \cup {None}, action : RuleActions]]
        /\ whitelist' \in Nat /\ lock' \in Requesters \cup {None}
        /\ req' \in [Requesters -> RequestRecords] /\ requests' \in 0..MaxRequests
    BY <2>1, <2>2, Zenon
  <2> QED  BY <2>1, <2>3, RequestTypes DEF Inv
<1>4. Requesting' /\ Locking' /\ OnTheWalk'
  BY <1>1 DEF Inv, RuleInv, Requesting, Locking, OnTheWalk, Bucket, ruleVars, reqVars, entryVars
<1>5. Listed' /\ Counted'
  BY <1>1 DEF Inv, RuleInv, Listed, Counted, AllowRules, ruleVars, entryVars
<1> QED  BY <1>2, <1>3, <1>4, <1>5 DEF Inv, RuleInv

(* Every step keeps the invariant. *)
LEMMA NextInv == Inv /\ [Next]_vars => Inv'
<1> SUFFICES ASSUME Inv, [Next]_vars  PROVE Inv'  OBVIOUS
<1>1. CASE DriverEntry  BY <1>1, EntryStep
<1>2. ASSUME NEW v \in Volumes, Instance(v)  PROVE Inv'
  BY <1>2, InstanceStep
<1>3. ASSUME NEW t \in Requesters, Request(t) \/ Step(t)  PROVE Inv'
  BY <1>3, RequestStep, InsertStep, RemoveStep DEF Step
<1>4. CASE InstanceFilterUnload \/ KarmorUnload  BY <1>4, UnloadStep
<1>5. CASE UNCHANGED vars  BY <1>5, Stutter
<1> QED  BY <1>1, <1>2, <1>3, <1>4, <1>5 DEF Next

(* The invariant holds in every state of the driver. *)
LEMMA Invariance == Spec => []Inv
BY InitInv, NextInv, PTL DEF Spec

---------------------------------------------------------------------------
(* Whatever fails in DriverEntry, in the set-up of an instance or in       *)
(* between, what Karmor.cpp and Filter.cpp register is all there, all      *)
(* undone or one of the leftovers LifecycleClean names, and unloading      *)
(* leaves neither a registration nor a rule.                               *)
THEOREM DriverGivesBack == Spec => []LifecycleClean
<1>1. Inv => LifecycleClean
  <2> SUFFICES ASSUME Inv  PROVE LifecycleClean  OBVIOUS
  <2>1. UnloadLeavesNothing
    <3> SUFFICES ASSUME entry = "unloaded"
                 PROVE  held = {} /\ live = {} /\ \A v \in Volumes : instRefs[v] <= 0
      BY DEF UnloadLeavesNothing
    <3>1. held = {} /\ live = {}
      BY DEF Inv, EntryInv, Stages, RuleInv, Listed
    <3>2. \A v \in Volumes : instRefs[v] <= 0
      BY DEF Inv, InstInv, Detached, InstancesCounted
    <3> QED  BY <3>1, <3>2
  <2> QED  BY <2>1 DEF Inv, EntryInv, InstInv, LifecycleClean
<1> QED  BY <1>1, Invariance, PTL

(* For any number of requesters, paths and buckets RemoveRule walks and    *)
(* frees only entries that are on their list, no list holds a freed entry, *)
(* and m_ProcessWhitelist counts the Allow rules until RemoveRule has      *)
(* misread the action of a rule it had freed.                              *)
THEOREM RuleTableConsistent == Spec => []RulesConsistent
<1>1. Inv => RulesConsistent
  <2> SUFFICES ASSUME Inv  PROVE RulesConsistent  OBVIOUS
  <2>1. \A i \in Buckets : table[i] \in Seq(Blocks)
    BY DEF Inv, TypeOK
  <2>2. \A t \in Requesters : req[t].pc = "search" => OnList(t)
    <3> SUFFICES ASSUME NEW t \in Requesters, req[t].pc = "search"  PROVE OnList(t)
      OBVIOUS
    <3>1. Bucket(t) \in Seq(Blocks)
      BY <2>1, DriverAssumption DEF Inv, RuleInv, Requesting, Bucket, Buckets
    <3> QED  BY <3>1 DEF Inv, RuleInv, OnTheWalk, OnList, ToSet
  <2>3. \A i \in Buckets : ToSet(table[i]) \subseteq live
    <3> SUFFICES ASSUME NEW i \in Buckets, NEW m \in DOMAIN table[i]  PROVE table[i][m] \in live
      BY DEF ToSet
    <3>1. m \in 1..Len(table[i])
      BY <2>1
    <3> QED  BY <3>1 DEF Inv, RuleInv, Listed
  <2>4. WhitelistExact
    BY DEF Inv, RuleInv, Counted, WhitelistExact, AllowRules
  <2> QED  BY <2>2, <2>3, <2>4 DEF Inv, RulesConsistent, LockedWalksAreSafe
<1> QED  BY <1>1, Invariance, PTL
=============================================================================
