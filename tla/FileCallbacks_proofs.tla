------------------------ MODULE FileCallbacks_proofs ------------------------
(***************************************************************************)
(* The contexts are counted right, and the events of a file object tell    *)
(* one true story, for any number of file objects, threads and requests.   *)
(* A callback touches one file object, so the inductive invariant is       *)
(* stated file by file: which callbacks can run in which part of its life  *)
(* (Life), the references to its context (Counted), the order of its       *)
(* events (Story) and what they have to do with the requests that          *)
(* succeeded (Faith).                                                      *)
(***************************************************************************)
EXTENDS FileCallbacks, FiniteSetTheorems, FunctionTheorems, SequenceTheorems, TLAPS

(* Where the callback of a thread can be. *)
ShapeOf(o) ==
  /\ o.pc = "idle" => o = Idle
  /\ o.pc # "idle" => o.file \in Files /\ o.kind # "none"
  /\ o.inst => o.pc \in {"report", "last", "leave"}
  /\ o.pc = "set" => o.kind = "create"
  /\ o.pc = "mark" => o.kind \in Requests
  /\ o.pc \in {"instance", "report"} => o.kind \in {"create", "rename", "cleanup"}
  /\ o.pc = "last" => o.kind = "cleanup"
Shape == \A t \in Threads : ShapeOf(op[t])

(* One creation, alone; requests while the file is open or still running   *)
(* at its cleanup; one cleanup.                                            *)
Life(f) ==
  /\ \A t \in Threads : op[t].file = f =>
       /\ op[t].kind = "create" =>
            /\ file[f] = "opening"
            /\ \A u \in Threads : op[u].file = f => u = t
            /\ op[t].pc \in {"fs", "set"} => ~linked[f]
            /\ op[t].pc # "leave" => events[f] = << >>
       /\ op[t].kind \in Requests => file[f] \in {"open", "cleaned"}
       /\ op[t].kind = "cleanup" =>
            /\ file[f] = "cleaned"
            /\ \A u \in Threads : op[u].file = f /\ op[u].kind = "cleanup" => u = t
  /\ linked[f] => file[f] \in {"opening", "open", "cleaned"}
  /\ file[f] = "new" => events[f] = << >>
  /\ file[f] \in {"new", "opening"} => did[f] = {}

Counted(f) == refs[f] = Cardinality(Holding(f)) + (IF linked[f] THEN 1 ELSE 0)

Ended(f) == Seen(f, "CLOSE") \/ Seen(f, "DELETE")
Running(f, kinds, places) ==
  \E t \in Threads : op[t].file = f /\ op[t].kind \in kinds /\ op[t].pc \in places
Cleaning(f, places) == Running(f, {"cleanup"}, places)

(* The order of the events of a file. *)
Told(s, late) ==
  \A i, j \in DOMAIN s :
    /\ s[i] = "CREATE" => i = 1
    /\ s[i] \in {"CLOSE", "DELETE"} /\ i # j =>
         /\ s[j] \notin {"CLOSE", "DELETE"}
         /\ j > i => s[j] = "RENAME" /\ late
Story(f) ==
  /\ Told(events[f], raced[f])
  /\ Ended(f) => file[f] \in {"cleaned", "closed"} /\ ~Cleaning(f, Places \ {"leave"})
  /\ (Ended(f) \/ Cleaning(f, Places)) /\ Running(f, Requests, Places) => raced[f]

(* The requests that succeeded, the marks in the context and the events. *)
Marks(f) ==
  /\ "read" \in did[f] <=> ctx[f].wasRead \/ Running(f, {"read"}, {"mark"})
  /\ "rename" \in did[f] <=> ctx[f].dispositionRename \/ Running(f, {"rename"}, {"mark"})
  /\ "delete" \in did[f] \/ "undelete" \in did[f] <=>
       ctx[f].dispositionDelete \/ Running(f, {"delete", "undelete"}, {"mark"})
  /\ "rename" \in did[f] <=>
       Seen(f, "RENAME") \/ Running(f, {"rename"}, {"mark", "instance", "report"})
  /\ file[f] \in {"open", "cleaned", "closed"} \/ Running(f, {"create"}, {"leave"}) =>
       (Seen(f, "CREATE") <=> ctx[f].fileIoStatus = "created")
  /\ file[f] \in {"open", "cleaned"} \/ Running(f, {"create"}, {"instance", "report", "leave"}) =>
       linked[f]

(* What the cleanup has reported so far, if it ran alone. *)
Deleted(f) == ctx[f].deleteOnClose \/ ctx[f].dispositionDelete
Ends(f) ==
  /\ ~Running(f, Requests, Places)
  /\ \A t \in Threads : op[t].file = f /\ op[t].pc \in {"report", "last"} =>
       (op[t].deleted <=> Deleted(f))
  /\ ~Cleaning(f, {"fs", "instance", "report"}) => (Seen(f, "READ") <=> ctx[f].wasRead)
  /\ ~Cleaning(f, Places \ {"leave"}) =>
       /\ Seen(f, "DELETE") <=> Deleted(f) /\ ctx[f].fileIoStatus # "created"
       /\ Seen(f, "CLOSE") <=> ~Deleted(f) /\ ~ctx[f].dispositionRename

Faith(f) ==
  /\ ~missed[f] => Marks(f)
  /\ ~missed[f] /\ ~raced[f] /\ file[f] \in {"cleaned", "closed"} => Ends(f)
  /\ Seen(f, "READ") => file[f] \in {"cleaned", "closed"} /\ ~Cleaning(f, {"fs", "instance", "report"})

InstanceCounted == instRefs = 1 + Cardinality({t \in Threads : op[t].inst})

FileInv(f) == Life(f) /\ Counted(f) /\ Story(f) /\ Faith(f)
Inv == TypeOK /\ Shape /\ InstanceCounted /\ \A f \in Files : FileInv(f)

-----------------------------------------------------------------------------
Has(s, x) == \E i \in DOMAIN s : s[i] = x

(* An event at the end of the story. *)
LEMMA TellOne ==
  ASSUME NEW s \in Seq(Reports), NEW x \in Reports, NEW late, Told(s, late),
         x = "CREATE" => s = << >>,
         Has(s, "CLOSE") \/ Has(s, "DELETE") => x = "RENAME" /\ late
  PROVE  Append(s, x) \in Seq(Reports) /\ Told(Append(s, x), late)
<1> DEFINE n == Len(s)
           z == Append(s, x)
<1>1. n \in Nat /\ DOMAIN s = 1..n
  OBVIOUS
<1>2. z \in Seq(Reports) /\ DOMAIN z = 1..n+1 /\ z[n + 1] = x
      /\ \A i \in 1..n : z[i] = s[i]
  BY AppendProperties
<1>3. x = "CREATE" => n = 0
  OBVIOUS
<1> HIDE DEF n, z
<1>4. ASSUME NEW i \in 1..n+1, NEW j \in 1..n+1
      PROVE  /\ z[i] = "CREATE" => i = 1
             /\ z[i] \in {"CLOSE", "DELETE"} /\ i # j =>
                  /\ z[j] \notin {"CLOSE", "DELETE"}
                  /\ j > i => z[j] = "RENAME" /\ late
  <2>1. CASE i \in 1..n /\ j \in 1..n
    BY <2>1, <1>1, <1>2 DEF Told
  <2>2. CASE i = n + 1
    BY <2>2, <1>1, <1>2, <1>3 DEF Has
  <2>3. CASE j = n + 1 /\ i \in 1..n
    BY <2>3, <1>1, <1>2 DEF Told, Has
  <2> QED  BY <2>1, <2>2, <2>3, <1>1
<1>5. Told(z, late)
  BY <1>2, <1>4 DEF Told
<1> QED  BY <1>2, <1>5 DEF z

(* What is in a story with one event more. *)
LEMMA HasOne ==
  ASSUME NEW s \in Seq(Reports), NEW x
  PROVE  \A y : Has(Append(s, x), y) <=> Has(s, y) \/ y = x
<1>1. Len(s) \in Nat /\ DOMAIN s = 1..Len(s) /\ DOMAIN Append(s, x) = 1..Len(s)+1
      /\ Append(s, x)[Len(s) + 1] = x
      /\ \A i \in 1..Len(s) : Append(s, x)[i] = s[i]
  OBVIOUS
<1> QED  BY <1>1 DEF Has

(* What Ending can add to the events. *)
LEMMA Endings ==
  ASSUME NEW s \in Seq(Reports)
  PROVE  /\ s \o (<< >> \o << >>) = s
         /\ \A y : s \o (<< >> \o <<y>>) = Append(s, y)
         /\ \A y : s \o (<<y>> \o << >>) = Append(s, y)
         /\ \A y, z : s \o (<<y>> \o <<z>>) = Append(Append(s, y), z)
<1>1. s \o (<< >> \o << >>) = s
  OBVIOUS
<1>2. \A y : s \o (<< >> \o <<y>>) = Append(s, y)
  OBVIOUS
<1>3. \A y : s \o (<<y>> \o << >>) = Append(s, y)
  OBVIOUS
<1>4. \A y, z : s \o (<<y>> \o <<z>>) = Append(Append(s, y), z)
  OBVIOUS
<1> QED  BY <1>1, <1>2, <1>3, <1>4

-----------------------------------------------------------------------------
Lives == {"new", "opening", "failed", "open", "cleaned", "closed"}
OpRecords ==
  [pc : Places, kind : Requests \cup {"none", "create", "cleanup"},
   file : Files \cup {None}, inst : BOOLEAN, deleted : BOOLEAN]

(* A step that concerns no file object but f. *)
Confined(f) ==
  /\ \A u \in Threads : op'[u] # op[u] => op[u].file \in {f, None} /\ op'[u].file \in {f, None}
  /\ \A g \in Files \ {f} :
       /\ file'[g] = file[g] /\ ctx'[g] = ctx[g] /\ linked'[g] = linked[g] /\ refs'[g] = refs[g]
       /\ events'[g] = events[g] /\ did'[g] = did[g]
       /\ missed'[g] = missed[g] /\ raced'[g] = raced[g]

(* The other file objects do not notice it. *)
LEMMA Elsewhere ==
  ASSUME Inv, NEW f \in Files, Confined(f), NEW g \in Files, g # f
  PROVE  FileInv(g)'
<1>1. \A u \in Threads : /\ op'[u].file = g <=> op[u].file = g
                         /\ op[u].file = g => op'[u] = op[u]
  BY FileCallbacksAssumption DEF Confined
<1>2. /\ file'[g] = file[g] /\ ctx'[g] = ctx[g] /\ linked'[g] = linked[g] /\ refs'[g] = refs[g]
      /\ events'[g] = events[g] /\ did'[g] = did[g]
      /\ missed'[g] = missed[g] /\ raced'[g] = raced[g]
  BY DEF Confined
<1>3. FileInv(g)
  BY DEF Inv
<1>4. Life(g)'
  BY <1>1, <1>2, <1>3 DEF FileInv, Life
<1>5. Counted(g)'
  <2>1. Holding(g)' = Holding(g)
    BY <1>1 DEF Holding, Busy
  <2> QED  BY <1>2, <1>3, <2>1 DEF FileInv, Counted
<1>6. \A x : Seen(g, x)' <=> Seen(g, x)
  BY <1>2 DEF Seen
<1>7. \A k, p : Running(g, k, p)' <=> Running(g, k, p)
  BY <1>1 DEF Running
<1>8. \A p : Cleaning(g, p)' <=> Cleaning(g, p)
  BY <1>7 DEF Cleaning
<1>9. Story(g)'
  BY <1>2, <1>3, <1>6, <1>7, <1>8 DEF FileInv, Story, Ended
<1>10. Marks(g) => Marks(g)'
  BY <1>2, <1>6, <1>7 DEF Marks
<1>11. Ends(g) => Ends(g)'
  BY <1>1, <1>2, <1>6, <1>7, <1>8 DEF Ends, Deleted
<1>12. Faith(g)'
  BY <1>2, <1>3, <1>6, <1>8, <1>10, <1>11 DEF FileInv, Faith
<1> QED  BY <1>4, <1>5, <1>9, <1>12 DEF FileInv

(* A variable of file objects changes at f at most. *)
At(f, old, new) == new = [old EXCEPT ![f] = new[f]]
ChangesAt(f) ==
  /\ At(f, file, file') /\ At(f, ctx, ctx') /\ At(f, linked, linked') /\ At(f, refs, refs')
  /\ At(f, events, events') /\ At(f, ops, ops') /\ At(f, did, did')
  /\ At(f, missed, missed') /\ At(f, raced, raced')

(* The types after a step of thread t that concerns f. *)
LEMMA Types ==
  ASSUME TypeOK, NEW f \in Files, NEW t \in Threads, ChangesAt(f),
         op' = [op EXCEPT ![t] = op'[t]], op'[t] \in OpRecords,
         file'[f] \in Lives, ctx'[f] \in Contexts, linked'[f] \in BOOLEAN, refs'[f] \in Int,
         instRefs' \in Int, events'[f] \in Seq(Reports), ops'[f] \in 0..MaxOps,
         did'[f] \in SUBSET Requests, missed'[f] \in BOOLEAN, raced'[f] \in BOOLEAN
  PROVE  TypeOK'
<1>1. ASSUME NEW S, NEW old \in [Files -> S], NEW new, At(f, old, new), new[f] \in S
      PROVE  new \in [Files -> S]
  BY <1>1 DEF At
<1>2. file' \in [Files -> Lives] /\ ctx' \in [Files -> Contexts] /\ refs' \in [Files -> Int]
  BY <1>1 DEF TypeOK, ChangesAt, Lives
<1>3. linked' \in [Files -> BOOLEAN] /\ missed' \in [Files -> BOOLEAN]
      /\ raced' \in [Files -> BOOLEAN]
  BY <1>1 DEF TypeOK, ChangesAt
<1>4. events' \in [Files -> Seq(Reports)] /\ ops' \in [Files -> 0..MaxOps]
      /\ did' \in [Files -> SUBSET Requests]
  BY <1>1 DEF TypeOK, ChangesAt
<1>5. op' \in [Threads -> OpRecords]
  BY DEF TypeOK, OpRecords
<1> QED  BY <1>2, <1>3, <1>4, <1>5, Zenon DEF TypeOK, Lives, OpRecords

(* Such a step is confined to f. *)
LEMMA Confinement ==
  ASSUME TypeOK, NEW f \in Files, ChangesAt(f), NEW t \in Threads,
         op' = [op EXCEPT ![t] = op'[t]],
         op[t].file \in {f, None}, op'[t].file \in {f, None}
  PROVE  Confined(f)
<1>1. \A u \in Threads : u # t => op'[u] = op[u]
  BY DEF TypeOK
<1>3. ASSUME NEW g \in Files \ {f}
      PROVE  /\ file'[g] = file[g] /\ ctx'[g] = ctx[g] /\ linked'[g] = linked[g]
             /\ refs'[g] = refs[g] /\ events'[g] = events[g] /\ did'[g] = did[g]
             /\ missed'[g] = missed[g] /\ raced'[g] = raced[g]
  <2>1. file'[g] = file[g] /\ ctx'[g] = ctx[g] /\ linked'[g] = linked[g]
    BY DEF TypeOK, ChangesAt, At
  <2>2. refs'[g] = refs[g] /\ events'[g] = events[g] /\ did'[g] = did[g]
    BY DEF TypeOK, ChangesAt, At
  <2>3. missed'[g] = missed[g] /\ raced'[g] = raced[g]
    BY DEF TypeOK, ChangesAt, At
  <2> QED  BY <2>1, <2>2, <2>3
<1> QED  BY <1>1, <1>3 DEF Confined

(* A request that holds the context of f. *)
Holds(f, o) == o.file = f /\ o.pc # "fs"

(* How the callbacks that hold the context of f change with thread t. *)
LEMMA HoldingCount ==
  ASSUME TypeOK, NEW f \in Files, NEW t \in Threads, op' = [op EXCEPT ![t] = op'[t]]
  PROVE  /\ Cardinality(Holding(f)) \in Nat
         /\ (Holds(f, op[t]) <=> Holds(f, op'[t])) =>
              Cardinality(Holding(f)') = Cardinality(Holding(f))
         /\ ~Holds(f, op[t]) /\ Holds(f, op'[t]) =>
              Cardinality(Holding(f)') = Cardinality(Holding(f)) + 1
         /\ Holds(f, op[t]) /\ ~Holds(f, op'[t]) =>
              Cardinality(Holding(f)') = Cardinality(Holding(f)) - 1
<1>1. \A u \in Threads : u # t => op'[u] = op[u]
  BY DEF TypeOK
<1>2. \A u \in Threads : u \in Holding(f) <=> Holds(f, op[u])
  BY DEF Holding, Busy, Holds
<1>3. \A u \in Threads : u \in Holding(f)' <=> Holds(f, op'[u])
  BY DEF Holding, Busy, Holds
<1>4. Holding(f) \subseteq Threads /\ Holding(f)' \subseteq Threads
  BY DEF Holding, Busy
<1>5. IsFiniteSet(Holding(f)) /\ Cardinality(Holding(f)) \in Nat
  BY <1>4, FileCallbacksAssumption, FS_Subset, FS_CardinalityType
<1>6. ASSUME Holds(f, op[t]) <=> Holds(f, op'[t])
      PROVE  Cardinality(Holding(f)') = Cardinality(Holding(f))
  <2>1. Holding(f)' = Holding(f)
    BY <1>1, <1>2, <1>3, <1>4, <1>6
  <2> QED  BY <2>1
<1>7. ASSUME ~Holds(f, op[t]), Holds(f, op'[t])
      PROVE  Cardinality(Holding(f)') = Cardinality(Holding(f)) + 1
  <2>1. Holding(f)' = Holding(f) \cup {t} /\ t \notin Holding(f)
    BY <1>1, <1>2, <1>3, <1>4, <1>7
  <2> QED  BY <2>1, <1>5, FS_AddElement
<1>8. ASSUME Holds(f, op[t]), ~Holds(f, op'[t])
      PROVE  Cardinality(Holding(f)') = Cardinality(Holding(f)) - 1
  <2>1. Holding(f)' = Holding(f) \ {t} /\ t \in Holding(f)
    BY <1>1, <1>2, <1>3, <1>4, <1>8
  <2> QED  BY <2>1, <1>5, FS_RemoveElement
<1> QED  BY <1>5, <1>6, <1>7, <1>8

(* The same for the instance context. *)
LEMMA InstanceCount ==
  ASSUME TypeOK, InstanceCounted, NEW t \in Threads, op' = [op EXCEPT ![t] = op'[t]],
         \/ (op'[t].inst <=> op[t].inst) /\ instRefs' = instRefs
         \/ ~op[t].inst /\ op'[t].inst /\ instRefs' = instRefs + 1
         \/ op[t].inst /\ ~op'[t].inst /\ instRefs' = instRefs - 1
  PROVE  InstanceCounted' /\ instRefs' \in Int
<1> DEFINE I == {u \in Threads : op[u].inst}
<1>1. \A u \in Threads : u # t => op'[u] = op[u]
  BY DEF TypeOK
<1>2. IsFiniteSet(I) /\ Cardinality(I) \in Nat
  BY FileCallbacksAssumption, FS_Subset, FS_CardinalityType
<1>3. CASE (op'[t].inst <=> op[t].inst) /\ instRefs' = instRefs
  <2>1. I' = I
    BY <1>1, <1>3
  <2>2. Cardinality(I') = Cardinality(I)
    BY <2>1, Zenon
  <2> QED  BY <1>2, <1>3, <2>2 DEF InstanceCounted
<1>4. CASE ~op[t].inst /\ op'[t].inst /\ instRefs' = instRefs + 1
  <2>1. I' = I \cup {t} /\ t \notin I
    BY <1>1, <1>4
  <2>2. Cardinality(I') = Cardinality(I) + 1
    BY <1>2, <2>1, FS_AddElement
  <2> QED  BY <1>2, <1>4, <2>2 DEF InstanceCounted
<1>5. CASE op[t].inst /\ ~op'[t].inst /\ instRefs' = instRefs - 1
  <2>1. I' = I \ {t} /\ t \in I
    BY <1>1, <1>5
  <2>2. Cardinality(I') = Cardinality(I) - 1
    BY <1>2, <2>1, FS_RemoveElement
  <2> QED  BY <1>2, <1>5, <2>2 DEF InstanceCounted
<1> QED  BY <1>3, <1>4, <1>5

FileTypes(f) ==
  /\ file[f] \in Lives /\ ctx[f] \in Contexts /\ linked[f] \in BOOLEAN /\ refs[f] \in Int
  /\ events[f] \in Seq(Reports) /\ ops[f] \in 0..MaxOps /\ did[f] \in SUBSET Requests
  /\ missed[f] \in BOOLEAN /\ raced[f] \in BOOLEAN

(* What has to be shown of a step of thread t for f. *)
LEMMA Combine ==
  ASSUME Inv, NEW f \in Files, NEW t \in Threads, ChangesAt(f), FileTypes(f)',
         op' = [op EXCEPT ![t] = op'[t]], op'[t] \in OpRecords, ShapeOf(op'[t]),
         op[t].file \in {f, None}, op'[t].file \in {f, None},
         \/ (op'[t].inst <=> op[t].inst) /\ instRefs' = instRefs
         \/ ~op[t].inst /\ op'[t].inst /\ instRefs' = instRefs + 1
         \/ op[t].inst /\ ~op'[t].inst /\ instRefs' = instRefs - 1,
         FileInv(f)'
  PROVE  Inv'
<1>1. TypeOK /\ Shape /\ InstanceCounted
  BY DEF Inv
<1>2. InstanceCounted' /\ instRefs' \in Int
  BY <1>1, InstanceCount
<1>3. TypeOK'
  BY <1>1, <1>2, Types DEF FileTypes
<1>4. Shape'
  <2>1. \A u \in Threads : u # t => op'[u] = op[u]
    BY <1>1 DEF TypeOK
  <2>2. \A u \in Threads : ShapeOf(op'[u])
    BY <1>1, <2>1 DEF Shape
  <2> QED  BY <2>2 DEF Shape
<1>5. Confined(f)
  BY <1>1, Confinement
<1>6. \A g \in Files : FileInv(g)'
  BY <1>5, Elsewhere
<1> QED  BY <1>2, <1>3, <1>4, <1>6 DEF Inv

(* What the invariant says of one thread and one file object. *)
LEMMA Here ==
  ASSUME Inv, NEW f \in Files, NEW t \in Threads
  PROVE  /\ TypeOK /\ FileTypes(f) /\ op \in [Threads -> OpRecords] /\ op[t] \in OpRecords
         /\ ShapeOf(op[t]) /\ FileInv(f) /\ f # None
         /\ \A u \in Threads : op[u].file = f =>
              op[u].kind \in Requests \cup {"create", "cleanup"} /\ op[u].pc \in Places \ {"idle"}
<1>1. TypeOK /\ ShapeOf(op[t]) /\ FileInv(f)
  BY DEF Inv, Shape
<1>2. op \in [Threads -> OpRecords] /\ op[t] \in OpRecords
  BY <1>1 DEF TypeOK, OpRecords
<1>3. FileTypes(f)
  BY <1>1 DEF TypeOK, FileTypes, Lives
<1>4. ASSUME NEW u \in Threads, op[u].file = f
      PROVE  op[u].kind \in Requests \cup {"create", "cleanup"} /\ op[u].pc \in Places \ {"idle"}
  <2>1. op[u] \in OpRecords /\ ShapeOf(op[u])
    BY <1>2 DEF Inv, Shape
  <2>2. op[u] # Idle
    BY <1>4, FileCallbacksAssumption DEF Idle
  <2> QED  BY <2>1, <2>2 DEF OpRecords, ShapeOf
<1> QED  BY <1>1, <1>2, <1>3, <1>4, FileCallbacksAssumption

(* Whether a callback of f runs depends on t and on the other threads. *)
Others(f, t, kinds, places) ==
  \E u \in Threads \ {t} : op[u].file = f /\ op[u].kind \in kinds /\ op[u].pc \in places
Is(o, f, kinds, places) == o.file = f /\ o.kind \in kinds /\ o.pc \in places

(* What Running says before and after a step of thread t, split into t and the others. *)
LEMMA RunningFacts ==
  ASSUME NEW f, NEW t \in Threads, \A u \in Threads : u # t => op'[u] = op[u]
  PROVE  \A k, p : /\ Running(f, k, p) <=> Others(f, t, k, p) \/ Is(op[t], f, k, p)
                   /\ Running(f, k, p)' <=> Others(f, t, k, p) \/ Is(op'[t], f, k, p)
BY DEF Running, Others, Is

(* The thread goes on with its request for f, or has nothing to do with f. *)
GoesOn(f, t) ==
  op'[t].file = f =>
    op[t].file = f /\ op[t].kind = op'[t].kind /\ op[t].pc \in Places \ {"leave"}

(* A request that goes on without an event does not disturb the story. *)
LEMMA QuietStory ==
  ASSUME NEW f, NEW t \in Threads, \A u \in Threads : u # t => op'[u] = op[u], GoesOn(f, t),
         Story(f), events'[f] = events[f], raced'[f] = raced[f],
         file[f] \in {"cleaned", "closed"} => file'[f] \in {"cleaned", "closed"}
  PROVE  Story(f)'
<1>1. \A x : Seen(f, x)' <=> Seen(f, x)
  BY DEF Seen
<1>2. Ended(f)' <=> Ended(f)
  BY <1>1 DEF Ended
<1>3. Cleaning(f, Places \ {"leave"})' => Cleaning(f, Places \ {"leave"})
  BY DEF Cleaning, Running, GoesOn
<1>4. Cleaning(f, Places)' => Cleaning(f, Places)
  BY DEF Cleaning, Running, GoesOn
<1>5. Running(f, Requests, Places)' => Running(f, Requests, Places)
  BY DEF Running, GoesOn
<1> QED  BY <1>2, <1>3, <1>4, <1>5 DEF Story

(* The request of a thread goes on. *)
LEMMA GoFacts ==
  ASSUME TypeOK, NEW t \in Threads, NEW q \in Places, Go(t, q)
  PROVE  /\ op' = [op EXCEPT ![t] = op'[t]] /\ op'[t] \in OpRecords
         /\ op'[t].pc = q /\ op'[t].kind = op[t].kind /\ op'[t].file = op[t].file
         /\ op'[t].inst = op[t].inst /\ op'[t].deleted = op[t].deleted
         /\ \A u \in Threads : u # t => op'[u] = op[u]
<1>1. op \in [Threads -> OpRecords]
  BY DEF TypeOK, OpRecords
<1>2. op'[t] = [op[t] EXCEPT !.pc = q] /\ op' = [op EXCEPT ![t] = op'[t]]
  BY <1>1 DEF Go
<1>3. op[t] \in OpRecords /\ \A u \in Threads : u # t => op'[u] = op[u]
  BY <1>1 DEF Go
<1> QED  BY <1>2, <1>3 DEF OpRecords

(* The request of a thread ends. *)
LEMMA FinishFacts ==
  ASSUME TypeOK, NEW t \in Threads, Finish(t)
  PROVE  /\ op' = [op EXCEPT ![t] = op'[t]] /\ op'[t] \in OpRecords /\ op'[t] = Idle
         /\ op'[t].pc = "idle" /\ op'[t].kind = "none" /\ op'[t].file = None
         /\ ~op'[t].inst /\ ShapeOf(op'[t])
         /\ \A u \in Threads : u # t => op'[u] = op[u]
<1>1. op'[t] = Idle /\ op' = [op EXCEPT ![t] = op'[t]]
      /\ \A u \in Threads : u # t => op'[u] = op[u]
  BY DEF Finish, TypeOK
<1>2. Idle \in OpRecords
  BY DEF Idle, OpRecords, Places
<1>3. Idle.pc = "idle" /\ Idle.kind = "none" /\ Idle.file = None /\ ~Idle.inst
  BY DEF Idle
<1>4. ShapeOf(Idle)
  BY <1>3 DEF ShapeOf
<1> QED  BY <1>1, <1>2, <1>3, <1>4

(* The request of a thread begins. *)
LEMMA StartFacts ==
  ASSUME TypeOK, NEW t \in Threads, NEW f \in Files, op[t] = Idle,
         NEW k \in Requests \cup {"create", "cleanup"}, Start(t, f, k)
  PROVE  /\ op' = [op EXCEPT ![t] = op'[t]] /\ op'[t] \in OpRecords
         /\ op'[t].pc = "fs" /\ op'[t].kind = k /\ op'[t].file = f
         /\ ~op'[t].inst /\ ~op[t].inst /\ op[t].file = None /\ ShapeOf(op'[t])
         /\ \A u \in Threads : u # t => op'[u] = op[u]
<1>1. op'[t] = [Idle EXCEPT !.pc = "fs", !.kind = k, !.file = f] /\ op' = [op EXCEPT ![t] = op'[t]]
      /\ \A u \in Threads : u # t => op'[u] = op[u]
  BY DEF Start, TypeOK
<1>2. op'[t] = [pc |-> "fs", kind |-> k, file |-> f, inst |-> FALSE, deleted |-> FALSE]
  BY <1>1 DEF Idle
<1>3. op'[t] \in OpRecords
  BY <1>2 DEF OpRecords, Places
<1>4. op'[t].pc = "fs" /\ op'[t].kind = k /\ op'[t].file = f /\ ~op'[t].inst
  BY <1>2
<1>5. ~op[t].inst /\ op[t].file = None
  BY DEF Idle
<1>6. ShapeOf(op'[t])
  BY <1>4 DEF ShapeOf, Requests
<1> QED  BY <1>1, <1>3, <1>4, <1>5, <1>6

-----------------------------------------------------------------------------
(* PreCreateCallback: a file object begins its life. *)
LEMMA PreCreateStep ==
  ASSUME Inv, NEW t \in Threads, NEW f \in Files, PreCreate(t, f)
  PROVE  Inv'
<1>1. TypeOK /\ FileTypes(f) /\ op[t] \in OpRecords /\ ShapeOf(op[t]) /\ FileInv(f)
      /\ f # None
      /\ \A u \in Threads : op[u].file = f =>
           op[u].kind \in Requests \cup {"create", "cleanup"} /\ op[u].pc \in Places \ {"idle"}
  BY Here
<1>2. /\ op' = [op EXCEPT ![t] = op'[t]] /\ op'[t] \in OpRecords
      /\ \A u \in Threads : u # t => op'[u] = op[u]
      /\ instRefs' = instRefs /\ ~op'[t].inst /\ ~op[t].inst /\ op[t].file = None /\ ShapeOf(op'[t])
      /\ op'[t].pc = "fs" /\ op'[t].file = f /\ op'[t].kind = "create" /\ file[f] = "new"
  BY <1>1, StartFacts DEF PreCreate
<1>3. ChangesAt(f)
  BY <1>1 DEF PreCreate, TypeOK, ChangesAt, At, histVars
<1>4. /\ file'[f] = "opening"
      /\ ctx'[f] = ctx[f]
      /\ linked'[f] = linked[f]
      /\ refs'[f] = refs[f]
      /\ events'[f] = events[f]
      /\ ops'[f] = ops[f]
      /\ did'[f] = did[f]
      /\ missed'[f] = missed[f]
      /\ raced'[f] = raced[f]
  BY <1>1 DEF PreCreate, TypeOK, histVars
<1>5. FileTypes(f)'
  BY <1>1, <1>4 DEF FileTypes, Lives, Requests
<1>6. Life(f)'
  BY <1>1, <1>2, <1>4 DEF FileInv, Life, ShapeOf, Requests
<1>7. Counted(f)'
  <2>1. Counted(f) /\ refs[f] \in Int
    BY <1>1 DEF FileInv, FileTypes
  <2> QED  BY <1>1, <1>2, <1>4, <2>1, HoldingCount, FileCallbacksAssumption DEF Counted, Holds
<1>8. Story(f)'
  BY <1>1, <1>2, <1>4 DEF FileInv, Life, Story, Ended, Seen, Cleaning, Running, ShapeOf, Places, Requests
<1>9. Faith(f)'
  <2>0. \A ks, ps :
          /\ Running(f, ks, ps) <=> Others(f, t, ks, ps) \/ Is(op[t], f, ks, ps)
          /\ Running(f, ks, ps)' <=> Others(f, t, ks, ps) \/ Is(op'[t], f, ks, ps)
    BY <1>2, RunningFacts
  <2>1. \A x : Seen(f, x)' <=> Seen(f, x)
    BY <1>4 DEF Seen
  <2>2. ~missed'[f] => Marks(f)'
    BY <1>1, <1>2, <1>4, <2>0, <2>1 DEF FileInv, Life, Faith, Marks, Is
  <2>3. ~missed'[f] /\ ~raced'[f] /\ file'[f] \in {"cleaned", "closed"} => Ends(f)'
    BY <1>1, <1>2, <1>4, <2>0, <2>1 DEF FileInv, Life, Faith, Ends, Deleted, Cleaning, Is, Requests, Places
  <2>4. Seen(f, "READ")' => file'[f] \in {"cleaned", "closed"} /\ ~Cleaning(f, {"fs", "instance", "report"})'
    BY <1>1, <1>2, <1>4, <2>0, <2>1 DEF FileInv, Life, Faith, Cleaning, Is, Seen
  <2> QED  BY <2>2, <2>3, <2>4 DEF Faith
<1> QED  BY <1>1, <1>2, <1>3, <1>5, <1>6, <1>7, <1>8, <1>9, Combine DEF FileInv, PreCreate

(* A creation that leaves no context. *)
LEMMA CreateUnseenStep ==
  ASSUME Inv, NEW t \in Threads, CreateUnseen(t)
  PROVE  Inv'
<1>0. PICK f \in Files : f = op[t].file /\ op[t].pc # "idle"
  BY DEF Inv, Shape, ShapeOf, CreateUnseen
<1>1. TypeOK /\ FileTypes(f) /\ op[t] \in OpRecords /\ ShapeOf(op[t]) /\ FileInv(f)
      /\ f # None
      /\ \A u \in Threads : op[u].file = f =>
           op[u].kind \in Requests \cup {"create", "cleanup"} /\ op[u].pc \in Places \ {"idle"}
  BY Here
<1>2. /\ op' = [op EXCEPT ![t] = op'[t]] /\ op'[t] \in OpRecords
      /\ \A u \in Threads : u # t => op'[u] = op[u]
      /\ instRefs' = instRefs /\ ShapeOf(op'[t]) /\ op'[t].file = None
      /\ ~op'[t].inst /\ ~op[t].inst /\ op[t].kind = "create" /\ op[t].pc = "fs"
  BY <1>0, <1>1, FinishFacts DEF CreateUnseen, ShapeOf
<1>3. ChangesAt(f)
  BY <1>0, <1>1 DEF CreateUnseen, ShapeOf, Miss, TypeOK, ChangesAt, At, histVars
<1>4. /\ (\/ file'[f] = "failed" /\ missed'[f] = missed[f]
          \/ file'[f] = "open" /\ missed'[f] = TRUE)
      /\ ctx'[f] = ctx[f]
      /\ linked'[f] = linked[f]
      /\ refs'[f] = refs[f]
      /\ events'[f] = events[f]
      /\ ops'[f] = ops[f]
      /\ did'[f] = did[f]
      /\ raced'[f] = raced[f]
  BY <1>0, <1>1 DEF CreateUnseen, ShapeOf, Miss, TypeOK, histVars
<1>5. FileTypes(f)'
  BY <1>1, <1>4 DEF FileTypes, Lives, Requests
<1>6. Life(f)'
  BY <1>0, <1>1, <1>2, <1>4 DEF FileInv, Life, ShapeOf, Requests
<1>7. Counted(f)'
  <2>1. Counted(f) /\ refs[f] \in Int
    BY <1>1 DEF FileInv, FileTypes
  <2> QED  BY <1>0, <1>1, <1>2, <1>4, <2>1, HoldingCount, FileCallbacksAssumption DEF Counted, Holds
<1>8. Story(f)'
  <2>1. Story(f) /\ events'[f] = events[f] /\ raced'[f] = raced[f]
    BY <1>1, <1>4 DEF FileInv
  <2>2. GoesOn(f, t)
    BY <1>0, <1>1, <1>2 DEF GoesOn, Places
  <2>3. file[f] \in {"cleaned", "closed"} => file'[f] \in {"cleaned", "closed"}
    BY <1>0, <1>1, <1>2, <1>4 DEF FileInv, Life
  <2> QED  BY <1>2, <2>1, <2>2, <2>3, QuietStory
<1>9. Faith(f)'
  <2>0. \A ks, ps :
          /\ Running(f, ks, ps) <=> Others(f, t, ks, ps) \/ Is(op[t], f, ks, ps)
          /\ Running(f, ks, ps)' <=> Others(f, t, ks, ps) \/ Is(op'[t], f, ks, ps)
    BY <1>2, RunningFacts
  <2>1. \A x : Seen(f, x)' <=> Seen(f, x)
    BY <1>4 DEF Seen
  <2>2. ~missed'[f] => Marks(f)'
    BY <1>0, <1>1, <1>2, <1>4, <2>0, <2>1 DEF FileInv, Life, Faith, Marks, Is
  <2>3. ~missed'[f] /\ ~raced'[f] /\ file'[f] \in {"cleaned", "closed"} => Ends(f)'
    BY <1>0, <1>1, <1>2, <1>4, <2>0, <2>1 DEF FileInv, Life, Faith, Ends, Deleted, Cleaning, Is, Requests, Places
  <2>4. Seen(f, "READ")' => file'[f] \in {"cleaned", "closed"} /\ ~Cleaning(f, {"fs", "instance", "report"})'
    BY <1>0, <1>1, <1>2, <1>4, <2>0, <2>1 DEF FileInv, Life, Faith, Cleaning, Is, Seen
  <2> QED  BY <2>2, <2>3, <2>4 DEF Faith
<1> QED  BY <1>0, <1>1, <1>2, <1>3, <1>5, <1>6, <1>7, <1>8, <1>9, Combine DEF FileInv, CreateUnseen

(* A new context has no marks. *)
LEMMA NewContextFacts ==
  ASSUME NEW io, NEW onClose \in BOOLEAN
  PROVE  /\ NewContext(io, onClose) \in Contexts
         /\ ~NewContext(io, onClose).wasRead /\ ~NewContext(io, onClose).dispositionRename
         /\ ~NewContext(io, onClose).dispositionDelete
<1> DEFINE st == CASE io \in {"superseded", "overwritten"} -> "overwritten"
                   [] io = "created" -> "created"
                   [] OTHER -> "opened"
<1>1. st \in IoStatus
  BY DEF IoStatus
<1>2. NewContext(io, onClose) =
        [fileIoStatus |-> st, deleteOnClose |-> onClose, dispositionDelete |-> FALSE,
         dispositionRename |-> FALSE, wasRead |-> FALSE, wasChanged |-> FALSE, readOnly |-> FALSE]
  BY DEF NewContext
<1> HIDE DEF st
<1> QED  BY <1>1, <1>2 DEF Contexts

(* What a request leaves in the context. *)
LEMMA MarkedFacts ==
  ASSUME NEW c \in Contexts, NEW k
  PROVE  /\ Marked(c, k) \in Contexts
         /\ Marked(c, k).fileIoStatus = c.fileIoStatus
         /\ Marked(c, k).deleteOnClose <=> c.deleteOnClose
         /\ Marked(c, k).wasRead <=> c.wasRead \/ k = "read"
         /\ Marked(c, k).dispositionRename <=> c.dispositionRename \/ k = "rename"
         /\ Marked(c, k).dispositionDelete <=> c.dispositionDelete \/ k \in {"delete", "undelete"}
<1>1. PICK r \in BOOLEAN : r = (c.wasRead \/ k = "read")
  OBVIOUS
<1>2. PICK w \in BOOLEAN : w = (c.wasChanged \/ k = "write")
  OBVIOUS
<1>3. PICK d \in BOOLEAN : d = (c.dispositionDelete \/ k \in {"delete", "undelete"})
  OBVIOUS
<1>4. PICK n \in BOOLEAN : n = (c.dispositionRename \/ k = "rename")
  OBVIOUS
<1>5. Marked(c, k) = [c EXCEPT !.wasRead = r, !.wasChanged = w, !.dispositionDelete = d,
                               !.dispositionRename = n]
  BY <1>1, <1>2, <1>3, <1>4, Zenon DEF Marked
<1>6. /\ Marked(c, k) \in Contexts /\ Marked(c, k).fileIoStatus = c.fileIoStatus
      /\ Marked(c, k).deleteOnClose = c.deleteOnClose
      /\ Marked(c, k).wasRead = r /\ Marked(c, k).dispositionRename = n
      /\ Marked(c, k).dispositionDelete = d
  BY <1>5 DEF Contexts
<1> QED  BY <1>1, <1>3, <1>4, <1>6, Zenon

(* PostCreateCallback allocates and fills the context. *)
LEMMA PostCreateStep ==
  ASSUME Inv, NEW t \in Threads, PostCreate(t)
  PROVE  Inv'
<1>0. PICK f \in Files : f = op[t].file /\ op[t].pc # "idle"
  BY DEF Inv, Shape, ShapeOf, PostCreate
<1>1. TypeOK /\ FileTypes(f) /\ op[t] \in OpRecords /\ ShapeOf(op[t]) /\ FileInv(f)
      /\ f # None
      /\ \A u \in Threads : op[u].file = f =>
           op[u].kind \in Requests \cup {"create", "cleanup"} /\ op[u].pc \in Places \ {"idle"}
  BY Here
<1>2. /\ op' = [op EXCEPT ![t] = op'[t]] /\ op'[t] \in OpRecords
      /\ \A u \in Threads : u # t => op'[u] = op[u]
      /\ instRefs' = instRefs /\ ShapeOf(op'[t]) /\ op'[t].inst = op[t].inst
      /\ op'[t].file = f /\ op[t].file = f /\ op'[t].kind = op[t].kind /\ op[t].kind = "create" /\ op[t].pc = "fs" /\ op'[t].pc = "set"
  BY <1>0, <1>1, GoFacts DEF PostCreate, ShapeOf, Places
<1>3. ChangesAt(f)
  BY <1>0, <1>1 DEF PostCreate, ShapeOf, Places, TypeOK, ChangesAt, At, histVars
<1>4. /\ file'[f] = file[f]
      /\ \E io \in Information, onClose \in BOOLEAN : ctx'[f] = NewContext(io, onClose)
      /\ linked'[f] = linked[f]
      /\ refs'[f] = 1
      /\ events'[f] = events[f]
      /\ ops'[f] = ops[f]
      /\ did'[f] = did[f]
      /\ missed'[f] = missed[f]
      /\ raced'[f] = raced[f]
  BY <1>0, <1>1, FileCallbacksAssumption DEF PostCreate, ShapeOf, Places, TypeOK, histVars
<1>5. FileTypes(f)'
  <2>1. ctx'[f] \in Contexts
    BY <1>4, NewContextFacts
  <2> QED  BY <1>1, <1>4, <2>1 DEF FileTypes, Lives
<1>6. Life(f)'
  BY <1>0, <1>1, <1>2, <1>4 DEF FileInv, Life, ShapeOf, Requests
<1>7. Counted(f)'
  <2>1. Holding(f) = {} /\ ~linked[f]
    BY <1>0, <1>1, <1>2 DEF FileInv, Life, Holding, Busy
  <2>2. Cardinality(Holding(f)) = 0
    BY <2>1, FS_EmptySet
  <2>3. ~Holds(f, op[t]) /\ Holds(f, op'[t])
    BY <1>2 DEF Holds
  <2>4. Cardinality(Holding(f)') = Cardinality(Holding(f)) + 1
    BY <1>1, <1>2, <2>3, HoldingCount
  <2> QED  BY <1>4, <2>1, <2>2, <2>4 DEF Counted
<1>8. Story(f)'
  <2>1. Story(f) /\ events'[f] = events[f] /\ raced'[f] = raced[f]
    BY <1>1, <1>4 DEF FileInv
  <2>2. GoesOn(f, t)
    BY <1>0, <1>1, <1>2 DEF GoesOn, Places
  <2>3. file[f] \in {"cleaned", "closed"} => file'[f] \in {"cleaned", "closed"}
    BY <1>0, <1>1, <1>2, <1>4 DEF FileInv, Life
  <2> QED  BY <1>2, <2>1, <2>2, <2>3, QuietStory
<1>9. Faith(f)'
  <2>0. \A ks, ps :
          /\ Running(f, ks, ps) <=> Others(f, t, ks, ps) \/ Is(op[t], f, ks, ps)
          /\ Running(f, ks, ps)' <=> Others(f, t, ks, ps) \/ Is(op'[t], f, ks, ps)
    BY <1>2, RunningFacts
  <2>1. \A x : Seen(f, x)' <=> Seen(f, x)
    BY <1>4 DEF Seen
  <2>2. ~missed'[f] => Marks(f)'
    <3>1. did[f] = {} /\ \A k, p : ~Others(f, t, k, p)
      BY <1>0, <1>1, <1>2 DEF FileInv, Life, Others
    <3>2. ~ctx'[f].wasRead /\ ~ctx'[f].dispositionRename /\ ~ctx'[f].dispositionDelete
      BY <1>4, NewContextFacts
    <3>3. ~Seen(f, "RENAME") /\ file[f] = "opening"
      BY <1>0, <1>1, <1>2 DEF FileInv, Life, Seen
    <3> QED  BY <1>2, <1>4, <2>0, <2>1, <3>1, <3>2, <3>3 DEF Marks, Is
  <2>3. ~missed'[f] /\ ~raced'[f] /\ file'[f] \in {"cleaned", "closed"} => Ends(f)'
    BY <1>0, <1>1, <1>2, <1>4, <2>0, <2>1 DEF FileInv, Life, Faith, Ends, Deleted, Cleaning, Is, Requests, Places
  <2>4. Seen(f, "READ")' => file'[f] \in {"cleaned", "closed"} /\ ~Cleaning(f, {"fs", "instance", "report"})'
    BY <1>0, <1>1, <1>2, <1>4, <2>0, <2>1 DEF FileInv, Life, Faith, Cleaning, Is, Seen
  <2> QED  BY <2>2, <2>3, <2>4 DEF Faith
<1> QED  BY <1>0, <1>1, <1>2, <1>3, <1>5, <1>6, <1>7, <1>8, <1>9, Combine DEF FileInv

(* The context is attached to the file object, or is not. *)
LEMMA SetContextStep ==
  ASSUME Inv, NEW t \in Threads, SetStreamHandleContext(t)
  PROVE  Inv'
<1>0. PICK f \in Files : f = op[t].file /\ op[t].pc # "idle"
  BY DEF Inv, Shape, ShapeOf, SetStreamHandleContext
<1>1. TypeOK /\ FileTypes(f) /\ op[t] \in OpRecords /\ ShapeOf(op[t]) /\ FileInv(f)
      /\ f # None
      /\ \A u \in Threads : op[u].file = f =>
           op[u].kind \in Requests \cup {"create", "cleanup"} /\ op[u].pc \in Places \ {"idle"}
  BY Here
<1>2. /\ op' = [op EXCEPT ![t] = op'[t]] /\ op'[t] \in OpRecords
      /\ \A u \in Threads : u # t => op'[u] = op[u]
      /\ instRefs' = instRefs /\ ShapeOf(op'[t]) /\ op'[t].inst = op[t].inst
      /\ op'[t].file = f /\ op[t].file = f /\ op'[t].kind = op[t].kind /\ op[t].kind = "create" /\ op[t].pc = "set"
      /\ op'[t].pc \in {"instance", "leave"}
  BY <1>0, <1>1, GoFacts DEF SetStreamHandleContext, ShapeOf, Places
<1>3. ChangesAt(f)
  BY <1>0, <1>1 DEF SetStreamHandleContext, ShapeOf, Places, Miss, TypeOK, ChangesAt, At, histVars
<1>4. /\ file'[f] = file[f]
      /\ ctx'[f] = ctx[f]
      /\ (\/ op'[t].pc = "instance" /\ linked'[f] = TRUE /\ refs'[f] = refs[f] + 1 /\ missed'[f] = missed[f]
          \/ op'[t].pc = "leave" /\ linked'[f] = linked[f] /\ refs'[f] = refs[f] /\ missed'[f] = TRUE)
      /\ events'[f] = events[f]
      /\ ops'[f] = ops[f]
      /\ did'[f] = did[f]
      /\ raced'[f] = raced[f]
  <2>1. CASE /\ linked' = [linked EXCEPT ![f] = TRUE] /\ refs' = [refs EXCEPT ![f] = @ + 1]
             /\ Go(t, "instance") /\ UNCHANGED missed
    <3>1. op'[t].pc = "instance"
      BY <1>1, <2>1, GoFacts DEF Places
    <3> QED  BY <1>0, <1>1, <2>1, <3>1 DEF SetStreamHandleContext, TypeOK
  <2>2. CASE Go(t, "leave") /\ Miss(f) /\ UNCHANGED <<linked, refs>>
    <3>1. op'[t].pc = "leave"
      BY <1>1, <2>2, GoFacts DEF Places
    <3> QED  BY <1>0, <1>1, <2>2, <3>1 DEF SetStreamHandleContext, TypeOK, Miss
  <2> QED  BY <1>0, <2>1, <2>2 DEF SetStreamHandleContext
<1>5. FileTypes(f)'
  <2>1. linked'[f] \in {TRUE, linked[f]} /\ missed'[f] \in {TRUE, missed[f]}
    BY <1>4
  <2>2. linked'[f] \in BOOLEAN /\ missed'[f] \in BOOLEAN
    BY <1>1, <2>1 DEF FileTypes
  <2>3. refs'[f] \in Int
    BY <1>1, <1>4 DEF FileTypes
  <2> QED  BY <1>1, <1>4, <2>2, <2>3 DEF FileTypes
<1>6. Life(f)'
  BY <1>0, <1>1, <1>2, <1>4 DEF FileInv, Life, ShapeOf, Requests
<1>7. Counted(f)'
  <2>1. Counted(f) /\ refs[f] \in Int /\ ~linked[f]
    BY <1>0, <1>1, <1>2 DEF FileInv, FileTypes, Life
  <2>2. Holds(f, op[t]) /\ Holds(f, op'[t])
    BY <1>2 DEF Holds
  <2>3. Cardinality(Holding(f)') = Cardinality(Holding(f)) /\ Cardinality(Holding(f)) \in Nat
    BY <1>1, <1>2, <2>2, HoldingCount
  <2> QED  BY <1>4, <2>1, <2>3 DEF Counted
<1>8. Story(f)'
  <2>1. Story(f) /\ events'[f] = events[f] /\ raced'[f] = raced[f]
    BY <1>1, <1>4 DEF FileInv
  <2>2. GoesOn(f, t)
    BY <1>0, <1>1, <1>2 DEF GoesOn, Places
  <2>3. file[f] \in {"cleaned", "closed"} => file'[f] \in {"cleaned", "closed"}
    BY <1>0, <1>1, <1>2, <1>4 DEF FileInv, Life
  <2> QED  BY <1>2, <2>1, <2>2, <2>3, QuietStory
<1>9. Faith(f)'
  <2>0. \A ks, ps :
          /\ Running(f, ks, ps) <=> Others(f, t, ks, ps) \/ Is(op[t], f, ks, ps)
          /\ Running(f, ks, ps)' <=> Others(f, t, ks, ps) \/ Is(op'[t], f, ks, ps)
    BY <1>2, RunningFacts
  <2>1. \A x : Seen(f, x)' <=> Seen(f, x)
    BY <1>4 DEF Seen
  <2>2. ~missed'[f] => Marks(f)'
    BY <1>0, <1>1, <1>2, <1>4, <2>0, <2>1 DEF FileInv, Life, Faith, Marks, Is
  <2>3. ~missed'[f] /\ ~raced'[f] /\ file'[f] \in {"cleaned", "closed"} => Ends(f)'
    BY <1>0, <1>1, <1>2, <1>4, <2>0, <2>1 DEF FileInv, Life, Faith, Ends, Deleted, Cleaning, Is, Requests, Places
  <2>4. Seen(f, "READ")' => file'[f] \in {"cleaned", "closed"} /\ ~Cleaning(f, {"fs", "instance", "report"})'
    BY <1>0, <1>1, <1>2, <1>4, <2>0, <2>1 DEF FileInv, Life, Faith, Cleaning, Is, Seen
  <2> QED  BY <2>2, <2>3, <2>4 DEF Faith
<1> QED  BY <1>0, <1>1, <1>2, <1>3, <1>5, <1>6, <1>7, <1>8, <1>9, Combine DEF FileInv

(* A pre-operation callback that asks for the post-operation one. *)
LEMMA PreOperationStep ==
  ASSUME Inv, NEW t \in Threads, NEW f \in Files, NEW k \in Requests,
         PreOperation(t, f, k)
  PROVE  Inv'
<1>1. TypeOK /\ FileTypes(f) /\ op[t] \in OpRecords /\ ShapeOf(op[t]) /\ FileInv(f)
      /\ f # None
      /\ \A u \in Threads : op[u].file = f =>
           op[u].kind \in Requests \cup {"create", "cleanup"} /\ op[u].pc \in Places \ {"idle"}
  BY Here
<1>2. /\ op' = [op EXCEPT ![t] = op'[t]] /\ op'[t] \in OpRecords
      /\ \A u \in Threads : u # t => op'[u] = op[u]
      /\ instRefs' = instRefs /\ ShapeOf(op'[t]) /\ ~op'[t].inst /\ ~op[t].inst /\ op[t].file = None
      /\ op'[t].pc = "fs" /\ op'[t].file = f /\ op'[t].kind = k /\ file[f] = "open"
  BY <1>1, StartFacts DEF PreOperation, CanRequest
<1>3. ChangesAt(f)
  BY <1>1 DEF PreOperation, CanRequest, Count, TypeOK, ChangesAt, At, histVars
<1>4. /\ file'[f] = file[f]
      /\ ctx'[f] = ctx[f]
      /\ linked'[f] = linked[f]
      /\ refs'[f] = refs[f]
      /\ events'[f] = events[f]
      /\ ops'[f] \in 0..MaxOps
      /\ did'[f] = did[f]
      /\ missed'[f] = missed[f]
      /\ raced'[f] = raced[f]
  BY <1>1, FileCallbacksAssumption DEF PreOperation, CanRequest, Count, TypeOK, histVars
<1>5. FileTypes(f)'
  BY <1>1, <1>2, <1>4 DEF FileTypes, Lives, Requests
<1>6. Life(f)'
  BY <1>1, <1>2, <1>4 DEF FileInv, Life, ShapeOf, Requests
<1>7. Counted(f)'
  <2>1. Counted(f) /\ refs[f] \in Int
    BY <1>1 DEF FileInv, FileTypes
  <2> QED  BY <1>1, <1>2, <1>4, <2>1, HoldingCount, FileCallbacksAssumption DEF Counted, Holds
<1>8. Story(f)'
  BY <1>1, <1>2, <1>4 DEF FileInv, Life, Story, Ended, Seen, Cleaning, Running, ShapeOf, Places, Requests
<1>9. Faith(f)'
  <2>0. \A ks, ps :
          /\ Running(f, ks, ps) <=> Others(f, t, ks, ps) \/ Is(op[t], f, ks, ps)
          /\ Running(f, ks, ps)' <=> Others(f, t, ks, ps) \/ Is(op'[t], f, ks, ps)
    BY <1>2, RunningFacts
  <2>1. \A x : Seen(f, x)' <=> Seen(f, x)
    BY <1>4 DEF Seen
  <2>2. ~missed'[f] => Marks(f)'
    BY <1>1, <1>2, <1>4, <2>0, <2>1 DEF FileInv, Life, Faith, Marks, Is
  <2>3. ~missed'[f] /\ ~raced'[f] /\ file'[f] \in {"cleaned", "closed"} => Ends(f)'
    BY <1>1, <1>2, <1>4, <2>0, <2>1 DEF FileInv, Life, Faith, Ends, Deleted, Cleaning, Is, Requests, Places
  <2>4. Seen(f, "READ")' => file'[f] \in {"cleaned", "closed"} /\ ~Cleaning(f, {"fs", "instance", "report"})'
    BY <1>1, <1>2, <1>4, <2>0, <2>1 DEF FileInv, Life, Faith, Cleaning, Is, Seen
  <2> QED  BY <2>2, <2>3, <2>4 DEF Faith
<1> QED  BY <1>1, <1>2, <1>3, <1>5, <1>6, <1>7, <1>8, <1>9, Combine DEF FileInv

(* A request without a post-operation callback. *)
LEMMA PreUnwatchedStep ==
  ASSUME Inv, NEW t \in Threads, NEW f \in Files, NEW k \in Requests,
         PreUnwatched(t, f, k)
  PROVE  Inv'
<1>1. TypeOK /\ FileTypes(f) /\ op[t] \in OpRecords /\ ShapeOf(op[t]) /\ FileInv(f)
      /\ f # None
      /\ \A u \in Threads : op[u].file = f =>
           op[u].kind \in Requests \cup {"create", "cleanup"} /\ op[u].pc \in Places \ {"idle"}
  BY Here
<1>2. /\ op' = [op EXCEPT ![t] = op'[t]] /\ op'[t] \in OpRecords
      /\ \A u \in Threads : u # t => op'[u] = op[u]
      /\ instRefs' = instRefs /\ ShapeOf(op'[t]) /\ op'[t] = op[t] /\ op[t].file = None
      /\ file[f] = "open" /\ (~linked[f] \/ k = "write")
  <2>1. op' = op /\ op[t] = Idle /\ instRefs' = instRefs /\ file[f] = "open" /\ (~linked[f] \/ k = "write")
    BY DEF PreUnwatched, CanRequest, Watches
  <2>2. op = [op EXCEPT ![t] = op[t]]
    BY <1>1 DEF TypeOK
  <2>3. Idle.file = None
    BY DEF Idle
  <2> QED  BY <1>1, <2>1, <2>2, <2>3
<1>3. ChangesAt(f)
  BY <1>1 DEF PreUnwatched, CanRequest, Count, TypeOK, ChangesAt, At, histVars
<1>4. /\ file'[f] = file[f]
      /\ ctx'[f] = ctx[f]
      /\ linked'[f] = linked[f]
      /\ refs'[f] = refs[f]
      /\ events'[f] = events[f]
      /\ ops'[f] \in 0..MaxOps
      /\ did'[f] \in {did[f], did[f] \cup {k}}
      /\ missed'[f] = missed[f]
      /\ raced'[f] = raced[f]
  BY <1>1, FileCallbacksAssumption DEF PreUnwatched, CanRequest, Count, TypeOK, histVars
<1>5. FileTypes(f)'
  BY <1>1, <1>2, <1>4 DEF FileTypes, Lives, Requests
<1>6. Life(f)'
  BY <1>1, <1>2, <1>4 DEF FileInv, Life, ShapeOf, Requests
<1>7. Counted(f)'
  <2>1. Counted(f) /\ refs[f] \in Int
    BY <1>1 DEF FileInv, FileTypes
  <2> QED  BY <1>1, <1>2, <1>4, <2>1, HoldingCount, FileCallbacksAssumption DEF Counted, Holds
<1>8. Story(f)'
  BY <1>1, <1>2, <1>4 DEF FileInv, Life, Story, Ended, Seen, Cleaning, Running, ShapeOf, Places, Requests
<1>9. Faith(f)'
  <2>0. \A ks, ps :
          /\ Running(f, ks, ps) <=> Others(f, t, ks, ps) \/ Is(op[t], f, ks, ps)
          /\ Running(f, ks, ps)' <=> Others(f, t, ks, ps) \/ Is(op'[t], f, ks, ps)
    BY <1>2, RunningFacts
  <2>1. \A x : Seen(f, x)' <=> Seen(f, x)
    BY <1>4 DEF Seen
  <2>2. ~missed'[f] => Marks(f)'
    BY <1>1, <1>2, <1>4, <2>0, <2>1 DEF FileInv, Life, Faith, Marks, Is
  <2>3. ~missed'[f] /\ ~raced'[f] /\ file'[f] \in {"cleaned", "closed"} => Ends(f)'
    BY <1>1, <1>2, <1>4, <2>0, <2>1 DEF FileInv, Life, Faith, Ends, Deleted, Cleaning, Is, Requests, Places
  <2>4. Seen(f, "READ")' => file'[f] \in {"cleaned", "closed"} /\ ~Cleaning(f, {"fs", "instance", "report"})'
    BY <1>1, <1>2, <1>4, <2>0, <2>1 DEF FileInv, Life, Faith, Cleaning, Is, Seen
  <2> QED  BY <2>2, <2>3, <2>4 DEF Faith
<1> QED  BY <1>1, <1>2, <1>3, <1>5, <1>6, <1>7, <1>8, <1>9, Combine DEF FileInv

(* A request that a pre-operation callback skips. *)
LEMMA PreSkippedStep ==
  ASSUME Inv, NEW t \in Threads, NEW f \in Files, NEW k \in Requests,
         PreSkipped(t, f, k)
  PROVE  Inv'
<1>1. TypeOK /\ FileTypes(f) /\ op[t] \in OpRecords /\ ShapeOf(op[t]) /\ FileInv(f)
      /\ f # None
      /\ \A u \in Threads : op[u].file = f =>
           op[u].kind \in Requests \cup {"create", "cleanup"} /\ op[u].pc \in Places \ {"idle"}
  BY Here
<1>2. /\ op' = [op EXCEPT ![t] = op'[t]] /\ op'[t] \in OpRecords
      /\ \A u \in Threads : u # t => op'[u] = op[u]
      /\ instRefs' = instRefs /\ ShapeOf(op'[t]) /\ op'[t] = op[t] /\ op[t].file = None
      /\ file[f] = "open"
  <2>1. op' = op /\ op[t] = Idle /\ instRefs' = instRefs /\ file[f] = "open"
    BY DEF PreSkipped, CanRequest
  <2>2. op = [op EXCEPT ![t] = op[t]]
    BY <1>1 DEF TypeOK
  <2>3. Idle.file = None
    BY DEF Idle
  <2> QED  BY <1>1, <2>1, <2>2, <2>3
<1>3. ChangesAt(f)
  BY <1>1 DEF PreSkipped, CanRequest, Count, Done, Miss, TypeOK, ChangesAt, At, histVars
<1>4. /\ file'[f] = file[f]
      /\ ctx'[f] = ctx[f]
      /\ linked'[f] = linked[f]
      /\ refs'[f] = refs[f]
      /\ events'[f] = events[f]
      /\ ops'[f] \in 0..MaxOps
      /\ did'[f] = did[f] \cup {k}
      /\ missed'[f] = TRUE
      /\ raced'[f] = raced[f]
  BY <1>1, FileCallbacksAssumption DEF PreSkipped, CanRequest, Count, Done, Miss, TypeOK, histVars
<1>5. FileTypes(f)'
  BY <1>1, <1>2, <1>4 DEF FileTypes, Lives, Requests
<1>6. Life(f)'
  BY <1>1, <1>2, <1>4 DEF FileInv, Life, ShapeOf, Requests
<1>7. Counted(f)'
  <2>1. Counted(f) /\ refs[f] \in Int
    BY <1>1 DEF FileInv, FileTypes
  <2> QED  BY <1>1, <1>2, <1>4, <2>1, HoldingCount, FileCallbacksAssumption DEF Counted, Holds
<1>8. Story(f)'
  BY <1>1, <1>2, <1>4 DEF FileInv, Life, Story, Ended, Seen, Cleaning, Running, ShapeOf, Places, Requests
<1>9. Faith(f)'
  <2>0. \A ks, ps :
          /\ Running(f, ks, ps) <=> Others(f, t, ks, ps) \/ Is(op[t], f, ks, ps)
          /\ Running(f, ks, ps)' <=> Others(f, t, ks, ps) \/ Is(op'[t], f, ks, ps)
    BY <1>2, RunningFacts
  <2>1. \A x : Seen(f, x)' <=> Seen(f, x)
    BY <1>4 DEF Seen
  <2>2. ~missed'[f] => Marks(f)'
    BY <1>1, <1>2, <1>4, <2>0, <2>1 DEF FileInv, Life, Faith, Marks, Is
  <2>3. ~missed'[f] /\ ~raced'[f] /\ file'[f] \in {"cleaned", "closed"} => Ends(f)'
    BY <1>1, <1>2, <1>4, <2>0, <2>1 DEF FileInv, Life, Faith, Ends, Deleted, Cleaning, Is, Requests, Places
  <2>4. Seen(f, "READ")' => file'[f] \in {"cleaned", "closed"} /\ ~Cleaning(f, {"fs", "instance", "report"})'
    BY <1>1, <1>2, <1>4, <2>0, <2>1 DEF FileInv, Life, Faith, Cleaning, Is, Seen
  <2> QED  BY <2>2, <2>3, <2>4 DEF Faith
<1> QED  BY <1>1, <1>2, <1>3, <1>5, <1>6, <1>7, <1>8, <1>9, Combine DEF FileInv

(* A request that fails, or is missed by its post-operation callback. *)
LEMMA PostUnseenStep ==
  ASSUME Inv, NEW t \in Threads, PostUnseen(t)
  PROVE  Inv'
<1>0. PICK f \in Files : f = op[t].file /\ op[t].pc # "idle"
  BY DEF Inv, Shape, ShapeOf, PostUnseen, InFlight
<1>1. TypeOK /\ FileTypes(f) /\ op[t] \in OpRecords /\ ShapeOf(op[t]) /\ FileInv(f)
      /\ f # None
      /\ \A u \in Threads : op[u].file = f =>
           op[u].kind \in Requests \cup {"create", "cleanup"} /\ op[u].pc \in Places \ {"idle"}
  BY Here
<1>2. /\ op' = [op EXCEPT ![t] = op'[t]] /\ op'[t] \in OpRecords
      /\ \A u \in Threads : u # t => op'[u] = op[u]
      /\ instRefs' = instRefs /\ ShapeOf(op'[t]) /\ op'[t].file = None
      /\ ~op'[t].inst /\ ~op[t].inst /\ op[t].kind \in Requests /\ op[t].pc = "fs"
  BY <1>0, <1>1, FinishFacts DEF PostUnseen, InFlight, ShapeOf
<1>3. ChangesAt(f)
  BY <1>0, <1>1 DEF PostUnseen, InFlight, ShapeOf, Done, Miss, TypeOK, ChangesAt, At, histVars
<1>4. /\ file'[f] = file[f]
      /\ ctx'[f] = ctx[f]
      /\ linked'[f] = linked[f]
      /\ refs'[f] = refs[f]
      /\ events'[f] = events[f]
      /\ ops'[f] = ops[f]
      /\ (\/ did'[f] = did[f] /\ missed'[f] = missed[f]
          \/ did'[f] = did[f] \cup {op[t].kind} /\ missed'[f] = TRUE)
      /\ raced'[f] = raced[f]
  BY <1>0, <1>1, FileCallbacksAssumption DEF PostUnseen, InFlight, ShapeOf, Done, Miss, TypeOK, histVars
<1>5. FileTypes(f)'
  BY <1>1, <1>2, <1>4 DEF FileTypes, Lives, Requests
<1>6. Life(f)'
  BY <1>0, <1>1, <1>2, <1>4 DEF FileInv, Life, ShapeOf, Requests
<1>7. Counted(f)'
  <2>1. Counted(f) /\ refs[f] \in Int
    BY <1>1 DEF FileInv, FileTypes
  <2> QED  BY <1>0, <1>1, <1>2, <1>4, <2>1, HoldingCount, FileCallbacksAssumption DEF Counted, Holds
<1>8. Story(f)'
  <2>1. Story(f) /\ events'[f] = events[f] /\ raced'[f] = raced[f]
    BY <1>1, <1>4 DEF FileInv
  <2>2. GoesOn(f, t)
    BY <1>0, <1>1, <1>2 DEF GoesOn, Places
  <2>3. file[f] \in {"cleaned", "closed"} => file'[f] \in {"cleaned", "closed"}
    BY <1>0, <1>1, <1>2, <1>4 DEF FileInv, Life
  <2> QED  BY <1>2, <2>1, <2>2, <2>3, QuietStory
<1>9. Faith(f)'
  <2>0. \A ks, ps :
          /\ Running(f, ks, ps) <=> Others(f, t, ks, ps) \/ Is(op[t], f, ks, ps)
          /\ Running(f, ks, ps)' <=> Others(f, t, ks, ps) \/ Is(op'[t], f, ks, ps)
    BY <1>2, RunningFacts
  <2>1. \A x : Seen(f, x)' <=> Seen(f, x)
    BY <1>4 DEF Seen
  <2>2. ~missed'[f] => Marks(f)'
    BY <1>0, <1>1, <1>2, <1>4, <2>0, <2>1 DEF FileInv, Life, Faith, Marks, Is
  <2>3. ~missed'[f] /\ ~raced'[f] /\ file'[f] \in {"cleaned", "closed"} => Ends(f)'
    BY <1>0, <1>1, <1>2, <1>4, <2>0, <2>1 DEF FileInv, Life, Faith, Ends, Deleted, Cleaning, Is, Requests, Places
  <2>4. Seen(f, "READ")' => file'[f] \in {"cleaned", "closed"} /\ ~Cleaning(f, {"fs", "instance", "report"})'
    BY <1>0, <1>1, <1>2, <1>4, <2>0, <2>1 DEF FileInv, Life, Faith, Cleaning, Is, Seen
  <2> QED  BY <2>2, <2>3, <2>4 DEF Faith
<1> QED  BY <1>0, <1>1, <1>2, <1>3, <1>5, <1>6, <1>7, <1>8, <1>9, Combine DEF FileInv

(* A post-operation callback gets the context. *)
LEMMA PostOperationStep ==
  ASSUME Inv, NEW t \in Threads, PostOperation(t)
  PROVE  Inv'
<1>0. PICK f \in Files : f = op[t].file /\ op[t].pc # "idle"
  BY DEF Inv, Shape, ShapeOf, PostOperation, InFlight
<1>1. TypeOK /\ FileTypes(f) /\ op[t] \in OpRecords /\ ShapeOf(op[t]) /\ FileInv(f)
      /\ f # None
      /\ \A u \in Threads : op[u].file = f =>
           op[u].kind \in Requests \cup {"create", "cleanup"} /\ op[u].pc \in Places \ {"idle"}
  BY Here
<1>2. /\ op' = [op EXCEPT ![t] = op'[t]] /\ op'[t] \in OpRecords
      /\ \A u \in Threads : u # t => op'[u] = op[u]
      /\ instRefs' = instRefs /\ ShapeOf(op'[t]) /\ op'[t].inst = op[t].inst
      /\ op'[t].file = f /\ op[t].file = f /\ op'[t].kind = op[t].kind /\ op[t].kind \in Requests /\ op[t].pc = "fs" /\ op'[t].pc = "mark"
      /\ linked[f]
  BY <1>0, <1>1, GoFacts DEF PostOperation, InFlight, ShapeOf, Places
<1>3. ChangesAt(f)
  BY <1>0, <1>1 DEF PostOperation, InFlight, ShapeOf, Places, Done, TypeOK, ChangesAt, At, histVars
<1>4. /\ file'[f] = file[f]
      /\ ctx'[f] = ctx[f]
      /\ linked'[f] = linked[f]
      /\ refs'[f] = refs[f] + 1
      /\ events'[f] = events[f]
      /\ ops'[f] = ops[f]
      /\ did'[f] = did[f] \cup {op[t].kind}
      /\ missed'[f] = missed[f]
      /\ raced'[f] = raced[f]
  BY <1>0, <1>1, FileCallbacksAssumption DEF PostOperation, InFlight, ShapeOf, Places, Done, TypeOK, histVars
<1>5. FileTypes(f)'
  BY <1>1, <1>2, <1>4 DEF FileTypes, Lives, Requests
<1>6. Life(f)'
  BY <1>0, <1>1, <1>2, <1>4 DEF FileInv, Life, ShapeOf, Requests
<1>7. Counted(f)'
  <2>1. Counted(f) /\ refs[f] \in Int
    BY <1>1 DEF FileInv, FileTypes
  <2> QED  BY <1>0, <1>1, <1>2, <1>4, <2>1, HoldingCount, FileCallbacksAssumption DEF Counted, Holds
<1>8. Story(f)'
  <2>1. Story(f) /\ events'[f] = events[f] /\ raced'[f] = raced[f]
    BY <1>1, <1>4 DEF FileInv
  <2>2. GoesOn(f, t)
    BY <1>0, <1>1, <1>2 DEF GoesOn, Places
  <2>3. file[f] \in {"cleaned", "closed"} => file'[f] \in {"cleaned", "closed"}
    BY <1>0, <1>1, <1>2, <1>4 DEF FileInv, Life
  <2> QED  BY <1>2, <2>1, <2>2, <2>3, QuietStory
<1>9. Faith(f)'
  <2>0. \A ks, ps :
          /\ Running(f, ks, ps) <=> Others(f, t, ks, ps) \/ Is(op[t], f, ks, ps)
          /\ Running(f, ks, ps)' <=> Others(f, t, ks, ps) \/ Is(op'[t], f, ks, ps)
    BY <1>2, RunningFacts
  <2>1. \A x : Seen(f, x)' <=> Seen(f, x)
    BY <1>4 DEF Seen
  <2>2. ~missed'[f] => Marks(f)'
    BY <1>0, <1>1, <1>2, <1>4, <2>0, <2>1 DEF FileInv, Life, Faith, Marks, Is
  <2>3. ~missed'[f] /\ ~raced'[f] /\ file'[f] \in {"cleaned", "closed"} => Ends(f)'
    BY <1>0, <1>1, <1>2, <1>4, <2>0, <2>1 DEF FileInv, Life, Faith, Ends, Deleted, Cleaning, Is, Requests, Places
  <2>4. Seen(f, "READ")' => file'[f] \in {"cleaned", "closed"} /\ ~Cleaning(f, {"fs", "instance", "report"})'
    BY <1>0, <1>1, <1>2, <1>4, <2>0, <2>1 DEF FileInv, Life, Faith, Cleaning, Is, Seen
  <2> QED  BY <2>2, <2>3, <2>4 DEF Faith
<1> QED  BY <1>0, <1>1, <1>2, <1>3, <1>5, <1>6, <1>7, <1>8, <1>9, Combine DEF FileInv

(* A post-operation callback notes the request in the context. *)
LEMMA MarkStep ==
  ASSUME Inv, NEW t \in Threads, Mark(t)
  PROVE  Inv'
<1>0. PICK f \in Files : f = op[t].file /\ op[t].pc # "idle"
  BY DEF Inv, Shape, ShapeOf, Mark
<1>1. TypeOK /\ FileTypes(f) /\ op[t] \in OpRecords /\ ShapeOf(op[t]) /\ FileInv(f)
      /\ f # None
      /\ \A u \in Threads : op[u].file = f =>
           op[u].kind \in Requests \cup {"create", "cleanup"} /\ op[u].pc \in Places \ {"idle"}
  BY Here
<1>2. /\ op' = [op EXCEPT ![t] = op'[t]] /\ op'[t] \in OpRecords
      /\ \A u \in Threads : u # t => op'[u] = op[u]
      /\ instRefs' = instRefs /\ ShapeOf(op'[t]) /\ op'[t].inst = op[t].inst
      /\ op'[t].file = f /\ op[t].file = f /\ op'[t].kind = op[t].kind /\ op[t].kind \in Requests /\ op[t].pc = "mark"
      /\ op'[t].pc = IF op[t].kind = "rename" THEN "instance" ELSE "leave"
  BY <1>0, <1>1, GoFacts DEF Mark, ShapeOf, Places, Requests
<1>3. ChangesAt(f)
  BY <1>0, <1>1 DEF Mark, ShapeOf, Places, Requests, TypeOK, ChangesAt, At, histVars
<1>4. /\ file'[f] = file[f]
      /\ ctx'[f] = Marked(ctx[f], op[t].kind)
      /\ linked'[f] = linked[f]
      /\ refs'[f] = refs[f]
      /\ events'[f] = events[f]
      /\ ops'[f] = ops[f]
      /\ did'[f] = did[f]
      /\ missed'[f] = missed[f]
      /\ raced'[f] = raced[f]
  BY <1>0, <1>1, FileCallbacksAssumption DEF Mark, ShapeOf, Places, Requests, TypeOK, histVars
<1>5. FileTypes(f)'
  <2>1. ctx'[f] \in Contexts
    BY <1>1, <1>4, MarkedFacts DEF FileTypes
  <2> QED  BY <1>1, <1>4, <2>1 DEF FileTypes
<1>6. Life(f)'
  BY <1>0, <1>1, <1>2, <1>4 DEF FileInv, Life, ShapeOf, Requests
<1>7. Counted(f)'
  <2>1. Counted(f) /\ refs[f] \in Int
    BY <1>1 DEF FileInv, FileTypes
  <2> QED  BY <1>0, <1>1, <1>2, <1>4, <2>1, HoldingCount, FileCallbacksAssumption DEF Counted, Holds
<1>8. Story(f)'
  <2>1. Story(f) /\ events'[f] = events[f] /\ raced'[f] = raced[f]
    BY <1>1, <1>4 DEF FileInv
  <2>2. GoesOn(f, t)
    BY <1>0, <1>1, <1>2 DEF GoesOn, Places
  <2>3. file[f] \in {"cleaned", "closed"} => file'[f] \in {"cleaned", "closed"}
    BY <1>0, <1>1, <1>2, <1>4 DEF FileInv, Life
  <2> QED  BY <1>2, <2>1, <2>2, <2>3, QuietStory
<1>9. Faith(f)'
  <2>0. \A ks, ps :
          /\ Running(f, ks, ps) <=> Others(f, t, ks, ps) \/ Is(op[t], f, ks, ps)
          /\ Running(f, ks, ps)' <=> Others(f, t, ks, ps) \/ Is(op'[t], f, ks, ps)
    BY <1>2, RunningFacts
  <2>1. \A x : Seen(f, x)' <=> Seen(f, x)
    BY <1>4 DEF Seen
  <2>2. ~missed'[f] => Marks(f)'
    <3>1. /\ ctx'[f].fileIoStatus = ctx[f].fileIoStatus
          /\ ctx'[f].wasRead <=> ctx[f].wasRead \/ op[t].kind = "read"
          /\ ctx'[f].dispositionRename <=> ctx[f].dispositionRename \/ op[t].kind = "rename"
          /\ ctx'[f].dispositionDelete <=>
               ctx[f].dispositionDelete \/ op[t].kind \in {"delete", "undelete"}
      BY <1>1, <1>4, MarkedFacts DEF FileTypes
    <3> SUFFICES ASSUME ~missed'[f] PROVE Marks(f)'  OBVIOUS
    <3>2. Marks(f)
      BY <1>1, <1>4 DEF FileInv, Faith
    <3> QED  BY <1>2, <1>4, <2>0, <2>1, <3>1, <3>2 DEF Marks, Is, Requests
  <2>3. ~missed'[f] /\ ~raced'[f] /\ file'[f] \in {"cleaned", "closed"} => Ends(f)'
    BY <1>0, <1>1, <1>2, <1>4, <2>0, <2>1 DEF FileInv, Life, Faith, Ends, Deleted, Cleaning, Is, Requests, Places
  <2>4. Seen(f, "READ")' => file'[f] \in {"cleaned", "closed"} /\ ~Cleaning(f, {"fs", "instance", "report"})'
    BY <1>0, <1>1, <1>2, <1>4, <2>0, <2>1 DEF FileInv, Life, Faith, Cleaning, Is, Seen
  <2> QED  BY <2>2, <2>3, <2>4 DEF Faith
<1> QED  BY <1>0, <1>1, <1>2, <1>3, <1>5, <1>6, <1>7, <1>8, <1>9, Combine DEF FileInv

(* PreCleanupCallback: the cleanup begins. *)
LEMMA PreCleanupStep ==
  ASSUME Inv, NEW t \in Threads, NEW f \in Files, PreCleanup(t, f)
  PROVE  Inv'
<1>1. TypeOK /\ FileTypes(f) /\ op[t] \in OpRecords /\ ShapeOf(op[t]) /\ FileInv(f)
      /\ f # None
      /\ \A u \in Threads : op[u].file = f =>
           op[u].kind \in Requests \cup {"create", "cleanup"} /\ op[u].pc \in Places \ {"idle"}
  BY Here
<1>2. /\ op' = [op EXCEPT ![t] = op'[t]] /\ op'[t] \in OpRecords
      /\ \A u \in Threads : u # t => op'[u] = op[u]
      /\ instRefs' = instRefs /\ ShapeOf(op'[t]) /\ ~op'[t].inst /\ ~op[t].inst /\ op[t].file = None
      /\ op'[t].pc = "fs" /\ op'[t].file = f /\ op'[t].kind = "cleanup" /\ file[f] = "open" /\ linked[f]
  BY <1>1, StartFacts DEF PreCleanup
<1>3. ChangesAt(f)
  BY <1>1 DEF PreCleanup, TypeOK, ChangesAt, At, histVars
<1>4. /\ file'[f] = "cleaned"
      /\ ctx'[f] = ctx[f]
      /\ linked'[f] = linked[f]
      /\ refs'[f] = refs[f]
      /\ events'[f] = events[f]
      /\ ops'[f] = ops[f]
      /\ did'[f] = did[f]
      /\ missed'[f] = missed[f]
      /\ raced'[f] = (Busy(f) # {})
  BY <1>1, FileCallbacksAssumption DEF PreCleanup, TypeOK, histVars
<1>5. FileTypes(f)'
  <2>1. raced'[f] \in BOOLEAN
    BY <1>4, Zenon
  <2> QED  BY <1>1, <1>4, <2>1 DEF FileTypes, Lives
<1>6. Life(f)'
  BY <1>1, <1>2, <1>4 DEF FileInv, Life, ShapeOf, Requests
<1>7. Counted(f)'
  <2>1. Counted(f) /\ refs[f] \in Int
    BY <1>1 DEF FileInv, FileTypes
  <2> QED  BY <1>1, <1>2, <1>4, <2>1, HoldingCount, FileCallbacksAssumption DEF Counted, Holds
<1>8. Story(f)'
  <2>0. \A ks, ps :
          /\ Running(f, ks, ps) <=> Others(f, t, ks, ps) \/ Is(op[t], f, ks, ps)
          /\ Running(f, ks, ps)' <=> Others(f, t, ks, ps) \/ Is(op'[t], f, ks, ps)
    BY <1>2, RunningFacts
  <2>1. ~Ended(f)
    BY <1>1, <1>2 DEF FileInv, Story
  <2>2. \A x : Seen(f, x)' <=> Seen(f, x)
    BY <1>4 DEF Seen
  <2>3. Told(events[f], raced[f])
    BY <1>1 DEF FileInv, Story
  <2>4. Told(events'[f], raced'[f])
    BY <1>4, <2>1, <2>3 DEF Told, Ended, Seen
  <2>5. Running(f, Requests, Places)' => raced'[f]
    <3>1. Running(f, Requests, Places)' => Others(f, t, Requests, Places)
      BY <1>2, <2>0 DEF Is, Requests
    <3>2. Others(f, t, Requests, Places) => Busy(f) # {}
      BY DEF Others, Busy
    <3> QED  BY <1>4, <3>1, <3>2
  <2> QED  BY <2>1, <2>2, <2>4, <2>5 DEF Story, Ended
<1>9. Faith(f)'
  <2>0. \A ks, ps :
          /\ Running(f, ks, ps) <=> Others(f, t, ks, ps) \/ Is(op[t], f, ks, ps)
          /\ Running(f, ks, ps)' <=> Others(f, t, ks, ps) \/ Is(op'[t], f, ks, ps)
    BY <1>2, RunningFacts
  <2>1. \A x : Seen(f, x)' <=> Seen(f, x)
    BY <1>4 DEF Seen
  <2>2. ~missed'[f] => Marks(f)'
    BY <1>1, <1>2, <1>4, <2>0, <2>1 DEF FileInv, Life, Faith, Marks, Is
  <2>3. ~missed'[f] /\ ~raced'[f] /\ file'[f] \in {"cleaned", "closed"} => Ends(f)'
    <3> SUFFICES ASSUME ~raced'[f]  PROVE Ends(f)'  OBVIOUS
    <3>0. \A u \in Threads : op[u].file # f
      BY <1>4 DEF Busy
    <3>1. \A k, p : ~Others(f, t, k, p)
      BY <3>0 DEF Others
    <3>2. \A u \in Threads : op'[u].file = f => u = t
      BY <1>2, <3>0
    <3> QED  BY <1>2, <2>0, <3>1, <3>2 DEF Ends, Cleaning, Is, Requests, Places
  <2>4. Seen(f, "READ")' => file'[f] \in {"cleaned", "closed"} /\ ~Cleaning(f, {"fs", "instance", "report"})'
    BY <1>1, <1>2, <1>4, <2>0, <2>1 DEF FileInv, Life, Faith, Cleaning, Is, Seen
  <2> QED  BY <2>2, <2>3, <2>4 DEF Faith
<1> QED  BY <1>1, <1>2, <1>3, <1>5, <1>6, <1>7, <1>8, <1>9, Combine DEF FileInv

(* A cleanup that is skipped. *)
LEMMA PreCleanupSkippedStep ==
  ASSUME Inv, NEW t \in Threads, NEW f \in Files, PreCleanupSkipped(t, f)
  PROVE  Inv'
<1>1. TypeOK /\ FileTypes(f) /\ op[t] \in OpRecords /\ ShapeOf(op[t]) /\ FileInv(f)
      /\ f # None
      /\ \A u \in Threads : op[u].file = f =>
           op[u].kind \in Requests \cup {"create", "cleanup"} /\ op[u].pc \in Places \ {"idle"}
  BY Here
<1>2. /\ op' = [op EXCEPT ![t] = op'[t]] /\ op'[t] \in OpRecords
      /\ \A u \in Threads : u # t => op'[u] = op[u]
      /\ instRefs' = instRefs /\ ShapeOf(op'[t]) /\ op'[t] = op[t] /\ op[t].file = None
      /\ file[f] = "open"
  <2>1. op' = op /\ op[t] = Idle /\ instRefs' = instRefs /\ file[f] = "open"
    BY DEF PreCleanupSkipped
  <2>2. op = [op EXCEPT ![t] = op[t]]
    BY <1>1 DEF TypeOK
  <2>3. Idle.file = None
    BY DEF Idle
  <2> QED  BY <1>1, <2>1, <2>2, <2>3
<1>3. ChangesAt(f)
  BY <1>1 DEF PreCleanupSkipped, Miss, TypeOK, ChangesAt, At, histVars
<1>4. /\ file'[f] = "cleaned"
      /\ ctx'[f] = ctx[f]
      /\ linked'[f] = linked[f]
      /\ refs'[f] = refs[f]
      /\ events'[f] = events[f]
      /\ ops'[f] = ops[f]
      /\ did'[f] = did[f]
      /\ missed'[f] = TRUE
      /\ raced'[f] = raced[f]
  BY <1>1, FileCallbacksAssumption DEF PreCleanupSkipped, Miss, TypeOK, histVars
<1>5. FileTypes(f)'
  BY <1>1, <1>2, <1>4 DEF FileTypes, Lives, Requests
<1>6. Life(f)'
  BY <1>1, <1>2, <1>4 DEF FileInv, Life, ShapeOf, Requests
<1>7. Counted(f)'
  <2>1. Counted(f) /\ refs[f] \in Int
    BY <1>1 DEF FileInv, FileTypes
  <2> QED  BY <1>1, <1>2, <1>4, <2>1, HoldingCount, FileCallbacksAssumption DEF Counted, Holds
<1>8. Story(f)'
  BY <1>1, <1>2, <1>4 DEF FileInv, Life, Story, Ended, Seen, Cleaning, Running, ShapeOf, Places, Requests
<1>9. Faith(f)'
  <2>0. \A ks, ps :
          /\ Running(f, ks, ps) <=> Others(f, t, ks, ps) \/ Is(op[t], f, ks, ps)
          /\ Running(f, ks, ps)' <=> Others(f, t, ks, ps) \/ Is(op'[t], f, ks, ps)
    BY <1>2, RunningFacts
  <2>1. \A x : Seen(f, x)' <=> Seen(f, x)
    BY <1>4 DEF Seen
  <2>2. ~missed'[f] => Marks(f)'
    BY <1>1, <1>2, <1>4, <2>0, <2>1 DEF FileInv, Life, Faith, Marks, Is
  <2>3. ~missed'[f] /\ ~raced'[f] /\ file'[f] \in {"cleaned", "closed"} => Ends(f)'
    BY <1>1, <1>2, <1>4, <2>0, <2>1 DEF FileInv, Life, Faith, Ends, Deleted, Cleaning, Is, Requests, Places
  <2>4. Seen(f, "READ")' => file'[f] \in {"cleaned", "closed"} /\ ~Cleaning(f, {"fs", "instance", "report"})'
    BY <1>1, <1>2, <1>4, <2>0, <2>1 DEF FileInv, Life, Faith, Cleaning, Is, Seen
  <2> QED  BY <2>2, <2>3, <2>4 DEF Faith
<1> QED  BY <1>1, <1>2, <1>3, <1>5, <1>6, <1>7, <1>8, <1>9, Combine DEF FileInv

(* A cleanup that its post-operation callback misses. *)
LEMMA CleanupUnseenStep ==
  ASSUME Inv, NEW t \in Threads, CleanupUnseen(t)
  PROVE  Inv'
<1>0. PICK f \in Files : f = op[t].file /\ op[t].pc # "idle"
  BY DEF Inv, Shape, ShapeOf, CleanupUnseen
<1>1. TypeOK /\ FileTypes(f) /\ op[t] \in OpRecords /\ ShapeOf(op[t]) /\ FileInv(f)
      /\ f # None
      /\ \A u \in Threads : op[u].file = f =>
           op[u].kind \in Requests \cup {"create", "cleanup"} /\ op[u].pc \in Places \ {"idle"}
  BY Here
<1>2. /\ op' = [op EXCEPT ![t] = op'[t]] /\ op'[t] \in OpRecords
      /\ \A u \in Threads : u # t => op'[u] = op[u]
      /\ instRefs' = instRefs /\ ShapeOf(op'[t]) /\ op'[t].file = None
      /\ ~op'[t].inst /\ ~op[t].inst /\ op[t].kind = "cleanup" /\ op[t].pc = "fs"
  BY <1>0, <1>1, FinishFacts DEF CleanupUnseen, ShapeOf
<1>3. ChangesAt(f)
  BY <1>0, <1>1 DEF CleanupUnseen, ShapeOf, Miss, TypeOK, ChangesAt, At, histVars
<1>4. /\ file'[f] = file[f]
      /\ ctx'[f] = ctx[f]
      /\ linked'[f] = linked[f]
      /\ refs'[f] = refs[f]
      /\ events'[f] = events[f]
      /\ ops'[f] = ops[f]
      /\ did'[f] = did[f]
      /\ missed'[f] = TRUE
      /\ raced'[f] = raced[f]
  BY <1>0, <1>1, FileCallbacksAssumption DEF CleanupUnseen, ShapeOf, Miss, TypeOK, histVars
<1>5. FileTypes(f)'
  BY <1>1, <1>2, <1>4 DEF FileTypes, Lives, Requests
<1>6. Life(f)'
  BY <1>0, <1>1, <1>2, <1>4 DEF FileInv, Life, ShapeOf, Requests
<1>7. Counted(f)'
  <2>1. Counted(f) /\ refs[f] \in Int
    BY <1>1 DEF FileInv, FileTypes
  <2> QED  BY <1>0, <1>1, <1>2, <1>4, <2>1, HoldingCount, FileCallbacksAssumption DEF Counted, Holds
<1>8. Story(f)'
  <2>1. Story(f) /\ events'[f] = events[f] /\ raced'[f] = raced[f]
    BY <1>1, <1>4 DEF FileInv
  <2>2. GoesOn(f, t)
    BY <1>0, <1>1, <1>2 DEF GoesOn, Places
  <2>3. file[f] \in {"cleaned", "closed"} => file'[f] \in {"cleaned", "closed"}
    BY <1>0, <1>1, <1>2, <1>4 DEF FileInv, Life
  <2> QED  BY <1>2, <2>1, <2>2, <2>3, QuietStory
<1>9. Faith(f)'
  <2>0. \A ks, ps :
          /\ Running(f, ks, ps) <=> Others(f, t, ks, ps) \/ Is(op[t], f, ks, ps)
          /\ Running(f, ks, ps)' <=> Others(f, t, ks, ps) \/ Is(op'[t], f, ks, ps)
    BY <1>2, RunningFacts
  <2>1. \A x : Seen(f, x)' <=> Seen(f, x)
    BY <1>4 DEF Seen
  <2>2. ~missed'[f] => Marks(f)'
    BY <1>0, <1>1, <1>2, <1>4, <2>0, <2>1 DEF FileInv, Life, Faith, Marks, Is
  <2>3. ~missed'[f] /\ ~raced'[f] /\ file'[f] \in {"cleaned", "closed"} => Ends(f)'
    BY <1>0, <1>1, <1>2, <1>4, <2>0, <2>1 DEF FileInv, Life, Faith, Ends, Deleted, Cleaning, Is, Requests, Places
  <2>4. Seen(f, "READ")' => file'[f] \in {"cleaned", "closed"} /\ ~Cleaning(f, {"fs", "instance", "report"})'
    BY <1>0, <1>1, <1>2, <1>4, <2>0, <2>1 DEF FileInv, Life, Faith, Cleaning, Is, Seen
  <2> QED  BY <2>2, <2>3, <2>4 DEF Faith
<1> QED  BY <1>0, <1>1, <1>2, <1>3, <1>5, <1>6, <1>7, <1>8, <1>9, Combine DEF FileInv

(* PostCleanupCallback gets the context. *)
LEMMA PostCleanupStep ==
  ASSUME Inv, NEW t \in Threads, PostCleanup(t)
  PROVE  Inv'
<1>0. PICK f \in Files : f = op[t].file /\ op[t].pc # "idle"
  BY DEF Inv, Shape, ShapeOf, PostCleanup
<1>1. TypeOK /\ FileTypes(f) /\ op[t] \in OpRecords /\ ShapeOf(op[t]) /\ FileInv(f)
      /\ f # None
      /\ \A u \in Threads : op[u].file = f =>
           op[u].kind \in Requests \cup {"create", "cleanup"} /\ op[u].pc \in Places \ {"idle"}
  BY Here
<1>2. /\ op' = [op EXCEPT ![t] = op'[t]] /\ op'[t] \in OpRecords
      /\ \A u \in Threads : u # t => op'[u] = op[u]
      /\ instRefs' = instRefs /\ ShapeOf(op'[t]) /\ op'[t].inst = op[t].inst
      /\ op'[t].file = f /\ op[t].file = f /\ op'[t].kind = op[t].kind
      /\ op'[t].deleted = op[t].deleted /\ op[t].kind = "cleanup" /\ op[t].pc = "fs" /\ op'[t].pc = "instance"
  BY <1>0, <1>1, GoFacts DEF PostCleanup, ShapeOf, Places
<1>3. ChangesAt(f)
  BY <1>0, <1>1 DEF PostCleanup, ShapeOf, Places, TypeOK, ChangesAt, At, histVars
<1>4. /\ file'[f] = file[f]
      /\ ctx'[f] = ctx[f]
      /\ linked'[f] = linked[f]
      /\ refs'[f] = refs[f] + 1
      /\ events'[f] = events[f]
      /\ ops'[f] = ops[f]
      /\ did'[f] = did[f]
      /\ missed'[f] = missed[f]
      /\ raced'[f] = raced[f]
  BY <1>0, <1>1, FileCallbacksAssumption DEF PostCleanup, ShapeOf, Places, TypeOK, histVars
<1>5. FileTypes(f)'
  BY <1>1, <1>2, <1>4 DEF FileTypes, Lives, Requests
<1>6. Life(f)'
  BY <1>0, <1>1, <1>2, <1>4 DEF FileInv, Life, ShapeOf, Requests
<1>7. Counted(f)'
  <2>1. Counted(f) /\ refs[f] \in Int
    BY <1>1 DEF FileInv, FileTypes
  <2> QED  BY <1>0, <1>1, <1>2, <1>4, <2>1, HoldingCount, FileCallbacksAssumption DEF Counted, Holds
<1>8. Story(f)'
  <2>1. Story(f) /\ events'[f] = events[f] /\ raced'[f] = raced[f]
    BY <1>1, <1>4 DEF FileInv
  <2>2. GoesOn(f, t)
    BY <1>0, <1>1, <1>2 DEF GoesOn, Places
  <2>3. file[f] \in {"cleaned", "closed"} => file'[f] \in {"cleaned", "closed"}
    BY <1>0, <1>1, <1>2, <1>4 DEF FileInv, Life
  <2> QED  BY <1>2, <2>1, <2>2, <2>3, QuietStory
<1>9. Faith(f)'
  <2>0. \A ks, ps :
          /\ Running(f, ks, ps) <=> Others(f, t, ks, ps) \/ Is(op[t], f, ks, ps)
          /\ Running(f, ks, ps)' <=> Others(f, t, ks, ps) \/ Is(op'[t], f, ks, ps)
    BY <1>2, RunningFacts
  <2>1. \A x : Seen(f, x)' <=> Seen(f, x)
    BY <1>4 DEF Seen
  <2>2. ~missed'[f] => Marks(f)'
    BY <1>0, <1>1, <1>2, <1>4, <2>0, <2>1 DEF FileInv, Life, Faith, Marks, Is
  <2>3. ~missed'[f] /\ ~raced'[f] /\ file'[f] \in {"cleaned", "closed"} => Ends(f)'
    BY <1>0, <1>1, <1>2, <1>4, <2>0, <2>1 DEF FileInv, Life, Faith, Ends, Deleted, Cleaning, Is, Requests, Places
  <2>4. Seen(f, "READ")' => file'[f] \in {"cleaned", "closed"} /\ ~Cleaning(f, {"fs", "instance", "report"})'
    BY <1>0, <1>1, <1>2, <1>4, <2>0, <2>1 DEF FileInv, Life, Faith, Cleaning, Is, Seen
  <2> QED  BY <2>2, <2>3, <2>4 DEF Faith
<1> QED  BY <1>0, <1>1, <1>2, <1>3, <1>5, <1>6, <1>7, <1>8, <1>9, Combine DEF FileInv

(* The instance context is found, and the cleanup looks for a deletion. *)
LEMMA GetInstanceStep ==
  ASSUME Inv, NEW t \in Threads, GetInstanceContext(t)
  PROVE  Inv'
<1>0. PICK f \in Files : f = op[t].file /\ op[t].pc # "idle"
  BY DEF Inv, Shape, ShapeOf, GetInstanceContext
<1>1. TypeOK /\ FileTypes(f) /\ op[t] \in OpRecords /\ ShapeOf(op[t]) /\ FileInv(f)
      /\ f # None
      /\ \A u \in Threads : op[u].file = f =>
           op[u].kind \in Requests \cup {"create", "cleanup"} /\ op[u].pc \in Places \ {"idle"}
  BY Here
<1>2. /\ op' = [op EXCEPT ![t] = op'[t]] /\ op'[t] \in OpRecords
      /\ \A u \in Threads : u # t => op'[u] = op[u]
      /\ instRefs' = instRefs + 1 /\ ShapeOf(op'[t]) /\ op'[t].inst /\ ~op[t].inst
      /\ op'[t].file = f /\ op[t].file = f /\ op'[t].kind = op[t].kind
      /\ op[t].pc = "instance" /\ op'[t].pc = "report" /\ (op'[t].deleted <=> Deleted(f))
  <2>1. PICK d \in BOOLEAN : d = (ctx[f].deleteOnClose \/ ctx[f].dispositionDelete)
    OBVIOUS
  <2>2. op' = [op EXCEPT ![t].pc = "report", ![t].inst = TRUE, ![t].deleted = d]
    BY <1>0, <2>1, Zenon DEF GetInstanceContext
  <2>3. op'[t] = [op[t] EXCEPT !.pc = "report", !.inst = TRUE, !.deleted = d]
        /\ op' = [op EXCEPT ![t] = op'[t]]
        /\ \A u \in Threads : u # t => op'[u] = op[u]
    BY <1>1, <2>2 DEF TypeOK
  <2>4. /\ op'[t] \in OpRecords /\ op'[t].pc = "report" /\ op'[t].inst = TRUE
        /\ op'[t].deleted = d /\ op'[t].file = op[t].file /\ op'[t].kind = op[t].kind
    BY <1>1, <2>3 DEF OpRecords, Places
  <2>5. instRefs' = instRefs + 1 /\ op[t].pc = "instance"
    BY DEF GetInstanceContext
  <2>6. ~op[t].inst /\ op[t].kind \in {"create", "rename", "cleanup"}
    BY <1>1, <2>5 DEF ShapeOf
  <2>7. ShapeOf(op'[t])
    BY <1>0, <2>4, <2>6 DEF ShapeOf
  <2>8. op'[t].deleted <=> Deleted(f)
    BY <2>1, <2>4, Zenon DEF Deleted
  <2> QED  BY <1>0, <2>3, <2>4, <2>5, <2>6, <2>7, <2>8
<1>3. ChangesAt(f)
  BY <1>0, <1>1 DEF GetInstanceContext, TypeOK, ChangesAt, At, histVars
<1>4. /\ file'[f] = file[f]
      /\ ctx'[f] = ctx[f]
      /\ linked'[f] = linked[f]
      /\ refs'[f] = refs[f]
      /\ events'[f] = events[f]
      /\ ops'[f] = ops[f]
      /\ did'[f] = did[f]
      /\ missed'[f] = missed[f]
      /\ raced'[f] = raced[f]
  BY <1>0, <1>1, FileCallbacksAssumption DEF GetInstanceContext, TypeOK, histVars
<1>5. FileTypes(f)'
  BY <1>1, <1>2, <1>4 DEF FileTypes, Lives, Requests
<1>6. Life(f)'
  BY <1>0, <1>1, <1>2, <1>4 DEF FileInv, Life, ShapeOf, Requests
<1>7. Counted(f)'
  <2>1. Counted(f) /\ refs[f] \in Int
    BY <1>1 DEF FileInv, FileTypes
  <2> QED  BY <1>0, <1>1, <1>2, <1>4, <2>1, HoldingCount, FileCallbacksAssumption DEF Counted, Holds
<1>8. Story(f)'
  <2>1. Story(f) /\ events'[f] = events[f] /\ raced'[f] = raced[f]
    BY <1>1, <1>4 DEF FileInv
  <2>2. GoesOn(f, t)
    BY <1>0, <1>1, <1>2 DEF GoesOn, Places
  <2>3. file[f] \in {"cleaned", "closed"} => file'[f] \in {"cleaned", "closed"}
    BY <1>0, <1>1, <1>2, <1>4 DEF FileInv, Life
  <2> QED  BY <1>2, <2>1, <2>2, <2>3, QuietStory
<1>9. Faith(f)'
  <2>0. \A ks, ps :
          /\ Running(f, ks, ps) <=> Others(f, t, ks, ps) \/ Is(op[t], f, ks, ps)
          /\ Running(f, ks, ps)' <=> Others(f, t, ks, ps) \/ Is(op'[t], f, ks, ps)
    BY <1>2, RunningFacts
  <2>1. \A x : Seen(f, x)' <=> Seen(f, x)
    BY <1>4 DEF Seen
  <2>2. ~missed'[f] => Marks(f)'
    BY <1>0, <1>1, <1>2, <1>4, <2>0, <2>1 DEF FileInv, Life, Faith, Marks, Is
  <2>3. ~missed'[f] /\ ~raced'[f] /\ file'[f] \in {"cleaned", "closed"} => Ends(f)'
    BY <1>0, <1>1, <1>2, <1>4, <2>0, <2>1 DEF FileInv, Life, Faith, Ends, Deleted, Cleaning, Is, Requests, Places
  <2>4. Seen(f, "READ")' => file'[f] \in {"cleaned", "closed"} /\ ~Cleaning(f, {"fs", "instance", "report"})'
    BY <1>0, <1>1, <1>2, <1>4, <2>0, <2>1 DEF FileInv, Life, Faith, Cleaning, Is, Seen
  <2> QED  BY <2>2, <2>3, <2>4 DEF Faith
<1> QED  BY <1>0, <1>1, <1>2, <1>3, <1>5, <1>6, <1>7, <1>8, <1>9, Combine DEF FileInv

(* There is no instance context. *)
LEMMA NoInstanceStep ==
  ASSUME Inv, NEW t \in Threads, NoInstanceContext(t)
  PROVE  Inv'
<1>0. PICK f \in Files : f = op[t].file /\ op[t].pc # "idle"
  BY DEF Inv, Shape, ShapeOf, NoInstanceContext
<1>1. TypeOK /\ FileTypes(f) /\ op[t] \in OpRecords /\ ShapeOf(op[t]) /\ FileInv(f)
      /\ f # None
      /\ \A u \in Threads : op[u].file = f =>
           op[u].kind \in Requests \cup {"create", "cleanup"} /\ op[u].pc \in Places \ {"idle"}
  BY Here
<1>2. /\ op' = [op EXCEPT ![t] = op'[t]] /\ op'[t] \in OpRecords
      /\ \A u \in Threads : u # t => op'[u] = op[u]
      /\ instRefs' = instRefs /\ ShapeOf(op'[t]) /\ op'[t].inst = op[t].inst
      /\ op'[t].file = f /\ op[t].file = f /\ op'[t].kind = op[t].kind
      /\ op'[t].deleted = op[t].deleted /\ op[t].pc = "instance" /\ op'[t].pc = "leave"
  BY <1>0, <1>1, GoFacts DEF NoInstanceContext, ShapeOf, Places
<1>3. ChangesAt(f)
  BY <1>0, <1>1 DEF NoInstanceContext, ShapeOf, Places, Miss, TypeOK, ChangesAt, At, histVars
<1>4. /\ file'[f] = file[f]
      /\ ctx'[f] = ctx[f]
      /\ linked'[f] = linked[f]
      /\ refs'[f] = refs[f]
      /\ events'[f] = events[f]
      /\ ops'[f] = ops[f]
      /\ did'[f] = did[f]
      /\ missed'[f] = TRUE
      /\ raced'[f] = raced[f]
  BY <1>0, <1>1, FileCallbacksAssumption DEF NoInstanceContext, ShapeOf, Places, Miss, TypeOK, histVars
<1>5. FileTypes(f)'
  BY <1>1, <1>2, <1>4 DEF FileTypes, Lives, Requests
<1>6. Life(f)'
  BY <1>0, <1>1, <1>2, <1>4 DEF FileInv, Life, ShapeOf, Requests
<1>7. Counted(f)'
  <2>1. Counted(f) /\ refs[f] \in Int
    BY <1>1 DEF FileInv, FileTypes
  <2> QED  BY <1>0, <1>1, <1>2, <1>4, <2>1, HoldingCount, FileCallbacksAssumption DEF Counted, Holds
<1>8. Story(f)'
  <2>1. Story(f) /\ events'[f] = events[f] /\ raced'[f] = raced[f]
    BY <1>1, <1>4 DEF FileInv
  <2>2. GoesOn(f, t)
    BY <1>0, <1>1, <1>2 DEF GoesOn, Places
  <2>3. file[f] \in {"cleaned", "closed"} => file'[f] \in {"cleaned", "closed"}
    BY <1>0, <1>1, <1>2, <1>4 DEF FileInv, Life
  <2> QED  BY <1>2, <2>1, <2>2, <2>3, QuietStory
<1>9. Faith(f)'
  <2>0. \A ks, ps :
          /\ Running(f, ks, ps) <=> Others(f, t, ks, ps) \/ Is(op[t], f, ks, ps)
          /\ Running(f, ks, ps)' <=> Others(f, t, ks, ps) \/ Is(op'[t], f, ks, ps)
    BY <1>2, RunningFacts
  <2>1. \A x : Seen(f, x)' <=> Seen(f, x)
    BY <1>4 DEF Seen
  <2>2. ~missed'[f] => Marks(f)'
    BY <1>0, <1>1, <1>2, <1>4, <2>0, <2>1 DEF FileInv, Life, Faith, Marks, Is
  <2>3. ~missed'[f] /\ ~raced'[f] /\ file'[f] \in {"cleaned", "closed"} => Ends(f)'
    BY <1>0, <1>1, <1>2, <1>4, <2>0, <2>1 DEF FileInv, Life, Faith, Ends, Deleted, Cleaning, Is, Requests, Places
  <2>4. Seen(f, "READ")' => file'[f] \in {"cleaned", "closed"} /\ ~Cleaning(f, {"fs", "instance", "report"})'
    BY <1>0, <1>1, <1>2, <1>4, <2>0, <2>1 DEF FileInv, Life, Faith, Cleaning, Is, Seen
  <2> QED  BY <2>2, <2>3, <2>4 DEF Faith
<1> QED  BY <1>0, <1>1, <1>2, <1>3, <1>5, <1>6, <1>7, <1>8, <1>9, Combine DEF FileInv

(* The first event of a callback is passed to Enqueue. *)
LEMMA ReportStep ==
  ASSUME Inv, NEW t \in Threads, Report(t)
  PROVE  Inv'
<1>0. PICK f \in Files : f = op[t].file /\ op[t].pc # "idle"
  BY DEF Inv, Shape, ShapeOf, Report
<1>1. TypeOK /\ FileTypes(f) /\ op[t] \in OpRecords /\ ShapeOf(op[t]) /\ FileInv(f)
      /\ f # None
      /\ \A u \in Threads : op[u].file = f =>
           op[u].kind \in Requests \cup {"create", "cleanup"} /\ op[u].pc \in Places \ {"idle"}
  BY Here
<1>2. /\ op' = [op EXCEPT ![t] = op'[t]] /\ op'[t] \in OpRecords
      /\ \A u \in Threads : u # t => op'[u] = op[u]
      /\ ShapeOf(op'[t]) /\ op'[t].inst = op[t].inst /\ instRefs' = instRefs
      /\ op'[t].file = f /\ op[t].file = f /\ op'[t].kind = op[t].kind
      /\ op'[t].deleted = op[t].deleted /\ op[t].kind \in {"create", "rename", "cleanup"}
      /\ op[t].pc = "report" /\ op'[t].pc = IF op[t].kind = "cleanup" THEN "last" ELSE "leave"
  BY <1>0, <1>1, GoFacts DEF Report, ShapeOf, Places
<1>3. ChangesAt(f)
  BY <1>0, <1>1 DEF Report, ShapeOf, Places, Enqueue, TypeOK, ChangesAt, At, histVars
<1>4. /\ file'[f] = file[f]
      /\ ctx'[f] = ctx[f]
      /\ linked'[f] = linked[f]
      /\ refs'[f] = refs[f]
      /\ (\/ /\ op[t].kind = "create" /\ ctx[f].fileIoStatus = "created"
             /\ events'[f] = Append(events[f], "CREATE")
          \/ /\ op[t].kind = "create" /\ ctx[f].fileIoStatus # "created"
             /\ events'[f] = events[f]
          \/ op[t].kind = "rename" /\ events'[f] = Append(events[f], "RENAME")
          \/ /\ op[t].kind = "cleanup" /\ ctx[f].wasRead
             /\ events'[f] = Append(events[f], "READ")
          \/ op[t].kind = "cleanup" /\ ~ctx[f].wasRead /\ events'[f] = events[f])
      /\ ops'[f] = ops[f]
      /\ did'[f] = did[f]
      /\ missed'[f] = missed[f]
      /\ raced'[f] = raced[f]
  <2>1. CASE op[t].kind = "create"
    BY <1>0, <1>1, <2>1 DEF Report, Enqueue, TypeOK, histVars
  <2>2. CASE op[t].kind = "rename"
    BY <1>0, <1>1, <2>2 DEF Report, Enqueue, TypeOK, histVars
  <2>3. CASE op[t].kind = "cleanup"
    BY <1>0, <1>1, <2>3 DEF Report, Enqueue, TypeOK, histVars
  <2> QED  BY <1>2, <2>1, <2>2, <2>3
<1>5. FileTypes(f)'
  <2>0. events[f] \in Seq(Reports)
    BY <1>1 DEF FileTypes
  <2>1. \A x \in Reports : Append(events[f], x) \in Seq(Reports)
    BY <2>0
  <2>2. events'[f] \in Seq(Reports)
    BY <1>4, <2>0, <2>1 DEF Reports
  <2> QED  BY <1>1, <1>4, <2>2 DEF FileTypes
<1>6. Life(f)'
  <2>1. CASE op[t].kind = "create"
    BY <1>1, <1>2, <1>4, <2>1 DEF FileInv, Life, Requests
  <2>2. CASE op[t].kind # "create"
    <3>1. \A u \in Threads : op[u].file = f => op[u].kind # "create"
      BY <1>1, <1>2, <2>2 DEF FileInv, Life
    <3>2. file[f] \in {"open", "cleaned"}
      BY <1>1, <1>2, <2>2 DEF FileInv, Life, Requests
    <3> QED  BY <1>1, <1>2, <1>4, <2>2, <3>1, <3>2 DEF FileInv, Life
  <2> QED  BY <2>1, <2>2
<1>7. Counted(f)'
  <2>1. Counted(f) /\ refs[f] \in Int
    BY <1>1 DEF FileInv, FileTypes
  <2>2. Holds(f, op[t]) /\ Holds(f, op'[t])
    BY <1>2 DEF Holds
  <2>3. Cardinality(Holding(f)') = Cardinality(Holding(f))
    BY <1>1, <1>2, <2>2, HoldingCount
  <2> QED  BY <1>4, <2>1, <2>3 DEF Counted
<1>8. Story(f)'
  <2>0. \A ks, ps :
          /\ Running(f, ks, ps) <=> Others(f, t, ks, ps) \/ Is(op[t], f, ks, ps)
          /\ Running(f, ks, ps)' <=> Others(f, t, ks, ps) \/ Is(op'[t], f, ks, ps)
    BY <1>2, RunningFacts
  <2>1. events[f] \in Seq(Reports) /\ Told(events[f], raced[f]) /\ raced'[f] = raced[f]
    BY <1>1, <1>4 DEF FileTypes, FileInv, Story
  <2>2. op[t].kind = "create" => events[f] = << >> /\ ~Ended(f)
    BY <1>1, <1>2 DEF FileInv, Life, Story
  <2>3. op[t].kind = "cleanup" => ~Ended(f)
    BY <1>1, <1>2, <2>0 DEF FileInv, Story, Cleaning, Is, Places
  <2>4. op[t].kind = "rename" /\ Ended(f) => raced[f]
    BY <1>1, <1>2, <2>0 DEF FileInv, Story, Is, Places, Requests
  <2>5. Ended(f) <=> Has(events[f], "CLOSE") \/ Has(events[f], "DELETE")
    BY DEF Ended, Seen, Has
  <2>6. Told(events'[f], raced'[f])
    BY <1>4, <2>1, <2>2, <2>3, <2>4, <2>5, TellOne DEF Reports
  <2>7. Ended(f)' <=> Ended(f)
    <3>1. Ended(f)' <=> Has(events'[f], "CLOSE") \/ Has(events'[f], "DELETE")
      BY DEF Ended, Seen, Has
    <3>2. CASE events'[f] = Append(events[f], "CREATE")
      BY <2>1, <2>5, <3>1, <3>2, HasOne
    <3>3. CASE events'[f] = Append(events[f], "RENAME")
      BY <2>1, <2>5, <3>1, <3>3, HasOne
    <3>4. CASE events'[f] = Append(events[f], "READ")
      BY <2>1, <2>5, <3>1, <3>4, HasOne
    <3> QED  BY <1>4, <2>5, <3>1, <3>2, <3>3, <3>4
  <2> QED  BY <1>1, <1>2, <1>4, <2>0, <2>3, <2>6, <2>7 DEF FileInv, Story, Cleaning, Is, Places
<1>9. Faith(f)'
  <2>0. \A ks, ps :
          /\ Running(f, ks, ps) <=> Others(f, t, ks, ps) \/ Is(op[t], f, ks, ps)
          /\ Running(f, ks, ps)' <=> Others(f, t, ks, ps) \/ Is(op'[t], f, ks, ps)
    BY <1>2, RunningFacts
  <2>1. \A x : Seen(f, x)' <=>
          \/ Seen(f, x)
          \/ op[t].kind = "create" /\ ctx[f].fileIoStatus = "created" /\ x = "CREATE"
          \/ op[t].kind = "rename" /\ x = "RENAME"
          \/ op[t].kind = "cleanup" /\ ctx[f].wasRead /\ x = "READ"
    <3>1. \A x : (Seen(f, x)' <=> Has(events'[f], x)) /\ (Seen(f, x) <=> Has(events[f], x))
      BY DEF Seen, Has
    <3>2. events[f] \in Seq(Reports)
      BY <1>1 DEF FileTypes
    <3> SUFFICES ASSUME NEW x
                 PROVE  Has(events'[f], x) <=>
                          \/ Has(events[f], x)
                          \/ op[t].kind = "create" /\ ctx[f].fileIoStatus = "created" /\ x = "CREATE"
                          \/ op[t].kind = "rename" /\ x = "RENAME"
                          \/ op[t].kind = "cleanup" /\ ctx[f].wasRead /\ x = "READ"
      BY <3>1, Zenon
    <3>3. /\ Has(Append(events[f], "CREATE"), x) <=> Has(events[f], x) \/ x = "CREATE"
          /\ Has(Append(events[f], "RENAME"), x) <=> Has(events[f], x) \/ x = "RENAME"
          /\ Has(Append(events[f], "READ"), x) <=> Has(events[f], x) \/ x = "READ"
      BY <3>2, HasOne
    <3> QED  BY <1>4, <3>3
  <2>2. ~missed'[f] => Marks(f)'
    <3> SUFFICES ASSUME ~missed'[f]  PROVE Marks(f)'  OBVIOUS
    <3>1. Marks(f)
      BY <1>1, <1>4 DEF FileInv, Faith
    <3>2. CASE op[t].kind = "create"
      <4>1. /\ file[f] = "opening" /\ ~Seen(f, "CREATE") /\ linked[f]
            /\ \A k, p : ~Others(f, t, k, p)
        BY <1>1, <1>2, <2>0, <3>1, <3>2 DEF FileInv, Life, Marks, Others, Seen, Is
      <4> QED  BY <1>2, <1>4, <2>0, <2>1, <3>1, <3>2, <4>1 DEF Marks, Is
    <3>3. CASE op[t].kind = "rename"
      BY <1>2, <1>4, <2>0, <2>1, <3>1, <3>3 DEF Marks, Is
    <3>4. CASE op[t].kind = "cleanup"
      BY <1>2, <1>4, <2>0, <2>1, <3>1, <3>4 DEF Marks, Is
    <3> QED  BY <1>2, <3>2, <3>3, <3>4
  <2>3. ~missed'[f] /\ ~raced'[f] /\ file'[f] \in {"cleaned", "closed"} => Ends(f)'
    <3> SUFFICES ASSUME ~missed'[f], ~raced'[f], file'[f] \in {"cleaned", "closed"}  PROVE Ends(f)'
      OBVIOUS
    <3>1. Ends(f)
      BY <1>1, <1>4 DEF FileInv, Faith
    <3>2. op[t].kind = "cleanup"
      <4>1. op[t].kind # "create"
        BY <1>1, <1>2, <1>4 DEF FileInv, Life
      <4>2. op[t].kind # "rename"
        BY <1>2, <3>1 DEF Ends, Running, Requests, Places
      <4> QED  BY <1>2, <4>1, <4>2
    <3>3. /\ \A u \in Threads : op[u].file = f /\ op[u].kind = "cleanup" => u = t
          /\ \A u \in Threads : op[u].file = f => op[u].kind = "cleanup"
      BY <1>1, <1>2, <1>4, <3>1, <3>2 DEF FileInv, Life, Ends, Running
    <3>4. \A u \in Threads : op'[u].file = f => u = t
      BY <1>2, <3>3
    <3>5. ~Running(f, Requests, Places)'
      BY <1>2, <3>2, <3>4 DEF Running, Requests
    <3>6. Cleaning(f, {"fs", "instance", "report"}) /\ Cleaning(f, Places \ {"leave"})'
      BY <1>2, <3>2 DEF Cleaning, Running, Places
    <3>7. (Deleted(f)' <=> Deleted(f)) /\ (op[t].deleted <=> Deleted(f))
      BY <1>2, <1>4, <3>1 DEF Deleted, Ends
    <3>8. ~Seen(f, "READ")
      BY <1>1, <3>6 DEF FileInv, Faith
    <3>9. Seen(f, "READ")' <=> ctx'[f].wasRead
      BY <1>4, <2>1, <3>2, <3>8
    <3> QED  BY <1>2, <3>4, <3>5, <3>6, <3>7, <3>9 DEF Ends
  <2>4. Seen(f, "READ")' => file'[f] \in {"cleaned", "closed"} /\ ~Cleaning(f, {"fs", "instance", "report"})'
    <3>1. CASE op[t].kind = "cleanup"
      <4>1. file[f] = "cleaned" /\ ~Others(f, t, {"cleanup"}, {"fs", "instance", "report"})
        BY <1>1, <1>2, <3>1 DEF FileInv, Life, Others
      <4> QED  BY <1>2, <1>4, <2>0, <3>1, <4>1 DEF Cleaning, Is
    <3>2. CASE op[t].kind # "cleanup"
      BY <1>1, <1>2, <1>4, <2>0, <2>1, <3>2 DEF FileInv, Faith, Cleaning, Is
    <3> QED  BY <3>1, <3>2
  <2> QED  BY <2>2, <2>3, <2>4 DEF Faith
<1> QED  BY <1>0, <1>1, <1>2, <1>3, <1>5, <1>6, <1>7, <1>8, <1>9, Combine DEF FileInv

(* The last events of PostCleanupCallback. *)
LEMMA ReportEndingStep ==
  ASSUME Inv, NEW t \in Threads, ReportEnding(t)
  PROVE  Inv'
<1>0. PICK f \in Files : f = op[t].file /\ op[t].pc # "idle"
  BY DEF Inv, Shape, ShapeOf, ReportEnding
<1>1. TypeOK /\ FileTypes(f) /\ op[t] \in OpRecords /\ ShapeOf(op[t]) /\ FileInv(f)
      /\ f # None
      /\ \A u \in Threads : op[u].file = f =>
           op[u].kind \in Requests \cup {"create", "cleanup"} /\ op[u].pc \in Places \ {"idle"}
  BY Here
<1>2. /\ op' = [op EXCEPT ![t] = op'[t]] /\ op'[t] \in OpRecords
      /\ \A u \in Threads : u # t => op'[u] = op[u]
      /\ ShapeOf(op'[t]) /\ op'[t].inst = op[t].inst /\ instRefs' = instRefs
      /\ op'[t].file = f /\ op[t].file = f /\ op'[t].kind = op[t].kind
      /\ op'[t].deleted = op[t].deleted /\ op[t].kind = "cleanup" /\ op[t].pc = "last"
      /\ op'[t].pc = "leave"
  BY <1>0, <1>1, GoFacts DEF ReportEnding, ShapeOf, Places
<1>3. ChangesAt(f)
  BY <1>0, <1>1 DEF ReportEnding, ShapeOf, Places, TypeOK, ChangesAt, At, histVars
<1>4. /\ file'[f] = file[f]
      /\ ctx'[f] = ctx[f]
      /\ linked'[f] = linked[f]
      /\ refs'[f] = refs[f]
      /\ events'[f] = events[f] \o Ending(ctx[f], op[t].deleted)
      /\ ops'[f] = ops[f]
      /\ did'[f] = did[f]
      /\ missed'[f] = missed[f]
      /\ raced'[f] = raced[f]
  BY <1>0, <1>1 DEF ReportEnding, ShapeOf, Places, TypeOK, histVars
<1>4a. \/ /\ op[t].deleted /\ ctx[f].fileIoStatus = "created" /\ events'[f] = events[f]
       \/ /\ op[t].deleted /\ ctx[f].fileIoStatus # "created"
          /\ events'[f] = Append(events[f], "DELETE")
       \/ /\ ~op[t].deleted /\ ~ctx[f].wasChanged /\ ctx[f].dispositionRename
          /\ events'[f] = events[f]
       \/ /\ ~op[t].deleted /\ ~ctx[f].wasChanged /\ ~ctx[f].dispositionRename
          /\ events'[f] = Append(events[f], "CLOSE")
       \/ /\ ~op[t].deleted /\ ctx[f].wasChanged /\ ctx[f].dispositionRename
          /\ events'[f] = Append(events[f], "WRITE")
       \/ /\ ~op[t].deleted /\ ctx[f].wasChanged /\ ~ctx[f].dispositionRename
          /\ events'[f] = Append(Append(events[f], "WRITE"), "CLOSE")
  <2>1. events[f] \in Seq(Reports)
    BY <1>1 DEF FileTypes
  <2>2. /\ events[f] \o (<< >> \o << >>) = events[f]
        /\ \A y : events[f] \o (<< >> \o <<y>>) = Append(events[f], y)
        /\ \A y : events[f] \o (<<y>> \o << >>) = Append(events[f], y)
        /\ \A y, z : events[f] \o (<<y>> \o <<z>>) = Append(Append(events[f], y), z)
    BY <2>1, Endings
  <2>3. events'[f] = events[f] \o Ending(ctx[f], op[t].deleted)
    BY <1>4
  <2> QED  BY <2>2, <2>3, Zenon DEF Ending
<1>5. FileTypes(f)'
  <2>1. events[f] \in Seq(Reports)
    BY <1>1 DEF FileTypes
  <2>2. \A s \in Seq(Reports) : \A x \in Reports : Append(s, x) \in Seq(Reports)
    OBVIOUS
  <2>3. events'[f] \in Seq(Reports)
    BY <1>4a, <2>1, <2>2 DEF Reports
  <2> QED  BY <1>1, <1>4, <2>3 DEF FileTypes
<1>6. Life(f)'
  <2>1. Life(f)
    BY <1>1 DEF FileInv
  <2>2. /\ file[f] = "cleaned" /\ \A u \in Threads : op[u].file = f => op[u].kind # "create"
        /\ \A u \in Threads : op[u].file = f /\ op[u].kind = "cleanup" => u = t
    BY <1>2, <2>1 DEF Life
  <2>3. \A u \in Threads : op'[u].file = f =>
          op'[u].kind # "create" /\ (op'[u].kind = "cleanup" => u = t)
    BY <1>2, <2>2
  <2> QED  BY <1>4, <2>2, <2>3 DEF Life
<1>7. Counted(f)'
  <2>1. Counted(f) /\ refs[f] \in Int
    BY <1>1 DEF FileInv, FileTypes
  <2>2. Holds(f, op[t]) /\ Holds(f, op'[t])
    BY <1>2 DEF Holds
  <2>3. Cardinality(Holding(f)') = Cardinality(Holding(f))
    BY <1>1, <1>2, <2>2, HoldingCount
  <2> QED  BY <1>4, <2>1, <2>3 DEF Counted
<1>8. Story(f)'
  <2>0. \A ks, ps :
          /\ Running(f, ks, ps) <=> Others(f, t, ks, ps) \/ Is(op[t], f, ks, ps)
          /\ Running(f, ks, ps)' <=> Others(f, t, ks, ps) \/ Is(op'[t], f, ks, ps)
    BY <1>2, RunningFacts
  <2>1. events[f] \in Seq(Reports) /\ Told(events[f], raced[f]) /\ raced'[f] = raced[f]
    BY <1>1, <1>4 DEF FileTypes, FileInv, Story
  <2>2. ~Ended(f)
    BY <1>1, <1>2, <2>0 DEF FileInv, Story, Cleaning, Is, Places
  <2>3. ~Has(events[f], "CLOSE") /\ ~Has(events[f], "DELETE")
    BY <2>2 DEF Ended, Seen, Has
  <2>4. /\ \A x \in {"WRITE", "CLOSE", "DELETE"} : Told(Append(events[f], x), raced[f])
        /\ Append(events[f], "WRITE") \in Seq(Reports)
    BY <2>1, <2>3, TellOne DEF Reports
  <2>5. ~Has(Append(events[f], "WRITE"), "CLOSE") /\ ~Has(Append(events[f], "WRITE"), "DELETE")
    BY <2>1, <2>3, HasOne
  <2>6. Told(Append(Append(events[f], "WRITE"), "CLOSE"), raced[f])
    BY <2>4, <2>5, TellOne DEF Reports
  <2>7. Told(events'[f], raced'[f])
    BY <1>4, <1>4a, <2>1, <2>4, <2>6
  <2>8. file'[f] = "cleaned" /\ ~Cleaning(f, Places \ {"leave"})'
    BY <1>1, <1>2, <1>4, <2>0 DEF FileInv, Life, Cleaning, Others, Is, Places
  <2>9. Running(f, Requests, Places)' => raced'[f]
    BY <1>1, <1>2, <1>4, <2>0 DEF FileInv, Story, Cleaning, Is, Places, Requests
  <2> QED  BY <2>7, <2>8, <2>9 DEF Story
<1>9. Faith(f)'
  <2>0. \A ks, ps :
          /\ Running(f, ks, ps) <=> Others(f, t, ks, ps) \/ Is(op[t], f, ks, ps)
          /\ Running(f, ks, ps)' <=> Others(f, t, ks, ps) \/ Is(op'[t], f, ks, ps)
    BY <1>2, RunningFacts
  <2>1. \A x : Seen(f, x)' <=>
          \/ Seen(f, x)
          \/ x = "WRITE" /\ ~op[t].deleted /\ ctx[f].wasChanged
          \/ x = "DELETE" /\ op[t].deleted /\ ctx[f].fileIoStatus # "created"
          \/ x = "CLOSE" /\ ~op[t].deleted /\ ~ctx[f].dispositionRename
    <3>1. \A x : (Seen(f, x)' <=> Has(events'[f], x)) /\ (Seen(f, x) <=> Has(events[f], x))
      BY DEF Seen, Has
    <3>2. events[f] \in Seq(Reports) /\ Append(events[f], "WRITE") \in Seq(Reports)
      BY <1>1 DEF FileTypes, Reports
    <3> SUFFICES ASSUME NEW x
                 PROVE  Has(events'[f], x) <=>
                          \/ Has(events[f], x)
                          \/ x = "WRITE" /\ ~op[t].deleted /\ ctx[f].wasChanged
                          \/ x = "DELETE" /\ op[t].deleted /\ ctx[f].fileIoStatus # "created"
                          \/ x = "CLOSE" /\ ~op[t].deleted /\ ~ctx[f].dispositionRename
      BY <3>1, Zenon
    <3>3. /\ Has(Append(events[f], "WRITE"), x) <=> Has(events[f], x) \/ x = "WRITE"
          /\ Has(Append(events[f], "CLOSE"), x) <=> Has(events[f], x) \/ x = "CLOSE"
          /\ Has(Append(events[f], "DELETE"), x) <=> Has(events[f], x) \/ x = "DELETE"
      BY <3>2, HasOne
    <3>4. Has(Append(Append(events[f], "WRITE"), "CLOSE"), x) <=>
            Has(events[f], x) \/ x = "WRITE" \/ x = "CLOSE"
      BY <3>2, <3>3, HasOne
    <3> QED  BY <1>4a, <3>3, <3>4
  <2>2. ~missed'[f] => Marks(f)'
    <3> SUFFICES ASSUME ~missed'[f]  PROVE Marks(f)'  OBVIOUS
    <3>1. Marks(f)
      BY <1>1, <1>4 DEF FileInv, Faith
    <3>2. ASSUME NEW ks, NEW ps, "cleanup" \notin ks
          PROVE  Running(f, ks, ps)' <=> Running(f, ks, ps)
      BY <1>2, <2>0, <3>2 DEF Is
    <3>3. /\ Seen(f, "RENAME")' <=> Seen(f, "RENAME")
          /\ Seen(f, "CREATE")' <=> Seen(f, "CREATE")
      BY <2>1
    <3>4. /\ Running(f, {"read"}, {"mark"})' <=> Running(f, {"read"}, {"mark"})
          /\ Running(f, {"rename"}, {"mark"})' <=> Running(f, {"rename"}, {"mark"})
          /\ Running(f, {"delete", "undelete"}, {"mark"})' <=> Running(f, {"delete", "undelete"}, {"mark"})
          /\ Running(f, {"rename"}, {"mark", "instance", "report"})' <=>
               Running(f, {"rename"}, {"mark", "instance", "report"})
          /\ Running(f, {"create"}, {"leave"})' <=> Running(f, {"create"}, {"leave"})
          /\ Running(f, {"create"}, {"instance", "report", "leave"})' <=>
               Running(f, {"create"}, {"instance", "report", "leave"})
      BY <3>2
    <3> QED  BY <1>4, <3>1, <3>3, <3>4 DEF Marks
  <2>3. ~missed'[f] /\ ~raced'[f] /\ file'[f] \in {"cleaned", "closed"} => Ends(f)'
    <3> SUFFICES ASSUME ~missed'[f], ~raced'[f]  PROVE Ends(f)'  OBVIOUS
    <3>1. file[f] = "cleaned" /\ ~Ended(f)
      BY <1>1, <1>2, <2>0 DEF FileInv, Life, Story, Cleaning, Is, Places
    <3>2. Ends(f) /\ ~Seen(f, "CLOSE") /\ ~Seen(f, "DELETE")
      BY <1>1, <1>4, <3>1 DEF FileInv, Faith, Ended
    <3>3. op[t].deleted <=> Deleted(f)
      BY <1>2, <3>2 DEF Ends
    <3>4. /\ \A u \in Threads : op[u].file = f /\ op[u].kind = "cleanup" => u = t
          /\ \A u \in Threads : op[u].file = f => op[u].kind = "cleanup"
      BY <1>1, <1>2, <3>1, <3>2 DEF FileInv, Life, Ends, Running
    <3>5. ~Cleaning(f, {"fs", "instance", "report"})
      BY <1>2, <3>4 DEF Cleaning, Running
    <3>6. Deleted(f)' <=> Deleted(f)
      BY <1>4 DEF Deleted
    <3>7. \A u \in Threads : op'[u].file = f => u = t
      BY <1>2, <3>4
    <3>8. ~Running(f, Requests, Places)'
      BY <1>2, <3>7 DEF Running, Requests
    <3> QED  BY <1>2, <1>4, <2>1, <3>2, <3>3, <3>5, <3>6, <3>7, <3>8 DEF Ends
  <2>4. Seen(f, "READ")' => file'[f] \in {"cleaned", "closed"} /\ ~Cleaning(f, {"fs", "instance", "report"})'
    <3>1. file[f] = "cleaned" /\ ~Others(f, t, {"cleanup"}, {"fs", "instance", "report"})
      BY <1>1, <1>2 DEF FileInv, Life, Others
    <3> QED  BY <1>2, <1>4, <2>0, <3>1 DEF Cleaning, Is
  <2> QED  BY <2>2, <2>3, <2>4 DEF Faith
<1> QED  BY <1>0, <1>1, <1>2, <1>3, <1>5, <1>6, <1>7, <1>8, <1>9, Combine DEF FileInv

(* A callback gives back its contexts and returns. *)
LEMMA LeaveStep ==
  ASSUME Inv, NEW t \in Threads, Leave(t)
  PROVE  Inv'
<1>0. PICK f \in Files : f = op[t].file /\ op[t].pc # "idle"
  BY DEF Inv, Shape, ShapeOf, Leave
<1>1. TypeOK /\ FileTypes(f) /\ op[t] \in OpRecords /\ ShapeOf(op[t]) /\ FileInv(f)
      /\ f # None
      /\ \A u \in Threads : op[u].file = f =>
           op[u].kind \in Requests \cup {"create", "cleanup"} /\ op[u].pc \in Places \ {"idle"}
  BY Here
<1>2. /\ op' = [op EXCEPT ![t] = op'[t]] /\ op'[t] \in OpRecords
      /\ \A u \in Threads : u # t => op'[u] = op[u]
      /\ ShapeOf(op'[t]) /\ op[t].pc = "leave" /\ op'[t].file = None
      /\ ~op'[t].inst /\ instRefs' = IF op[t].inst THEN instRefs - 1 ELSE instRefs
  BY <1>0, <1>1, FinishFacts DEF Leave
<1>3. ChangesAt(f)
  BY <1>0, <1>1 DEF Leave, TypeOK, ChangesAt, At, histVars
<1>4. /\ file'[f] = IF op[t].kind = "create" THEN "open" ELSE file[f]
      /\ ctx'[f] = ctx[f]
      /\ linked'[f] = linked[f]
      /\ refs'[f] = refs[f] - 1
      /\ events'[f] = events[f]
      /\ ops'[f] = ops[f]
      /\ did'[f] = did[f]
      /\ missed'[f] = missed[f]
      /\ raced'[f] = raced[f]
  BY <1>0, <1>1, FileCallbacksAssumption DEF Leave, TypeOK, histVars
<1>5. FileTypes(f)'
  BY <1>1, <1>2, <1>4 DEF FileTypes, Lives, Requests
<1>6. Life(f)'
  BY <1>0, <1>1, <1>2, <1>4 DEF FileInv, Life, ShapeOf, Requests
<1>7. Counted(f)'
  <2>1. Counted(f) /\ refs[f] \in Int
    BY <1>1 DEF FileInv, FileTypes
  <2> QED  BY <1>0, <1>1, <1>2, <1>4, <2>1, HoldingCount, FileCallbacksAssumption DEF Counted, Holds
<1>8. Story(f)'
  <2>1. Story(f) /\ events'[f] = events[f] /\ raced'[f] = raced[f]
    BY <1>1, <1>4 DEF FileInv
  <2>2. GoesOn(f, t)
    BY <1>0, <1>1, <1>2 DEF GoesOn, Places
  <2>3. file[f] \in {"cleaned", "closed"} => file'[f] \in {"cleaned", "closed"}
    BY <1>0, <1>1, <1>2, <1>4 DEF FileInv, Life
  <2> QED  BY <1>2, <2>1, <2>2, <2>3, QuietStory
<1>9. Faith(f)'
  <2>0. \A ks, ps :
          /\ Running(f, ks, ps) <=> Others(f, t, ks, ps) \/ Is(op[t], f, ks, ps)
          /\ Running(f, ks, ps)' <=> Others(f, t, ks, ps) \/ Is(op'[t], f, ks, ps)
    BY <1>2, RunningFacts
  <2>1. \A x : Seen(f, x)' <=> Seen(f, x)
    BY <1>4 DEF Seen
  <2>2. ~missed'[f] => Marks(f)'
    BY <1>0, <1>1, <1>2, <1>4, <2>0, <2>1 DEF FileInv, Life, Faith, Marks, Is
  <2>3. ~missed'[f] /\ ~raced'[f] /\ file'[f] \in {"cleaned", "closed"} => Ends(f)'
    BY <1>0, <1>1, <1>2, <1>4, <2>0, <2>1 DEF FileInv, Life, Faith, Ends, Deleted, Cleaning, Is, Requests, Places
  <2>4. Seen(f, "READ")' => file'[f] \in {"cleaned", "closed"} /\ ~Cleaning(f, {"fs", "instance", "report"})'
    BY <1>0, <1>1, <1>2, <1>4, <2>0, <2>1 DEF FileInv, Life, Faith, Cleaning, Is, Seen
  <2> QED  BY <2>2, <2>3, <2>4 DEF Faith
<1> QED  BY <1>0, <1>1, <1>2, <1>3, <1>5, <1>6, <1>7, <1>8, <1>9, Combine DEF FileInv

-----------------------------------------------------------------------------
(* The filter manager drops its reference to the context of f. *)
LEMMA CombineQuiet ==
  ASSUME Inv, NEW f \in Files, ChangesAt(f), FileTypes(f)', UNCHANGED <<op, instRefs>>,
         FileInv(f)'
  PROVE  Inv'
<1>1. TypeOK /\ Shape /\ InstanceCounted
  BY DEF Inv
<1>2. ASSUME NEW S, NEW old \in [Files -> S], NEW new, At(f, old, new), new[f] \in S
      PROVE  new \in [Files -> S] /\ \A g \in Files \ {f} : new[g] = old[g]
  BY <1>2 DEF At
<1>3. TypeOK'
  <2>1. file' \in [Files -> Lives] /\ ctx' \in [Files -> Contexts] /\ refs' \in [Files -> Int]
    BY <1>1, <1>2 DEF TypeOK, ChangesAt, Lives, FileTypes
  <2>2. linked' \in [Files -> BOOLEAN] /\ missed' \in [Files -> BOOLEAN]
        /\ raced' \in [Files -> BOOLEAN]
    BY <1>1, <1>2 DEF TypeOK, ChangesAt, FileTypes
  <2>3. events' \in [Files -> Seq(Reports)] /\ ops' \in [Files -> 0..MaxOps]
        /\ did' \in [Files -> SUBSET Requests]
    BY <1>1, <1>2 DEF TypeOK, ChangesAt, FileTypes
  <2>4. op' = op /\ instRefs' = instRefs
    OBVIOUS
  <2> QED  BY <1>1, <2>1, <2>2, <2>3, <2>4, Zenon DEF TypeOK, Lives
<1>4. Confined(f)
  <2>1. ASSUME NEW g \in Files \ {f}
        PROVE  /\ file'[g] = file[g] /\ ctx'[g] = ctx[g] /\ linked'[g] = linked[g]
               /\ refs'[g] = refs[g] /\ events'[g] = events[g] /\ did'[g] = did[g]
               /\ missed'[g] = missed[g] /\ raced'[g] = raced[g]
    <3>1. file'[g] = file[g] /\ ctx'[g] = ctx[g] /\ linked'[g] = linked[g]
      BY <1>1 DEF TypeOK, ChangesAt, At
    <3>2. refs'[g] = refs[g] /\ events'[g] = events[g] /\ did'[g] = did[g]
      BY <1>1 DEF TypeOK, ChangesAt, At
    <3>3. missed'[g] = missed[g] /\ raced'[g] = raced[g]
      BY <1>1 DEF TypeOK, ChangesAt, At
    <3> QED  BY <3>1, <3>2, <3>3
  <2> QED  BY <2>1 DEF Confined
<1>5. \A g \in Files : FileInv(g)'
  BY <1>4, Elsewhere
<1>6. Shape' /\ InstanceCounted'
  BY <1>1 DEF Shape, InstanceCounted
<1> QED  BY <1>3, <1>5, <1>6 DEF Inv

(* The file object is closed, or its instance detached: no callback runs.  *)
LEMMA UnlinkStep ==
  ASSUME Inv, NEW f \in Files, Close(f) \/ DetachInstance(f)
  PROVE  Inv'
<1>1. TypeOK /\ FileInv(f)
  BY DEF Inv
<1>2. FileTypes(f)
  BY <1>1 DEF TypeOK, FileTypes, Lives
<1>3. ChangesAt(f) /\ UNCHANGED <<op, instRefs>>
  <2>1. UNCHANGED <<op, instRefs, ctx, events, ops, did, raced>>
    BY DEF Close, DetachInstance, histVars
  <2>2. At(f, file, file')
    BY <1>1 DEF Close, DetachInstance, At, TypeOK
  <2>3. At(f, linked, linked') /\ At(f, refs, refs')
    BY <1>1 DEF Close, DetachInstance, Unlink, At, TypeOK
  <2>4. At(f, missed, missed')
    BY <1>1 DEF Close, DetachInstance, Miss, At, TypeOK, histVars
  <2>5. At(f, ctx, ctx') /\ At(f, events, events') /\ At(f, ops, ops') /\ At(f, did, did')
        /\ At(f, raced, raced')
    BY <1>1, <2>1 DEF At, TypeOK
  <2> QED  BY <2>1, <2>2, <2>3, <2>4, <2>5 DEF ChangesAt
<1>4. /\ ctx'[f] = ctx[f] /\ events'[f] = events[f] /\ ops'[f] = ops[f] /\ did'[f] = did[f]
      /\ raced'[f] = raced[f] /\ op' = op
      /\ (\/ /\ linked[f] /\ linked'[f] = FALSE /\ refs'[f] = refs[f] - 1
          \/ /\ ~linked[f] /\ linked'[f] = linked[f] /\ refs'[f] = refs[f])
      /\ (\/ /\ file[f] = "cleaned" /\ file'[f] = "closed" /\ missed'[f] = missed[f]
             /\ Busy(f) = {} /\ ~linked'[f]
          \/ /\ file[f] \in {"open", "cleaned"} /\ file'[f] = file[f] /\ missed'[f] = TRUE)
  <2>1. CASE Close(f)
    BY <1>1, <2>1 DEF Close, Unlink, TypeOK, histVars
  <2>2. CASE DetachInstance(f)
    BY <1>1, <2>2 DEF DetachInstance, Unlink, Miss, TypeOK, histVars
  <2> QED  BY <2>1, <2>2
<1>5. FileTypes(f)'
  <2>1. linked'[f] \in {FALSE, linked[f]} /\ missed'[f] \in {TRUE, missed[f]}
    BY <1>4
  <2>2. linked'[f] \in BOOLEAN /\ missed'[f] \in BOOLEAN
    BY <1>2, <2>1 DEF FileTypes
  <2>3. refs'[f] \in Int /\ file'[f] \in Lives
    BY <1>2, <1>4 DEF FileTypes, Lives
  <2> QED  BY <1>2, <1>4, <2>2, <2>3 DEF FileTypes
<1>6. Life(f)'
  BY <1>1, <1>4 DEF FileInv, Life, Busy
<1>7. Counted(f)'
  <2>1. Holding(f)' = Holding(f) /\ Cardinality(Holding(f)) \in Nat
    <3>1. Holding(f)' = Holding(f) /\ Holding(f) \subseteq Threads
      BY <1>4 DEF Holding, Busy
    <3> QED  BY <3>1, FileCallbacksAssumption, FS_Subset, FS_CardinalityType
  <2>2. Cardinality(Holding(f)') = Cardinality(Holding(f))
    BY <2>1, Zenon
  <2> QED  BY <1>1, <1>2, <1>4, <2>1, <2>2 DEF FileInv, FileTypes, Counted
<1>8. /\ \A x : Seen(f, x)' <=> Seen(f, x)
      /\ \A k, p : Running(f, k, p)' <=> Running(f, k, p)
  BY <1>4 DEF Seen, Running
<1>9. Story(f)'
  BY <1>1, <1>4, <1>8 DEF FileInv, Story, Ended, Cleaning
<1>10. Faith(f)'
  <2>1. ~missed'[f] => Marks(f)'
    <3> SUFFICES ASSUME ~missed'[f]  PROVE Marks(f)'  OBVIOUS
    <3>1. Marks(f) /\ file[f] = "cleaned" /\ file'[f] = "closed"
      BY <1>1, <1>4 DEF FileInv, Faith
    <3>2. \A k, p : ~Running(f, k, p)
      BY <1>4 DEF Running, Busy
    <3> QED  BY <1>4, <1>8, <3>1, <3>2 DEF Marks
  <2>2. ~missed'[f] /\ ~raced'[f] /\ file'[f] \in {"cleaned", "closed"} => Ends(f)'
    BY <1>1, <1>4, <1>8 DEF FileInv, Faith, Ends, Deleted, Cleaning
  <2>3. Seen(f, "READ")' => file'[f] \in {"cleaned", "closed"} /\ ~Cleaning(f, {"fs", "instance", "report"})'
    BY <1>1, <1>4, <1>8 DEF FileInv, Faith, Cleaning
  <2> QED  BY <2>1, <2>2, <2>3 DEF Faith
<1> QED  BY <1>3, <1>5, <1>6, <1>7, <1>9, <1>10, CombineQuiet DEF FileInv

(* Nothing has happened to any file object. *)
LEMMA InitInv == Init => Inv
<1> SUFFICES ASSUME Init  PROVE Inv  OBVIOUS
<1>1. NewContext("opened", FALSE) \in Contexts /\ Idle \in OpRecords
      /\ Idle.pc = "idle" /\ Idle.file = None /\ ~Idle.inst
  BY NewContextFacts DEF Idle, OpRecords, Places
<1>2. TypeOK
  <2>1. linked \in [Files -> BOOLEAN] /\ missed \in [Files -> BOOLEAN] /\ raced \in [Files -> BOOLEAN]
    BY DEF Init
  <2>2. op \in [Threads -> OpRecords] /\ ctx \in [Files -> Contexts]
    BY <1>1 DEF Init
  <2>3. events \in [Files -> Seq(Reports)]
    <3>1. << >> \in Seq(Reports)  OBVIOUS
    <3> QED  BY <3>1 DEF Init
  <2>4. file \in [Files -> Lives] /\ refs \in [Files -> Int] /\ instRefs \in Int
        /\ ops \in [Files -> 0..MaxOps] /\ did \in [Files -> SUBSET Requests]
    BY FileCallbacksAssumption DEF Init, Lives
  <2> QED  BY <2>1, <2>2, <2>3, <2>4, Zenon DEF TypeOK, Lives, OpRecords
<1>3. \A u \in Threads : op[u] = Idle
  BY DEF Init
<1>4. Shape
  BY <1>1, <1>3 DEF Shape, ShapeOf
<1>5. InstanceCounted
  <2>1. {u \in Threads : op[u].inst} = {}
    BY <1>1, <1>3
  <2>2. Cardinality({}) = 0
    BY FS_EmptySet
  <2>3. Cardinality({u \in Threads : op[u].inst}) = 0
    BY <2>1, <2>2, Zenon
  <2>4. instRefs = 1
    BY DEF Init
  <2> QED  BY <2>3, <2>4 DEF InstanceCounted
<1>6. ASSUME NEW f \in Files  PROVE FileInv(f)
  <2>1. /\ file[f] = "new" /\ ctx[f] = NewContext("opened", FALSE) /\ ~linked[f] /\ refs[f] = 0
        /\ events[f] = << >> /\ did[f] = {}
    BY DEF Init
  <2>2. \A u \in Threads : op[u].file # f
    BY <1>1, <1>3, FileCallbacksAssumption
  <2>3. Life(f)
    BY <2>1, <2>2 DEF Life
  <2>4. Counted(f)
    <3>1. Holding(f) = {}
      BY <2>2 DEF Holding, Busy
    <3> QED  BY <2>1, <3>1, FS_EmptySet DEF Counted
  <2>5. (\A x : ~Seen(f, x)) /\ \A k, p : ~Running(f, k, p)
    BY <2>1, <2>2 DEF Seen, Running
  <2>6. Told(events[f], raced[f])
    BY <2>1 DEF Told
  <2>7. Story(f)
    BY <2>1, <2>5, <2>6 DEF Story, Ended, Cleaning
  <2>8. ~ctx[f].wasRead /\ ~ctx[f].dispositionRename /\ ~ctx[f].dispositionDelete
    BY <2>1, NewContextFacts
  <2>9. Faith(f)
    BY <2>1, <2>5, <2>8 DEF Faith, Marks, Cleaning
  <2> QED  BY <2>3, <2>4, <2>7, <2>9 DEF FileInv
<1> QED  BY <1>2, <1>4, <1>5, <1>6 DEF Inv

(* Nothing changes when no variable does. *)
LEMMA Stutter == Inv /\ UNCHANGED vars => Inv'
<1> SUFFICES ASSUME Inv, UNCHANGED vars  PROVE Inv'  OBVIOUS
<1>1. UNCHANGED <<file, ctx, linked, refs, instRefs, op, events, ops, did, missed, raced>>
  BY DEF vars, histVars
<1>2. TypeOK' /\ Shape' /\ InstanceCounted'
  BY <1>1 DEF Inv, TypeOK, Shape, InstanceCounted
<1>3. ASSUME NEW f \in Files  PROVE FileInv(f)'
  <2>1. FileInv(f)
    BY DEF Inv
  <2>2. Life(f)' /\ Counted(f)'
    BY <1>1, <2>1 DEF FileInv, Life, Counted, Holding, Busy
  <2>3. (\A x : Seen(f, x)' <=> Seen(f, x)) /\ \A k, p : Running(f, k, p)' <=> Running(f, k, p)
    BY <1>1 DEF Seen, Running
  <2>4. Story(f)'
    BY <1>1, <2>1, <2>3 DEF FileInv, Story, Ended, Cleaning
  <2>5. (Marks(f) => Marks(f)') /\ (Ends(f) => Ends(f)')
    BY <1>1, <2>3 DEF Marks, Ends, Deleted, Cleaning
  <2>6. Faith(f)'
    BY <1>1, <2>1, <2>3, <2>5 DEF FileInv, Faith, Cleaning
  <2> QED  BY <2>2, <2>4, <2>6 DEF FileInv
<1> QED  BY <1>2, <1>3 DEF Inv

(* Every step keeps the invariant. *)
LEMMA NextInv == Inv /\ [Next]_vars => Inv'
<1> SUFFICES ASSUME Inv, [Next]_vars  PROVE Inv'  OBVIOUS
<1>1. ASSUME NEW t \in Threads, Create(t)  PROVE Inv'
  BY <1>1, PreCreateStep, CreateUnseenStep, PostCreateStep, SetContextStep DEF Create
<1>2. ASSUME NEW t \in Threads, Request(t)  PROVE Inv'
  BY <1>2, PreOperationStep, PreUnwatchedStep, PreSkippedStep, PostUnseenStep,
     PostOperationStep, MarkStep DEF Request
<1>3. ASSUME NEW t \in Threads, Cleanup(t)  PROVE Inv'
  BY <1>3, PreCleanupStep, PreCleanupSkippedStep, CleanupUnseenStep, PostCleanupStep,
     ReportEndingStep DEF Cleanup
<1>4. ASSUME NEW t \in Threads,
             GetInstanceContext(t) \/ NoInstanceContext(t) \/ Report(t) \/ Leave(t)
      PROVE  Inv'
  BY <1>4, GetInstanceStep, NoInstanceStep, ReportStep, LeaveStep
<1>5. ASSUME NEW f \in Files, Close(f) \/ DetachInstance(f)  PROVE Inv'
  BY <1>5, UnlinkStep
<1>6. CASE UNCHANGED vars  BY <1>6, Stutter
<1> QED  BY <1>1, <1>2, <1>3, <1>4, <1>5, <1>6 DEF Next

(* The invariant holds in every state of the callbacks. *)
LEMMA Invariance == Spec => []Inv
BY InitInv, NextInv, PTL DEF Spec

-----------------------------------------------------------------------------
(* On every path of the callbacks of Filter.cpp, the failing ones too, the *)
(* contexts are released as often as they are referenced: a stream context *)
(* is neither freed under a callback nor kept by one that has returned.    *)
THEOREM CallbacksCountContexts == Spec => []ContextsSound
<1>1. Inv => ContextsSound
  BY DEF Inv, ContextsSound, ContextsCounted, FileInv, Counted, InstanceCounted
<1> QED  BY <1>1, Invariance, PTL

(* Whatever requests run on a file object, and whichever of them a cleanup *)
(* overtakes, its creation is reported first and its end once, and only    *)
(* the rename of an overtaken request comes later.                         *)
THEOREM CallbacksTellOneStory == Spec => []OneStory
<1>1. Inv => OneStory
  BY DEF Inv, FileInv, Story, Told, OneStory
<1> QED  BY <1>1, Invariance, PTL

(* Nothing sets readOnly, so no write is watched, noted or reported.       *)
Silent ==
  /\ \A f \in Files : ~ctx[f].readOnly /\ ~ctx[f].wasChanged /\ ~Seen(f, "WRITE")
  /\ \A t \in Threads : op[t].kind # "write"

(* A step that notes no write, starts none and reports none at the end. *)
Quiet ==
  /\ \A f \in Files : ctx'[f] = ctx[f] \/ (~ctx'[f].readOnly /\ ~ctx'[f].wasChanged)
  /\ \A t \in Threads : op'[t].kind = op[t].kind \/ op'[t].kind # "write"
  /\ \A f \in Files : events'[f] = events[f]
                       \/ \E x \in Reports \ {"WRITE"} : events'[f] = Append(events[f], x)

(* A quiet step keeps writes unseen. *)
LEMMA QuietStays ==
  ASSUME TypeOK, Silent, Quiet
  PROVE  Silent'
<1>1. ASSUME NEW f \in Files  PROVE ~Seen(f, "WRITE")'
  <2>1. events[f] \in Seq(Reports) /\ ~Has(events[f], "WRITE")
    BY DEF TypeOK, Silent, Seen, Has
  <2>2. ~Has(events'[f], "WRITE")
    BY <2>1, HasOne DEF Quiet
  <2> QED  BY <2>2 DEF Seen, Has
<1>2. \A f \in Files : ~ctx'[f].readOnly /\ ~ctx'[f].wasChanged
  BY DEF Silent, Quiet
<1>3. \A t \in Threads : op'[t].kind # "write"
  BY DEF Silent, Quiet
<1> QED  BY <1>1, <1>2, <1>3 DEF Silent

(* No step of a callback lets a write be seen. *)
LEMMA StaysSilent == TypeOK /\ Shape /\ Silent /\ [Next]_vars => Silent'
<1> SUFFICES ASSUME TypeOK, Shape, Silent, [Next]_vars  PROVE Quiet
  BY QuietStays
<1>t. /\ ctx \in [Files -> Contexts] /\ DOMAIN events = Files /\ DOMAIN op = Threads
      /\ \A u \in Threads : op[u] \in [pc : Places, kind : Requests \cup {"none", "create", "cleanup"},
                                        file : Files \cup {None}, inst : BOOLEAN, deleted : BOOLEAN]
  BY DEF TypeOK
<1>c. \A g \in Files : DOMAIN ctx[g] = {"fileIoStatus", "deleteOnClose", "dispositionDelete",
                           "dispositionRename", "wasRead", "wasChanged", "readOnly"}
  BY <1>t DEF Contexts
<1>o. \A u \in Threads : DOMAIN op[u] = {"pc", "kind", "file", "inst", "deleted"}
  BY <1>t
<1>s. /\ \A g \in Files : ~ctx[g].readOnly /\ ~ctx[g].wasChanged
      /\ \A u \in Threads : op[u].kind # "write"
  BY DEF Silent
<1> DEFINE Kinds == \A u \in Threads : op'[u].kind = op[u].kind \/ op'[u].kind # "write"
<1>g. ASSUME NEW t \in Threads, NEW pc, Go(t, pc)  PROVE Kinds
  BY <1>g, <1>t, <1>o DEF Go
<1>f. ASSUME NEW t \in Threads, Finish(t)  PROVE Kinds
  BY <1>f, <1>t DEF Finish, Idle
<1>h. ASSUME NEW t \in Threads, NEW g, NEW k, Start(t, g, k), k # "write"  PROVE Kinds
  <2>1. [Idle EXCEPT !.pc = "fs", !.kind = k, !.file = g].kind = k
    BY DEF Idle
  <2> QED  BY <1>h, <1>t, <2>1 DEF Start
<1>i. ASSUME NEW t \in Threads, GetInstanceContext(t)  PROVE Kinds
  BY <1>i, <1>t, <1>o DEF GetInstanceContext
<1>u. op' = op => Kinds
  OBVIOUS
<1> HIDE DEF Kinds
<1>1. ASSUME NEW t \in Threads, Create(t)  PROVE Quiet
  <2>1. \A g \in Files : ctx'[g] = ctx[g] \/ \E io \in Information, d \in BOOLEAN : ctx'[g] = NewContext(io, d)
    BY <1>1, <1>t DEF Create, PreCreate, CreateUnseen, PostCreate, SetStreamHandleContext
  <2>2. \A io, d : ~NewContext(io, d).readOnly /\ ~NewContext(io, d).wasChanged
    BY DEF NewContext
  <2>3. events' = events
    BY <1>1 DEF Create, PreCreate, CreateUnseen, PostCreate, SetStreamHandleContext
  <2>4. Kinds
    BY <1>1, <1>g, <1>f, <1>h, <1>u DEF Create, PreCreate, CreateUnseen, PostCreate, SetStreamHandleContext
  <2> QED  BY <2>1, <2>2, <2>3, <2>4 DEF Quiet, Kinds
<1>2. ASSUME NEW t \in Threads, Request(t)  PROVE Quiet
  <2>1. \A g \in Files : ctx'[g] = ctx[g] \/ (ctx'[g] = Marked(ctx[g], op[t].kind))
    BY <1>2, <1>t DEF Request, PreOperation, PreUnwatched, PreSkipped, PostUnseen, PostOperation, Mark
  <2>2. \A g \in Files : Marked(ctx[g], op[t].kind).readOnly = ctx[g].readOnly
                         /\ (Marked(ctx[g], op[t].kind).wasChanged <=> ctx[g].wasChanged)
    BY <1>c, <1>s, Zenon DEF Marked
  <2>3. events' = events
    BY <1>2 DEF Request, PreOperation, PreUnwatched, PreSkipped, PostUnseen, PostOperation, Mark
  <2>4. Kinds
    BY <1>2, <1>g, <1>f, <1>h, <1>u, <1>s DEF Request, PreOperation, PreUnwatched, PreSkipped,
         PostUnseen, PostOperation, Mark, Watches
  <2> QED  BY <2>1, <2>2, <2>3, <2>4, <1>s DEF Quiet, Kinds
<1>3. ASSUME NEW t \in Threads, Cleanup(t)  PROVE Quiet
  <2>1. ctx' = ctx
    BY <1>3 DEF Cleanup, PreCleanup, PreCleanupSkipped, CleanupUnseen, PostCleanup, ReportEnding
  <2>2. Kinds
    BY <1>3, <1>g, <1>f, <1>h, <1>u DEF Cleanup, PreCleanup, PreCleanupSkipped, CleanupUnseen,
         PostCleanup, ReportEnding
  <2>3. events' = events \/ ReportEnding(t)
    BY <1>3 DEF Cleanup, PreCleanup, PreCleanupSkipped, CleanupUnseen, PostCleanup
  <2>4. ASSUME NEW g \in Files, ReportEnding(t)
        PROVE  events'[g] = events[g] \/ \E x \in Reports \ {"WRITE"} : events'[g] = Append(events[g], x)
    <3>1. events'[g] = events[g] \/ (g = op[t].file /\ events'[g] = events[g] \o Ending(ctx[g], op[t].deleted))
      BY <2>4, <1>t DEF ReportEnding
    <3>2. events[g] \in Seq(Reports)
      BY DEF TypeOK
    <3>3. /\ events[g] \o (<< >> \o << >>) = events[g]
          /\ \A y : events[g] \o (<< >> \o <<y>>) = Append(events[g], y)
      BY <3>2, Endings
    <3>4. Ending(ctx[g], op[t].deleted) \in {<< >> \o << >>, << >> \o <<"DELETE">>, << >> \o <<"CLOSE">>}
      BY <1>s, Zenon DEF Ending
    <3>5. {"DELETE", "CLOSE"} \subseteq Reports \ {"WRITE"}
      BY DEF Reports
    <3> QED  BY <3>1, <3>3, <3>4, <3>5
  <2> QED  BY <2>1, <2>2, <2>3, <2>4 DEF Quiet, Kinds
<1>4. ASSUME NEW t \in Threads,
             GetInstanceContext(t) \/ NoInstanceContext(t) \/ Report(t) \/ Leave(t)
      PROVE  Quiet
  <2>1. ctx' = ctx
    BY <1>4 DEF GetInstanceContext, NoInstanceContext, Report, Leave
  <2>2. Kinds
    BY <1>4, <1>g, <1>f, <1>i DEF NoInstanceContext, Report, Leave
  <2>3. events' = events \/ Report(t)
    BY <1>4 DEF GetInstanceContext, NoInstanceContext, Leave
  <2>4. ASSUME Report(t), NEW g \in Files
        PROVE  events'[g] = events[g] \/ \E x \in Reports \ {"WRITE"} : events'[g] = Append(events[g], x)
    <3>1. op[t].kind \in {"create", "rename", "cleanup"}
      BY <2>4 DEF Report, Shape, ShapeOf
    <3>2. {"CREATE", "RENAME", "READ"} \subseteq Reports \ {"WRITE"}
      BY DEF Reports
    <3>3. events' = events \/ \E x \in {"CREATE", "RENAME", "READ"} : Enqueue(op[t].file, x)
      BY <2>4, <3>1, Zenon DEF Report
    <3>4. events' = events \/ \E x \in {"CREATE", "RENAME", "READ"} :
             events'[g] = events[g] \/ events'[g] = Append(events[g], x)
      BY <3>3, <1>t DEF Enqueue
    <3> QED  BY <3>2, <3>4
  <2> QED  BY <2>1, <2>2, <2>3, <2>4 DEF Quiet, Kinds
<1>5. ASSUME NEW f \in Files, Close(f) \/ DetachInstance(f)  PROVE Quiet
  BY <1>5 DEF Close, DetachInstance, Unlink, Quiet
<1>6. CASE UNCHANGED vars
  BY <1>6 DEF vars, Quiet
<1> QED  BY <1>1, <1>2, <1>3, <1>4, <1>5, <1>6 DEF Next

(* The events of a file object whose callbacks all got their contexts, and *)
(* whose cleanup overtook nothing, are those its context calls for: reads  *)
(* and renames exactly when they succeeded, a deletion also when it was    *)
(* taken back, writes never.                                               *)
THEOREM CallbacksReportTruth == Spec => []ReportsFaithful
<1>1. Inv /\ Silent => ReportsFaithful
  <2> SUFFICES ASSUME Inv, Silent, NEW f \in Files, Settled(f)
               PROVE  LET deleted == ctx[f].deleteOnClose
                                       \/ did[f] \cap {"delete", "undelete"} # {}
                          created == ctx[f].fileIoStatus = "created" IN
                      /\ Seen(f, "CREATE") <=> created
                      /\ Seen(f, "READ") <=> "read" \in did[f]
                      /\ Seen(f, "RENAME") <=> "rename" \in did[f]
                      /\ Seen(f, "DELETE") <=> deleted /\ ~created
                      /\ Seen(f, "CLOSE") <=> ~deleted /\ "rename" \notin did[f]
                      /\ ~Seen(f, "WRITE")
    BY DEF ReportsFaithful
  <2>1. Marks(f) /\ Ends(f) /\ file[f] \in {"cleaned", "closed"}
    BY DEF Inv, FileInv, Faith, Settled
  <2>2. \A k, p : ~Running(f, k, p)
    BY DEF Settled, Busy, Running
  <2>3. did[f] \cap {"delete", "undelete"} # {} <=> "delete" \in did[f] \/ "undelete" \in did[f]
    OBVIOUS
  <2> QED  BY <2>1, <2>2, <2>3 DEF Marks, Ends, Deleted, Cleaning, Silent
<1>2. Init => Silent
  BY DEF Init, Silent, Seen, NewContext, Idle
<1>3. Inv => TypeOK /\ Shape
  BY DEF Inv
<1> QED  BY <1>1, <1>2, <1>3, StaysSilent, Invariance, PTL DEF Spec
=============================================================================
