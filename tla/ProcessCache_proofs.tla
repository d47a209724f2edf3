------------------------ MODULE ProcessCache_proofs -------------------------
(***************************************************************************)
(* The cache of process entries is exact for any set of processes and any  *)
(* amount of memory.  The inductive invariant adds to the properties what  *)
(* the notifications rely on between two critical sections: what their     *)
(* pointers are, that a new entry is still the one that was filled, that a *)
(* pid whose entry is being freed has no other, and that nothing runs once *)
(* the cache is cleaned up.                                                *)
(***************************************************************************)
EXTENDS ProcessCache, FiniteSetTheorems, TLAPS

(* A notification that uses, inserts or frees an entry points to a block.  *)
Pointers ==
  \A p \in Pids : pc[p] \in Using \cup {"insert", "free"} => ptr[p] \in Blocks

(* No notification runs after the cache is cleaned up. *)
Quiet == loaded \/ \A p \in Pids : pc[p] \in {"absent", "running"}

(* An entry to be inserted is that of its process. *)
FreshEntry ==
  \A p \in Pids : pc[p] = "insert" =>
    entry[ptr[p]].pid = p /\ entry[ptr[p]].run = run[p]

(* RemoveProcess has unlinked the only entry of the pid. *)
Unlinked == \A p \in Pids : pc[p] = "free" => \A b \in table : entry[b].pid # p

(* As long as no entry was freed in use, a notification uses an allocated  *)
(* block, and nobody has a reference to an entry before it is inserted.    *)
UsersSafe ==
  ~dangled =>
    /\ \A p \in Pids : pc[p] \in Using => ptr[p] \in allocated
    /\ \A p \in Pids : pc[p] = "insert" => entry[ptr[p]].ref = 1
    /\ \A p, q \in Pids : pc[p] = "insert" /\ pc[q] \in Using => ptr[q] # ptr[p]

Shape == TypeOK /\ Pointers /\ Quiet
Entries == OneEntryPerPid /\ FreshEntry /\ Unlinked

Inv ==
  /\ Shape /\ NothingLeaks /\ Entries /\ ActiveExact
  /\ UsersSafe /\ RefsReturned /\ CacheTellsTruth

-----------------------------------------------------------------------------
(* Steps of a notification that touch neither the entries nor a pointer. *)
Silent(p) ==
  \/ ProcessStarts(p) \/ CreateNoBuffer(p) \/ AddProcessFails(p) \/ CheckParent(p)
  \/ ParentGone(p) \/ ProcessEnds(p) \/ ExitNoBuffer(p) \/ ExitUnknown(p)

(* Steps that take or give back a reference. *)
Taking(p) == ParentFound(p) \/ ExitFound(p)
Releasing(p) == ParentRelease(p) \/ ExitRelease(p)

(* Steps that free the block in hand. *)
Freeing(p) == AddProcessCollides(p) \/ RemoveProcessFree(p)

(* What a silent step does. *)
LEMMA SilentStep ==
  ASSUME Shape, NEW p \in Pids, Silent(p)
  PROVE  /\ UNCHANGED <<loaded, ptr, allocated, entry, table, active, dangled>>
         /\ pc' = [pc EXCEPT ![p] = pc'[p]]
         /\ pc[p] \notin Using \cup {"insert", "free"}
         /\ pc'[p] \in {"absent", "running", "create", "checkParent", "getParent", "exit"}
         /\ ~loaded => FALSE
BY DEF Shape, TypeOK, Quiet, Silent, ProcessStarts, CreateNoBuffer, AddProcessFails,
       CheckParent, ParentGone, ProcessEnds, ExitNoBuffer, ExitUnknown, Goto, Using

(* What a step that takes a reference does. *)
LEMMA TakingStep ==
  ASSUME Shape, NEW p \in Pids, Taking(p)
  PROVE  /\ UNCHANGED <<loaded, run, parent, allocated, table, active, missed, dangled>>
         /\ \E b \in table : /\ entry' = [entry EXCEPT ![b].ref = @ + 1]
                             /\ ptr' = [ptr EXCEPT ![p] = b]
                             /\ pc'[p] = "use" => entry[b].pid = p
         /\ pc' = [pc EXCEPT ![p] = pc'[p]]
         /\ pc[p] \in {"getParent", "exit"} /\ pc'[p] \in Using
         /\ loaded
BY DEF Shape, TypeOK, Quiet, Taking, ParentFound, ExitFound, GetProcessContext, Find,
       Goto, Using

(* What a step that gives back a reference does. *)
LEMMA ReleasingStep ==
  ASSUME Shape, NEW p \in Pids, Releasing(p)
  PROVE  /\ UNCHANGED <<loaded, run, parent, allocated, table, active, missed, dangled>>
         /\ entry' = [entry EXCEPT ![ptr[p]].ref = @ - 1]
         /\ ptr' = [ptr EXCEPT ![p] = NoBlock]
         /\ pc' = [pc EXCEPT ![p] = pc'[p]]
         /\ pc[p] \in Using /\ ptr[p] \in Blocks
         /\ pc'[p] = IF pc[p] = "use" THEN "remove" ELSE "running"
         /\ loaded
BY DEF Shape, TypeOK, Quiet, Pointers, Releasing, ParentRelease, ExitRelease,
       ReleaseProcessContext, Goto, Using

(* What a step that frees the block in hand does. *)
LEMMA FreeingStep ==
  ASSUME Shape, NEW p \in Pids, Freeing(p)
  PROVE  /\ UNCHANGED <<loaded, run, parent, entry, table, active, missed>>
         /\ allocated' = allocated \ {ptr[p]}
         /\ dangled' = (dangled \/ UsedByOther(p, ptr[p]))
         /\ ptr' = [ptr EXCEPT ![p] = NoBlock]
         /\ pc' = [pc EXCEPT ![p] = pc'[p]]
         /\ pc[p] \in {"insert", "free"} /\ ptr[p] \in Blocks
         /\ pc'[p] = IF pc[p] = "free" THEN "absent" ELSE "checkParent"
         /\ loaded
BY DEF Shape, TypeOK, Quiet, Pointers, Freeing, AddProcessCollides, RemoveProcessFree,
       FreeProcessContext, Goto, Using

(* Every step is one of these, or changes the table or takes a new block.  *)
LEMMA StepKinds ==
  [Next]_vars =>
    \/ \E p \in Pids :
         \/ Silent(p) \/ Taking(p) \/ Releasing(p) \/ Freeing(p)
         \/ AddProcessAlloc(p) \/ AddProcessInsert(p) \/ RemoveProcessUnlink(p)
    \/ Cleanup \/ UNCHANGED vars
BY DEF Next, NotifyCreate, NotifyExit, Silent, Taking, Releasing, Freeing

-----------------------------------------------------------------------------
(* Types, pointers, and nothing running after Cleanup. *)
LEMMA ShapeStep == Inv /\ [Next]_vars => Shape'
<1> SUFFICES ASSUME Inv, [Next]_vars PROVE Shape'
  OBVIOUS
<1>0. Shape /\ NothingLeaks /\ ActiveExact
  BY DEF Inv
<1> USE CacheAssumption
<1>1. ASSUME NEW p \in Pids, Silent(p) PROVE Shape'
  <2>1. TypeOK'
    BY <1>0, <1>1 DEF Shape, TypeOK, Silent, ProcessStarts, CreateNoBuffer,
       AddProcessFails, CheckParent, ParentGone, ProcessEnds, ExitNoBuffer,
       ExitUnknown, Goto, CreatePcs, ExitPcs
  <2> QED
    BY <1>0, <1>1, <2>1, SilentStep DEF Shape, TypeOK, Pointers, Quiet, Using
<1>2. ASSUME NEW p \in Pids, Taking(p) PROVE Shape'
  <2>1. PICK b \in table : /\ entry' = [entry EXCEPT ![b].ref = @ + 1]
                           /\ ptr' = [ptr EXCEPT ![p] = b]
    BY <1>0, <1>2, TakingStep
  <2>2. entry' \in [Blocks -> [pid : Pids, run : 0 .. MaxStarts, ref : Int]]
    BY <1>0, <2>1 DEF Shape, TypeOK
  <2>3. ptr' \in [Pids -> Blocks \cup {NoBlock}] /\ ptr'[p] \in Blocks
    BY <1>0, <2>1 DEF Shape, TypeOK
  <2>4. /\ UNCHANGED <<loaded, run, parent, allocated, table, active, missed, dangled>>
        /\ pc' = [pc EXCEPT ![p] = pc'[p]] /\ pc'[p] \in Using
    BY <1>0, <1>2, TakingStep
  <2>5. TypeOK'
    BY <1>0, <2>2, <2>3, <2>4 DEF Shape, TypeOK, Using, CreatePcs, ExitPcs
  <2>6. Pointers'
    BY <1>0, <1>2, <2>1, <2>3, TakingStep DEF Shape, TypeOK, Pointers
  <2> QED
    BY <1>0, <1>2, <2>5, <2>6, TakingStep DEF Shape, Quiet
<1>3. ASSUME NEW p \in Pids, Releasing(p) PROVE Shape'
  <2>0. ptr[p] \in Blocks /\ entry' = [entry EXCEPT ![ptr[p]].ref = @ - 1]
    BY <1>0, <1>3, ReleasingStep
  <2>1. entry' \in [Blocks -> [pid : Pids, run : 0 .. MaxStarts, ref : Int]]
    BY <1>0, <2>0 DEF Shape, TypeOK
  <2>2. TypeOK'
    BY <1>0, <1>3, <2>1, ReleasingStep DEF Shape, TypeOK, CreatePcs, ExitPcs
  <2>3. Pointers'
    BY <1>0, <1>3, ReleasingStep DEF Shape, TypeOK, Pointers, Using
  <2> QED
    BY <1>0, <1>3, <2>2, <2>3, ReleasingStep DEF Shape, Quiet
<1>4. ASSUME NEW p \in Pids, Freeing(p) PROVE Shape'
  <2>1. dangled' \in BOOLEAN
    BY <1>0, <1>4, FreeingStep, Zenon DEF Shape, TypeOK, UsedByOther
  <2> QED
    BY <1>0, <1>4, <2>1, FreeingStep
    DEF Shape, TypeOK, Pointers, Quiet, Using, CreatePcs, ExitPcs
<1>5. ASSUME NEW p \in Pids, AddProcessAlloc(p) PROVE Shape'
  BY <1>0, <1>5
  DEF Shape, TypeOK, Pointers, Quiet, Using, CreatePcs, ExitPcs, AddProcessAlloc, Goto
<1>6. ASSUME NEW p \in Pids, AddProcessInsert(p) PROVE Shape'
  BY <1>0, <1>6
  DEF Shape, TypeOK, Pointers, Quiet, Using, CreatePcs, ExitPcs, AddProcessInsert, Goto
<1>7. ASSUME NEW p \in Pids, RemoveProcessUnlink(p) PROVE Shape'
  <2>1. PICK b \in table : table' = table \ {b} /\ ptr' = [ptr EXCEPT ![p] = b]
    BY <1>7 DEF RemoveProcessUnlink, Find
  <2>2. loaded
    BY <1>0, <1>7 DEF Shape, Quiet, RemoveProcessUnlink
  <2>3. active = Cardinality(table) /\ IsFiniteSet(table)
    BY <1>0, <2>2, FS_Subset DEF ActiveExact, Shape, TypeOK
  <2>4. Cardinality(table \ {b}) \in Nat /\ Cardinality(table \ {b}) = active - 1
    <3>1. IsFiniteSet(table \ {b})
      BY <2>3, FS_Subset
    <3> QED
      BY <2>1, <2>3, <3>1, FS_RemoveElement, FS_CardinalityType
  <2> QED
    BY <1>0, <1>7, <2>1, <2>2, <2>4
    DEF Shape, TypeOK, Pointers, Quiet, Using, CreatePcs, ExitPcs, RemoveProcessUnlink, Goto
<1>8. CASE Cleanup
  <2>1. loaded' \in BOOLEAN
    BY <1>8, Zenon DEF Cleanup
  <2> QED
    BY <1>0, <1>8, <2>1 DEF Shape, TypeOK, Pointers, Quiet, Using, Cleanup
<1>9. CASE UNCHANGED vars
  BY <1>0, <1>9 DEF Shape, TypeOK, Pointers, Quiet, vars
<1> QED
  BY StepKinds, <1>1, <1>2, <1>3, <1>4, <1>5, <1>6, <1>7, <1>8, <1>9

(* Every block is linked, or in the hand of one notification, or free. *)
LEMMA LeakStep == Inv /\ [Next]_vars => NothingLeaks'
<1> SUFFICES ASSUME Inv, [Next]_vars PROVE NothingLeaks'
  OBVIOUS
<1>0. Shape /\ NothingLeaks
  BY DEF Inv
<1> USE CacheAssumption
<1>1. ASSUME NEW p \in Pids, Silent(p) PROVE NothingLeaks'
  <2>1. InHand' = InHand
    BY <1>0, <1>1, SilentStep DEF InHand, Shape, TypeOK
  <2> QED
    BY <1>0, <1>1, <2>1, SilentStep DEF NothingLeaks
<1>2. ASSUME NEW p \in Pids, Taking(p) \/ Releasing(p) PROVE NothingLeaks'
  <2>1. InHand' = InHand /\ p \notin InHand
    BY <1>0, <1>2, TakingStep, ReleasingStep DEF InHand, Shape, TypeOK, Using
  <2>2. \A q \in InHand : ptr'[q] = ptr[q]
    BY <1>0, <1>2, <2>1, TakingStep, ReleasingStep DEF Shape, TypeOK, InHand
  <2>3. UNCHANGED <<allocated, table>>
    BY <1>0, <1>2, TakingStep, ReleasingStep
  <2> QED
    BY <1>0, <2>1, <2>2, <2>3 DEF NothingLeaks
<1>3. ASSUME NEW p \in Pids, Freeing(p) PROVE NothingLeaks'
  <2>1. p \in InHand /\ InHand' = InHand \ {p}
    BY <1>0, <1>3, FreeingStep DEF InHand, Shape, TypeOK
  <2>2. \A q \in InHand' : ptr'[q] = ptr[q]
    BY <1>0, <1>3, <2>1, FreeingStep DEF Shape, TypeOK, InHand
  <2> QED
    BY <1>0, <1>3, <2>1, <2>2, FreeingStep DEF NothingLeaks
<1>4. ASSUME NEW p \in Pids, AddProcessAlloc(p) PROVE NothingLeaks'
  <2>1. p \notin InHand /\ InHand' = InHand \cup {p}
    BY <1>0, <1>4 DEF InHand, Shape, TypeOK, AddProcessAlloc, Goto
  <2>2. PICK b \in Blocks \ allocated :
          allocated' = allocated \cup {b} /\ ptr' = [ptr EXCEPT ![p] = b]
    BY <1>4 DEF AddProcessAlloc
  <2>3. ptr'[p] = b /\ \A q \in InHand : ptr'[q] = ptr[q]
    BY <1>0, <2>1, <2>2 DEF Shape, TypeOK
  <2>4. table' = table
    BY <1>4 DEF AddProcessAlloc
  <2> QED
    BY <1>0, <2>1, <2>2, <2>3, <2>4 DEF NothingLeaks
<1>5. ASSUME NEW p \in Pids, AddProcessInsert(p) PROVE NothingLeaks'
  <2>1. p \in InHand /\ InHand' = InHand \ {p}
    BY <1>0, <1>5 DEF InHand, Shape, TypeOK, AddProcessInsert, Goto
  <2>2. \A q \in InHand' : ptr'[q] = ptr[q]
    BY <1>0, <1>5, <2>1 DEF Shape, TypeOK, AddProcessInsert
  <2>3. table' = table \cup {ptr[p]} /\ allocated' = allocated
    BY <1>5 DEF AddProcessInsert
  <2> QED
    BY <1>0, <2>1, <2>2, <2>3 DEF NothingLeaks
<1>6. ASSUME NEW p \in Pids, RemoveProcessUnlink(p) PROVE NothingLeaks'
  <2>1. p \notin InHand /\ InHand' = InHand \cup {p}
    BY <1>0, <1>6 DEF InHand, Shape, TypeOK, RemoveProcessUnlink, Goto
  <2>2. PICK b \in table : table' = table \ {b} /\ ptr' = [ptr EXCEPT ![p] = b]
    BY <1>6 DEF RemoveProcessUnlink, Find
  <2>3. ptr'[p] = b /\ \A q \in InHand : ptr'[q] = ptr[q]
    BY <1>0, <2>1, <2>2 DEF Shape, TypeOK
  <2>4. allocated' = allocated
    BY <1>6 DEF RemoveProcessUnlink
  <2> QED
    BY <1>0, <2>1, <2>2, <2>3, <2>4 DEF NothingLeaks
<1>7. CASE Cleanup
  <2>1. InHand = {} /\ InHand' = {}
    BY <1>7 DEF Cleanup, InHand
  <2> QED
    BY <1>0, <1>7, <2>1 DEF NothingLeaks, Cleanup
<1>8. CASE UNCHANGED vars
  BY <1>0, <1>8 DEF NothingLeaks, InHand, vars
<1> QED
  BY StepKinds, <1>1, <1>2, <1>3, <1>4, <1>5, <1>6, <1>7, <1>8

(* A step changes the pid and the run only of a block that was free. *)
LEMMA EntryKept ==
  ASSUME Inv, NEW p \in Pids, Taking(p) \/ Releasing(p)
  PROVE  \A b \in Blocks : entry'[b].pid = entry[b].pid /\ entry'[b].run = entry[b].run
<1>0. Shape
  BY DEF Inv
<1>1. CASE Taking(p)
  <2>1. PICK b \in table : entry' = [entry EXCEPT ![b].ref = @ + 1]
    BY <1>0, <1>1, TakingStep
  <2> QED
    BY <1>0, <2>1 DEF Shape, TypeOK
<1>2. CASE Releasing(p)
  <2>1. ptr[p] \in Blocks /\ entry' = [entry EXCEPT ![ptr[p]].ref = @ - 1]
    BY <1>0, <1>2, ReleasingStep
  <2> QED
    BY <1>0, <2>1 DEF Shape, TypeOK
<1> QED
  BY <1>1, <1>2

(* A pid has one entry, which stays while its exit notification needs it. *)
LEMMA EntriesStep == Inv /\ [Next]_vars => Entries'
<1> SUFFICES ASSUME Inv, [Next]_vars PROVE Entries'
  OBVIOUS
<1>0. Shape /\ NothingLeaks /\ Entries
  BY DEF Inv
<1> USE CacheAssumption
<1> USE DEF Entries, OneEntryPerPid, FreshEntry, Unlinked, Find
<1>1. ASSUME NEW p \in Pids, Silent(p) PROVE Entries'
  <2>1. \A q \in Pids : pc'[q] = "insert" => run'[q] = run[q]
    BY <1>0, <1>1 DEF Shape, TypeOK, Silent, ProcessStarts, CreateNoBuffer,
       AddProcessFails, CheckParent, ParentGone, ProcessEnds, ExitNoBuffer,
       ExitUnknown, Goto
  <2> QED
    BY <1>0, <1>1, <2>1, SilentStep DEF Shape, TypeOK
<1>2. ASSUME NEW p \in Pids, Taking(p) PROVE Entries'
  <2>1. PICK b \in table : ptr' = [ptr EXCEPT ![p] = b] /\ (pc'[p] = "use" => entry[b].pid = p)
    BY <1>0, <1>2, TakingStep
  <2>2. /\ table' = table /\ run' = run
        /\ pc' = [pc EXCEPT ![p] = pc'[p]] /\ pc'[p] \in Using
    BY <1>0, <1>2, TakingStep
  <2>3. table \subseteq Blocks
    BY <1>0 DEF Shape, TypeOK
  <2>4. \A q \in Pids : pc'[q] = "insert" => ptr'[q] = ptr[q] /\ ptr[q] \in Blocks /\ pc[q] = "insert"
    BY <1>0, <2>1, <2>2 DEF Shape, TypeOK, Using, Pointers
  <2>5. \A q \in Pids : pc'[q] = "free" => pc[q] = "free"
    BY <1>0, <2>2 DEF Shape, TypeOK, Using
  <2>6. \A q \in Pids : pc'[q] \in {"use", "remove"} => \E c \in table : entry[c].pid = q
    BY <1>0, <2>1, <2>2 DEF Shape, TypeOK, Using
  <2> QED
    BY <1>0, <1>2, <2>2, <2>3, <2>4, <2>5, <2>6, EntryKept
<1>3. ASSUME NEW p \in Pids, Releasing(p) PROVE Entries'
  <2>1. /\ table' = table /\ run' = run /\ ptr' = [ptr EXCEPT ![p] = NoBlock]
        /\ pc' = [pc EXCEPT ![p] = pc'[p]]
        /\ pc'[p] = IF pc[p] = "use" THEN "remove" ELSE "running"
    BY <1>0, <1>3, ReleasingStep
  <2>2. table \subseteq Blocks
    BY <1>0 DEF Shape, TypeOK
  <2>3. \A q \in Pids : pc'[q] = "insert" => ptr'[q] = ptr[q] /\ ptr[q] \in Blocks /\ pc[q] = "insert"
    BY <1>0, <2>1 DEF Shape, TypeOK, Using, Pointers
  <2>4. \A q \in Pids : pc'[q] = "free" => pc[q] = "free"
    BY <1>0, <2>1 DEF Shape, TypeOK
  <2>5. \A q \in Pids : pc'[q] \in {"use", "remove"} => pc[q] \in {"use", "remove"}
    BY <1>0, <2>1 DEF Shape, TypeOK
  <2> QED
    BY <1>0, <1>3, <2>1, <2>2, <2>3, <2>4, <2>5, EntryKept
<1>4. ASSUME NEW p \in Pids, Freeing(p) PROVE Entries'
  BY <1>0, <1>4, FreeingStep DEF Shape, TypeOK
<1>5. ASSUME NEW p \in Pids, AddProcessAlloc(p) PROVE Entries'
  <2>1. PICK b \in Blocks \ allocated :
          /\ entry' = [entry EXCEPT ![b] = [pid |-> p, run |-> run[p], ref |-> 1]]
          /\ ptr' = [ptr EXCEPT ![p] = b]
    BY <1>5 DEF AddProcessAlloc
  <2>2. table' = table /\ run' = run /\ pc' = [pc EXCEPT ![p] = "insert"]
    BY <1>5 DEF AddProcessAlloc, Goto
  <2>3. \A c \in table : c # b /\ entry'[c] = entry[c]
    BY <1>0, <2>1 DEF Shape, TypeOK, NothingLeaks
  <2>4. \A q \in Pids : q # p /\ pc[q] = "insert" => ptr'[q] = ptr[q] /\ entry'[ptr[q]] = entry[ptr[q]]
    BY <1>0, <2>1 DEF Shape, TypeOK, NothingLeaks, InHand, Pointers
  <2>5. ptr'[p] = b /\ entry'[b].pid = p /\ entry'[b].run = run[p]
    BY <1>0, <2>1 DEF Shape, TypeOK
  <2> QED
    BY <1>0, <2>2, <2>3, <2>4, <2>5 DEF Shape, TypeOK
<1>6. ASSUME NEW p \in Pids, AddProcessInsert(p) PROVE Entries'
  BY <1>0, <1>6 DEF Shape, TypeOK, AddProcessInsert, Goto
<1>7. ASSUME NEW p \in Pids, RemoveProcessUnlink(p) PROVE Entries'
  <2>1. PICK b \in table :
          /\ entry[b].pid = p /\ table' = table \ {b}
          /\ ptr' = [ptr EXCEPT ![p] = b]
    BY <1>7 DEF RemoveProcessUnlink
  <2>2. entry' = entry /\ run' = run /\ pc' = [pc EXCEPT ![p] = "free"]
    BY <1>7 DEF RemoveProcessUnlink, Goto
  <2> QED
    BY <1>0, <2>1, <2>2 DEF Shape, TypeOK
<1>8. CASE Cleanup
  BY <1>0, <1>8 DEF Cleanup
<1>9. CASE UNCHANGED vars
  BY <1>0, <1>9 DEF vars
<1> QED
  BY StepKinds, <1>1, <1>2, <1>3, <1>4, <1>5, <1>6, <1>7, <1>8, <1>9

(* activeProcesses_ follows the table. *)
LEMMA ActiveStep == Inv /\ [Next]_vars => ActiveExact'
<1> SUFFICES ASSUME Inv, [Next]_vars PROVE ActiveExact'
  OBVIOUS
<1>0. Shape /\ NothingLeaks /\ ActiveExact
  BY DEF Inv
<1>1. IsFiniteSet(table) /\ Cardinality(table) \in Nat
  BY <1>0, CacheAssumption, FS_Subset, FS_CardinalityType DEF Shape, TypeOK
<1>2. ASSUME NEW p \in Pids, Silent(p) \/ Taking(p) \/ Releasing(p) \/ Freeing(p)
      PROVE  ActiveExact'
  <2>1. UNCHANGED <<loaded, table, active>>
    BY <1>0, <1>2, SilentStep, TakingStep, ReleasingStep, FreeingStep
  <2> QED
    BY <1>0, <2>1 DEF ActiveExact
<1>3. ASSUME NEW p \in Pids, AddProcessAlloc(p) PROVE ActiveExact'
  BY <1>0, <1>3 DEF ActiveExact, AddProcessAlloc
<1>4. ASSUME NEW p \in Pids, AddProcessInsert(p) PROVE ActiveExact'
  <2>1. ptr[p] \notin table
    BY <1>0, <1>4 DEF NothingLeaks, InHand, AddProcessInsert
  <2>2. Cardinality(table \cup {ptr[p]}) = Cardinality(table) + 1
    BY <1>1, <2>1, FS_AddElement
  <2> QED
    BY <1>0, <1>4, <2>2 DEF ActiveExact, AddProcessInsert
<1>5. ASSUME NEW p \in Pids, RemoveProcessUnlink(p) PROVE ActiveExact'
  <2>1. PICK b \in table : table' = table \ {b}
    BY <1>5 DEF RemoveProcessUnlink, Find
  <2>2. Cardinality(table \ {b}) = Cardinality(table) - 1
    BY <1>1, <2>1, FS_RemoveElement
  <2> QED
    BY <1>0, <1>5, <2>1, <2>2 DEF ActiveExact, RemoveProcessUnlink
<1>6. CASE Cleanup
  BY <1>6 DEF ActiveExact, Cleanup
<1>7. CASE UNCHANGED vars
  BY <1>0, <1>7 DEF ActiveExact, vars
<1> QED
  BY StepKinds, <1>2, <1>3, <1>4, <1>5, <1>6, <1>7

(* The users of a block are counted. *)
LEMMA UsersCount ==
  ASSUME NEW b
  PROVE  /\ IsFiniteSet(Users(b)) /\ Cardinality(Users(b)) \in Nat
         /\ \A p : p \notin Users(b) => Cardinality(Users(b) \cup {p}) = Cardinality(Users(b)) + 1
         /\ \A p \in Users(b) : Cardinality(Users(b) \ {p}) = Cardinality(Users(b)) - 1
<1>1. IsFiniteSet(Users(b))
  BY CacheAssumption, FS_Subset DEF Users
<1> QED
  BY <1>1, FS_CardinalityType, FS_AddElement, FS_RemoveElement

(* A step at whose ends p uses no entry moves no user, if the pointers of  *)
(* the others stay.                                                        *)
LEMMA UsersKept ==
  ASSUME Shape, NEW p \in Pids, pc' = [pc EXCEPT ![p] = pc'[p]],
         pc[p] \notin Using, pc'[p] \notin Using,
         \A q \in Pids : q # p => ptr'[q] = ptr[q]
  PROVE  \A b : Users(b)' = Users(b)
BY DEF Users, Shape, TypeOK

(* References are returned, and none is taken to an entry not yet linked.  *)
LEMMA RefsStep == Inv /\ [Next]_vars => UsersSafe' /\ RefsReturned'
<1> SUFFICES ASSUME Inv, [Next]_vars, ~dangled' PROVE UsersSafe' /\ RefsReturned'
  BY DEF UsersSafe, RefsReturned
<1>0. Shape /\ NothingLeaks /\ UsersSafe /\ RefsReturned
  BY DEF Inv
<1> USE CacheAssumption
<1>1. ASSUME NEW p \in Pids, Silent(p) PROVE UsersSafe' /\ RefsReturned'
  <2>1. /\ UNCHANGED <<ptr, allocated, entry, table, dangled>>
        /\ pc' = [pc EXCEPT ![p] = pc'[p]]
        /\ pc[p] \notin Using /\ pc'[p] \notin Using \cup {"insert"}
    BY <1>0, <1>1, SilentStep DEF Using
  <2>2. \A b : Users(b)' = Users(b)
    BY <1>0, <2>1, UsersKept
  <2> QED
    BY <1>0, <2>1, <2>2 DEF UsersSafe, RefsReturned, Shape, TypeOK
<1>2. ASSUME NEW p \in Pids, Taking(p) PROVE UsersSafe' /\ RefsReturned'
  <2>1. PICK b \in table : /\ entry' = [entry EXCEPT ![b].ref = @ + 1]
                           /\ ptr' = [ptr EXCEPT ![p] = b]
    BY <1>0, <1>2, TakingStep
  <2>2. /\ UNCHANGED <<allocated, table, dangled>>
        /\ pc' = [pc EXCEPT ![p] = pc'[p]] /\ pc'[p] \in Using
        /\ pc[p] \notin Using
    BY <1>0, <1>2, TakingStep DEF Using
  <2>3. /\ p \notin Users(b) /\ Users(b)' = Users(b) \cup {p}
        /\ \A c : c # b => Users(c)' = Users(c)
    BY <1>0, <2>1, <2>2 DEF Users, Shape, TypeOK
  <2>4. /\ entry'[b].ref = entry[b].ref + 1
        /\ \A c \in Blocks : c # b => entry'[c].ref = entry[c].ref
    BY <1>0, <2>1 DEF Shape, TypeOK
  <2>5. \A q \in Pids : pc'[q] = "insert" =>
          /\ pc[q] = "insert" /\ ptr'[q] = ptr[q] /\ ptr[q] # b /\ ptr[q] \in Blocks
    BY <1>0, <2>1, <2>2 DEF Shape, TypeOK, Pointers, NothingLeaks, InHand, Using
  <2>6. UsersSafe'
    <3>1. \A q \in Pids : pc'[q] \in Using => ptr'[q] \in allocated
      BY <1>0, <2>1, <2>2 DEF UsersSafe, NothingLeaks, Shape, TypeOK
    <3>2. \A q, r \in Pids : pc'[q] = "insert" /\ pc'[r] \in Using => ptr'[r] # ptr'[q]
      BY <1>0, <2>1, <2>2, <2>5 DEF UsersSafe, Shape, TypeOK
    <3> QED
      BY <1>0, <2>2, <2>4, <2>5, <3>1, <3>2 DEF UsersSafe
  <2>7. ASSUME NEW c \in table PROVE entry'[c].ref = 1 + Cardinality(Users(c)')
    <3>1. CASE c = b
      BY <1>0, <2>2, <2>3, <2>4, <3>1, UsersCount DEF RefsReturned
    <3>2. CASE c # b
      BY <1>0, <2>2, <2>3, <2>4, <3>2 DEF RefsReturned, Shape, TypeOK
    <3> QED
      BY <3>1, <3>2
  <2> QED
    BY <2>2, <2>6, <2>7 DEF RefsReturned
<1>3. ASSUME NEW p \in Pids, Releasing(p) PROVE UsersSafe' /\ RefsReturned'
  <2>0. PICK b : b = ptr[p]
    OBVIOUS
  <2>1. /\ entry' = [entry EXCEPT ![b].ref = @ - 1]
        /\ ptr' = [ptr EXCEPT ![p] = NoBlock] /\ b \in Blocks
    BY <1>0, <1>3, <2>0, ReleasingStep
  <2>2. /\ UNCHANGED <<allocated, table, dangled>>
        /\ pc' = [pc EXCEPT ![p] = pc'[p]] /\ pc'[p] \notin Using \cup {"insert"}
        /\ pc[p] \in Using
    BY <1>0, <1>3, ReleasingStep DEF Using
  <2>3. /\ p \in Users(b) /\ Users(b)' = Users(b) \ {p}
        /\ \A c : c # b => Users(c)' = Users(c)
    BY <1>0, <2>0, <2>1, <2>2 DEF Users, Shape, TypeOK
  <2>4. /\ entry'[b].ref = entry[b].ref - 1 /\ entry[b].ref \in Int
        /\ \A c \in Blocks : c # b => entry'[c].ref = entry[c].ref
    BY <1>0, <2>1 DEF Shape, TypeOK
  <2>5. \A q \in Pids : pc'[q] = "insert" =>
          /\ pc[q] = "insert" /\ ptr'[q] = ptr[q] /\ ptr[q] \in Blocks
    BY <1>0, <2>1, <2>2 DEF Shape, TypeOK, Pointers
  <2>6. \A q \in Pids : pc[q] = "insert" => ptr[q] # b
    BY <1>0, <2>0, <2>2 DEF UsersSafe
  <2>7. UsersSafe'
    <3>1. \A q \in Pids : pc'[q] \in Using => ptr'[q] \in allocated
      BY <1>0, <2>1, <2>2 DEF UsersSafe, Shape, TypeOK
    <3>2. \A q, r \in Pids : pc'[q] = "insert" /\ pc'[r] \in Using => ptr'[r] # ptr'[q]
      BY <1>0, <2>1, <2>2, <2>5 DEF UsersSafe, Shape, TypeOK
    <3> QED
      BY <1>0, <2>2, <2>4, <2>5, <2>6, <3>1, <3>2 DEF UsersSafe
  <2>8. ASSUME NEW c \in table PROVE entry'[c].ref = 1 + Cardinality(Users(c)')
    <3>1. CASE c = b
      BY <1>0, <2>2, <2>3, <2>4, <3>1, UsersCount DEF RefsReturned
    <3>2. CASE c # b
      BY <1>0, <2>2, <2>3, <2>4, <3>2 DEF RefsReturned, Shape, TypeOK
    <3> QED
      BY <3>1, <3>2
  <2> QED
    BY <2>2, <2>7, <2>8 DEF RefsReturned
<1>4. ASSUME NEW p \in Pids, Freeing(p) PROVE UsersSafe' /\ RefsReturned'
  <2>1. /\ ~dangled /\ ~UsedByOther(p, ptr[p]) /\ allocated' = allocated \ {ptr[p]}
        /\ ptr' = [ptr EXCEPT ![p] = NoBlock] /\ pc' = [pc EXCEPT ![p] = pc'[p]]
        /\ pc[p] \notin Using /\ pc'[p] \notin Using \cup {"insert"}
        /\ UNCHANGED <<entry, table>>
    BY <1>0, <1>4, FreeingStep DEF Using
  <2>2. \A b : Users(b)' = Users(b)
    BY <1>0, <2>1, UsersKept DEF Shape, TypeOK
  <2>3. \A q \in Pids : pc'[q] \in Using => ptr'[q] \in allocated'
    BY <1>0, <2>1 DEF UsersSafe, UsedByOther, Shape, TypeOK
  <2> QED
    BY <1>0, <2>1, <2>2, <2>3 DEF UsersSafe, RefsReturned, Shape, TypeOK
<1>5. ASSUME NEW p \in Pids, AddProcessAlloc(p) PROVE UsersSafe' /\ RefsReturned'
  <2>1. PICK b \in Blocks \ allocated :
          /\ allocated' = allocated \cup {b}
          /\ entry' = [entry EXCEPT ![b] = [pid |-> p, run |-> run[p], ref |-> 1]]
          /\ ptr' = [ptr EXCEPT ![p] = b]
    BY <1>5 DEF AddProcessAlloc
  <2>2. /\ UNCHANGED <<table, dangled>> /\ pc[p] = "create"
        /\ pc' = [pc EXCEPT ![p] = "insert"]
    BY <1>5 DEF AddProcessAlloc, Goto
  <2>3. \A c : Users(c)' = Users(c)
    BY <1>0, <2>1, <2>2, UsersKept DEF Shape, TypeOK, Using
  <2>4. \A q \in Pids : pc[q] \in Using => ptr[q] # b
    BY <1>0, <2>1, <2>2 DEF UsersSafe
  <2>5. ptr'[p] = b /\ entry'[b].ref = 1
    BY <1>0, <2>1 DEF Shape, TypeOK
  <2>6. \A c \in Blocks : c # b => entry'[c] = entry[c]
    BY <1>0, <2>1 DEF Shape, TypeOK
  <2>7. \A q \in Pids : q # p => ptr'[q] = ptr[q] /\ pc'[q] = pc[q]
    BY <1>0, <2>1, <2>2 DEF Shape, TypeOK
  <2>8. pc'[p] = "insert"
    BY <1>0, <2>2 DEF Shape, TypeOK
  <2>9. \A q \in Pids : pc[q] = "insert" => ptr[q] \in Blocks /\ ptr[q] # b
    BY <1>0, <2>1 DEF Shape, Pointers, NothingLeaks, InHand
  <2>10. UsersSafe'
    <3>1. \A q \in Pids : pc'[q] \in Using => ptr'[q] \in allocated'
      BY <1>0, <2>1, <2>2, <2>7, <2>8 DEF UsersSafe, Using
    <3>2. ASSUME NEW q \in Pids, pc'[q] = "insert"
          PROVE  /\ entry'[ptr'[q]].ref = 1
                 /\ \A r \in Pids : pc'[r] \in Using => ptr'[r] # ptr'[q]
      BY <1>0, <2>2, <2>4, <2>5, <2>6, <2>7, <2>8, <2>9, <3>2 DEF UsersSafe, Using
    <3> QED
      BY <3>1, <3>2 DEF UsersSafe
  <2>11. \A c \in table : c \in Blocks /\ c # b
    BY <1>0, <2>1 DEF NothingLeaks, Shape, TypeOK
  <2> QED
    BY <1>0, <2>2, <2>3, <2>6, <2>10, <2>11 DEF RefsReturned
<1>6. ASSUME NEW p \in Pids, AddProcessInsert(p) PROVE UsersSafe' /\ RefsReturned'
  <2>1. /\ UNCHANGED <<allocated, entry, dangled>> /\ table' = table \cup {ptr[p]}
        /\ ptr' = [ptr EXCEPT ![p] = NoBlock] /\ pc[p] = "insert"
        /\ pc' = [pc EXCEPT ![p] = "checkParent"]
    BY <1>6 DEF AddProcessInsert, Goto
  <2>2. \A c : Users(c)' = Users(c)
    BY <1>0, <2>1, UsersKept DEF Shape, TypeOK, Using
  <2>3. entry[ptr[p]].ref = 1 /\ Users(ptr[p]) = {}
    BY <1>0, <2>1 DEF UsersSafe, Users
  <2>4. entry[ptr[p]].ref = 1 + Cardinality(Users(ptr[p]))
    BY <2>3, FS_EmptySet
  <2>5. UsersSafe'
    BY <1>0, <2>1, <2>2 DEF UsersSafe, Shape, TypeOK, Using
  <2> QED
    BY <1>0, <2>1, <2>2, <2>4, <2>5 DEF RefsReturned
<1>7. ASSUME NEW p \in Pids, RemoveProcessUnlink(p) PROVE UsersSafe' /\ RefsReturned'
  <2>1. PICK b \in table : table' = table \ {b} /\ ptr' = [ptr EXCEPT ![p] = b]
    BY <1>7 DEF RemoveProcessUnlink, Find
  <2>2. /\ UNCHANGED <<allocated, entry, dangled>> /\ pc[p] = "remove"
        /\ pc' = [pc EXCEPT ![p] = "free"]
    BY <1>7 DEF RemoveProcessUnlink, Goto
  <2>3. \A c : Users(c)' = Users(c)
    BY <1>0, <2>1, <2>2, UsersKept DEF Shape, TypeOK, Using
  <2>4. UsersSafe'
    BY <1>0, <2>1, <2>2, <2>3 DEF UsersSafe, Shape, TypeOK, Using
  <2> QED
    BY <1>0, <2>1, <2>2, <2>3, <2>4 DEF RefsReturned
<1>8. CASE Cleanup
  BY <1>8 DEF Cleanup, UsersSafe, RefsReturned, Using
<1>9. CASE UNCHANGED vars
  <2>1. \A c : Users(c)' = Users(c)
    BY <1>9 DEF vars, Users
  <2> QED
    BY <1>0, <1>9, <2>1 DEF vars, UsersSafe, RefsReturned
<1> QED
  BY StepKinds, <1>1, <1>2, <1>3, <1>4, <1>5, <1>6, <1>7, <1>8, <1>9

(* What a silent step does to the pid of p: a process may start where the  *)
(* pid was unused, and end where its entry is gone or noted as missed.     *)
LEMMA SilentRun ==
  ASSUME Shape, NEW p \in Pids, Silent(p)
  PROVE  /\ \A q \in Pids : q # p => run'[q] = run[q] /\ (q \in missed' <=> q \in missed)
         /\ p \in missed => p \in missed'
         /\ run'[p] # run[p] => pc[p] = "absent"
         /\ pc'[p] = "absent" => Find(p) = {} \/ p \in missed'
BY DEF Shape, TypeOK, Silent, ProcessStarts, CreateNoBuffer, AddProcessFails,
       CheckParent, ParentGone, ProcessEnds, ExitNoBuffer, ExitUnknown, Goto

(* The cache tells the truth but for the exits that were missed. *)
LEMMA TruthStep == Inv /\ [Next]_vars => CacheTellsTruth'
<1> SUFFICES ASSUME Inv, [Next]_vars PROVE CacheTellsTruth'
  OBVIOUS
<1>0. Shape /\ NothingLeaks /\ Entries /\ CacheTellsTruth
  BY DEF Inv
<1>a. \A b \in table : b \in Blocks /\ entry[b].pid \in Pids
  BY <1>0 DEF Shape, TypeOK
<1>1. ASSUME NEW p \in Pids, Silent(p) PROVE CacheTellsTruth'
  <2>1. /\ UNCHANGED <<entry, table>> /\ pc' = [pc EXCEPT ![p] = pc'[p]]
    BY <1>0, <1>1, SilentStep
  <2>2. ASSUME NEW b \in table
        PROVE  \/ entry[b].pid \in missed'
               \/ pc'[entry[b].pid] # "absent" /\ entry[b].run = run'[entry[b].pid]
    <3>1. CASE entry[b].pid # p
      BY <1>0, <1>1, <1>a, <2>1, <3>1, SilentRun DEF CacheTellsTruth, Shape, TypeOK
    <3>2. CASE entry[b].pid = p
      <4>1. b \in Find(p)
        BY <3>2 DEF Find
      <4> QED
        BY <1>0, <1>1, <3>2, <4>1, SilentRun DEF CacheTellsTruth
    <3> QED
      BY <3>1, <3>2
  <2> QED
    BY <2>1, <2>2 DEF CacheTellsTruth
<1>2. ASSUME NEW p \in Pids, Taking(p) \/ Releasing(p) PROVE CacheTellsTruth'
  <2>1. /\ UNCHANGED <<run, table, missed>> /\ pc' = [pc EXCEPT ![p] = pc'[p]]
        /\ pc'[p] # "absent"
    BY <1>0, <1>2, TakingStep, ReleasingStep DEF Using
  <2>2. \A b \in table : entry'[b].pid = entry[b].pid /\ entry'[b].run = entry[b].run
    BY <1>2, <1>a, EntryKept
  <2>3. \A q \in Pids : pc'[q] = "absent" => pc[q] = "absent"
    BY <1>0, <2>1 DEF Shape, TypeOK
  <2> QED
    BY <1>0, <1>a, <2>1, <2>2, <2>3 DEF CacheTellsTruth
<1>3. ASSUME NEW p \in Pids, Freeing(p) PROVE CacheTellsTruth'
  <2>1. /\ UNCHANGED <<run, entry, table, missed>> /\ pc' = [pc EXCEPT ![p] = pc'[p]]
        /\ pc'[p] = "absent" => pc[p] = "free"
    BY <1>0, <1>3, FreeingStep
  <2>2. \A q \in Pids : pc'[q] = "absent" => pc[q] \in {"absent", "free"}
    BY <1>0, <2>1 DEF Shape, TypeOK
  <2> QED
    BY <1>0, <1>a, <2>1, <2>2 DEF CacheTellsTruth, Entries, Unlinked
<1>4. ASSUME NEW p \in Pids, AddProcessAlloc(p) PROVE CacheTellsTruth'
  <2>1. PICK b \in Blocks \ allocated :
          entry' = [entry EXCEPT ![b] = [pid |-> p, run |-> run[p], ref |-> 1]]
    BY <1>4 DEF AddProcessAlloc
  <2>2. UNCHANGED <<run, table, missed>> /\ pc' = [pc EXCEPT ![p] = "insert"]
    BY <1>4 DEF AddProcessAlloc, Goto
  <2>3. \A c \in table : entry'[c] = entry[c]
    BY <1>0, <2>1 DEF NothingLeaks, Shape, TypeOK
  <2>4. \A q \in Pids : pc'[q] = "absent" => pc[q] = "absent"
    BY <1>0, <2>2 DEF Shape, TypeOK
  <2> QED
    BY <1>0, <1>a, <2>2, <2>3, <2>4 DEF CacheTellsTruth
<1>5. ASSUME NEW p \in Pids, AddProcessInsert(p) PROVE CacheTellsTruth'
  <2>1. /\ UNCHANGED <<run, entry, missed>> /\ table' = table \cup {ptr[p]}
        /\ pc[p] = "insert" /\ pc' = [pc EXCEPT ![p] = "checkParent"]
    BY <1>5 DEF AddProcessInsert, Goto
  <2>2. entry[ptr[p]].pid = p /\ entry[ptr[p]].run = run[p]
    BY <1>0, <2>1 DEF Entries, FreshEntry
  <2>3. pc'[p] # "absent" /\ \A q \in Pids : pc'[q] = "absent" => pc[q] = "absent"
    BY <1>0, <2>1 DEF Shape, TypeOK
  <2> QED
    BY <1>0, <1>a, <2>1, <2>2, <2>3 DEF CacheTellsTruth
<1>6. ASSUME NEW p \in Pids, RemoveProcessUnlink(p) PROVE CacheTellsTruth'
  <2>1. PICK b \in table : entry[b].pid = p /\ table' = table \ {b}
    BY <1>6 DEF RemoveProcessUnlink, Find
  <2>2. /\ UNCHANGED <<run, entry>> /\ missed' = missed \ {p}
        /\ pc' = [pc EXCEPT ![p] = "free"]
    BY <1>6 DEF RemoveProcessUnlink, Goto
  <2>3. \A c \in table' : entry[c].pid # p
    BY <1>0, <2>1 DEF Entries, OneEntryPerPid
  <2>4. \A q \in Pids : pc'[q] = "absent" => pc[q] = "absent"
    BY <1>0, <2>2 DEF Shape, TypeOK
  <2> QED
    BY <1>0, <1>a, <2>1, <2>2, <2>3, <2>4 DEF CacheTellsTruth
<1>7. CASE Cleanup
  BY <1>7 DEF CacheTellsTruth, Cleanup
<1>8. CASE UNCHANGED vars
  BY <1>0, <1>8 DEF CacheTellsTruth, vars
<1> QED
  BY StepKinds, <1>1, <1>2, <1>3, <1>4, <1>5, <1>6, <1>7, <1>8

-----------------------------------------------------------------------------
(* The invariant holds before the first notification. *)
LEMMA InvInit == Init => Inv
<1> SUFFICES ASSUME Init PROVE Inv
  OBVIOUS
<1> USE CacheAssumption
<1>1. (CHOOSE p \in Pids : TRUE) \in Pids
  OBVIOUS
<1>2. loaded \in BOOLEAN /\ dangled \in BOOLEAN
  BY Zenon DEF Init
<1>3. TypeOK
  BY <1>1, <1>2 DEF Init, TypeOK, CreatePcs, ExitPcs
<1>4. \A p \in Pids : pc[p] \in {"absent", "running"}
  BY DEF Init
<1>5. InHand = {}
  BY <1>4 DEF InHand
<1>6. Cardinality({}) = 0
  BY FS_EmptySet
<1>7. Pointers /\ Quiet /\ FreshEntry /\ Unlinked /\ UsersSafe
  BY <1>4 DEF Pointers, Quiet, FreshEntry, Unlinked, UsersSafe, Using
<1>8. NothingLeaks /\ RefsReturned /\ CacheTellsTruth
  BY <1>5 DEF Init, NothingLeaks, RefsReturned, CacheTellsTruth
<1>9. OneEntryPerPid /\ ActiveExact
  BY <1>4, <1>6 DEF Init, OneEntryPerPid, ActiveExact
<1> QED
  BY <1>3, <1>7, <1>8, <1>9 DEF Inv, Shape, Entries

(* Inv is an invariant of the notifications. *)
LEMMA CacheInvariant == Spec => []Inv
<1>1. Inv /\ [Next]_vars => Inv'
  BY ShapeStep, LeakStep, EntriesStep, ActiveStep, RefsStep, TruthStep DEF Inv
<1> QED
  BY InvInit, <1>1, PTL DEF Spec

(* AddProcess and RemoveProcess keep one entry per pid, the exit           *)
(* notification finds the entry it looked at again, and activeProcesses_   *)
(* counts the entries, whatever other notifications run between the        *)
(* critical sections.                                                      *)
THEOREM CacheIsExact == Spec => []TableExact
<1>1. Inv => TableExact
  BY DEF Inv, Shape, Entries, TableExact
<1> QED
  BY CacheInvariant, <1>1, PTL

(* No path of OnProcessNotify leaks an entry or frees one twice, and every *)
(* reference taken by GetProcessContext is given back, as long as          *)
(* RemoveProcess has not freed an entry that a child's notification uses.  *)
THEOREM CacheAccounts == Spec => []EntriesAccounted
<1>1. Inv => EntriesAccounted
  BY DEF Inv, EntriesAccounted
<1> QED
  BY CacheInvariant, <1>1, PTL

(* A linked entry is that of the process which has the pid, unless         *)
(* OnProcessNotify could not allocate its buffer at an exit.               *)
THEOREM CacheIsTrue == Spec => []CacheTellsTruth
<1>1. Inv => CacheTellsTruth
  BY DEF Inv
<1> QED
  BY CacheInvariant, <1>1, PTL
=============================================================================
