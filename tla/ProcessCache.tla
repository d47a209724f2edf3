---------------------------- MODULE ProcessCache ----------------------------
(***************************************************************************)
(* The cache of process entries that OnProcessNotify fills and empties.    *)
(* Windows calls it once when a process starts, in a thread of the         *)
(* creator, and once when the process ends, in its last thread; calls for  *)
(* different processes run at the same time and share the cache.  A pid is *)
(* used again once the exit call for it has returned.                      *)
(*                                                                         *)
(* The table is the set of entries linked in its buckets: the bucket is a  *)
(* function of the pid, so a search of it is a search of the set.  The     *)
(* push lock makes each critical section one step; between two of them     *)
(* other calls run.  What the calls write into the event, and the counters *)
(* of hits, misses and insertions that nothing reads, are left out.        *)
(***************************************************************************)
EXTENDS Integers, FiniteSets

CONSTANTS
  Pids,      \* process ids
  Blocks,    \* pool blocks of the size of a ProcessEntry
  NoBlock,   \* a null pointer
  MaxStarts  \* bound: processes started under one pid

ASSUME CacheAssumption ==
  /\ IsFiniteSet(Pids) /\ Pids # {} /\ IsFiniteSet(Blocks)
  /\ NoBlock \notin Blocks
  /\ MaxStarts \in Nat

VARIABLES
  loaded,     \* the notification is registered, the cache not cleaned up
  pc,         \* where the notification for a process is
  run,        \* how often the pid was used: the process that has it now
  parent,     \* CreateInfo->ParentProcessId
  ptr,        \* local ProcessEntry pointer of the notification
  allocated,  \* blocks allocated
  entry,      \* content of a block: pid, run of the process, referenceCount
  table,      \* blocks linked in hashTable_
  active,     \* activeProcesses_
  missed,     \* history: pids whose exit was not taken note of
  dangled     \* history: an entry was freed while another call used it

vars == <<loaded, pc, run, parent, ptr, allocated, entry, table, active,
          missed, dangled>>

CreatePcs == {"create", "insert", "checkParent", "getParent", "useParent"}
ExitPcs == {"exit", "use", "remove", "free"}
Using == {"useParent", "use"}

TypeOK ==
  /\ loaded \in BOOLEAN /\ dangled \in BOOLEAN
  /\ pc \in [Pids -> {"absent", "running"} \cup CreatePcs \cup ExitPcs]
  /\ run \in [Pids -> 0 .. MaxStarts]
  /\ parent \in [Pids -> Pids]
  /\ ptr \in [Pids -> Blocks \cup {NoBlock}]
  /\ allocated \in SUBSET Blocks /\ table \in SUBSET Blocks
  /\ entry \in [Blocks -> [pid : Pids, run : 0 .. MaxStarts, ref : Int]]
  /\ active \in Nat
  /\ missed \in SUBSET Pids

(* Some processes are running when the driver is loaded: they are not in   *)
(* the cache.                                                              *)
Init ==
  /\ loaded = TRUE
  /\ pc \in [Pids -> {"absent", "running"}]
  /\ run = [p \in Pids |-> 0]
  /\ parent = [p \in Pids |-> p]
  /\ ptr = [p \in Pids |-> NoBlock]
  /\ allocated = {} /\ table = {}
  /\ entry = [b \in Blocks |->
                [pid |-> CHOOSE p \in Pids : TRUE, run |-> 0, ref |-> 0]]
  /\ active = 0
  /\ missed = {} /\ dangled = FALSE

Goto(p, l) == pc' = [pc EXCEPT ![p] = l]

(* FindProcessContextLocked. *)
Find(p) == {b \in table : entry[b].pid = p}

(* History: a call other than that of p uses block b. *)
UsedByOther(p, b) == \E q \in Pids \ {p} : pc[q] \in Using /\ ptr[q] = b

(* ExFreePoolWithTag of a block by the call for p. *)
FreeProcessContext(p, b) ==
  /\ allocated' = allocated \ {b}
  /\ dangled' = (dangled \/ UsedByOther(p, b))

(* GetProcessContext finds b: it is referenced before the lock is released. *)
GetProcessContext(p, b) ==
  /\ entry' = [entry EXCEPT ![b].ref = @ + 1]
  /\ ptr' = [ptr EXCEPT ![p] = b]

ReleaseProcessContext(p) ==
  /\ entry' = [entry EXCEPT ![ptr[p]].ref = @ - 1]
  /\ ptr' = [ptr EXCEPT ![p] = NoBlock]

-----------------------------------------------------------------------------
(* A process starts: OnProcessNotify with CreateInfo. *)

ProcessStarts(p) ==
  /\ loaded /\ pc[p] = "absent" /\ run[p] < MaxStarts
  /\ \E q \in Pids \ {p} : parent' = [parent EXCEPT ![p] = q]
  /\ run' = [run EXCEPT ![p] = @ + 1]
  /\ Goto(p, "create")
  /\ UNCHANGED <<loaded, ptr, allocated, entry, table, active, missed, dangled>>

(* The event buffer is not allocated: the process is not cached. *)
CreateNoBuffer(p) ==
  /\ pc[p] = "create"
  /\ Goto(p, "running")
  /\ UNCHANGED <<loaded, run, parent, ptr, allocated, entry, table, active,
                 missed, dangled>>

(* AddProcess, first half: an entry is allocated and filled. *)
AddProcessAlloc(p) ==
  /\ pc[p] = "create"
  /\ \E b \in Blocks \ allocated :
       /\ allocated' = allocated \cup {b}
       /\ entry' = [entry EXCEPT ![b] = [pid |-> p, run |-> run[p], ref |-> 1]]
       /\ ptr' = [ptr EXCEPT ![p] = b]
  /\ Goto(p, "insert")
  /\ UNCHANGED <<loaded, run, parent, table, active, missed, dangled>>

(* Its status is ignored by the caller. *)
AddProcessFails(p) ==
  /\ pc[p] = "create"
  /\ Goto(p, "checkParent")
  /\ UNCHANGED <<loaded, run, parent, ptr, allocated, entry, table, active,
                 missed, dangled>>

(* Mutant: the pid is not searched for. *)
AddProcessInsertUnsearched(p) ==
  /\ pc[p] = "insert"
  /\ table' = table \cup {ptr[p]}
  /\ active' = active + 1
  /\ ptr' = [ptr EXCEPT ![p] = NoBlock]
  /\ Goto(p, "checkParent")
  /\ UNCHANGED <<loaded, run, parent, allocated, entry, missed, dangled>>

(* Second half, under the lock: insert unless the pid is there. *)
AddProcessInsert(p) ==
  /\ pc[p] = "insert" /\ Find(p) = {}
  /\ table' = table \cup {ptr[p]}
  /\ active' = active + 1
  /\ ptr' = [ptr EXCEPT ![p] = NoBlock]
  /\ Goto(p, "checkParent")
  /\ UNCHANGED <<loaded, run, parent, allocated, entry, missed, dangled>>

AddProcessCollides(p) ==
  /\ pc[p] = "insert" /\ Find(p) # {}
  /\ FreeProcessContext(p, ptr[p])
  /\ ptr' = [ptr EXCEPT ![p] = NoBlock]
  /\ Goto(p, "checkParent")
  /\ UNCHANGED <<loaded, run, parent, entry, table, active, missed>>

(* IsProcessCached for the parent. *)
CheckParent(p) ==
  /\ pc[p] = "checkParent"
  /\ Goto(p, IF Find(parent[p]) # {} THEN "getParent" ELSE "running")
  /\ UNCHANGED <<loaded, run, parent, ptr, allocated, entry, table, active,
                 missed, dangled>>

(* The parent may have been removed since. *)
ParentGone(p) ==
  /\ pc[p] = "getParent" /\ Find(parent[p]) = {}
  /\ Goto(p, "running")
  /\ UNCHANGED <<loaded, run, parent, ptr, allocated, entry, table, active,
                 missed, dangled>>

ParentFound(p) ==
  /\ pc[p] = "getParent"
  /\ \E b \in Find(parent[p]) : GetProcessContext(p, b)
  /\ Goto(p, "useParent")
  /\ UNCHANGED <<loaded, run, parent, allocated, table, active, missed, dangled>>

(* Mutant: the reference to the parent is kept. *)
ParentReleaseForgotten(p) ==
  /\ pc[p] = "useParent"
  /\ ptr' = [ptr EXCEPT ![p] = NoBlock]
  /\ Goto(p, "running")
  /\ UNCHANGED <<loaded, run, parent, allocated, entry, table, active, missed,
                 dangled>>

ParentRelease(p) ==
  /\ pc[p] = "useParent"
  /\ ReleaseProcessContext(p)
  /\ Goto(p, "running")
  /\ UNCHANGED <<loaded, run, parent, allocated, table, active, missed, dangled>>

-----------------------------------------------------------------------------
(* A process ends: OnProcessNotify without CreateInfo. *)

ProcessEnds(p) ==
  /\ loaded /\ pc[p] = "running"
  /\ Goto(p, "exit")
  /\ UNCHANGED <<loaded, run, parent, ptr, allocated, entry, table, active,
                 missed, dangled>>

(* The event buffer is not allocated: an entry of the process stays. *)
ExitNoBuffer(p) ==
  /\ pc[p] = "exit"
  /\ missed' = IF Find(p) # {} THEN missed \cup {p} ELSE missed
  /\ Goto(p, "absent")
  /\ UNCHANGED <<loaded, run, parent, ptr, allocated, entry, table, active,
                 dangled>>

ExitUnknown(p) ==
  /\ pc[p] = "exit" /\ Find(p) = {}
  /\ Goto(p, "absent")
  /\ UNCHANGED <<loaded, run, parent, ptr, allocated, entry, table, active,
                 missed, dangled>>

ExitFound(p) ==
  /\ pc[p] = "exit"
  /\ \E b \in Find(p) : GetProcessContext(p, b)
  /\ Goto(p, "use")
  /\ UNCHANGED <<loaded, run, parent, allocated, table, active, missed, dangled>>

(* Mutant: the entry is released and not removed. *)
ExitReleaseOnly(p) ==
  /\ pc[p] = "use"
  /\ ReleaseProcessContext(p)
  /\ Goto(p, "absent")
  /\ UNCHANGED <<loaded, run, parent, allocated, table, active, missed, dangled>>

ExitRelease(p) ==
  /\ pc[p] = "use"
  /\ ReleaseProcessContext(p)
  /\ Goto(p, "remove")
  /\ UNCHANGED <<loaded, run, parent, allocated, table, active, missed, dangled>>

(* RemoveProcess, under the lock: unlink the entry of the pid. *)
RemoveProcessUnlink(p) ==
  /\ pc[p] = "remove"
  /\ \E b \in Find(p) :
       /\ table' = table \ {b}
       /\ ptr' = [ptr EXCEPT ![p] = b]
  /\ active' = active - 1
  /\ missed' = missed \ {p}
  /\ Goto(p, "free")
  /\ UNCHANGED <<loaded, run, parent, allocated, entry, dangled>>

(* After the lock: the entry is freed, whatever its referenceCount. *)
RemoveProcessFree(p) ==
  /\ pc[p] = "free"
  /\ FreeProcessContext(p, ptr[p])
  /\ ptr' = [ptr EXCEPT ![p] = NoBlock]
  /\ Goto(p, "absent")
  /\ UNCHANGED <<loaded, run, parent, entry, table, active, missed>>

-----------------------------------------------------------------------------
(* KarmorUnload: removing the notification waits for the calls under way,  *)
(* then Cleanup frees what is linked in the table.                         *)
Cleanup ==
  /\ loaded
  /\ \A p \in Pids : pc[p] \in {"absent", "running"}
  /\ loaded' = FALSE
  /\ allocated' = allocated \ table
  /\ table' = {}
  /\ UNCHANGED <<pc, run, parent, ptr, entry, active, missed, dangled>>

NotifyCreate(p) ==
  \/ ProcessStarts(p) \/ CreateNoBuffer(p)
  \/ AddProcessAlloc(p) \/ AddProcessFails(p)
  \/ AddProcessInsert(p) \/ AddProcessCollides(p)
  \/ CheckParent(p) \/ ParentGone(p) \/ ParentFound(p) \/ ParentRelease(p)

NotifyExit(p) ==
  \/ ProcessEnds(p) \/ ExitNoBuffer(p) \/ ExitUnknown(p) \/ ExitFound(p)
  \/ ExitRelease(p) \/ RemoveProcessUnlink(p) \/ RemoveProcessFree(p)

Next == (\E p \in Pids : NotifyCreate(p) \/ NotifyExit(p)) \/ Cleanup

Spec == Init /\ [][Next]_vars

-----------------------------------------------------------------------------
(* Safety. *)

(* A pid has at most one entry, and the exit call that found it still      *)
(* finds it when it comes to remove it: the check and the insertion of     *)
(* AddProcess are under one lock, and no other call removes the entry.     *)
OneEntryPerPid ==
  /\ \A b, c \in table : entry[b].pid = entry[c].pid => b = c
  /\ \A p \in Pids : pc[p] \in {"use", "remove"} => Find(p) # {}

(* No entry leaks and none is freed twice: a block is allocated exactly as *)
(* long as it is linked, or about to be inserted or freed by one call; the *)
(* unload leaves none behind.                                              *)
InHand == {p \in Pids : pc[p] \in {"insert", "free"}}
NothingLeaks ==
  /\ allocated = table \cup {ptr[p] : p \in InHand}
  /\ \A p \in InHand : ptr[p] \notin table
  /\ \A p, q \in InHand : ptr[p] = ptr[q] => p = q

(* Until an entry is freed in use, the reference count of a linked entry   *)
(* is one more than the calls that use it: every path of OnProcessNotify   *)
(* that takes a reference gives it back.                                   *)
Users(b) == {p \in Pids : pc[p] \in Using /\ ptr[p] = b}
RefsReturned ==
  ~dangled => \A b \in table : entry[b].ref = 1 + Cardinality(Users(b))

(* activeProcesses_ is the number of entries while the driver is loaded.   *)
ActiveExact == loaded => active = Cardinality(table)

(* A linked entry describes the process that has the pid now, unless the   *)
(* exit of an earlier one could not be taken note of: only then does the   *)
(* cache tell the image path and the parent of a process that is gone.     *)
CacheTellsTruth ==
  \A b \in table :
    LET p == entry[b].pid
    IN  p \in missed \/ (pc[p] # "absent" /\ entry[b].run = run[p])

(* The table is exact whatever notifications run: well typed, one entry    *)
(* per pid at most, and a count that is the number of entries.             *)
TableExact == TypeOK /\ OneEntryPerPid /\ ActiveExact

(* Memory and references are accounted for on every path of AddProcess,    *)
(* RemoveProcess and the two serializers.                                  *)
EntriesAccounted == NothingLeaks /\ RefsReturned
=============================================================================
