--------------------------- MODULE FileCallbacks ---------------------------
(***************************************************************************)
(* The pre- and post-operation callbacks of Filter.cpp and the             *)
(* StreamHandleContext of Context.cpp in which they collect what was done  *)
(* through a file object.  Threads run operations on the same file object  *)
(* at the same time; a cleanup may overtake the completion of another      *)
(* operation.  Contexts are counted by the filter manager.  Enqueue is one *)
(* step here: AsyncEventDispatcher models what becomes of its event.       *)
(* PreWriteCallback asks for no post-operation callback unless readOnly is *)
(* set, and nothing sets it: PostWriteCallback shares the actions of       *)
(* PostReadCallback and is never reached.                                  *)
(***************************************************************************)
EXTENDS Integers, Sequences, FiniteSets

CONSTANTS
  Files,    \* file objects
  Threads,  \* threads that run I/O requests
  MaxOps,   \* bound on the requests between create and cleanup, per file
  None      \* no file object

ASSUME FileCallbacksAssumption ==
  IsFiniteSet(Files) /\ IsFiniteSet(Threads) /\ MaxOps \in Nat /\ None \notin Files

Requests == {"read", "write", "delete", "undelete", "rename"}
Information == {"superseded", "opened", "created", "overwritten", "exists"}
IoStatus == {"created", "overwritten", "opened"}
Reports == {"CREATE", "READ", "WRITE", "DELETE", "RENAME", "CLOSE"}
Places == {"idle", "fs", "set", "mark", "instance", "report", "last", "leave"}

VARIABLES
  file,    \* the life of each file object
  ctx,     \* its StreamHandleContext
  linked,  \* whether the context is attached to the file object
  refs,    \* references to the context, freed at zero
  instRefs,\* references to the InstanceContext, one of them the instance's
  op,      \* the request each thread runs
  events,  \* what was passed to Enqueue, per file
  ops,     \* requests issued, for the bound
  did,     \* history: requests that succeeded
  missed,  \* history: some callback was skipped or got no context
  raced    \* history: requests were in progress when the cleanup began

histVars == <<did, missed, raced>>
vars == <<file, ctx, linked, refs, instRefs, op, events, ops, histVars>>

(* InitializeStreamHandleContext: what it does not set is zero. *)
NewContext(information, onClose) ==
  [fileIoStatus |-> CASE information \in {"superseded", "overwritten"} -> "overwritten"
                      [] information = "created" -> "created"
                      [] OTHER -> "opened",
   deleteOnClose |-> onClose, dispositionDelete |-> FALSE, dispositionRename |-> FALSE,
   wasRead |-> FALSE, wasChanged |-> FALSE, readOnly |-> FALSE]

Contexts == [fileIoStatus : IoStatus, deleteOnClose : BOOLEAN, dispositionDelete : BOOLEAN,
             dispositionRename : BOOLEAN, wasRead : BOOLEAN, wasChanged : BOOLEAN,
             readOnly : BOOLEAN]

Idle == [pc |-> "idle", kind |-> "none", file |-> None, inst |-> FALSE, deleted |-> FALSE]

Init ==
  /\ file = [f \in Files |-> "new"]
  /\ ctx = [f \in Files |-> NewContext("opened", FALSE)]
  /\ linked = [f \in Files |-> FALSE]
  /\ refs = [f \in Files |-> 0]
  /\ instRefs = 1
  /\ op = [t \in Threads |-> Idle]
  /\ events = [f \in Files |-> << >>]
  /\ ops = [f \in Files |-> 0]
  /\ did = [f \in Files |-> {}]
  /\ missed = [f \in Files |-> FALSE]
  /\ raced = [f \in Files |-> FALSE]

Busy(f) == {t \in Threads : op[t].file = f}
Holding(f) == {t \in Busy(f) : op[t].pc # "fs"}

Start(t, f, kind) == op' = [op EXCEPT ![t] = [Idle EXCEPT !.pc = "fs", !.kind = kind, !.file = f]]
Go(t, pc) == op' = [op EXCEPT ![t].pc = pc]
Finish(t) == op' = [op EXCEPT ![t] = Idle]
Miss(f) == missed' = [missed EXCEPT ![f] = TRUE]
Done(f, kind) == did' = [did EXCEPT ![f] = @ \cup {kind}]
Enqueue(f, type) == events' = [events EXCEPT ![f] = Append(@, type)]

----------------------------------------------------------------------------
(* IRP_MJ_CREATE *)

PreCreate(t, f) ==
  /\ op[t] = Idle /\ file[f] = "new"
  /\ file' = [file EXCEPT ![f] = "opening"]
  /\ Start(t, f, "create")
  /\ UNCHANGED <<ctx, linked, refs, instRefs, events, ops, histVars>>

(* The request fails, is skipped by SkipEvent before or after it, drains,  *)
(* or no context can be allocated for it.                                  *)
CreateUnseen(t) ==
  LET f == op[t].file IN
  /\ op[t].pc = "fs" /\ op[t].kind = "create"
  /\ \/ file' = [file EXCEPT ![f] = "failed"] /\ UNCHANGED missed
     \/ file' = [file EXCEPT ![f] = "open"] /\ Miss(f)
  /\ Finish(t)
  /\ UNCHANGED <<ctx, linked, refs, instRefs, events, ops, did, raced>>

PostCreate(t) ==
  LET f == op[t].file IN
  /\ op[t].pc = "fs" /\ op[t].kind = "create"
  /\ \E io \in Information, onClose \in BOOLEAN :
       ctx' = [ctx EXCEPT ![f] = NewContext(io, onClose)]
  /\ refs' = [refs EXCEPT ![f] = 1]
  /\ Go(t, "set")
  /\ UNCHANGED <<file, linked, instRefs, events, ops, histVars>>

SetStreamHandleContext(t) ==
  LET f == op[t].file IN
  /\ op[t].pc = "set"
  /\ \/ /\ linked' = [linked EXCEPT ![f] = TRUE]
        /\ refs' = [refs EXCEPT ![f] = @ + 1]
        /\ Go(t, "instance")
        /\ UNCHANGED missed
     \/ /\ Go(t, "leave")
        /\ Miss(f)
        /\ UNCHANGED <<linked, refs>>
  /\ UNCHANGED <<file, ctx, instRefs, events, ops, did, raced>>

----------------------------------------------------------------------------
(* IRP_MJ_READ, IRP_MJ_WRITE and IRP_MJ_SET_INFORMATION *)

CanRequest(t, f) == op[t] = Idle /\ file[f] = "open" /\ ops[f] < MaxOps
Count(f) == ops' = [ops EXCEPT ![f] = @ + 1]

(* The pre-operation callback finds the context and asks for the           *)
(* post-operation callback; it holds its reference only meanwhile.         *)
Watches(f, kind) == linked[f] /\ (kind = "write" => ctx[f].readOnly)

PreOperation(t, f, kind) ==
  /\ CanRequest(t, f) /\ Watches(f, kind)
  /\ Count(f)
  /\ Start(t, f, kind)
  /\ UNCHANGED <<file, ctx, linked, refs, instRefs, events, histVars>>

(* No post-operation callback: the request just succeeds or fails. *)
PreUnwatched(t, f, kind) ==
  /\ CanRequest(t, f) /\ ~Watches(f, kind)
  /\ Count(f)
  /\ did' \in {did, [did EXCEPT ![f] = @ \cup {kind}]}
  /\ UNCHANGED <<file, ctx, linked, refs, instRefs, op, events, missed, raced>>

(* SkipReadWriteIo, SkipEvent or a failing FltGetStreamHandleContext. *)
PreSkipped(t, f, kind) ==
  /\ CanRequest(t, f)
  /\ Count(f)
  /\ Done(f, kind)
  /\ Miss(f)
  /\ UNCHANGED <<file, ctx, linked, refs, instRefs, op, events, raced>>

InFlight(t) == op[t].pc = "fs" /\ op[t].kind \in Requests

(* A request that failed or moved no bytes, or one that succeeded and is   *)
(* skipped, drained or left without its context.                           *)
PostUnseen(t) ==
  LET f == op[t].file IN
  /\ InFlight(t)
  /\ \/ UNCHANGED <<did, missed>>
     \/ Done(f, op[t].kind) /\ Miss(f)
  /\ Finish(t)
  /\ UNCHANGED <<file, ctx, linked, refs, instRefs, events, ops, raced>>

PostOperation(t) ==
  LET f == op[t].file IN
  /\ InFlight(t) /\ linked[f]
  /\ Done(f, op[t].kind)
  /\ refs' = [refs EXCEPT ![f] = @ + 1]
  /\ Go(t, "mark")
  /\ UNCHANGED <<file, ctx, linked, instRefs, events, ops, missed, raced>>

(* Mutant: a rename leaves no trace in the context. *)
MarkedButRename(c, kind) ==
  [c EXCEPT !.wasRead = @ \/ kind = "read", !.wasChanged = @ \/ kind = "write",
            !.dispositionDelete = @ \/ kind \in {"delete", "undelete"}]

(* What the post-operation callbacks note; DeleteFile is not looked at. *)
Marked(c, kind) ==
  [c EXCEPT !.wasRead = @ \/ kind = "read",
            !.wasChanged = @ \/ kind = "write",
            !.dispositionDelete = @ \/ kind \in {"delete", "undelete"},
            !.dispositionRename = @ \/ kind = "rename"]

Mark(t) ==
  LET f == op[t].file IN
  /\ op[t].pc = "mark"
  /\ ctx' = [ctx EXCEPT ![f] = Marked(@, op[t].kind)]
  /\ Go(t, IF op[t].kind = "rename" THEN "instance" ELSE "leave")
  /\ UNCHANGED <<file, linked, refs, instRefs, events, ops, histVars>>

----------------------------------------------------------------------------
(* IRP_MJ_CLEANUP: the last handle is closed.  Requests that still run     *)
(* keep the file object until they complete.                               *)

PreCleanup(t, f) ==
  /\ op[t] = Idle /\ file[f] = "open" /\ linked[f]
  /\ file' = [file EXCEPT ![f] = "cleaned"]
  /\ raced' = [raced EXCEPT ![f] = Busy(f) # {}]
  /\ Start(t, f, "cleanup")
  /\ UNCHANGED <<ctx, linked, refs, instRefs, events, ops, did, missed>>

PreCleanupSkipped(t, f) ==
  /\ op[t] = Idle /\ file[f] = "open"
  /\ file' = [file EXCEPT ![f] = "cleaned"]
  /\ Miss(f)
  /\ UNCHANGED <<ctx, linked, refs, instRefs, op, events, ops, did, raced>>

CleanupUnseen(t) ==
  /\ op[t].pc = "fs" /\ op[t].kind = "cleanup"
  /\ Miss(op[t].file)
  /\ Finish(t)
  /\ UNCHANGED <<file, ctx, linked, refs, instRefs, events, ops, did, raced>>

PostCleanup(t) ==
  LET f == op[t].file IN
  /\ op[t].pc = "fs" /\ op[t].kind = "cleanup" /\ linked[f]
  /\ refs' = [refs EXCEPT ![f] = @ + 1]
  /\ Go(t, "instance")
  /\ UNCHANGED <<file, ctx, linked, instRefs, events, ops, histVars>>

----------------------------------------------------------------------------
(* The instance context, the events and the __finally block *)

(* FltGetInstanceContext; a cleanup then decides at once whether the file  *)
(* was deleted.                                                            *)
GetInstanceContext(t) ==
  LET f == op[t].file IN
  /\ op[t].pc = "instance"
  /\ instRefs' = instRefs + 1
  /\ op' = [op EXCEPT ![t].pc = "report", ![t].inst = TRUE,
                      ![t].deleted = ctx[f].deleteOnClose \/ ctx[f].dispositionDelete]
  /\ UNCHANGED <<file, ctx, linked, refs, events, ops, histVars>>

NoInstanceContext(t) ==
  /\ op[t].pc = "instance"
  /\ Go(t, "leave")
  /\ Miss(op[t].file)
  /\ UNCHANGED <<file, ctx, linked, refs, instRefs, events, ops, did, raced>>

(* The first Enqueue of the callback, if there is one. *)
Report(t) ==
  LET f == op[t].file
      type == CASE op[t].kind = "create"  -> "CREATE"
                [] op[t].kind = "rename"  -> "RENAME"
                [] op[t].kind = "cleanup" -> "READ"
      due == CASE op[t].kind = "create"  -> ctx[f].fileIoStatus = "created"
               [] op[t].kind = "rename"  -> TRUE
               [] op[t].kind = "cleanup" -> ctx[f].wasRead IN
  /\ op[t].pc = "report"
  /\ IF due THEN Enqueue(f, type) ELSE UNCHANGED events
  /\ Go(t, IF op[t].kind = "cleanup" THEN "last" ELSE "leave")
  /\ UNCHANGED <<file, ctx, linked, refs, instRefs, ops, histVars>>

(* Mutant: the close is reported whatever became of the file. *)
EndingAlwaysCloses(c, deleted) ==
  (IF c.wasChanged /\ ~deleted THEN <<"WRITE">> ELSE << >>)
    \o (IF deleted /\ c.fileIoStatus # "created" THEN <<"DELETE">> ELSE << >>)
    \o <<"CLOSE">>

(* The other events of PostCleanupCallback. *)
Ending(c, deleted) ==
  (IF c.wasChanged /\ ~deleted THEN <<"WRITE">> ELSE << >>)
    \o (IF deleted /\ c.fileIoStatus # "created" THEN <<"DELETE">>
        ELSE IF ~deleted /\ ~c.dispositionRename THEN <<"CLOSE">> ELSE << >>)

ReportEnding(t) ==
  LET f == op[t].file IN
  /\ op[t].pc = "last"
  /\ events' = [events EXCEPT ![f] = @ \o Ending(ctx[f], op[t].deleted)]
  /\ Go(t, "leave")
  /\ UNCHANGED <<file, ctx, linked, refs, instRefs, ops, histVars>>

(* Mutant: the instance context is kept when the callback leaves. *)
LeaveKeepsInstance(t) ==
  LET f == op[t].file IN
  /\ op[t].pc = "leave"
  /\ refs' = [refs EXCEPT ![f] = @ - 1]
  /\ file' = IF op[t].kind = "create" THEN [file EXCEPT ![f] = "open"] ELSE file
  /\ Finish(t)
  /\ UNCHANGED <<ctx, linked, instRefs, events, ops, histVars>>

Leave(t) ==
  LET f == op[t].file IN
  /\ op[t].pc = "leave"
  /\ refs' = [refs EXCEPT ![f] = @ - 1]
  /\ instRefs' = IF op[t].inst THEN instRefs - 1 ELSE instRefs
  /\ file' = IF op[t].kind = "create" THEN [file EXCEPT ![f] = "open"] ELSE file
  /\ Finish(t)
  /\ UNCHANGED <<ctx, linked, events, ops, histVars>>

----------------------------------------------------------------------------
(* The filter manager drops its reference when the file object is closed,  *)
(* or when the instance is detached and no callback runs for the file.     *)

Unlink(f) ==
  /\ linked' = [linked EXCEPT ![f] = FALSE]
  /\ refs' = [refs EXCEPT ![f] = @ - 1]

Close(f) ==
  /\ file[f] = "cleaned" /\ Busy(f) = {}
  /\ file' = [file EXCEPT ![f] = "closed"]
  /\ IF linked[f] THEN Unlink(f) ELSE UNCHANGED <<linked, refs>>
  /\ UNCHANGED <<ctx, instRefs, op, events, ops, histVars>>

DetachInstance(f) ==
  /\ file[f] \in {"open", "cleaned"} /\ linked[f] /\ Holding(f) = {}
  /\ Unlink(f)
  /\ Miss(f)
  /\ UNCHANGED <<file, ctx, instRefs, op, events, ops, did, raced>>

Create(t) ==
  \/ \E f \in Files : PreCreate(t, f)
  \/ CreateUnseen(t) \/ PostCreate(t) \/ SetStreamHandleContext(t)

Request(t) ==
  \/ \E f \in Files, k \in Requests :
       PreOperation(t, f, k) \/ PreUnwatched(t, f, k) \/ PreSkipped(t, f, k)
  \/ PostUnseen(t) \/ PostOperation(t) \/ Mark(t)

Cleanup(t) ==
  \/ \E f \in Files : PreCleanup(t, f) \/ PreCleanupSkipped(t, f)
  \/ CleanupUnseen(t) \/ PostCleanup(t) \/ ReportEnding(t)

Next ==
  \/ \E t \in Threads :
       \/ Create(t) \/ Request(t) \/ Cleanup(t)
       \/ GetInstanceContext(t) \/ NoInstanceContext(t) \/ Report(t) \/ Leave(t)
  \/ \E f \in Files : Close(f) \/ DetachInstance(f)

Spec == Init /\ [][Next]_vars

----------------------------------------------------------------------------
TypeOK ==
  /\ file \in [Files -> {"new", "opening", "failed", "open", "cleaned", "closed"}]
  /\ ctx \in [Files -> Contexts]
  /\ linked \in [Files -> BOOLEAN]
  /\ refs \in [Files -> Int]
  /\ instRefs \in Int
  /\ op \in [Threads -> [pc : Places, kind : Requests \cup {"none", "create", "cleanup"},
                         file : Files \cup {None}, inst : BOOLEAN, deleted : BOOLEAN]]
  /\ events \in [Files -> Seq(Reports)]
  /\ ops \in [Files -> 0..MaxOps]
  /\ did \in [Files -> SUBSET Requests]
  /\ missed \in [Files -> BOOLEAN] /\ raced \in [Files -> BOOLEAN]

(* Contexts are counted right on every path of the callbacks, the failing  *)
(* ones included: a stream context has one reference for its file object   *)
(* and one for each callback that uses it, so it is neither freed under a  *)
(* callback nor kept by one that has returned; the same for the instance.  *)
ContextsCounted ==
  /\ \A f \in Files :
       refs[f] = Cardinality(Holding(f)) + (IF linked[f] THEN 1 ELSE 0)
  /\ instRefs = 1 + Cardinality({t \in Threads : op[t].inst})

Seen(f, type) == \E i \in DOMAIN events[f] : events[f][i] = type
Settled(f) == file[f] \in {"cleaned", "closed"} /\ Busy(f) = {} /\ ~missed[f] /\ ~raced[f]

(* What the events of a file object say of the requests that succeeded, if *)
(* every callback got its context and no request was still running at the  *)
(* cleanup.  Reads and renames are reported exactly when they succeeded.   *)
(* A deletion is reported unless the file was new, and so is one that was  *)
(* taken back: DeleteFile is not looked at.  A close is reported if there  *)
(* was neither deletion nor rename.  A write is never reported, for        *)
(* nothing sets readOnly.                                                  *)
ReportsFaithful ==
  \A f \in Files : Settled(f) =>
    LET deleted == ctx[f].deleteOnClose \/ did[f] \cap {"delete", "undelete"} # {}
        created == ctx[f].fileIoStatus = "created" IN
    /\ Seen(f, "CREATE") <=> created
    /\ Seen(f, "READ") <=> "read" \in did[f]
    /\ Seen(f, "RENAME") <=> "rename" \in did[f]
    /\ Seen(f, "DELETE") <=> deleted /\ ~created
    /\ Seen(f, "CLOSE") <=> ~deleted /\ "rename" \notin did[f]
    /\ ~Seen(f, "WRITE")

(* The events of a file object make one story whatever the interleaving:   *)
(* its creation comes first, it ends once, closed or deleted, and only a   *)
(* request that was still running at the cleanup is reported afterwards.   *)
OneStory ==
  \A f \in Files : \A i, j \in DOMAIN events[f] :
    /\ events[f][i] = "CREATE" => i = 1
    /\ events[f][i] \in {"CLOSE", "DELETE"} /\ i # j =>
         /\ events[f][j] \notin {"CLOSE", "DELETE"}
         /\ j > i => events[f][j] = "RENAME" /\ raced[f]

(* The contexts of file objects and of the instance are well typed and     *)
(* counted right on every path through the callbacks.                      *)
ContextsSound == TypeOK /\ ContextsCounted
=============================================================================
