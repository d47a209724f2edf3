---------------------------- MODULE MCEventPath ----------------------------
(* EventPath for TLC: texts of lengths on both sides of every limit. *)
EXTENDS EventPath

Event(type, p, f, c, q) ==
  [type |-> type, processPath |-> Text(p, "process"), filePath |-> Text(f, "file"),
   commandLine |-> Text(c, "command"), parentPath |-> Text(q, "parent")]

MCHappenings ==
  {Event("CREATE", PathMax, 60000, 0, 0), Event("CLOSE", 0, 60, 0, 0),
   Event("RENAME", ContextRoom, 60000, 0, 0),
   Event("PROCESS_CREATE", 40, 0, 3924, 50), Event("PROCESS_CREATE", 40, 0, 3926, 50),
   Event("PROCESS_CREATE", 0, 0, 60000, 0), Event("PROCESS_TERMINATE", 40, 0, 0, 0)}
=============================================================================
