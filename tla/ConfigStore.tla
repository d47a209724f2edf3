---------------------------- MODULE ConfigStore ----------------------------
(***************************************************************************)
(* JsonConfigStore: Load, the thread that watches the file, and            *)
(* StopWatching.  The file belongs to the administrator, whose edits fall  *)
(* between any two steps; a version of the file is known by its time.      *)
(* UserService calls the store and composes its steps with those of main.  *)
(***************************************************************************)
EXTENDS Integers, FiniteSets

CONSTANTS
  Texts,            \* what the administrator may leave in the file
  MaxEdits,         \* bound on the edits
  Hardware,         \* std::thread::hardware_concurrency()
  Configured,       \* a count of threads that a file may ask for
  MaxThreads        \* bound on the value of an uninitialized size_t

(* What ParseJson tells apart in the service section of a file: text that  *)
(* is no JSON, worker_threads that is no string, a string that std::stoul  *)
(* refuses, "auto", no worker_threads, a number in a string, no section.   *)
AllTexts == {"truncated", "number", "word", "auto", "absent", "count", "no section"}

ASSUME ConfigAssumption ==
  /\ Texts \subseteq AllTexts /\ MaxEdits \in Nat /\ MaxThreads \in Nat
  /\ Hardware \in 0..MaxThreads /\ Configured \in 0..MaxThreads

VARIABLES
  file,         \* the file: its text, or that it is missing, and its time
  lastWrite,    \* last_write_time_
  watching,     \* watching_
  watcher,      \* where the watching thread is
  read,         \* the version that the Load in progress has read
  seen,         \* the version that was returned to main or to the callback
  overtaken     \* history: an edit fell between reading a file and its time

storeVars == <<file, lastWrite, watching, watcher, read, seen, overtaken>>
threadVars == <<watching, watcher>>

Versions == 0..MaxEdits
NoTime == -1

StoreTypeOK ==
  /\ file \in [text : AllTexts \cup {"missing"}, time : Versions]
  /\ lastWrite \in Versions \cup {NoTime} /\ seen \in Versions \cup {NoTime}
  /\ read \in Versions
  /\ watching \in BOOLEAN /\ overtaken \in BOOLEAN
  /\ watcher \in {"none", "top", "asleep", "load", "stamp", "ended", "joined"}

StoreInit ==
  /\ file \in [text : Texts \cup {"missing"}, time : {0}]
  /\ lastWrite = NoTime /\ seen = NoTime /\ read = 0
  /\ watching = FALSE /\ watcher = "none" /\ overtaken = FALSE

(* The numbers of event loops ParseJson may return for a text: none when   *)
(* it fails, and any when service_worker_threads is never assigned.        *)
ParseJson(text) ==
  CASE text \in {"auto", "absent"} -> {Hardware}
    [] text = "count" -> {Configured}
    [] text = "no section" -> 0..MaxThreads
    [] OTHER -> {}

(* The administrator edits, replaces or removes the file. *)
Edit(text) ==
  /\ file.time < MaxEdits
  /\ file' = [text |-> text, time |-> file.time + 1]
  /\ UNCHANGED <<lastWrite, threadVars, read, seen, overtaken>>

(* Load up to the return of ParseJson. *)
LoadRead ==
  /\ ParseJson(file.text) # {}
  /\ read' = file.time
  /\ UNCHANGED <<file, lastWrite, seen, overtaken>>

(* Mutant: a file that does not parse counts as loaded. *)
LoadFailsStamped ==
  /\ ParseJson(file.text) = {}
  /\ lastWrite' = file.time
  /\ UNCHANGED <<file, read, seen, overtaken>>

LoadFails ==
  /\ ParseJson(file.text) = {}
  /\ UNCHANGED <<file, lastWrite, read, seen, overtaken>>

(* The rest of Load: last_write_time asks for the time of the file as it   *)
(* is now, and throws when there is none.  The caller takes the result.    *)
LoadStamp ==
  /\ file.text # "missing"
  /\ lastWrite' = file.time /\ seen' = read
  /\ overtaken' = (file.time # read)
  /\ UNCHANGED <<file, read>>

LoadThrows ==
  /\ file.text = "missing"
  /\ UNCHANGED <<file, lastWrite, read, seen, overtaken>>

----------------------------------------------------------------------------
(* The watching thread *)

Watch ==
  /\ watching' = TRUE /\ watcher' = "top"
  /\ UNCHANGED <<file, lastWrite, read, seen, overtaken>>

(* The while condition of WatchThreadFunc. *)
WatchTop ==
  /\ watcher = "top"
  /\ watcher' = IF watching THEN "asleep" ELSE "ended"
  /\ UNCHANGED <<file, lastWrite, watching, read, seen, overtaken>>

(* Mutant: a file counts as changed only once its time is two edits ahead. *)
WatchCheckLate ==
  /\ watcher = "asleep"
  /\ watcher' = IF file.text # "missing" /\ file.time > lastWrite + 1 THEN "load" ELSE "top"
  /\ UNCHANGED <<file, lastWrite, watching, read, seen, overtaken>>

(* After the sleep: is there a file, and has its time changed?             *)
WatchCheck ==
  /\ watcher = "asleep"
  /\ watcher' = IF file.text # "missing" /\ file.time # lastWrite THEN "load" ELSE "top"
  /\ UNCHANGED <<file, lastWrite, watching, read, seen, overtaken>>

WatchLoad ==
  /\ watcher = "load" /\ watching' = watching
  /\ \/ LoadRead /\ watcher' = "stamp"
     \/ LoadFails /\ watcher' = "top"

(* The end of Load, and the call of callback_ when it succeeded. *)
WatchDeliver ==
  /\ watcher = "stamp" /\ watcher' = "top" /\ watching' = watching
  /\ LoadStamp \/ LoadThrows

(* StopWatching clears watching_ and then joins the thread. *)
StopWatching ==
  /\ watching' = FALSE
  /\ UNCHANGED <<file, lastWrite, watcher, read, seen, overtaken>>

JoinWatcher ==
  /\ watcher = "ended" /\ watcher' = "joined"
  /\ UNCHANGED <<file, lastWrite, watching, read, seen, overtaken>>

Watcher == WatchTop \/ WatchCheck \/ WatchLoad \/ WatchDeliver

----------------------------------------------------------------------------
(* Properties *)

(* When the time in last_write_time_ is that of the file, so that the      *)
(* watching thread will not load it again, the file is the version that    *)
(* was last returned, unless an edit fell between the two reads of Load: a *)
(* file that did not parse, or that vanished, is tried again.              *)
NothingSkipped ==
  lastWrite = file.time => seen = file.time \/ overtaken

=============================================================================
