----------------------------- MODULE EventCodec -----------------------------
(***************************************************************************)
(* The wire format of events: FileEvent.h and ProcessEvent.h write an      *)
(* EVENT followed by its texts into a Buffer, FltSendMessage puts a        *)
(* FILTER_MESSAGE_HEADER before it, message_parser.cpp takes it apart and  *)
(* feeder_event_publisher.cpp turns the result into a Log or an Alert.     *)
(* A text is its length in bytes and what it says; a buffer is the set of  *)
(* the texts in it, each with its place.  The EVENT is one such text, and  *)
(* its fields are kept beside it.                                          *)
(***************************************************************************)
EXTENDS Integers

CONSTANTS
  EventSize,    \* sizeof(EVENT), the same in both programs
  HeaderSize,   \* sizeof(FILTER_MESSAGE_HEADER)
  BufferMax,    \* DEFAULT_MAX_SIZE of Buffer
  ReceiveMax,   \* buffer_size of the communicator
  PathMax       \* bytes of a path in a StreamHandleContext, its terminator left out

(* The buffers of the two paths are the end of a StreamHandleContext, the  *)
(* image path's first: an image path that is longer than its buffer runs   *)
(* into the file path, and one longer than both leaves the context.        *)
ContextRoom == 2 * PathMax + 2

ASSUME CodecAssumption ==
  /\ EventSize \in Nat \ {0} /\ HeaderSize \in Nat /\ PathMax \in Nat \ {0}
  /\ BufferMax \in Nat /\ ReceiveMax \in Nat
  /\ HeaderSize + EventSize + ContextRoom + PathMax <= ReceiveMax
  /\ EventSize + ContextRoom + PathMax <= BufferMax

Contents == {"EVENT", "process", "file", "command", "parent", "garbage", "none"}
Texts == {t \in [len : Nat, says : Contents] : t.len = 0 => t.says = "none"}
Text(len, says) == [len |-> len, says |-> IF len = 0 THEN "none" ELSE says]
NoText == Text(0, "none")

Fields == {"processPath", "filePath", "commandLine", "parentPath"}

(* What happened: its texts are the ones the driver has when it serializes *)
(* the event, an absent one empty.                                         *)
FileTypes == {"CREATE", "READ", "WRITE", "DELETE", "RENAME", "SET_INFO", "CLOSE"}
ProcessTypes == {"PROCESS_CREATE", "PROCESS_TERMINATE"}
Events == [type : FileTypes \cup ProcessTypes, processPath : Texts, filePath : Texts,
           commandLine : Texts, parentPath : Texts]

----------------------------------------------------------------------------
(* The driver *)

(* Mutant: a long name is copied whole. *)
CaptureWhole(name) == name

(* PopulateFileInformation keeps what fits of the name. *)
Capture(name) == IF name.len > PathMax THEN [name EXCEPT !.len = PathMax] ELSE name

(* PopulateProcessPath runs after it and copies the image path whole: what *)
(* its buffer does not hold lands on the file path, in the same context.   *)
Overruns(e) == e.type \in FileTypes /\ e.processPath.len > PathMax

Populate(e) ==
  [e EXCEPT !.filePath = IF Overruns(e) THEN Text(Capture(@).len, "garbage") ELSE Capture(@)]

NewBuffer == [texts |-> {}, size |-> 0, overflow |-> FALSE]

WriteBytes(b, text) ==
  IF b.overflow \/ text.len = 0 THEN b
  ELSE IF b.size + text.len > BufferMax THEN [b EXCEPT !.overflow = TRUE]
  ELSE [b EXCEPT !.texts = @ \cup {[at |-> b.size, text |-> text]}, !.size = @ + text.len]

(* An EVENT being written: the buffer, and where its fields say texts are. *)
Begin == [buffer |-> WriteBytes(NewBuffer, Text(EventSize, "EVENT")),
          place |-> [f \in Fields |-> [offset |-> 0, length |-> 0]]]

Put(w, field, text) ==
  IF text.len = 0 THEN w
  ELSE [buffer |-> WriteBytes(w.buffer, text),
        place |-> [w.place EXCEPT ![field] = [offset |-> w.buffer.size, length |-> text.len]]]

(* FS_EVENT_OPERATION, and the operation codes of the two serializers. *)
DriverOperation(type) == IF type \in FileTypes THEN 2 ELSE 1
DriverCode(type) ==
  CASE type = "CREATE" -> 0 [] type = "READ" -> 1 [] type = "WRITE" -> 2
    [] type = "DELETE" -> 3 [] type = "RENAME" -> 4 [] type = "SET_INFO" -> 5
    [] type = "CLOSE" -> 7
    [] type = "PROCESS_CREATE" -> 0 [] type = "PROCESS_TERMINATE" -> 1

Messages == [operation : Nat, code : Nat, place : [Fields -> [offset : Nat, length : Nat]],
             buffer : [texts : SUBSET [at : Nat, text : Texts], size : Nat, overflow : BOOLEAN]]

Message(type, w) ==
  [operation |-> DriverOperation(type), code |-> DriverCode(type),
   place |-> w.place, buffer |-> w.buffer]

(* Mutant: the length of the file path is added to the offset of its start. *)
SerializeFileLate(e) ==
  LET w == Put(Put(Begin, "processPath", e.processPath), "filePath", e.filePath) IN
  Message(e.type, [w EXCEPT !.place["filePath"].offset = @ + e.filePath.len])

SerializeFileEvent(e) ==
  Message(e.type, Put(Put(Begin, "processPath", e.processPath), "filePath", e.filePath))

(* A termination has no command line and no parent path. *)
SerializeProcessEvent(e) ==
  Message(e.type, Put(Put(Put(Begin, "processPath", e.processPath),
                          "commandLine", e.commandLine), "parentPath", e.parentPath))

Serialize(e) == IF e.type \in FileTypes THEN SerializeFileEvent(e) ELSE SerializeProcessEvent(e)

Received(m) == HeaderSize + m.buffer.size
Fits(m) == Received(m) <= ReceiveMax

----------------------------------------------------------------------------
(* The service *)

(* The text of that length at that place, or whatever lies there. *)
TextAt(m, offset, length) ==
  IF \E t \in m.buffer.texts : t.at = offset /\ t.text.len = length
  THEN (CHOOSE t \in m.buffer.texts : t.at = offset /\ t.text.len = length).text
  ELSE Text(length, "garbage")

(* get_string_at_offset, for a field that is there. *)
GetString(m, field) ==
  LET p == m.place[field] IN
  IF p.length > 0 /\ HeaderSize + p.offset < Received(m)
  THEN TextAt(m, p.offset, p.length) ELSE NoText

FileOperation(code) ==
  CASE code = 0 -> "Create" [] code = 1 -> "Read" [] code = 2 -> "Write" [] code = 3 -> "Delete"
    [] code = 4 -> "Rename" [] code = 5 -> "SetInfo" [] code = 7 -> "Close" [] OTHER -> "Unknown"

ProcessOperation(code) ==
  CASE code = 0 -> "Create" [] code = 1 -> "Terminate" [] OTHER -> "Unknown"

Operations == {"Create", "Read", "Write", "Delete", "Rename", "SetInfo", "Close",
               "Terminate", "Unknown"}
Data == [kind : {"File", "Process"}, operation : Operations, processPath : Texts,
         filePath : Texts, commandLine : Texts, parentPath : Texts]

ParseFileEvent(m) ==
  [kind |-> "File", operation |-> FileOperation(m.code),
   processPath |-> GetString(m, "processPath"), filePath |-> GetString(m, "filePath"),
   commandLine |-> NoText, parentPath |-> NoText]

ParseProcessEvent(m) ==
  [kind |-> "Process", operation |-> ProcessOperation(m.code),
   processPath |-> GetString(m, "processPath"), filePath |-> NoText,
   commandLine |-> GetString(m, "commandLine"), parentPath |-> GetString(m, "parentPath")]

(* The event ProcessCompletedIO queues when Parse fails. *)
DefaultEvent == [kind |-> "File", operation |-> "Create", processPath |-> NoText,
                 filePath |-> NoText, commandLine |-> NoText, parentPath |-> NoText]

(* Parse, by KernelEventOperation; the driver sends no network events. *)
Parse(m) ==
  CASE m.operation = 2 -> ParseFileEvent(m)
    [] m.operation = 1 -> ParseProcessEvent(m)
    [] OTHER -> DefaultEvent

(* ConvertToLog and ConvertToAlert, as far as they are the same. *)
Convert(d) ==
  [operation |-> d.kind, data |-> d.operation, processName |-> d.processPath,
   parentProcessName |-> IF d.kind = "File" THEN NoText ELSE d.parentPath,
   resource |-> IF d.kind = "File" THEN d.filePath ELSE d.processPath,
   source |-> IF d.kind = "File" THEN d.processPath ELSE d.commandLine]

----------------------------------------------------------------------------
(* What a subscriber should read about an event that reached the service. *)
Name(type) ==
  CASE type = "CREATE" -> "Create" [] type = "READ" -> "Read" [] type = "WRITE" -> "Write"
    [] type = "DELETE" -> "Delete" [] type = "RENAME" -> "Rename"
    [] type = "SET_INFO" -> "SetInfo" [] type = "CLOSE" -> "Close"
    [] type = "PROCESS_CREATE" -> "Create" [] type = "PROCESS_TERMINATE" -> "Terminate"

Report(e) ==
  IF e.type \in FileTypes
  THEN [operation |-> "File", data |-> Name(e.type), processName |-> e.processPath,
        parentProcessName |-> NoText, resource |-> e.filePath, source |-> e.processPath]
  ELSE [operation |-> "Process", data |-> Name(e.type), processName |-> e.processPath,
        parentProcessName |-> e.parentPath, resource |-> e.processPath,
        source |-> e.commandLine]
=============================================================================
