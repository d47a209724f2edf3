-------------------------- MODULE EventPath_proofs --------------------------
(***************************************************************************)
(* What EventPath promises, for any number of events, workers and loops,   *)
(* any capacity of the queue and any sizes that fit together, and what the *)
(* queue in it, ThreadSafeQueue, promises its threads.                     *)
(*                                                                         *)
(* The codec comes first: a buffer's texts lie behind one another and each *)
(* field of the EVENT says where its text is, so what the parser and the   *)
(* conversion make of a serialized event is what happened (RoundTrip).     *)
(* Three invariants follow the event.  Truth says what a message or a      *)
(* parsed event is, in each place where one can be.  Order says which      *)
(* events may be ahead of which, within a stage and between stages.        *)
(* Placed says that an event is in one place: a step moves one event from  *)
(* one place to another and leaves the others where they are.              *)
(*                                                                         *)
(* The last part is the queue itself.  WakeupsSuffice is inductive         *)
(* together with the types and with NobodySleepsClosed: each action either *)
(* keeps the four sets of threads or moves one thread between them.        *)
(***************************************************************************)
EXTENDS EventPath, ThreadSafeQueue, FiniteSetTheorems, SequenceTheorems, TLAPS

-----------------------------------------------------------------------------
(* The codec. *)

Buffers == [texts : SUBSET [at : Nat, text : Texts], size : Nat, overflow : BOOLEAN]
Places0 == [Fields -> [offset : Nat, length : Nat]]
Writings == [buffer : Buffers, place : Places0]

(* The texts of a buffer lie behind one another. *)
Laid(b) ==
  /\ \A x \in b.texts : x.text.len > 0 /\ x.at + x.text.len <= b.size
  /\ \A x, y \in b.texts : x.at = y.at => x = y

(* The field of an EVENT says where its text is, or that there is none. *)
Holds(w, f, t) ==
  /\ w.place[f].length = t.len
  /\ t.len > 0 => /\ w.place[f].offset < w.buffer.size
                  /\ [at |-> w.place[f].offset, text |-> t] \in w.buffer.texts

(* A text and the empty text are texts. *)
LEMMA TextTypes ==
  /\ NoText \in Texts /\ NoText.len = 0
  /\ \A n \in Nat, c \in Contents : Text(n, c) \in Texts /\ Text(n, c).len = n
  /\ \A t \in Texts : t.len \in Nat /\ (t.len = 0 => t = NoText)
BY DEF NoText, Text, Texts, Contents

(* WriteBytes appends the text, or does nothing, or sets the overflow. *)
LEMMA WriteBytesType ==
  ASSUME NEW b \in Buffers, NEW t \in Texts
  PROVE  WriteBytes(b, t) \in Buffers
<1>1. CASE b.overflow \/ t.len = 0
  BY <1>1 DEF WriteBytes
<1>2. CASE ~(b.overflow \/ t.len = 0) /\ b.size + t.len > BufferMax
  BY <1>2 DEF WriteBytes, Buffers
<1>3. CASE ~(b.overflow \/ t.len = 0) /\ ~(b.size + t.len > BufferMax)
  <2>1. [at |-> b.size, text |-> t] \in [at : Nat, text : Texts]
    BY DEF Buffers
  <2>2. b.size + t.len \in Nat
    BY TextTypes DEF Buffers
  <2> QED
    BY <1>3, <2>1, <2>2 DEF WriteBytes, Buffers
<1> QED
  BY <1>1, <1>2, <1>3

(* Writing keeps the texts apart, and what is written is there. *)
LEMMA WriteBytesLays ==
  ASSUME NEW b \in Buffers, NEW t \in Texts, Laid(b), t.len > 0, ~WriteBytes(b, t).overflow
  PROVE  /\ ~b.overflow /\ Laid(WriteBytes(b, t))
         /\ WriteBytes(b, t).texts = b.texts \cup {[at |-> b.size, text |-> t]}
         /\ WriteBytes(b, t).size = b.size + t.len
<1>1. ~b.overflow /\ ~(b.size + t.len > BufferMax)
  BY DEF WriteBytes, Buffers
<1>2. /\ WriteBytes(b, t).texts = b.texts \cup {[at |-> b.size, text |-> t]}
      /\ WriteBytes(b, t).size = b.size + t.len
  BY <1>1 DEF WriteBytes, Buffers
<1>3. b.size \in Nat /\ t.len \in Nat
  BY TextTypes DEF Buffers
<1>4. \A x \in b.texts : x.at \in Nat /\ x.text.len \in Nat
  BY TextTypes DEF Buffers
<1> HIDE DEF WriteBytes
<1>5. Laid(WriteBytes(b, t))
  BY <1>2, <1>3, <1>4 DEF Laid
<1> QED
  BY <1>1, <1>2, <1>5

(* Put leaves a message that can be written on. *)
LEMMA PutType ==
  ASSUME NEW w \in Writings, NEW f \in Fields, NEW t \in Texts
  PROVE  Put(w, f, t) \in Writings
<1>1. WriteBytes(w.buffer, t) \in Buffers
  BY WriteBytesType DEF Writings
<1>2. [offset |-> w.buffer.size, length |-> t.len] \in [offset : Nat, length : Nat]
  BY TextTypes DEF Writings, Buffers
<1> QED
  BY <1>1, <1>2 DEF Put, Writings, Places0

(* Put records a text in its field and leaves those of the others. *)
LEMMA PutHolds ==
  ASSUME NEW w \in Writings, NEW f \in Fields, NEW t \in Texts,
         Laid(w.buffer), Holds(w, f, NoText), ~Put(w, f, t).buffer.overflow
  PROVE  /\ ~w.buffer.overflow /\ Laid(Put(w, f, t).buffer)
         /\ Holds(Put(w, f, t), f, t)
         /\ \A g \in Fields \ {f}, u \in Texts : Holds(w, g, u) => Holds(Put(w, f, t), g, u)
<1>1. CASE t.len = 0
  BY <1>1, TextTypes DEF Put
<1>2. CASE t.len # 0
  <2> DEFINE b == WriteBytes(w.buffer, t)
  <2>1. /\ Put(w, f, t).buffer = b
        /\ Put(w, f, t).place = [w.place EXCEPT ![f] = [offset |-> w.buffer.size, length |-> t.len]]
    BY <1>2 DEF Put
  <2>2. w.buffer \in Buffers /\ w.place \in Places0 /\ w.buffer.size \in Nat
    BY DEF Writings, Buffers
  <2>3. t.len \in Nat /\ t.len > 0
    BY <1>2, TextTypes
  <2>4. /\ ~w.buffer.overflow /\ Laid(b)
        /\ b.texts = w.buffer.texts \cup {[at |-> w.buffer.size, text |-> t]}
        /\ b.size = w.buffer.size + t.len
    BY <2>1, <2>2, <2>3, WriteBytesLays
  <2>5. /\ Put(w, f, t).place[f] = [offset |-> w.buffer.size, length |-> t.len]
        /\ \A g \in Fields \ {f} : Put(w, f, t).place[g] = w.place[g]
    BY <2>1, <2>2 DEF Places0
  <2> HIDE DEF b
  <2>6. Holds(Put(w, f, t), f, t)
    BY <2>1, <2>2, <2>3, <2>4, <2>5 DEF Holds
  <2>7. ASSUME NEW g \in Fields \ {f}, NEW u \in Texts, Holds(w, g, u)
        PROVE  Holds(Put(w, f, t), g, u)
    <3>1. w.place[g].offset \in Nat
      BY <2>2 DEF Places0
    <3> QED
      BY <2>1, <2>2, <2>3, <2>4, <2>5, <2>7, <3>1 DEF Holds
  <2> QED
    BY <2>1, <2>4, <2>6, <2>7
<1> QED
  BY <1>1, <1>2

(* The EVENT itself fits in the buffer and says that there are no texts. *)
LEMMA BeginHolds ==
  /\ Begin \in Writings /\ ~Begin.buffer.overflow /\ Begin.buffer.size = EventSize
  /\ Laid(Begin.buffer)
  /\ \A f \in Fields : Holds(Begin, f, NoText)
<1> DEFINE t == Text(EventSize, "EVENT")
<1>1. t \in Texts /\ t.len = EventSize /\ EventSize > 0 /\ EventSize <= BufferMax
  <2>1. EventSize \in Nat \ {0} /\ EventSize <= BufferMax
    BY CodecAssumption DEF ContextRoom
  <2>2. t \in Texts /\ t.len = EventSize
    BY <2>1, TextTypes DEF Contents
  <2> QED
    BY <2>1, <2>2
<1>2. NewBuffer \in Buffers /\ NewBuffer.texts = {} /\ NewBuffer.size = 0 /\ ~NewBuffer.overflow
  BY DEF NewBuffer, Buffers
<1>3. Laid(NewBuffer)
  BY <1>2 DEF Laid
<1> HIDE DEF t
<1>4. ~WriteBytes(NewBuffer, t).overflow
  BY <1>1, <1>2, CodecAssumption DEF WriteBytes
<1>5. /\ WriteBytes(NewBuffer, t) \in Buffers /\ Laid(WriteBytes(NewBuffer, t))
      /\ WriteBytes(NewBuffer, t).size = EventSize
  BY <1>1, <1>2, <1>3, <1>4, WriteBytesType, WriteBytesLays, CodecAssumption
<1>6. Begin.buffer = WriteBytes(NewBuffer, t)
  BY DEF Begin, t
<1>7. Begin.place = [f \in Fields |-> [offset |-> 0, length |-> 0]]
  BY DEF Begin
<1>8. Begin \in Writings
  <2>1. Begin = [buffer |-> Begin.buffer, place |-> Begin.place]
    BY DEF Begin
  <2>2. Begin.place \in Places0
    BY <1>7 DEF Places0
  <2> QED
    BY <1>5, <1>6, <2>1, <2>2 DEF Writings
<1>9. \A f \in Fields : Holds(Begin, f, NoText)
  BY <1>7, TextTypes DEF Holds
<1> QED
  BY <1>4, <1>5, <1>6, <1>8, <1>9

(* A message is one of Messages. *)
LEMMA MessageType ==
  ASSUME NEW w \in Writings, NEW type \in FileTypes \cup ProcessTypes
  PROVE  Message(type, w) \in Messages
<1>1. DriverOperation(type) \in Nat /\ DriverCode(type) \in Nat
  BY DEF DriverOperation, DriverCode, FileTypes, ProcessTypes
<1> QED
  BY <1>1 DEF Message, Messages, Writings, Buffers, Places0

(* get_string_at_offset gives the text of a field back. *)
LEMMA GetStringGives ==
  ASSUME NEW w \in Writings, NEW type, NEW f \in Fields, NEW t \in Texts,
         Laid(w.buffer), Holds(w, f, t)
  PROVE  GetString(Message(type, w), f) = t
<1> DEFINE m == Message(type, w)
<1>1. m.place = w.place /\ m.buffer = w.buffer
  BY DEF Message
<1>2. /\ w.place[f].length = t.len /\ w.place[f].offset \in Nat /\ t.len \in Nat
      /\ w.buffer.size \in Nat /\ HeaderSize \in Nat
  BY TextTypes, CodecAssumption DEF Holds, Writings, Places0, Buffers
<1> HIDE DEF m
<1>3. CASE t.len = 0
  <2>1. GetString(m, f) = NoText
    BY <1>1, <1>2, <1>3 DEF GetString
  <2> QED
    BY <1>3, <2>1, TextTypes DEF m
<1>4. CASE t.len > 0
  <2>1. /\ w.place[f].offset < w.buffer.size
        /\ [at |-> w.place[f].offset, text |-> t] \in w.buffer.texts
    BY <1>4 DEF Holds
  <2>2. GetString(m, f) = TextAt(m, w.place[f].offset, t.len)
    BY <1>1, <1>2, <1>4, <2>1 DEF GetString, Received
  <2>3. \A x \in w.buffer.texts :
          x.at = w.place[f].offset /\ x.text.len = t.len => x.text = t
    <3>1. \A x, y \in w.buffer.texts : x.at = y.at => x = y
      BY DEF Laid
    <3>2. ASSUME NEW x \in w.buffer.texts, x.at = w.place[f].offset
          PROVE  x.text = t
      BY <2>1, <3>1, <3>2
    <3> QED
      BY <3>2
  <2>4. \E x \in w.buffer.texts : x.at = w.place[f].offset /\ x.text.len = t.len
    <3>1. PICK r : r = [at |-> w.place[f].offset, text |-> t]
      OBVIOUS
    <3>2. r \in w.buffer.texts /\ r.at = w.place[f].offset /\ r.text.len = t.len
      BY <2>1, <3>1
    <3> QED
      BY <3>2
  <2>5. TextAt(m, w.place[f].offset, t.len) = t
    BY <1>1, <2>3, <2>4 DEF TextAt
  <2> QED
    BY <2>2, <2>5 DEF m
<1> QED
  BY <1>2, <1>3, <1>4

(* A buffer that has overflowed stays so. *)
LEMMA PutOverflow ==
  ASSUME NEW w, NEW f, NEW t, ~Put(w, f, t).buffer.overflow
  PROVE  ~w.buffer.overflow
<1>1. CASE t.len = 0
  BY <1>1 DEF Put
<1>2. CASE t.len # 0
  <2>1. ~WriteBytes(w.buffer, t).overflow
    BY <1>2 DEF Put
  <2> QED
    BY <2>1 DEF WriteBytes
<1> QED
  BY <1>1, <1>2

(* The messages of the two serializers. *)
LEMMA SerializeType ==
  ASSUME NEW e \in Events
  PROVE  Serialize(e) \in Messages
<1>1. /\ e.type \in FileTypes \cup ProcessTypes /\ e.processPath \in Texts
      /\ e.filePath \in Texts /\ e.commandLine \in Texts /\ e.parentPath \in Texts
  BY DEF Events
<1>2. Begin \in Writings
  BY BeginHolds
<1>3. Put(Begin, "processPath", e.processPath) \in Writings
  BY <1>1, <1>2, PutType DEF Fields
<1>4. SerializeFileEvent(e) \in Messages
  <2>1. Put(Put(Begin, "processPath", e.processPath), "filePath", e.filePath) \in Writings
    BY <1>1, <1>3, PutType DEF Fields
  <2> QED
    BY <1>1, <2>1, MessageType DEF SerializeFileEvent
<1>5. SerializeProcessEvent(e) \in Messages
  <2>1. Put(Put(Begin, "processPath", e.processPath), "commandLine", e.commandLine) \in Writings
    BY <1>1, <1>3, PutType DEF Fields
  <2>2. Put(Put(Put(Begin, "processPath", e.processPath), "commandLine", e.commandLine),
            "parentPath", e.parentPath) \in Writings
    BY <1>1, <2>1, PutType DEF Fields
  <2> QED
    BY <1>1, <2>2, MessageType DEF SerializeProcessEvent
<1> QED
  BY <1>4, <1>5 DEF Serialize

(* The service reads the operation codes as the driver writes them. *)
LEMMA CodesAgree ==
  /\ \A t \in FileTypes : FileOperation(DriverCode(t)) = Name(t)
  /\ \A t \in ProcessTypes : ProcessOperation(DriverCode(t)) = Name(t)
<1>1. FileOperation(DriverCode("CREATE")) = Name("CREATE")
  BY DEF FileOperation, DriverCode, Name
<1>2. FileOperation(DriverCode("READ")) = Name("READ")
  BY DEF FileOperation, DriverCode, Name
<1>3. FileOperation(DriverCode("WRITE")) = Name("WRITE")
  BY DEF FileOperation, DriverCode, Name
<1>4. FileOperation(DriverCode("DELETE")) = Name("DELETE")
  BY DEF FileOperation, DriverCode, Name
<1>5. FileOperation(DriverCode("RENAME")) = Name("RENAME")
  BY DEF FileOperation, DriverCode, Name
<1>6. FileOperation(DriverCode("SET_INFO")) = Name("SET_INFO")
  BY DEF FileOperation, DriverCode, Name
<1>7. FileOperation(DriverCode("CLOSE")) = Name("CLOSE")
  BY DEF FileOperation, DriverCode, Name
<1>8. ProcessOperation(DriverCode("PROCESS_CREATE")) = Name("PROCESS_CREATE")
  BY DEF ProcessOperation, DriverCode, Name
<1>9. ProcessOperation(DriverCode("PROCESS_TERMINATE")) = Name("PROCESS_TERMINATE")
  BY DEF ProcessOperation, DriverCode, Name
<1> QED
  BY <1>1, <1>2, <1>3, <1>4, <1>5, <1>6, <1>7, <1>8, <1>9 DEF FileTypes, ProcessTypes

(* What a file event is when it comes out of its message. *)
LEMMA FileRoundTrip ==
  ASSUME NEW e \in Events, e.type \in FileTypes, ~SerializeFileEvent(e).buffer.overflow
  PROVE  Convert(Parse(SerializeFileEvent(e))) = Report(e)
<1> DEFINE w1 == Put(Begin, "processPath", e.processPath)
           w2 == Put(w1, "filePath", e.filePath)
           m == Message(e.type, w2)
<1>1. e.processPath \in Texts /\ e.filePath \in Texts
  BY DEF Events
<1>2. {"processPath", "filePath"} \subseteq Fields
  BY DEF Fields
<1>3. m = SerializeFileEvent(e) /\ m.buffer = w2.buffer
  BY DEF SerializeFileEvent, Message
<1>4. w1 \in Writings /\ w2 \in Writings
  BY <1>1, <1>2, BeginHolds, PutType
<1> HIDE DEF w2
<1>5. ~w2.buffer.overflow
  BY <1>3
<1> USE DEF w2
<1> HIDE DEF w1
<1>6. w1.buffer.overflow \/ (Laid(w1.buffer) /\ Holds(w1, "processPath", e.processPath)
                              /\ Holds(w1, "filePath", NoText))
  BY <1>1, <1>2, BeginHolds, PutHolds, TextTypes DEF w1
<1>7. ~w1.buffer.overflow
  BY <1>5, PutOverflow
<1>8. Laid(w2.buffer) /\ Holds(w2, "filePath", e.filePath) /\ Holds(w2, "processPath", e.processPath)
  BY <1>1, <1>2, <1>4, <1>5, <1>6, <1>7, PutHolds
<1> HIDE DEF w2, m
<1>9. GetString(m, "processPath") = e.processPath /\ GetString(m, "filePath") = e.filePath
  BY <1>1, <1>2, <1>4, <1>8, GetStringGives DEF m
<1>10. m.operation = 2 /\ m.code = DriverCode(e.type)
  BY DEF m, Message, DriverOperation
<1>11. FileOperation(m.code) = Name(e.type)
  BY <1>10, CodesAgree
<1>12. Parse(m) = [kind |-> "File", operation |-> Name(e.type), processPath |-> e.processPath,
                   filePath |-> e.filePath, commandLine |-> NoText, parentPath |-> NoText]
  BY <1>9, <1>10, <1>11 DEF Parse, ParseFileEvent
<1> QED
  BY <1>3, <1>12 DEF Convert, Report

(* What a process event is when it comes out of its message. *)
LEMMA ProcessRoundTrip ==
  ASSUME NEW e \in Events, e.type \in ProcessTypes, ~SerializeProcessEvent(e).buffer.overflow
  PROVE  Convert(Parse(SerializeProcessEvent(e))) = Report(e)
<1> DEFINE w1 == Put(Begin, "processPath", e.processPath)
           w2 == Put(w1, "commandLine", e.commandLine)
           w3 == Put(w2, "parentPath", e.parentPath)
           m == Message(e.type, w3)
<1>1. e.processPath \in Texts /\ e.commandLine \in Texts /\ e.parentPath \in Texts
  BY DEF Events
<1>2. {"processPath", "commandLine", "parentPath"} \subseteq Fields
  BY DEF Fields
<1>3. m = SerializeProcessEvent(e) /\ m.buffer = w3.buffer
  BY DEF SerializeProcessEvent, Message
<1>4. w1 \in Writings
  BY <1>1, <1>2, BeginHolds, PutType
<1>5. w1.buffer.overflow \/ (/\ Laid(w1.buffer) /\ Holds(w1, "processPath", e.processPath)
                             /\ Holds(w1, "commandLine", NoText) /\ Holds(w1, "parentPath", NoText))
  BY <1>1, <1>2, BeginHolds, PutHolds, TextTypes
<1> HIDE DEF w1
<1>6. w2 \in Writings
  BY <1>1, <1>2, <1>4, PutType
<1>7. w2.buffer.overflow \/ ~w1.buffer.overflow
  BY PutOverflow
<1>8. w2.buffer.overflow \/ (/\ Laid(w2.buffer) /\ Holds(w2, "processPath", e.processPath)
                             /\ Holds(w2, "commandLine", e.commandLine)
                             /\ Holds(w2, "parentPath", NoText))
  BY <1>1, <1>2, <1>4, <1>5, <1>7, PutHolds, TextTypes
<1> HIDE DEF w2
<1>9. w3 \in Writings
  BY <1>1, <1>2, <1>6, PutType
<1>10. ~w3.buffer.overflow /\ ~w2.buffer.overflow
  BY <1>3, PutOverflow
<1>11. /\ Laid(w3.buffer) /\ Holds(w3, "processPath", e.processPath)
       /\ Holds(w3, "commandLine", e.commandLine)
       /\ Holds(w3, "parentPath", e.parentPath)
  BY <1>1, <1>2, <1>6, <1>8, <1>10, PutHolds
<1> HIDE DEF w3, m
<1>12. /\ GetString(m, "processPath") = e.processPath
       /\ GetString(m, "commandLine") = e.commandLine
       /\ GetString(m, "parentPath") = e.parentPath
  BY <1>1, <1>2, <1>9, <1>11, GetStringGives DEF m
<1>13. m.operation = 1 /\ m.code = DriverCode(e.type) /\ e.type \notin FileTypes
  BY DEF m, Message, DriverOperation, FileTypes, ProcessTypes
<1>14. ProcessOperation(m.code) = Name(e.type)
  BY <1>13, CodesAgree
<1>15. Parse(m) = [kind |-> "Process", operation |-> Name(e.type), processPath |-> e.processPath,
                   filePath |-> NoText, commandLine |-> e.commandLine, parentPath |-> e.parentPath]
  BY <1>12, <1>13, <1>14 DEF Parse, ParseProcessEvent
<1> QED
  BY <1>3, <1>13, <1>15 DEF Convert, Report

(* A message that did not overflow its buffer tells the subscriber what    *)
(* happened: the serializers of FileEvent.h and ProcessEvent.h, the parser *)
(* of message_parser.cpp and the conversion of feeder_event_publisher.cpp  *)
(* agree on the layout, for texts of any length.                           *)
THEOREM RoundTrip ==
  ASSUME NEW e \in Events, ~Serialize(e).buffer.overflow
  PROVE  Convert(Parse(Serialize(e))) = Report(e)
<1>1. CASE e.type \in FileTypes
  BY <1>1, FileRoundTrip DEF Serialize
<1>2. CASE e.type \notin FileTypes
  <2>1. e.type \in ProcessTypes
    BY <1>2 DEF Events
  <2> QED
    BY <1>2, <2>1, ProcessRoundTrip DEF Serialize
<1> QED
  BY <1>1, <1>2

(* Put writes the text when there is room for it. *)
LEMMA PutSize ==
  ASSUME NEW w \in Writings, NEW f \in Fields, NEW t \in Texts,
         ~w.buffer.overflow, w.buffer.size + t.len <= BufferMax
  PROVE  /\ ~Put(w, f, t).buffer.overflow
         /\ Put(w, f, t).buffer.size = w.buffer.size + t.len
<1>1. w.buffer \in Buffers /\ w.buffer.size \in Nat /\ t.len \in Nat /\ BufferMax \in Nat
  BY TextTypes, CodecAssumption DEF Writings, Buffers
<1>2. CASE t.len = 0
  BY <1>1, <1>2 DEF Put
<1>3. CASE t.len # 0
  <2>1. Put(w, f, t).buffer = WriteBytes(w.buffer, t)
    BY <1>3 DEF Put
  <2>2. WriteBytes(w.buffer, t)
          = [w.buffer EXCEPT !.texts = @ \cup {[at |-> w.buffer.size, text |-> t]},
                             !.size = @ + t.len]
    BY <1>1, <1>3 DEF WriteBytes
  <2> QED
    BY <1>1, <2>1, <2>2 DEF Buffers
<1> QED
  BY <1>2, <1>3

(* A file event whose paths lie in a context fits the buffers of both      *)
(* programs.                                                               *)
LEMMA FileEventFits ==
  ASSUME NEW e \in Events, e.type \in FileTypes,
         e.processPath.len <= ContextRoom, e.filePath.len <= PathMax
  PROVE  ~Serialize(e).buffer.overflow /\ Fits(Serialize(e))
<1> DEFINE w1 == Put(Begin, "processPath", e.processPath)
           w2 == Put(w1, "filePath", e.filePath)
<1>1. e.processPath \in Texts /\ e.filePath \in Texts
  BY DEF Events
<1>2. "processPath" \in Fields /\ "filePath" \in Fields
  BY DEF Fields
<1>3. /\ e.processPath.len \in Nat /\ e.filePath.len \in Nat
      /\ EventSize \in Nat /\ PathMax \in Nat /\ BufferMax \in Nat /\ ReceiveMax \in Nat
      /\ HeaderSize \in Nat /\ ContextRoom \in Nat
      /\ HeaderSize + EventSize + ContextRoom + PathMax <= ReceiveMax
      /\ EventSize + ContextRoom + PathMax <= BufferMax
  BY <1>1, TextTypes, CodecAssumption DEF ContextRoom
<1>4. w1 \in Writings /\ ~w1.buffer.overflow /\ w1.buffer.size = EventSize + e.processPath.len
  <2>1. /\ Begin \in Writings /\ ~Begin.buffer.overflow /\ Begin.buffer.size = EventSize
    BY BeginHolds
  <2>2. Begin.buffer.size + e.processPath.len <= BufferMax
    BY <1>3, <2>1
  <2> QED
    BY <1>1, <1>2, <2>1, <2>2, PutType, PutSize
<1> HIDE DEF w1
<1>5. w1.buffer.size + e.filePath.len <= BufferMax
  BY <1>3, <1>4
<1>6. ~w2.buffer.overflow /\ w2.buffer.size = EventSize + e.processPath.len + e.filePath.len
  BY <1>1, <1>2, <1>3, <1>4, <1>5, PutSize
<1> HIDE DEF w2
<1>7. Serialize(e) = Message(e.type, w2)
  BY DEF Serialize, SerializeFileEvent, w1, w2
<1>8. Serialize(e).buffer = w2.buffer
  BY <1>7 DEF Message
<1>9. HeaderSize + w2.buffer.size <= ReceiveMax
  BY <1>3, <1>6
<1> QED
  BY <1>6, <1>8, <1>9 DEF Fits, Received

(* A captured name is a text that fits its buffer. *)
LEMMA CaptureType ==
  ASSUME NEW t \in Texts
  PROVE  Capture(t) \in Texts /\ Capture(t).len <= PathMax
<1>1. PathMax \in Nat \ {0} /\ t.len \in Nat
  BY TextTypes, CodecAssumption
<1> QED
  BY <1>1 DEF Capture, Texts

(* What the context holds of an event, and what it does not change. *)
LEMMA PopulateType ==
  ASSUME NEW e \in Events
  PROVE  /\ Populate(e) \in Events /\ Populate(e).type = e.type
         /\ Populate(e).processPath = e.processPath /\ Populate(e).filePath.len <= PathMax
<1>1. e.filePath \in Texts
  BY DEF Events
<1>2. Capture(e.filePath) \in Texts /\ Capture(e.filePath).len <= PathMax
  BY <1>1, CaptureType
<1>3. /\ Text(Capture(e.filePath).len, "garbage") \in Texts
      /\ Text(Capture(e.filePath).len, "garbage").len = Capture(e.filePath).len
  BY <1>2, TextTypes DEF Contents
<1>4. PICK t \in Texts : t.len <= PathMax /\ Populate(e) = [e EXCEPT !.filePath = t]
  BY <1>2, <1>3 DEF Populate
<1> QED
  BY <1>4 DEF Events

(* Whatever message is parsed, the result is an event. *)
LEMMA ParseType ==
  ASSUME NEW m \in Messages
  PROVE  Parse(m) \in Data
<1>1. ASSUME NEW f \in Fields PROVE GetString(m, f) \in Texts
  <2>1. m.place[f].length \in Nat
    BY DEF Messages
  <2>2. Text(m.place[f].length, "garbage") \in Texts
    BY <2>1, TextTypes DEF Contents
  <2>3. ASSUME NEW x \in m.buffer.texts PROVE x.text \in Texts
    BY DEF Messages
  <2>4. TextAt(m, m.place[f].offset, m.place[f].length) \in Texts
    BY <2>2, <2>3 DEF TextAt
  <2> QED
    BY <2>4, TextTypes DEF GetString
<1>2. \A c \in Nat : FileOperation(c) \in Operations /\ ProcessOperation(c) \in Operations
  BY DEF Operations, FileOperation, ProcessOperation
<1>3. m.code \in Nat
  BY DEF Messages
<1>4. /\ GetString(m, "processPath") \in Texts /\ GetString(m, "filePath") \in Texts
      /\ GetString(m, "commandLine") \in Texts /\ GetString(m, "parentPath") \in Texts
      /\ NoText \in Texts
  BY <1>1, TextTypes DEF Fields
<1>5. ParseFileEvent(m) \in Data
  BY <1>2, <1>3, <1>4 DEF ParseFileEvent, Data
<1>6. ParseProcessEvent(m) \in Data
  BY <1>2, <1>3, <1>4 DEF ParseProcessEvent, Data
<1>7. DefaultEvent \in Data
  BY <1>4 DEF DefaultEvent, Data, Operations
<1> QED
  BY <1>5, <1>6, <1>7 DEF Parse

-----------------------------------------------------------------------------
(* The types, and what travels. *)

Said == [id : Ids, stream : {"alert", "log"}, report : {Convert(d) : d \in Data}]

Types ==
  /\ happened \in Seq(Events)
  /\ ring \in Seq(Sent) /\ packets \in Seq(Sent)
  /\ broken \in BOOLEAN /\ (broken => ring = << >>)
  /\ worker \in [Workers -> Sent \cup {Nothing}]
  /\ queue \in Seq(Parsed) /\ Len(queue) <= QueueCapacity
  /\ loop \in [Loops -> Parsed \cup {Nothing}]
  /\ published \in Seq(Said)
  /\ lost \subseteq [id : Ids, why : Losses]

(* What is told of an event: a context holds the paths of a file event. *)
Told(e) == IF e.type \in FileTypes THEN Populate(e) ELSE e

(* A message is what is told of its event in h, serialized and not cut. *)
IsTrue(h, x) ==
  x.message = Serialize(Told(h[x.id])) /\ ~Serialize(Told(h[x.id])).buffer.overflow

(* A parsed event reads as what is told of the event in h it came from. *)
ReadsTrue(h, x) == Convert(x.data) = Report(Told(h[x.id]))

(* A loss is not one of a file event for its size. *)
NotForSize(h, x) ==
  h[x.id].type \in FileTypes => x.why \notin {"overflow", "too long"}

(* The paths of the file events in h are those of a context. *)
AreCaptured(h) ==
  \A i \in 1..Len(h) : h[i].type \in FileTypes =>
    h[i].filePath.len <= PathMax /\ h[i].processPath.len <= ContextRoom

Truth ==
  /\ AreCaptured(happened)
  /\ \A k \in DOMAIN ring : IsTrue(happened, ring[k])
  /\ \A k \in DOMAIN packets : IsTrue(happened, packets[k])
  /\ \A w \in Workers : worker[w] # Nothing => IsTrue(happened, worker[w])
  /\ \A k \in DOMAIN queue : ReadsTrue(happened, queue[k])
  /\ \A l \in Loops : loop[l] # Nothing => ReadsTrue(happened, loop[l])
  /\ \A k \in DOMAIN published : published[k].report = Report(Told(happened[published[k].id]))
  /\ \A x \in lost : NotForSize(happened, x)

(* A thread that holds an event does not hold nothing. *)
LEMMA SomethingHeld == Nothing \notin Sent /\ Nothing \notin Parsed
<1>1. Ids \subseteq Nat
  BY DEF Ids
<1>2. /\ Nothing \notin [id : Nat, message : Messages]
      /\ Nothing \notin [id : Nat, data : Data]
  BY EventPathAssumption
<1>3. Nothing \notin Sent
  BY <1>1, <1>2 DEF Sent
<1>4. Nothing \notin Parsed
  BY <1>1, <1>2 DEF Parsed
<1> QED
  BY <1>3, <1>4

(* What happened stays what it was when one more event happens. *)
LEMMA HappenedGrows ==
  ASSUME Types, NEW e \in Events, happened' = Append(happened, e)
  PROVE  /\ happened' \in Seq(Events)
         /\ Len(happened) + 1 \in Ids' /\ happened'[Len(happened) + 1] = e
         /\ Ids' = Ids \cup {Len(happened) + 1} /\ Len(happened) + 1 \notin Ids
         /\ \A i \in Ids : happened'[i] = happened[i]
         /\ Sent \subseteq Sent' /\ Parsed \subseteq Parsed' /\ Said \subseteq Said'
         /\ [id : Ids, why : Losses] \subseteq [id : Ids', why : Losses]
<1>1. happened \in Seq(Events) /\ Len(happened) \in Nat
  BY DEF Types
<1>2. /\ happened' \in Seq(Events) /\ Len(happened') = Len(happened) + 1
      /\ happened'[Len(happened) + 1] = e
      /\ \A i \in 1..Len(happened) : happened'[i] = happened[i]
  BY <1>1, AppendProperties
<1>3. Ids' = Ids \cup {Len(happened) + 1} /\ Len(happened) + 1 \notin Ids
  BY <1>1, <1>2 DEF Ids
<1>4. Ids \subseteq Ids'
  BY <1>3
<1> QED
  BY <1>2, <1>3, <1>4 DEF Ids, Sent, Parsed, Said

(* An event of the driver with its file name captured is an event. *)
LEMMA CapturedType ==
  ASSUME NEW e \in Events
  PROVE  /\ [e EXCEPT !.filePath = Capture(@)] \in Events
         /\ [e EXCEPT !.filePath = Capture(@)].type = e.type
         /\ [e EXCEPT !.filePath = Capture(@)].filePath.len <= PathMax
         /\ [e EXCEPT !.filePath = Capture(@)].processPath = e.processPath
<1>1. e.filePath \in Texts
  BY DEF Events
<1>2. Capture(e.filePath) \in Texts /\ Capture(e.filePath).len <= PathMax
  BY <1>1, CaptureType
<1> QED
  BY <1>2 DEF Events

(* Capturing a name once more changes nothing, so the same is told of the  *)
(* event that is remembered.                                               *)
LEMMA ToldCaptured ==
  ASSUME NEW e \in Events, e.type \in FileTypes
  PROVE  Told([e EXCEPT !.filePath = Capture(@)]) = Populate(e)
<1> DEFINE c == [e EXCEPT !.filePath = Capture(@)]
<1>1. e.filePath \in Texts /\ PathMax \in Nat
  BY CodecAssumption DEF Events
<1>2. Capture(e.filePath) \in Texts /\ Capture(e.filePath).len <= PathMax
  BY <1>1, CaptureType
<1>3. Capture(Capture(e.filePath)) = Capture(e.filePath)
  BY <1>1, <1>2, TextTypes DEF Capture
<1>d. DOMAIN e = {"type", "processPath", "filePath", "commandLine", "parentPath"}
  BY DEF Events
<1>4. /\ c.type = e.type /\ c.processPath = e.processPath /\ c.filePath = Capture(e.filePath)
      /\ DOMAIN c = DOMAIN e /\ \A x \in DOMAIN e \ {"filePath"} : c[x] = e[x]
  BY <1>d
<1>e. ASSUME NEW t  PROVE [c EXCEPT !.filePath = t] = [e EXCEPT !.filePath = t]
  BY <1>4, <1>d
<1> HIDE DEF c
<1>5. Populate(c) = Populate(e)
  BY <1>3, <1>4, <1>e DEF Populate, Overruns
<1>6. Told(c) = Populate(c)
  BY <1>4 DEF Told
<1> QED
  BY <1>5, <1>6 DEF c

(* What is told of an event is an event, and fits if it is in a context. *)
LEMMA ToldType ==
  ASSUME NEW e \in Events
  PROVE  /\ Told(e) \in Events /\ Told(e).type = e.type
         /\ (/\ e.type \in FileTypes /\ e.processPath.len <= ContextRoom)
              => ~Serialize(Told(e)).buffer.overflow /\ Fits(Serialize(Told(e)))
<1>1. CASE e.type \in FileTypes
  <2>1. /\ Told(e) \in Events /\ Told(e).type = e.type
        /\ Told(e).processPath = e.processPath /\ Told(e).filePath.len <= PathMax
    BY <1>1, PopulateType DEF Told
  <2> QED
    BY <1>1, <2>1, FileEventFits
<1>2. CASE e.type \notin FileTypes
  BY <1>2 DEF Told
<1> QED
  BY <1>1, <1>2

(* A sequence over a set is one over a larger set. *)
LEMMA SeqGrows ==
  ASSUME NEW S, NEW T, S \subseteq T, NEW s \in Seq(S)
  PROVE  s \in Seq(T)
OBVIOUS

(* A new event leaves the types of what travels as they are. *)
LEMMA TypesGrow ==
  ASSUME Types, NEW e \in Events, happened' = Append(happened, e)
  PROVE  /\ ring \in Seq(Sent') /\ packets \in Seq(Sent') /\ queue \in Seq(Parsed')
         /\ published \in Seq(Said') /\ worker \in [Workers -> Sent' \cup {Nothing}]
         /\ loop \in [Loops -> Parsed' \cup {Nothing}]
         /\ lost \subseteq [id : Ids', why : Losses]
<1>1. /\ Sent \subseteq Sent' /\ Parsed \subseteq Parsed' /\ Said \subseteq Said'
      /\ [id : Ids, why : Losses] \subseteq [id : Ids', why : Losses]
  BY HappenedGrows
<1>2. /\ ring \in Seq(Sent) /\ packets \in Seq(Sent) /\ queue \in Seq(Parsed)
      /\ published \in Seq(Said) /\ worker \in [Workers -> Sent \cup {Nothing}]
      /\ loop \in [Loops -> Parsed \cup {Nothing}]
      /\ lost \subseteq [id : Ids, why : Losses]
  BY DEF Types
<1>3. ring \in Seq(Sent') /\ packets \in Seq(Sent')
  BY <1>1, <1>2, SeqGrows
<1>4. queue \in Seq(Parsed') /\ published \in Seq(Said')
  BY <1>1, <1>2, SeqGrows
<1>5. worker \in [Workers -> Sent' \cup {Nothing}] /\ loop \in [Loops -> Parsed' \cup {Nothing}]
  BY <1>1, <1>2
<1> QED
  BY <1>1, <1>2, <1>3, <1>4, <1>5

(* The reasons for a loss. *)
LEMMA LossesAre ==
  /\ "overflow" \in Losses /\ "refused" \in Losses /\ "astray" \in Losses
  /\ "too long" \in Losses /\ "not taken" \in Losses /\ "queue full" \in Losses
BY Zenon DEF Losses

(* A message delivered or lost keeps the types. *)
LEMMA DeliverTypes ==
  ASSUME NEW m, Deliver(m), m \in Sent', packets \in Seq(Sent'), lost \subseteq [id : Ids', why : Losses]
  PROVE  packets' \in Seq(Sent') /\ lost' \subseteq [id : Ids', why : Losses]
<1>1. m.id \in Ids'
  BY DEF Sent
<1>2. [id |-> m.id, why |-> "too long"] \in [id : Ids', why : Losses]
  BY <1>1, LossesAre
<1>3. [id |-> m.id, why |-> "not taken"] \in [id : Ids', why : Losses]
  BY <1>1, LossesAre
<1>4. Append(packets, m) \in Seq(Sent')
  BY AppendProperties
<1> QED
  BY <1>2, <1>3, <1>4 DEF Deliver, Lose

(* FileEvent keeps the types. *)
LEMMA TypesFileEvent ==
  ASSUME Types, NEW e \in Happenings, FileEvent(e)
  PROVE  Types'
<1> DEFINE c == [e EXCEPT !.filePath = Capture(@)]
           m == [id |-> Len(happened) + 1, message |-> Serialize(Populate(e))]
<1>1. c \in Events /\ Populate(e) \in Events
  BY EventPathAssumption, CapturedType, PopulateType
<1>2. happened' = Append(happened, c)
  BY DEF FileEvent
<1> HIDE DEF c
<1>3. Len(happened) + 1 \in Ids' /\ happened' \in Seq(Events)
  BY <1>1, <1>2, HappenedGrows
<1>4. m \in Sent'
  BY <1>1, <1>3, SerializeType DEF Sent
<1>5. /\ ring \in Seq(Sent') /\ packets \in Seq(Sent') /\ queue \in Seq(Parsed')
      /\ published \in Seq(Said') /\ worker \in [Workers -> Sent' \cup {Nothing}]
      /\ loop \in [Loops -> Parsed' \cup {Nothing}]
      /\ lost \subseteq [id : Ids', why : Losses]
  BY <1>1, <1>2, TypesGrow
<1>6. Append(ring, m) \in Seq(Sent')
  BY <1>4, <1>5, AppendProperties
<1>7. \A y \in Losses : [id |-> Len(happened) + 1, why |-> y] \in [id : Ids', why : Losses]
  BY <1>3
<1>8. /\ packets' = packets /\ worker' = worker /\ queue' = queue /\ loop' = loop
      /\ published' = published /\ broken' = broken
      /\ \/ /\ ring' = ring
            /\ \E y \in Losses : lost' = lost \cup {[id |-> Len(happened) + 1, why |-> y]}
         \/ ring' = Append(ring, m) /\ lost' = lost /\ ~broken
  BY LossesAre DEF FileEvent, Lose
<1> HIDE DEF m
<1>9. ring' \in Seq(Sent') /\ lost' \subseteq [id : Ids', why : Losses]
  BY <1>5, <1>6, <1>7, <1>8
<1>10. broken' \in BOOLEAN /\ (broken' => ring' = << >>)
  BY <1>8, Zenon DEF Types
<1> QED
  BY <1>3, <1>5, <1>8, <1>9, <1>10 DEF Types

(* ProcessEvent keeps the types. *)
LEMMA TypesProcessEvent ==
  ASSUME Types, NEW e \in Happenings, ProcessEvent(e)
  PROVE  Types'
<1> DEFINE m == [id |-> Len(happened) + 1, message |-> Serialize(e)]
<1>1. e \in Events
  BY EventPathAssumption
<1>2. happened' = Append(happened, e)
  BY DEF ProcessEvent
<1>3. Len(happened) + 1 \in Ids' /\ happened' \in Seq(Events)
  BY <1>1, <1>2, HappenedGrows
<1>4. m \in Sent'
  BY <1>1, <1>3, SerializeType DEF Sent
<1>5. /\ ring \in Seq(Sent') /\ packets \in Seq(Sent') /\ queue \in Seq(Parsed')
      /\ published \in Seq(Said') /\ worker \in [Workers -> Sent' \cup {Nothing}]
      /\ loop \in [Loops -> Parsed' \cup {Nothing}]
      /\ lost \subseteq [id : Ids', why : Losses]
  BY <1>1, <1>2, TypesGrow
<1>6. [id |-> Len(happened) + 1, why |-> "overflow"] \in [id : Ids', why : Losses]
  BY <1>3, LossesAre
<1>7. /\ ring' = ring /\ worker' = worker /\ queue' = queue /\ loop' = loop
      /\ published' = published /\ broken' = broken
      /\ \/ packets' = packets /\ lost' = lost \cup {[id |-> Len(happened) + 1, why |-> "overflow"]}
         \/ Deliver(m)
  BY DEF ProcessEvent, Lose
<1> HIDE DEF m
<1>8. packets' \in Seq(Sent') /\ lost' \subseteq [id : Ids', why : Losses]
  BY <1>4, <1>5, <1>6, <1>7, DeliverTypes
<1>9. broken' \in BOOLEAN /\ (broken' => ring' = << >>)
  BY <1>7, Zenon DEF Types
<1> QED
  BY <1>3, <1>5, <1>7, <1>8, <1>9 DEF Types

(* What a breaking ring loses. *)
LEMMA BreakLoses ==
  ASSUME Types, RingBreaks
  PROVE  /\ \A x \in lost' : x \in lost \/ \E k \in DOMAIN ring : x = [id |-> ring[k].id, why |-> "astray"]
         /\ \A x \in lost : x \in lost'
         /\ \A k \in DOMAIN ring : [id |-> ring[k].id, why |-> "astray"] \in lost'
         /\ \A k \in DOMAIN ring : ring[k].id \in Ids
<1>1. lost' = lost \cup {[id |-> m.id, why |-> "astray"] : m \in {ring[k] : k \in DOMAIN ring}}
  BY DEF RingBreaks, Members
<1>2. \A k \in DOMAIN ring : ring[k] \in Sent
  BY DEF Types
<1> QED
  BY <1>1, <1>2 DEF Sent

(* The ring breaks; the types stay. *)
LEMMA TypesBreaks ==
  ASSUME Types, RingBreaks
  PROVE  Types' /\ happened' = happened
<1>1. /\ broken' = TRUE /\ ring' = << >>
      /\ UNCHANGED <<happened, packets, worker, queue, loop, published>>
  BY DEF RingBreaks
<1>2. Ids' = Ids /\ Sent' = Sent /\ Parsed' = Parsed /\ Said' = Said
  BY <1>1 DEF Ids, Sent, Parsed, Said
<1>3. lost' \subseteq [id : Ids, why : Losses]
  <2>1. \A k \in DOMAIN ring : [id |-> ring[k].id, why |-> "astray"] \in [id : Ids, why : Losses]
    BY BreakLoses DEF Losses
  <2> QED
    BY <2>1, BreakLoses DEF Types
<1>4. << >> \in Seq(Sent)
  OBVIOUS
<1> QED
  BY <1>1, <1>2, <1>3, <1>4 DEF Types

(* Every other action keeps the types; nothing happens in it. *)
LEMMA TypesOthers ==
  ASSUME Types,
         \/ SendMessage \/ (\E w \in Workers : Dequeue(w) \/ ProcessCompletedIO(w))
         \/ (\E l \in Loops : ReceiveEvent(l) \/ Publish(l)) \/ UNCHANGED vars
  PROVE  Types' /\ happened' = happened
<1>b. broken' = broken /\ (ring' = ring \/ ring # << >>)
  <2>1. CASE SendMessage
    BY <2>1 DEF SendMessage
  <2>2. ASSUME NEW w \in Workers, Dequeue(w) \/ ProcessCompletedIO(w)
        PROVE  broken' = broken /\ ring' = ring
    BY <2>2 DEF Dequeue, ProcessCompletedIO
  <2>3. ASSUME NEW l \in Loops, ReceiveEvent(l) \/ Publish(l)
        PROVE  broken' = broken /\ ring' = ring
    BY <2>3 DEF ReceiveEvent, Publish
  <2>4. CASE UNCHANGED vars
    BY <2>4 DEF vars
  <2> QED
    BY <2>1, <2>2, <2>3, <2>4
<1>c. broken' \in BOOLEAN /\ (broken' => ring' = << >>)
  BY <1>b, Zenon DEF Types
<1> USE DEF Types
<1>0. ASSUME happened' = happened
      PROVE  Ids' = Ids /\ Sent' = Sent /\ Parsed' = Parsed /\ Said' = Said
  BY <1>0 DEF Ids, Sent, Parsed, Said
<1>1. ASSUME SendMessage PROVE Types' /\ happened' = happened
  <2>1. happened' = happened /\ ring # << >> /\ ring' = Tail(ring) /\ Deliver(Head(ring))
    BY <1>1 DEF SendMessage
  <2>2. Head(ring) \in Sent' /\ Tail(ring) \in Seq(Sent')
    BY <2>1, <1>0, HeadTailProperties
  <2>3. packets' \in Seq(Sent') /\ lost' \subseteq [id : Ids', why : Losses]
    BY <2>1, <2>2, <1>0, DeliverTypes
  <2> QED
    BY <1>0, <1>1, <1>c, <2>1, <2>2, <2>3 DEF SendMessage
<1>2. ASSUME NEW w \in Workers, Dequeue(w) PROVE Types' /\ happened' = happened
  <2>1. Head(packets) \in Sent /\ Tail(packets) \in Seq(Sent)
    BY <1>2, HeadTailProperties DEF Dequeue
  <2> QED
    BY <1>0, <1>2, <1>c, <2>1 DEF Dequeue
<1>3. ASSUME NEW w \in Workers, ProcessCompletedIO(w) PROVE Types' /\ happened' = happened
  <2>1. worker[w] \in Sent
    BY <1>3 DEF ProcessCompletedIO
  <2>2. worker[w].id \in Ids /\ worker[w].message \in Messages
    BY <2>1 DEF Sent
  <2>3. [id |-> worker[w].id, data |-> Parse(worker[w].message)] \in Parsed
    BY <2>2, ParseType DEF Parsed
  <2>4. ASSUME Len(queue) < QueueCapacity
        PROVE  /\ Append(queue, [id |-> worker[w].id, data |-> Parse(worker[w].message)]) \in Seq(Parsed)
               /\ Len(Append(queue, [id |-> worker[w].id, data |-> Parse(worker[w].message)])) <= QueueCapacity
    BY <2>3, <2>4, AppendProperties, EventPathAssumption
  <2>5. queue' \in Seq(Parsed) /\ Len(queue') <= QueueCapacity
    BY <1>3, <2>4 DEF ProcessCompletedIO
  <2>6. lost' \subseteq [id : Ids, why : Losses]
    <3>1. [id |-> worker[w].id, why |-> "queue full"] \in [id : Ids, why : Losses]
      BY <2>2, LossesAre
    <3> QED
      BY <1>3, <3>1 DEF ProcessCompletedIO, Lose
  <2>7. worker' \in [Workers -> Sent \cup {Nothing}]
    BY <1>3 DEF ProcessCompletedIO
  <2>8. /\ happened' = happened /\ ring' = ring /\ packets' = packets /\ loop' = loop
        /\ published' = published
    BY <1>3 DEF ProcessCompletedIO
  <2> QED
    BY <1>0, <1>c, <2>5, <2>6, <2>7, <2>8
<1>4. ASSUME NEW l \in Loops, ReceiveEvent(l) PROVE Types' /\ happened' = happened
  <2>1. Head(queue) \in Parsed /\ Tail(queue) \in Seq(Parsed) /\ Len(Tail(queue)) <= QueueCapacity
    BY <1>4, HeadTailProperties, EventPathAssumption DEF ReceiveEvent
  <2> QED
    BY <1>0, <1>4, <1>c, <2>1 DEF ReceiveEvent
<1>5. ASSUME NEW l \in Loops, Publish(l) PROVE Types' /\ happened' = happened
  <2>1. loop[l] \in Parsed
    BY <1>5 DEF Publish
  <2>2. loop[l].id \in Ids /\ loop[l].data \in Data
    BY <2>1 DEF Parsed
  <2>3. PICK stream \in {"alert", "log"} :
          published' = Append(published, [id |-> loop[l].id, stream |-> stream,
                                          report |-> Convert(loop[l].data)])
    BY <1>5 DEF Publish
  <2>4. [id |-> loop[l].id, stream |-> stream, report |-> Convert(loop[l].data)] \in Said
    BY <2>2 DEF Said
  <2>5. published' \in Seq(Said)
    BY <2>3, <2>4, AppendProperties
  <2> QED
    BY <1>0, <1>5, <1>c, <2>5 DEF Publish
<1>6. ASSUME UNCHANGED vars PROVE Types' /\ happened' = happened
  BY <1>0, <1>6, <1>c DEF vars
<1> QED
  BY <1>1, <1>2, <1>3, <1>4, <1>5, <1>6

-----------------------------------------------------------------------------
(* What is published is what happened. *)

(* What held of the events before holds when one more happens. *)
LEMMA TruthGrows ==
  ASSUME Types, Truth, NEW e \in Events, happened' = Append(happened, e),
         e.type \in FileTypes => e.filePath.len <= PathMax /\ e.processPath.len <= ContextRoom
  PROVE  /\ AreCaptured(happened')
         /\ \A k \in DOMAIN ring : IsTrue(happened', ring[k])
         /\ \A k \in DOMAIN packets : IsTrue(happened', packets[k])
         /\ \A w \in Workers : worker[w] # Nothing => IsTrue(happened', worker[w])
         /\ \A k \in DOMAIN queue : ReadsTrue(happened', queue[k])
         /\ \A l \in Loops : loop[l] # Nothing => ReadsTrue(happened', loop[l])
         /\ \A k \in DOMAIN published : published[k].report = Report(Told(happened'[published[k].id]))
         /\ \A x \in lost : NotForSize(happened', x)
<1>1. /\ happened' \in Seq(Events) /\ Ids' = Ids \cup {Len(happened) + 1}
      /\ happened'[Len(happened) + 1] = e
      /\ \A i \in Ids : happened'[i] = happened[i]
  BY HappenedGrows
<1>2. AreCaptured(happened')
  BY <1>1 DEF AreCaptured, Ids, Truth
<1>3. ASSUME NEW x, x.id \in Ids
      PROVE  /\ IsTrue(happened, x) => IsTrue(happened', x)
             /\ ReadsTrue(happened, x) => ReadsTrue(happened', x)
             /\ NotForSize(happened, x) => NotForSize(happened', x)
             /\ x.report = Report(Told(happened[x.id])) => x.report = Report(Told(happened'[x.id]))
  BY <1>1, <1>3 DEF IsTrue, ReadsTrue, NotForSize
<1>4. /\ \A x \in Sent : x.id \in Ids
      /\ \A x \in Parsed : x.id \in Ids
      /\ \A x \in Said : x.id \in Ids
      /\ \A x \in lost : x.id \in Ids
  BY DEF Sent, Parsed, Said, Types
<1>5. /\ \A k \in DOMAIN ring : ring[k] \in Sent
      /\ \A k \in DOMAIN packets : packets[k] \in Sent
      /\ \A w \in Workers : worker[w] # Nothing => worker[w] \in Sent
      /\ \A k \in DOMAIN queue : queue[k] \in Parsed
      /\ \A l \in Loops : loop[l] # Nothing => loop[l] \in Parsed
      /\ \A k \in DOMAIN published : published[k] \in Said
  BY DEF Types
<1> QED
  BY <1>2, <1>3, <1>4, <1>5 DEF Truth

(* A true message that is delivered or lost leaves true messages and no    *)
(* file event lost for its size.                                           *)
LEMMA DeliverTruth ==
  ASSUME NEW h \in Seq(Events), AreCaptured(h), NEW S, packets \in Seq(S),
         \A k \in DOMAIN packets : IsTrue(h, packets[k]),
         \A x \in lost : NotForSize(h, x),
         NEW m \in S, m.id \in 1..Len(h), IsTrue(h, m), Deliver(m)
  PROVE  /\ \A k \in DOMAIN packets' : IsTrue(h, packets'[k])
         /\ \A x \in lost' : NotForSize(h, x)
<1>1. NotForSize(h, [id |-> m.id, why |-> "not taken"])
  BY DEF NotForSize
<1>2. ASSUME ~Fits(m.message) PROVE NotForSize(h, [id |-> m.id, why |-> "too long"])
  <2>1. h[m.id] \in Events
    OBVIOUS
  <2>2. h[m.id].type \notin FileTypes
    BY <1>2, <2>1, ToldType DEF IsTrue, AreCaptured
  <2> QED
    BY <2>2 DEF NotForSize
<1>3. /\ DOMAIN Append(packets, m) = 1..Len(packets) + 1
      /\ Append(packets, m)[Len(packets) + 1] = m
      /\ \A k \in 1..Len(packets) : Append(packets, m)[k] = packets[k]
      /\ DOMAIN packets = 1..Len(packets) /\ Len(packets) \in Nat
  BY AppendProperties
<1>4. \A k \in DOMAIN Append(packets, m) : IsTrue(h, Append(packets, m)[k])
  BY <1>3
<1>5. \/ packets' = Append(packets, m) /\ lost' = lost
      \/ /\ packets' = packets /\ ~Fits(m.message)
         /\ lost' = lost \cup {[id |-> m.id, why |-> "too long"]}
      \/ packets' = packets /\ lost' = lost \cup {[id |-> m.id, why |-> "not taken"]}
  BY DEF Deliver, Lose
<1> QED
  BY <1>1, <1>2, <1>4, <1>5

(* FileEvent sends the truth. *)
LEMMA TruthFileEvent ==
  ASSUME Types, Truth, NEW e \in Happenings, FileEvent(e)
  PROVE  Truth'
<1> DEFINE c == [e EXCEPT !.filePath = Capture(@)]
           n == Len(happened) + 1
           m == [id |-> n, message |-> Serialize(Populate(e))]
<1>0. e \in Events /\ e.type \in FileTypes /\ e.processPath.len <= ContextRoom
  BY EventPathAssumption DEF FileEvent
<1>1. /\ c \in Events /\ c.type \in FileTypes /\ c.filePath.len <= PathMax
      /\ c.processPath.len <= ContextRoom /\ Told(c) = Populate(e)
  BY <1>0, CapturedType, ToldCaptured
<1>2. happened' = Append(happened, c)
  BY DEF FileEvent
<1>o. ~m.message.buffer.overflow
  BY <1>1, ToldType
<1>3. /\ packets' = packets /\ worker' = worker /\ queue' = queue /\ loop' = loop
      /\ published' = published
      /\ \/ /\ ring' = ring
            /\ \E y \in {"refused", "astray"} : lost' = lost \cup {[id |-> n, why |-> y]}
         \/ ring' = Append(ring, m) /\ lost' = lost
  BY <1>o DEF FileEvent, Lose
<1> HIDE DEF c
<1>4. /\ AreCaptured(happened')
      /\ \A k \in DOMAIN ring : IsTrue(happened', ring[k])
      /\ \A k \in DOMAIN packets : IsTrue(happened', packets[k])
      /\ \A w \in Workers : worker[w] # Nothing => IsTrue(happened', worker[w])
      /\ \A k \in DOMAIN queue : ReadsTrue(happened', queue[k])
      /\ \A l \in Loops : loop[l] # Nothing => ReadsTrue(happened', loop[l])
      /\ \A k \in DOMAIN published : published[k].report = Report(Told(happened'[published[k].id]))
      /\ \A x \in lost : NotForSize(happened', x)
  BY <1>1, <1>2, TruthGrows
<1>5. happened'[n] = c
  BY <1>1, <1>2, HappenedGrows
<1>6. IsTrue(happened', m)
  BY <1>1, <1>5, <1>o DEF IsTrue
<1>7. \A y \in {"refused", "astray"} : NotForSize(happened', [id |-> n, why |-> y])
  BY DEF NotForSize
<1> HIDE DEF m, n
<1>8. /\ DOMAIN Append(ring, m) = 1..Len(ring) + 1
      /\ Append(ring, m)[Len(ring) + 1] = m
      /\ \A k \in 1..Len(ring) : Append(ring, m)[k] = ring[k]
      /\ DOMAIN ring = 1..Len(ring) /\ Len(ring) \in Nat
  BY AppendProperties DEF Types
<1>9. /\ \A k \in DOMAIN ring' : IsTrue(happened', ring'[k])
      /\ \A x \in lost' : NotForSize(happened', x)
  <2>1. CASE ring' = ring /\ \E y \in {"refused", "astray"} : lost' = lost \cup {[id |-> n, why |-> y]}
    BY <1>4, <1>7, <2>1
  <2>2. CASE ring' = Append(ring, m) /\ lost' = lost
    BY <1>4, <1>6, <1>8, <2>2
  <2> QED
    BY <1>3, <2>1, <2>2
<1> QED
  BY <1>3, <1>4, <1>9 DEF Truth

(* ProcessEvent sends the truth. *)
LEMMA TruthProcessEvent ==
  ASSUME Types, Truth, NEW e \in Happenings, ProcessEvent(e)
  PROVE  Truth'
<1> DEFINE n == Len(happened) + 1
           m == [id |-> n, message |-> Serialize(e)]
<1>1. e \in Events /\ e.type \notin FileTypes
  BY EventPathAssumption DEF ProcessEvent, FileTypes, ProcessTypes
<1>2. happened' = Append(happened, e)
  BY DEF ProcessEvent
<1>3. /\ ring' = ring /\ worker' = worker /\ queue' = queue /\ loop' = loop
      /\ published' = published
      /\ \/ packets' = packets /\ lost' = lost \cup {[id |-> n, why |-> "overflow"]}
         \/ Deliver(m) /\ ~Serialize(e).buffer.overflow
  BY DEF ProcessEvent, Lose
<1>4. /\ AreCaptured(happened')
      /\ \A k \in DOMAIN ring : IsTrue(happened', ring[k])
      /\ \A k \in DOMAIN packets : IsTrue(happened', packets[k])
      /\ \A w \in Workers : worker[w] # Nothing => IsTrue(happened', worker[w])
      /\ \A k \in DOMAIN queue : ReadsTrue(happened', queue[k])
      /\ \A l \in Loops : loop[l] # Nothing => ReadsTrue(happened', loop[l])
      /\ \A k \in DOMAIN published : published[k].report = Report(Told(happened'[published[k].id]))
      /\ \A x \in lost : NotForSize(happened', x)
  BY <1>1, <1>2, TruthGrows
<1>5. happened' \in Seq(Events) /\ happened'[n] = e /\ n \in 1..Len(happened')
  BY <1>1, <1>2, HappenedGrows DEF Ids
<1>6. ~Serialize(e).buffer.overflow => IsTrue(happened', m)
  BY <1>1, <1>5 DEF IsTrue, Told
<1>7. NotForSize(happened', [id |-> n, why |-> "overflow"])
  BY <1>1, <1>5 DEF NotForSize
<1>8. m \in Sent' /\ packets \in Seq(Sent') /\ m.id = n
  BY <1>1, <1>2, <1>5, TypesGrow, SerializeType DEF Sent, Ids
<1> HIDE DEF m, n
<1>9. /\ \A k \in DOMAIN packets' : IsTrue(happened', packets'[k])
      /\ \A x \in lost' : NotForSize(happened', x)
  <2>1. CASE packets' = packets /\ lost' = lost \cup {[id |-> n, why |-> "overflow"]}
    BY <1>4, <1>7, <2>1
  <2>2. CASE Deliver(m) /\ ~Serialize(e).buffer.overflow
    BY <1>4, <1>5, <1>6, <1>8, <2>2, DeliverTruth
  <2> QED
    BY <1>3, <2>1, <2>2
<1> QED
  BY <1>3, <1>4, <1>9 DEF Truth

(* What is ahead in a sequence and what is behind it, for one that is not  *)
(* empty.                                                                  *)
LEMMA HeadTail ==
  ASSUME NEW S, NEW s \in Seq(S), s # << >>
  PROVE  /\ Head(s) = s[1] /\ Head(s) \in S /\ 1 \in DOMAIN s
         /\ Tail(s) \in Seq(S) /\ Len(Tail(s)) = Len(s) - 1 /\ Len(s) \in Nat
         /\ DOMAIN s = 1..Len(s) /\ DOMAIN Tail(s) = 1..Len(s) - 1
         /\ \A k \in DOMAIN Tail(s) : Tail(s)[k] = s[k + 1] /\ k + 1 \in DOMAIN s
BY HeadTailProperties, EmptySeq

(* A breaking ring leaves the truth in the other places. *)
LEMMA TruthBreaks ==
  ASSUME Types, Truth, RingBreaks
  PROVE  Truth'
<1>1. ring' = << >> /\ UNCHANGED <<happened, packets, worker, queue, loop, published>>
  BY DEF RingBreaks
<1>2. \A x \in lost' : NotForSize(happened, x)
  <2>1. \A n : NotForSize(happened, [id |-> n, why |-> "astray"])
    BY DEF NotForSize
  <2> QED
    BY <2>1, BreakLoses DEF Truth
<1> QED
  BY <1>1, <1>2 DEF Truth

(* The service hands on the truth. *)
LEMMA TruthOthers ==
  ASSUME Types, Truth,
         \/ SendMessage \/ (\E w \in Workers : Dequeue(w) \/ ProcessCompletedIO(w))
         \/ (\E l \in Loops : ReceiveEvent(l) \/ Publish(l)) \/ UNCHANGED vars
  PROVE  Truth'
<1>1. ASSUME SendMessage PROVE Truth'
  <2>1. /\ ring # << >> /\ ring' = Tail(ring) /\ Deliver(Head(ring))
        /\ UNCHANGED <<happened, worker, queue, loop, published, together>>
    BY <1>1 DEF SendMessage
  <2>2. /\ Head(ring) = ring[1] /\ Head(ring) \in Sent /\ 1 \in DOMAIN ring
        /\ \A k \in DOMAIN Tail(ring) : Tail(ring)[k] = ring[k + 1] /\ k + 1 \in DOMAIN ring
    BY <2>1, HeadTail DEF Types
  <2>3. IsTrue(happened, Head(ring)) /\ Head(ring).id \in 1..Len(happened)
    BY <2>2 DEF Truth, Sent, Ids
  <2>4. /\ \A k \in DOMAIN packets' : IsTrue(happened, packets'[k])
        /\ \A x \in lost' : NotForSize(happened, x)
    <3>1. happened \in Seq(Events) /\ AreCaptured(happened) /\ packets \in Seq(Sent)
      BY DEF Types, Truth
    <3>2. /\ \A k \in DOMAIN packets : IsTrue(happened, packets[k])
          /\ \A x \in lost : NotForSize(happened, x)
      BY DEF Truth
    <3> QED
      BY <2>1, <2>2, <2>3, <3>1, <3>2, DeliverTruth
  <2>5. \A k \in DOMAIN ring' : IsTrue(happened, ring'[k])
    BY <2>1, <2>2 DEF Truth
  <2> QED
    BY <2>1, <2>4, <2>5 DEF Truth
<1>2. ASSUME NEW w \in Workers, Dequeue(w) PROVE Truth'
  <2>1. /\ packets # << >> /\ packets' = Tail(packets)
        /\ worker' = [worker EXCEPT ![w] = Head(packets)]
        /\ UNCHANGED <<happened, ring, queue, loop, published, lost>>
    BY <1>2 DEF Dequeue
  <2>2. /\ Head(packets) = packets[1] /\ 1 \in DOMAIN packets
        /\ \A k \in DOMAIN Tail(packets) :
             Tail(packets)[k] = packets[k + 1] /\ k + 1 \in DOMAIN packets
    BY <2>1, HeadTail DEF Types
  <2>3. \A k \in DOMAIN packets' : IsTrue(happened, packets'[k])
    BY <2>1, <2>2 DEF Truth
  <2>4. \A v \in Workers : worker'[v] # Nothing => IsTrue(happened, worker'[v])
    BY <2>1, <2>2 DEF Truth, Types
  <2> QED
    BY <2>1, <2>3, <2>4 DEF Truth
<1>3. ASSUME NEW w \in Workers, ProcessCompletedIO(w) PROVE Truth'
  <2> DEFINE m == worker[w]
             x == [id |-> m.id, data |-> Parse(m.message)]
  <2>1. /\ m # Nothing /\ worker' = [worker EXCEPT ![w] = Nothing]
        /\ \/ queue' = Append(queue, x) /\ lost' = lost
           \/ queue' = queue /\ lost' = lost \cup {[id |-> m.id, why |-> "queue full"]}
        /\ UNCHANGED <<happened, ring, packets, loop, published, together>>
    BY <1>3 DEF ProcessCompletedIO, Lose
  <2>2. IsTrue(happened, m) /\ m \in Sent
    BY <2>1 DEF Truth, Types
  <2>3. happened[m.id] \in Events
    BY <2>2 DEF Sent, Ids, Types
  <2>4. ReadsTrue(happened, x)
    BY <2>2, <2>3, RoundTrip, ToldType DEF IsTrue, ReadsTrue
  <2> HIDE DEF x
  <2>5. \A k \in DOMAIN queue' : ReadsTrue(happened, queue'[k])
    <3>1. CASE queue' = queue
      BY <3>1 DEF Truth
    <3>2. CASE queue' = Append(queue, x)
      <4>1. /\ DOMAIN Append(queue, x) = 1..Len(queue) + 1
            /\ Append(queue, x)[Len(queue) + 1] = x
            /\ \A k \in 1..Len(queue) : Append(queue, x)[k] = queue[k]
            /\ DOMAIN queue = 1..Len(queue) /\ Len(queue) \in Nat
        BY AppendProperties DEF Types
      <4> QED
        BY <2>4, <3>2, <4>1 DEF Truth
    <3> QED
      BY <2>1, <3>1, <3>2
  <2>6. \A y \in lost' : NotForSize(happened, y)
    <3>1. NotForSize(happened, [id |-> m.id, why |-> "queue full"])
      BY DEF NotForSize
    <3> QED
      BY <2>1, <3>1 DEF Truth
  <2>7. \A v \in Workers : worker'[v] # Nothing => IsTrue(happened, worker'[v])
    BY <2>1 DEF Truth, Types
  <2> QED
    BY <2>1, <2>5, <2>6, <2>7 DEF Truth
<1>4. ASSUME NEW l \in Loops, ReceiveEvent(l) PROVE Truth'
  <2>1. /\ queue # << >> /\ queue' = Tail(queue)
        /\ loop' = [loop EXCEPT ![l] = Head(queue)]
        /\ UNCHANGED <<happened, ring, packets, worker, published, lost>>
    BY <1>4 DEF ReceiveEvent
  <2>2. /\ Head(queue) = queue[1] /\ 1 \in DOMAIN queue
        /\ \A k \in DOMAIN Tail(queue) :
             Tail(queue)[k] = queue[k + 1] /\ k + 1 \in DOMAIN queue
    BY <2>1, HeadTail DEF Types
  <2>3. \A k \in DOMAIN queue' : ReadsTrue(happened, queue'[k])
    BY <2>1, <2>2 DEF Truth
  <2>4. \A v \in Loops : loop'[v] # Nothing => ReadsTrue(happened, loop'[v])
    BY <2>1, <2>2 DEF Truth, Types
  <2> QED
    BY <2>1, <2>3, <2>4 DEF Truth
<1>5. ASSUME NEW l \in Loops, Publish(l) PROVE Truth'
  <2>1. PICK stream \in {"alert", "log"} :
          published' = Append(published, [id |-> loop[l].id, stream |-> stream,
                                          report |-> Convert(loop[l].data)])
    BY <1>5 DEF Publish
  <2>2. /\ loop[l] # Nothing /\ loop' = [loop EXCEPT ![l] = Nothing]
        /\ UNCHANGED <<happened, ring, packets, worker, queue, lost, together>>
    BY <1>5 DEF Publish
  <2>3. PICK r : r = [id |-> loop[l].id, stream |-> stream, report |-> Convert(loop[l].data)]
    OBVIOUS
  <2>4. r.report = Report(Told(happened[r.id]))
    BY <2>2, <2>3 DEF Truth, ReadsTrue
  <2>5. /\ DOMAIN Append(published, r) = 1..Len(published) + 1
        /\ Append(published, r)[Len(published) + 1] = r
        /\ \A k \in 1..Len(published) : Append(published, r)[k] = published[k]
        /\ DOMAIN published = 1..Len(published) /\ Len(published) \in Nat
    BY AppendProperties DEF Types
  <2>6. \A k \in DOMAIN published' : published'[k].report = Report(Told(happened[published'[k].id]))
    BY <2>1, <2>3, <2>4, <2>5 DEF Truth
  <2>7. \A v \in Loops : loop'[v] # Nothing => ReadsTrue(happened, loop'[v])
    BY <2>2 DEF Truth, Types
  <2> QED
    BY <2>2, <2>6, <2>7 DEF Truth
<1>6. ASSUME UNCHANGED vars PROVE Truth'
  BY <1>6 DEF vars, Truth
<1> QED
  BY <1>1, <1>2, <1>3, <1>4, <1>5, <1>6

(* The actions of Next. *)
LEMMA NextCases ==
  ASSUME [Next]_vars
  PROVE  \/ \E e \in Happenings : FileEvent(e)
         \/ \E e \in Happenings : ProcessEvent(e)
         \/ RingBreaks
         \/ SendMessage \/ (\E w \in Workers : Dequeue(w) \/ ProcessCompletedIO(w))
         \/ (\E l \in Loops : ReceiveEvent(l) \/ Publish(l)) \/ UNCHANGED vars
BY DEF Next

(* The types and the truth hold before anything happens. *)
LEMMA TruthInit == Init => Types /\ Truth
<1> SUFFICES ASSUME Init PROVE Types /\ Truth
  OBVIOUS
<1>1. Types
  <2>1. broken \in BOOLEAN /\ (broken => ring = << >>)
    BY Zenon DEF Init
  <2> QED
    BY <2>1, EventPathAssumption DEF Init, Types
<1>2. Truth
  BY DEF Init, Truth, AreCaptured
<1> QED
  BY <1>1, <1>2

(* Every step keeps them. *)
LEMMA TruthStep == Types /\ Truth /\ [Next]_vars => Types' /\ Truth'
<1> SUFFICES ASSUME Types, Truth, [Next]_vars PROVE Types' /\ Truth'
  OBVIOUS
<1>1. CASE \E e \in Happenings : FileEvent(e)
  BY <1>1, TypesFileEvent, TruthFileEvent
<1>2. CASE \E e \in Happenings : ProcessEvent(e)
  BY <1>2, TypesProcessEvent, TruthProcessEvent
<1>3. CASE \/ SendMessage \/ (\E w \in Workers : Dequeue(w) \/ ProcessCompletedIO(w))
           \/ (\E l \in Loops : ReceiveEvent(l) \/ Publish(l)) \/ UNCHANGED vars
  BY <1>3, TypesOthers, TruthOthers
<1>4. CASE RingBreaks
  BY <1>4, TypesBreaks, TruthBreaks
<1> QED
  BY <1>1, <1>2, <1>3, <1>4, NextCases

(* What a subscriber reads is true of the event, but for the file name that *)
(* an image path has overrun.                                              *)
LEMMA ToldIsTrue ==
  ASSUME NEW e \in Events, e.type \in FileTypes => e.filePath.len <= PathMax
  PROVE  Report(Told(e)) = IF Overruns(e)
                           THEN [Report(e) EXCEPT !.resource = Report(Told(e)).resource]
                           ELSE Report(e)
<1>1. CASE e.type \notin FileTypes
  BY <1>1 DEF Told, Overruns
<1>2. CASE e.type \in FileTypes
  <2>1. PICK t : Told(e) = [e EXCEPT !.filePath = t] /\ (~Overruns(e) => t = e.filePath)
    <3>1. e.filePath \in Texts /\ PathMax \in Nat
      BY CodecAssumption DEF Events
    <3>2. Capture(e.filePath) = e.filePath
      BY <1>2, <3>1, TextTypes DEF Capture
    <3> QED
      BY <1>2, <3>2 DEF Told, Populate
  <2>2. /\ Told(e).type = e.type /\ Told(e).processPath = e.processPath /\ Told(e).filePath = t
        /\ (t = e.filePath => Told(e) = e)
    BY <2>1 DEF Events
  <2>3. Report(Told(e)) = [Report(e) EXCEPT !.resource = t]
    BY <1>2, <2>2 DEF Report
  <2>4. Report(Told(e)).resource = t
    BY <1>2, <2>2 DEF Report
  <2> QED
    BY <2>1, <2>2, <2>3, <2>4
<1> QED
  BY <1>1, <1>2

(* What subscribers read is what happened (PublishedIsTrue): no layout,    *)
(* offset or operation code of the two programs differs, whatever happens  *)
(* and however long its texts are, but that the file name is not claimed   *)
(* where the image path was longer than its buffer.                        *)
THEOREM SubscribersReadTruth == Spec => []PublishedIsTrue
<1>1. Types /\ Truth => PublishedIsTrue
  <2> SUFFICES ASSUME Types, Truth, NEW k \in DOMAIN published
               PROVE  LET e == happened[published[k].id]
                          r == published[k].report IN
                      r = IF Overruns(e) THEN [Report(e) EXCEPT !.resource = r.resource]
                                         ELSE Report(e)
    BY DEF PublishedIsTrue
  <2>0. published[k] \in Said
    BY DEF Types
  <2>1. published[k].id \in 1..Len(happened) /\ happened \in Seq(Events)
    BY <2>0 DEF Types, Said, Ids
  <2>2. PICK e \in Events : e = happened[published[k].id]
    BY <2>1
  <2>3. e.type \in FileTypes => e.filePath.len <= PathMax
    BY <2>1, <2>2 DEF Truth, AreCaptured
  <2>4. published[k].report = Report(Told(e))
    BY <2>2 DEF Truth
  <2> QED
    BY <2>2, <2>3, <2>4, ToldIsTrue
<1> QED
  BY <1>1, TruthInit, TruthStep, PTL DEF Spec

-----------------------------------------------------------------------------
(* Who may overtake whom. *)

(* The events in a sequence, and those held by threads. *)
IdsOf(s) == {s[k].id : k \in DOMAIN s}
HeldIds(f, D) == {f[d].id : d \in {c \in D : f[c] # Nothing}}

(* Event a may come before event b, given what happened and who met. *)
MayLead(h, t, a, b) ==
  b < a => {a, b} \in t \/ (h[a].type \in ProcessTypes /\ h[b].type \in FileTypes)
Ahead(h, t, A, B) == \A a \in A, b \in B : MayLead(h, t, a, b)
Ordered(h, t, s) == \A j, k \in DOMAIN s : j < k => MayLead(h, t, s[j].id, s[k].id)
Met(t, f, D) ==
  \A c, d \in D : c # d /\ f[c] # Nothing /\ f[d] # Nothing => {f[c].id, f[d].id} \in t

(* The stages of the way, the later one first. *)
Stage(n) ==
  CASE n = 0 -> IdsOf(ring) [] n = 1 -> IdsOf(packets) [] n = 2 -> HeldIds(worker, Workers)
    [] n = 3 -> IdsOf(queue) [] n = 4 -> HeldIds(loop, Loops) [] n = 5 -> IdsOf(published)

Order ==
  /\ \A j, k \in DOMAIN ring : j < k => ring[j].id < ring[k].id
  /\ \A k \in DOMAIN ring : happened[ring[k].id].type \in FileTypes
  /\ Ordered(happened, together, packets) /\ Ordered(happened, together, queue)
  /\ Ordered(happened, together, published)
  /\ Met(together, worker, Workers) /\ Met(together, loop, Loops)
  /\ \A m, n \in 0..5 : m < n => Ahead(happened, together, Stage(n), Stage(m))

(* The events of a sequence that grows or shrinks. *)
LEMMA IdsOfAppend ==
  ASSUME NEW S, NEW s \in Seq(S), NEW x \in S
  PROVE  IdsOf(Append(s, x)) = IdsOf(s) \cup {x.id}
<1>1. /\ DOMAIN Append(s, x) = 1..Len(s) + 1 /\ Append(s, x)[Len(s) + 1] = x
      /\ \A k \in 1..Len(s) : Append(s, x)[k] = s[k]
      /\ DOMAIN s = 1..Len(s) /\ Len(s) \in Nat
  BY AppendProperties
<1>2. IdsOf(Append(s, x)) \subseteq IdsOf(s) \cup {x.id}
  BY <1>1 DEF IdsOf
<1>3. IdsOf(s) \subseteq IdsOf(Append(s, x))
  BY <1>1 DEF IdsOf
<1>4. x.id \in IdsOf(Append(s, x))
  BY <1>1 DEF IdsOf
<1> QED
  BY <1>2, <1>3, <1>4

(* What leaves at the head was there, and so was what stays. *)
LEMMA IdsOfTail ==
  ASSUME NEW S, NEW s \in Seq(S), s # << >>
  PROVE  Head(s).id \in IdsOf(s) /\ IdsOf(Tail(s)) \subseteq IdsOf(s)
BY HeadTail DEF IdsOf

(* A thread that is given something, or nothing, to hold. *)
LEMMA HeldIdsSet ==
  ASSUME NEW D, NEW f, f = [d \in D |-> f[d]], NEW d \in D, NEW x
  PROVE  HeldIds([f EXCEPT ![d] = x], D) \subseteq HeldIds(f, D) \cup (IF x = Nothing THEN {} ELSE {x.id})
<1> DEFINE g == [f EXCEPT ![d] = x]
<1>1. \A c \in D : g[c] = IF c = d THEN x ELSE f[c]
  OBVIOUS
<1> HIDE DEF g
<1>2. ASSUME NEW c \in D, g[c] # Nothing
      PROVE  g[c].id \in HeldIds(f, D) \cup (IF x = Nothing THEN {} ELSE {x.id})
  <2>1. CASE c = d
    BY <1>1, <1>2, <2>1
  <2>2. CASE c # d
    BY <1>1, <1>2, <2>2 DEF HeldIds
  <2> QED
    BY <2>1, <2>2
<1>3. HeldIds(g, D) \subseteq HeldIds(f, D) \cup (IF x = Nothing THEN {} ELSE {x.id})
  BY <1>2 DEF HeldIds
<1> QED
  BY <1>3 DEF g

(* Order in a sequence that grows at its end or shrinks at its head. *)
LEMMA OrderedAppend ==
  ASSUME NEW S, NEW s \in Seq(S), NEW x \in S, NEW h, NEW t,
         Ordered(h, t, s), Ahead(h, t, IdsOf(s), {x.id})
  PROVE  Ordered(h, t, Append(s, x))
<1>1. /\ DOMAIN Append(s, x) = 1..Len(s) + 1 /\ Append(s, x)[Len(s) + 1] = x
      /\ \A k \in 1..Len(s) : Append(s, x)[k] = s[k]
      /\ DOMAIN s = 1..Len(s) /\ Len(s) \in Nat
  BY AppendProperties
<1>2. \A k \in 1..Len(s) : MayLead(h, t, s[k].id, x.id)
  BY <1>1 DEF Ahead, IdsOf
<1>3. \A j, k \in 1..Len(s) : j < k => MayLead(h, t, s[j].id, s[k].id)
  BY <1>1 DEF Ordered
<1> QED
  BY <1>1, <1>2, <1>3 DEF Ordered

(* The head of a sequence may come before the rest of it. *)
LEMMA OrderedTail ==
  ASSUME NEW S, NEW s \in Seq(S), s # << >>, NEW h, NEW t, Ordered(h, t, s)
  PROVE  Ordered(h, t, Tail(s)) /\ Ahead(h, t, {Head(s).id}, IdsOf(Tail(s)))
<1>1. /\ Head(s) = s[1] /\ 1 \in DOMAIN s
      /\ DOMAIN s = 1..Len(s) /\ DOMAIN Tail(s) = 1..Len(s) - 1 /\ Len(s) \in Nat
      /\ \A k \in DOMAIN Tail(s) : Tail(s)[k] = s[k + 1] /\ k + 1 \in DOMAIN s
  BY HeadTail
<1>2. \A j, k \in DOMAIN s : j < k => MayLead(h, t, s[j].id, s[k].id)
  BY DEF Ordered
<1>3. ASSUME NEW j \in DOMAIN Tail(s), NEW k \in DOMAIN Tail(s), j < k
      PROVE  MayLead(h, t, Tail(s)[j].id, Tail(s)[k].id)
  BY <1>1, <1>2, <1>3
<1>4. ASSUME NEW k \in DOMAIN Tail(s) PROVE MayLead(h, t, Head(s).id, Tail(s)[k].id)
  BY <1>1, <1>2
<1> QED
  BY <1>3, <1>4 DEF Ordered, Ahead, IdsOf

(* Who met stays met, and what happened stays what it was. *)
LEMMA LeadGrows ==
  ASSUME NEW h, NEW g, NEW t, NEW u, t \subseteq u, NEW I, \A i \in I : g[i] = h[i]
  PROVE  /\ \A a, b \in I : MayLead(h, t, a, b) => MayLead(g, u, a, b)
         /\ \A A, B \in SUBSET I : Ahead(h, t, A, B) => Ahead(g, u, A, B)
<1>1. \A a, b \in I : MayLead(h, t, a, b) => MayLead(g, u, a, b)
  BY DEF MayLead
<1> QED
  BY <1>1 DEF Ahead

(* Order in a sequence when more happens or more have met. *)
LEMMA OrderedGrows ==
  ASSUME NEW h, NEW g, NEW t, NEW u, t \subseteq u, NEW I, \A i \in I : g[i] = h[i],
         NEW s, IdsOf(s) \subseteq I, Ordered(h, t, s)
  PROVE  Ordered(g, u, s)
BY LeadGrows DEF Ordered, IdsOf

(* A thread that takes up an event meets the others that hold one. *)
LEMMA MetSet ==
  ASSUME NEW D, NEW f, f = [c \in D |-> f[c]], NEW d \in D, NEW x, NEW t, NEW u, t \subseteq u,
         Met(t, f, D), x = Nothing \/ \A i \in HeldIds(f, D) : {x.id, i} \in u
  PROVE  Met(u, [f EXCEPT ![d] = x], D)
<1> DEFINE g == [f EXCEPT ![d] = x]
<1>1. \A c \in D : g[c] = IF c = d THEN x ELSE f[c]
  OBVIOUS
<1> HIDE DEF g
<1>2. ASSUME NEW a \in D, NEW b \in D, a # b, g[a] # Nothing, g[b] # Nothing
      PROVE  {g[a].id, g[b].id} \in u
  <2>1. CASE a # d /\ b # d
    BY <1>1, <1>2, <2>1 DEF Met
  <2>2. CASE a = d
    BY <1>1, <1>2, <2>2 DEF HeldIds
  <2>3. CASE b = d
    <3>1. {x.id, g[a].id} \in u
      BY <1>1, <1>2, <2>3 DEF HeldIds
    <3>2. {x.id, g[a].id} = {g[a].id, x.id}
      OBVIOUS
    <3> QED
      BY <1>1, <2>3, <3>1, <3>2
  <2> QED
    BY <2>1, <2>2, <2>3
<1> QED
  BY <1>2 DEF Met, g

(* A thread that gives up its event may come before those it has met. *)
LEMMA MetLeads ==
  ASSUME NEW D, NEW f, f = [c \in D |-> f[c]], NEW d \in D, f[d] # Nothing,
         NEW h, NEW t, Met(t, f, D)
  PROVE  /\ f[d].id \in HeldIds(f, D)
         /\ Ahead(h, t, {f[d].id}, HeldIds([f EXCEPT ![d] = Nothing], D))
<1> DEFINE g == [f EXCEPT ![d] = Nothing]
<1>1. \A c \in D : g[c] = IF c = d THEN Nothing ELSE f[c]
  OBVIOUS
<1> HIDE DEF g
<1>2. ASSUME NEW c \in D, g[c] # Nothing PROVE {f[d].id, g[c].id} \in t
  BY <1>1, <1>2 DEF Met
<1>3. Ahead(h, t, {f[d].id}, HeldIds(g, D))
  BY <1>2 DEF Ahead, MayLead, HeldIds
<1>4. f[d].id \in HeldIds(f, D)
  BY DEF HeldIds
<1> QED
  BY <1>3, <1>4 DEF g

(* What the stages are. *)
LEMMA StageIs ==
  /\ Stage(0) = IdsOf(ring) /\ Stage(1) = IdsOf(packets) /\ Stage(2) = HeldIds(worker, Workers)
  /\ Stage(3) = IdsOf(queue) /\ Stage(4) = HeldIds(loop, Loops) /\ Stage(5) = IdsOf(published)
  /\ Stage(0)' = IdsOf(ring') /\ Stage(1)' = IdsOf(packets')
  /\ Stage(2)' = HeldIds(worker', Workers) /\ Stage(3)' = IdsOf(queue')
  /\ Stage(4)' = HeldIds(loop', Loops) /\ Stage(5)' = IdsOf(published')
BY DEF Stage

(* What is on its way has happened. *)
LEMMA StageIds ==
  ASSUME Types
  PROVE  \A n \in 0..5 : Stage(n) \subseteq Ids
<1>1. /\ \A x \in Sent : x.id \in Ids
      /\ \A x \in Parsed : x.id \in Ids
      /\ \A x \in Said : x.id \in Ids
  BY DEF Sent, Parsed, Said
<1>2. IdsOf(ring) \subseteq Ids /\ IdsOf(packets) \subseteq Ids
  BY <1>1 DEF Types, IdsOf
<1>3. IdsOf(queue) \subseteq Ids /\ IdsOf(published) \subseteq Ids
  BY <1>1 DEF Types, IdsOf
<1>4. HeldIds(worker, Workers) \subseteq Ids /\ HeldIds(loop, Loops) \subseteq Ids
  BY <1>1 DEF Types, HeldIds
<1> QED
  BY <1>2, <1>3, <1>4, StageIs

(* An event that goes on to the next stage, or is lost, keeps the order of *)
(* the stages when it may come before those it leaves behind.              *)
LEMMA StageMoves ==
  ASSUME Types, Order, happened' = happened, together \subseteq together',
         NEW n \in 0..4, NEW i \in Stage(n), Ahead(happened, together', {i}, Stage(n)'),
         \A k \in 0..5 \ {n + 1} : Stage(k)' \subseteq Stage(k),
         Stage(n + 1)' \subseteq Stage(n + 1) \cup {i}
  PROVE  \A m, k \in 0..5 : m < k => Ahead(happened', together', Stage(k)', Stage(m)')
<1>1. \A k \in 0..5 : Stage(k) \subseteq Ids
  BY StageIds
<1>2. \A a, b \in Ids : MayLead(happened, together, a, b) => MayLead(happened, together', a, b)
  BY LeadGrows
<1>3. ASSUME NEW m \in 0..5, NEW k \in 0..5, m < k, NEW a \in Stage(k), NEW b \in Stage(m)
      PROVE  MayLead(happened, together', a, b)
  <2>1. MayLead(happened, together, a, b)
    BY <1>3 DEF Order, Ahead
  <2> QED
    BY <1>1, <1>2, <2>1
<1>4. ASSUME NEW m \in 0..5, NEW k \in 0..5, m < k, NEW a \in Stage(k)', NEW b \in Stage(m)'
      PROVE  MayLead(happened, together', a, b)
  <2>1. CASE a \in Stage(k) /\ b \in Stage(m)
    BY <1>3, <1>4, <2>1
  <2>2. CASE a \notin Stage(k)
    <3>1. k = n + 1 /\ a = i /\ b \in Stage(m)
      BY <1>4, <2>2
    <3>2. CASE m = n
      BY <3>1, <3>2, <1>4 DEF Ahead
    <3>3. CASE m < n
      BY <3>1, <3>3, <1>3
    <3> QED
      BY <1>4, <3>1, <3>2, <3>3
  <2>3. CASE b \notin Stage(m)
    <3>1. m = n + 1 /\ b = i /\ a \in Stage(k)
      BY <1>4, <2>3
    <3> QED
      BY <3>1, <1>3, <1>4
  <2> QED
    BY <2>1, <2>2, <2>3
<1> QED
  BY <1>4 DEF Ahead

(* Who holds an event meets whoever takes up another. *)
LEMMA HeldMeet ==
  ASSUME NEW i, Meet(i)
  PROVE  /\ together \subseteq together'
         /\ \A j \in HeldIds(worker, Workers) : {i, j} \in together'
         /\ \A j \in HeldIds(loop, Loops) : {i, j} \in together'
<1>1. HeldIds(worker, Workers) \subseteq Held /\ HeldIds(loop, Loops) \subseteq Held
  BY DEF HeldIds, Held
<1> QED
  BY <1>1 DEF Meet

(* Deliver appends the message to the packets or not. *)
LEMMA DeliverPackets ==
  ASSUME NEW m, Deliver(m)
  PROVE  packets' = packets \/ packets' = Append(packets, m)
BY DEF Deliver

(* SendMessage keeps the order. *)
LEMMA OrderSend ==
  ASSUME Types, Order, SendMessage
  PROVE  Order'
<1> DEFINE i == Head(ring).id
<1>1. /\ ring # << >> /\ ring' = Tail(ring)
      /\ packets' = packets \/ packets' = Append(packets, Head(ring))
      /\ UNCHANGED <<happened, worker, queue, loop, published, together>>
  BY DeliverPackets DEF SendMessage
<1>2. ring \in Seq(Sent) /\ packets \in Seq(Sent)
  BY DEF Types
<1>3. /\ Head(ring) = ring[1] /\ Head(ring) \in Sent /\ 1 \in DOMAIN ring
      /\ DOMAIN ring = 1..Len(ring) /\ DOMAIN Tail(ring) = 1..Len(ring) - 1 /\ Len(ring) \in Nat
      /\ \A k \in DOMAIN Tail(ring) : Tail(ring)[k] = ring[k + 1] /\ k + 1 \in DOMAIN ring
  BY <1>1, <1>2, HeadTail
<1>4. /\ \A j, k \in DOMAIN ring : j < k => ring[j].id < ring[k].id
      /\ \A k \in DOMAIN ring : happened[ring[k].id].type \in FileTypes
  BY DEF Order
<1>5. /\ \A j, k \in DOMAIN ring' : j < k => ring'[j].id < ring'[k].id
      /\ \A k \in DOMAIN ring' : happened[ring'[k].id].type \in FileTypes
      /\ \A k \in DOMAIN ring' : i < ring'[k].id
  BY <1>1, <1>3, <1>4
<1>6. i \in Nat /\ i \in Stage(0) /\ \A k \in DOMAIN ring' : ring'[k].id \in Nat
  <2>1. \A x \in Sent : x.id \in Nat
    BY DEF Sent, Ids
  <2>2. i \in Nat
    BY <1>3, <2>1
  <2>3. i \in Stage(0)
    BY <1>1, <1>2, IdsOfTail, StageIs
  <2>4. \A k \in DOMAIN ring' : ring'[k] \in Sent
    BY <1>1, <1>2, <1>3
  <2> QED
    BY <2>1, <2>2, <2>3, <2>4
<1>7. Ahead(happened, together, {i}, Stage(0)')
  BY <1>5, <1>6, StageIs DEF Ahead, MayLead, IdsOf
<1>8. Stage(0)' \subseteq Stage(0)
  BY <1>1, <1>2, IdsOfTail, StageIs
<1>9. Stage(1)' \subseteq Stage(1) \cup {i}
  <2>1. IdsOf(Append(packets, Head(ring))) = IdsOf(packets) \cup {i}
    BY <1>2, <1>3, IdsOfAppend
  <2> QED
    BY <1>1, <2>1, StageIs
<1>10. \A k \in 2..5 : Stage(k)' \subseteq Stage(k)
  BY <1>1, StageIs
<1> HIDE DEF i
<1>11. \A m, k \in 0..5 : m < k => Ahead(happened', together', Stage(k)', Stage(m)')
  <2>1. \A k \in 0..5 \ {0 + 1} : Stage(k)' \subseteq Stage(k)
    BY <1>8, <1>10
  <2>2. Stage(0 + 1)' \subseteq Stage(0 + 1) \cup {i}
    BY <1>9
  <2> QED
    BY <1>1, <1>6, <1>7, <2>1, <2>2, StageMoves
<1>12. Ordered(happened, together, packets')
  <2>1. Ahead(happened, together, IdsOf(packets), {i})
    <3>1. Ahead(happened, together, Stage(1), Stage(0))
      BY DEF Order
    <3> QED
      BY <1>6, <3>1, StageIs DEF Ahead
  <2>2. Ordered(happened, together, packets)
    BY DEF Order
  <2> QED
    BY <1>1, <1>2, <1>3, <2>1, <2>2, OrderedAppend DEF i
<1> QED
  BY <1>1, <1>5, <1>11, <1>12 DEF Order

(* Dequeue keeps the order. *)
LEMMA OrderDequeue ==
  ASSUME Types, Order, NEW w \in Workers, Dequeue(w)
  PROVE  Order'
<1> DEFINE i == Head(packets).id
<1>1. /\ packets # << >> /\ packets' = Tail(packets)
      /\ worker' = [worker EXCEPT ![w] = Head(packets)] /\ Meet(i)
      /\ UNCHANGED <<happened, ring, queue, loop, published, lost>>
  BY DEF Dequeue
<1>2. packets \in Seq(Sent) /\ worker = [v \in Workers |-> worker[v]]
  BY DEF Types
<1>3. together \subseteq together' /\ \A j \in HeldIds(worker, Workers) : {i, j} \in together'
  BY <1>1, HeldMeet
<1>4. i \in Stage(1) /\ Stage(1)' \subseteq Stage(1)
  BY <1>1, <1>2, IdsOfTail, StageIs
<1>5. Stage(2)' \subseteq Stage(2) \cup {i}
  BY <1>1, <1>2, HeldIdsSet, StageIs
<1>6. \A k \in {0, 3, 4, 5} : Stage(k)' \subseteq Stage(k)
  BY <1>1, StageIs
<1>7. Ordered(happened, together, packets') /\ Ahead(happened, together, {i}, Stage(1)')
  BY <1>1, <1>2, OrderedTail, StageIs DEF Order
<1>8. Met(together', worker', Workers)
  BY <1>1, <1>2, <1>3, MetSet DEF Order
<1> HIDE DEF i
<1>9. Met(together', loop', Loops)
  BY <1>1, <1>3 DEF Order, Met
<1>10. \A k \in 0..5 : Stage(k) \subseteq Ids
  BY StageIds
<1>11. Ahead(happened, together', {i}, Stage(1)')
  BY <1>3, <1>7 DEF Ahead, MayLead
<1>12. \A m, k \in 0..5 : m < k => Ahead(happened', together', Stage(k)', Stage(m)')
  <2>1. \A k \in 0..5 \ {1 + 1} : Stage(k)' \subseteq Stage(k)
    BY <1>4, <1>6
  <2>2. Stage(1 + 1)' \subseteq Stage(1 + 1) \cup {i}
    BY <1>5
  <2> QED
    BY <1>1, <1>3, <1>4, <1>11, <2>1, <2>2, StageMoves
<1>13. /\ Ordered(happened', together', packets') /\ Ordered(happened', together', queue')
       /\ Ordered(happened', together', published')
  <2>1. IdsOf(packets') \subseteq Ids /\ IdsOf(queue') \subseteq Ids /\ IdsOf(published') \subseteq Ids
    BY <1>1, <1>4, <1>10, StageIs
  <2>2. Ordered(happened, together, queue') /\ Ordered(happened, together, published')
    BY <1>1 DEF Order
  <2> QED
    BY <1>1, <1>3, <1>7, <2>1, <2>2, OrderedGrows
<1>14. /\ \A j, k \in DOMAIN ring' : j < k => ring'[j].id < ring'[k].id
       /\ \A k \in DOMAIN ring' : happened'[ring'[k].id].type \in FileTypes
  BY <1>1 DEF Order
<1> QED
  BY <1>8, <1>9, <1>12, <1>13, <1>14 DEF Order

(* ReceiveEvent keeps the order. *)
LEMMA OrderReceive ==
  ASSUME Types, Order, NEW l \in Loops, ReceiveEvent(l)
  PROVE  Order'
<1> DEFINE i == Head(queue).id
<1>1. /\ queue # << >> /\ queue' = Tail(queue)
      /\ loop' = [loop EXCEPT ![l] = Head(queue)] /\ Meet(i)
      /\ UNCHANGED <<happened, ring, packets, worker, published, lost>>
  BY DEF ReceiveEvent
<1>2. queue \in Seq(Parsed) /\ loop = [v \in Loops |-> loop[v]]
  BY DEF Types
<1>3. together \subseteq together' /\ \A j \in HeldIds(loop, Loops) : {i, j} \in together'
  BY <1>1, HeldMeet
<1>4. i \in Stage(3) /\ Stage(3)' \subseteq Stage(3)
  BY <1>1, <1>2, IdsOfTail, StageIs
<1>5. Stage(4)' \subseteq Stage(4) \cup {i}
  BY <1>1, <1>2, HeldIdsSet, StageIs
<1>6. \A k \in {0, 1, 2, 5} : Stage(k)' \subseteq Stage(k)
  BY <1>1, StageIs
<1>7. Ordered(happened, together, queue') /\ Ahead(happened, together, {i}, Stage(3)')
  BY <1>1, <1>2, OrderedTail, StageIs DEF Order
<1>8. Met(together', loop', Loops)
  BY <1>1, <1>2, <1>3, MetSet DEF Order
<1> HIDE DEF i
<1>9. Met(together', worker', Workers)
  BY <1>1, <1>3 DEF Order, Met
<1>10. \A k \in 0..5 : Stage(k) \subseteq Ids
  BY StageIds
<1>11. Ahead(happened, together', {i}, Stage(3)')
  BY <1>3, <1>7 DEF Ahead, MayLead
<1>12. \A m, k \in 0..5 : m < k => Ahead(happened', together', Stage(k)', Stage(m)')
  <2>1. \A k \in 0..5 \ {3 + 1} : Stage(k)' \subseteq Stage(k)
    BY <1>4, <1>6
  <2>2. Stage(3 + 1)' \subseteq Stage(3 + 1) \cup {i}
    BY <1>5
  <2> QED
    BY <1>1, <1>3, <1>4, <1>11, <2>1, <2>2, StageMoves
<1>13. /\ Ordered(happened', together', packets') /\ Ordered(happened', together', queue')
       /\ Ordered(happened', together', published')
  <2>1. IdsOf(packets') \subseteq Ids /\ IdsOf(queue') \subseteq Ids /\ IdsOf(published') \subseteq Ids
    BY <1>1, <1>4, <1>10, StageIs
  <2>2. Ordered(happened, together, packets') /\ Ordered(happened, together, published')
    BY <1>1 DEF Order
  <2> QED
    BY <1>1, <1>3, <1>7, <2>1, <2>2, OrderedGrows
<1>14. /\ \A j, k \in DOMAIN ring' : j < k => ring'[j].id < ring'[k].id
       /\ \A k \in DOMAIN ring' : happened'[ring'[k].id].type \in FileTypes
  BY <1>1 DEF Order
<1> QED
  BY <1>8, <1>9, <1>12, <1>13, <1>14 DEF Order

(* ProcessCompletedIO keeps the order. *)
LEMMA OrderCompleted ==
  ASSUME Types, Order, NEW w \in Workers, ProcessCompletedIO(w)
  PROVE  Order'
<1> DEFINE i == worker[w].id
           x == [id |-> i, data |-> Parse(worker[w].message)]
<1>1. /\ worker[w] # Nothing /\ worker' = [worker EXCEPT ![w] = Nothing]
      /\ queue' = queue \/ queue' = Append(queue, x)
      /\ UNCHANGED <<happened, ring, packets, loop, published, together>>
  BY DEF ProcessCompletedIO
<1>2. queue \in Seq(Parsed) /\ worker = [v \in Workers |-> worker[v]]
  BY DEF Types
<1>3. x \in Parsed /\ x.id = i
  <2>1. worker[w] \in Sent
    BY <1>1 DEF Types
  <2> QED
    BY <2>1, ParseType DEF Sent, Parsed
<1> HIDE DEF x
<1>4. i \in Stage(2) /\ Ahead(happened, together, {i}, Stage(2)')
  BY <1>1, <1>2, MetLeads, StageIs DEF Order
<1>5. Stage(2)' \subseteq Stage(2)
  <2>1. HeldIds([worker EXCEPT ![w] = Nothing], Workers) \subseteq HeldIds(worker, Workers)
    BY <1>2, HeldIdsSet
  <2> QED
    BY <1>1, <2>1, StageIs
<1>6. Stage(3)' \subseteq Stage(3) \cup {i}
  <2>1. IdsOf(Append(queue, x)) = IdsOf(queue) \cup {x.id}
    BY <1>2, <1>3, IdsOfAppend
  <2> QED
    BY <1>1, <1>3, <2>1, StageIs
<1>7. \A k \in {0, 1, 4, 5} : Stage(k)' \subseteq Stage(k)
  BY <1>1, StageIs
<1>8. Met(together', worker', Workers)
  BY <1>1, <1>2, MetSet DEF Order
<1> HIDE DEF i
<1>9. \A m, k \in 0..5 : m < k => Ahead(happened', together', Stage(k)', Stage(m)')
  <2>1. \A k \in 0..5 \ {2 + 1} : Stage(k)' \subseteq Stage(k)
    BY <1>5, <1>7
  <2>2. Stage(2 + 1)' \subseteq Stage(2 + 1) \cup {i}
    BY <1>6
  <2> QED
    BY <1>1, <1>4, <2>1, <2>2, StageMoves
<1>10. Ordered(happened, together, queue')
  <2>1. Ahead(happened, together, IdsOf(queue), {x.id})
    <3>1. Ahead(happened, together, Stage(3), Stage(2))
      BY DEF Order
    <3> QED
      BY <1>3, <1>4, <3>1, StageIs DEF Ahead
  <2>2. Ordered(happened, together, queue)
    BY DEF Order
  <2> QED
    BY <1>1, <1>2, <1>3, <2>1, <2>2, OrderedAppend
<1> QED
  BY <1>1, <1>8, <1>9, <1>10 DEF Order

(* Publish keeps the order. *)
LEMMA OrderPublish ==
  ASSUME Types, Order, NEW l \in Loops, Publish(l)
  PROVE  Order'
<1> DEFINE i == loop[l].id
<1>1. /\ loop[l] # Nothing /\ loop' = [loop EXCEPT ![l] = Nothing]
      /\ UNCHANGED <<happened, ring, packets, worker, queue, lost, together>>
  BY DEF Publish
<1>2. published \in Seq(Said) /\ loop = [v \in Loops |-> loop[v]]
  BY DEF Types
<1>3. PICK x \in Said : x.id = i /\ published' = Append(published, x)
  <2>1. PICK stream \in {"alert", "log"} :
          published' = Append(published, [id |-> loop[l].id, stream |-> stream,
                                          report |-> Convert(loop[l].data)])
    BY DEF Publish
  <2>2. loop[l] \in Parsed
    BY <1>1 DEF Types
  <2>3. loop[l].id \in Ids /\ loop[l].data \in Data
    BY <2>2 DEF Parsed
  <2>4. [id |-> loop[l].id, stream |-> stream, report |-> Convert(loop[l].data)] \in Said
    BY <2>3 DEF Said
  <2> QED
    BY <2>1, <2>4
<1>4. i \in Stage(4) /\ Ahead(happened, together, {i}, Stage(4)')
  BY <1>1, <1>2, MetLeads, StageIs DEF Order
<1>5. Stage(4)' \subseteq Stage(4)
  <2>1. HeldIds([loop EXCEPT ![l] = Nothing], Loops) \subseteq HeldIds(loop, Loops)
    BY <1>2, HeldIdsSet
  <2> QED
    BY <1>1, <2>1, StageIs
<1>6. Stage(5)' \subseteq Stage(5) \cup {i}
  <2>1. IdsOf(Append(published, x)) = IdsOf(published) \cup {x.id}
    BY <1>2, <1>3, IdsOfAppend
  <2> QED
    BY <1>3, <2>1, StageIs
<1>7. \A k \in {0, 1, 2, 3} : Stage(k)' \subseteq Stage(k)
  BY <1>1, StageIs
<1>8. Met(together', loop', Loops)
  BY <1>1, <1>2, MetSet DEF Order
<1> HIDE DEF i
<1>9. \A m, k \in 0..5 : m < k => Ahead(happened', together', Stage(k)', Stage(m)')
  <2>1. \A k \in 0..5 \ {4 + 1} : Stage(k)' \subseteq Stage(k)
    BY <1>5, <1>7
  <2>2. Stage(4 + 1)' \subseteq Stage(4 + 1) \cup {i}
    BY <1>6
  <2> QED
    BY <1>1, <1>4, <2>1, <2>2, StageMoves
<1>10. Ordered(happened, together, published')
  <2>1. Ahead(happened, together, IdsOf(published), {x.id})
    <3>1. Ahead(happened, together, Stage(5), Stage(4))
      BY DEF Order
    <3> QED
      BY <1>3, <1>4, <3>1, StageIs DEF Ahead
  <2>2. Ordered(happened, together, published)
    BY DEF Order
  <2> QED
    BY <1>2, <1>3, <2>1, <2>2, OrderedAppend
<1> QED
  BY <1>1, <1>8, <1>9, <1>10 DEF Order

(* An event that has just happened overtakes nobody, or is one of a        *)
(* process and overtakes events of files.                                  *)
LEMMA OrderNew ==
  ASSUME Types, Order, NEW e \in Events, happened' = Append(happened, e),
         UNCHANGED <<worker, queue, loop, published, together>>,
         NEW m \in Sent', m.id = Len(happened) + 1,
         \/ /\ e.type \in FileTypes /\ packets' = packets
            /\ ring' = ring \/ ring' = Append(ring, m)
         \/ /\ e.type \in ProcessTypes /\ ring' = ring
            /\ packets' = packets \/ packets' = Append(packets, m)
  PROVE  Order'
<1> DEFINE n == Len(happened) + 1
<1>1. /\ happened'[n] = e /\ \A i \in Ids : happened'[i] = happened[i] /\ i \in Nat /\ i < n
      /\ n \in Nat
  BY HappenedGrows DEF Ids, Types
<1>2. ring \in Seq(Sent') /\ packets \in Seq(Sent') /\ ring \in Seq(Sent) /\ packets \in Seq(Sent)
  BY TypesGrow DEF Types
<1> HIDE DEF n
<1>3. m.id = n
  BY DEF n
<1>4. \A k \in 0..5 : Stage(k) \subseteq Ids
  BY StageIds
<1>5. \A a, b \in Ids : MayLead(happened, together, a, b) => MayLead(happened', together, a, b)
  BY <1>1, LeadGrows
<1>6. \A a \in Ids : MayLead(happened', together, a, n)
  BY <1>1 DEF MayLead
<1>7. e.type \in ProcessTypes => \A b \in Stage(0) : MayLead(happened', together, n, b)
  <2>1. \A b \in Stage(0) : happened[b].type \in FileTypes
    BY StageIs DEF Order, IdsOf
  <2>2. ASSUME e.type \in ProcessTypes, NEW b \in Stage(0)
        PROVE  happened'[n].type \in ProcessTypes /\ happened'[b].type \in FileTypes
    <3>1. b \in Ids
      BY <1>4
    <3> QED
      BY <1>1, <2>1, <2>2, <3>1
  <2> QED
    BY <2>2 DEF MayLead
<1>8. /\ Stage(0)' \subseteq Stage(0) \cup {n} /\ Stage(1)' \subseteq Stage(1) \cup {n}
      /\ e.type \in ProcessTypes => Stage(0)' = Stage(0)
      /\ e.type \notin ProcessTypes => Stage(1)' = Stage(1)
  <2>1. IdsOf(Append(packets, m)) = IdsOf(packets) \cup {n}
    BY <1>2, <1>3, IdsOfAppend
  <2>2. IdsOf(Append(ring, m)) = IdsOf(ring) \cup {n}
    BY <1>2, <1>3, IdsOfAppend
  <2>3. ~(e.type \in FileTypes /\ e.type \in ProcessTypes)
    BY DEF FileTypes, ProcessTypes
  <2> QED
    BY <2>1, <2>2, <2>3, StageIs
<1>9. \A k \in 2..5 : Stage(k)' = Stage(k)
  BY StageIs
<1>10. ASSUME NEW j \in 0..5, NEW k \in 0..5, j < k, NEW a \in Stage(k)', NEW b \in Stage(j)'
       PROVE  MayLead(happened', together, a, b)
  <2>1. CASE a \in Stage(k) /\ b \in Stage(j)
    <3>1. MayLead(happened, together, a, b)
      BY <1>10, <2>1 DEF Order, Ahead
    <3> QED
      BY <1>4, <1>5, <2>1, <3>1
  <2>2. CASE a \notin Stage(k)
    <3>1. k = 1 /\ a = n /\ j = 0 /\ e.type \in ProcessTypes /\ b \in Stage(0)
      BY <1>8, <1>9, <1>10, <2>2
    <3> QED
      BY <1>7, <3>1
  <2>3. CASE a \in Stage(k) /\ b \notin Stage(j)
    <3>1. b = n
      BY <1>8, <1>9, <1>10, <2>3
    <3> QED
      BY <1>4, <1>6, <2>3, <3>1
  <2> QED
    BY <2>1, <2>2, <2>3
<1>11. \A j, k \in 0..5 : j < k => Ahead(happened', together', Stage(k)', Stage(j)')
  BY <1>10 DEF Ahead
<1>12. /\ Ordered(happened', together, packets) /\ Ordered(happened', together, queue)
       /\ Ordered(happened', together, published)
  <2>1. IdsOf(packets) \subseteq Ids /\ IdsOf(queue) \subseteq Ids /\ IdsOf(published) \subseteq Ids
    BY <1>4, StageIs
  <2>2. /\ Ordered(happened, together, packets) /\ Ordered(happened, together, queue)
        /\ Ordered(happened, together, published)
    BY DEF Order
  <2> QED
    BY <1>1, <2>1, <2>2, OrderedGrows
<1>13. Ordered(happened', together, packets')
  <2>1. Ahead(happened', together, IdsOf(packets), {m.id})
    BY <1>3, <1>4, <1>6, StageIs DEF Ahead
  <2> QED
    BY <1>2, <1>12, <2>1, OrderedAppend
<1>14. /\ \A j, k \in DOMAIN ring' : j < k => ring'[j].id < ring'[k].id
       /\ \A k \in DOMAIN ring' : happened'[ring'[k].id].type \in FileTypes
  <2>1. \A k \in DOMAIN ring : ring[k].id \in Ids
    BY <1>4, StageIs DEF IdsOf
  <2>2. /\ \A j, k \in DOMAIN ring : j < k => ring[j].id < ring[k].id
        /\ \A k \in DOMAIN ring : happened'[ring[k].id].type \in FileTypes
    BY <1>1, <2>1 DEF Order
  <2>3. CASE ring' = Append(ring, m) /\ e.type \in FileTypes
    <3>0. PICK r : r = ring'
      OBVIOUS
    <3>1. /\ DOMAIN r = 1..Len(ring) + 1 /\ r[Len(ring) + 1] = m
          /\ \A k \in 1..Len(ring) : r[k] = ring[k]
          /\ DOMAIN ring = 1..Len(ring) /\ Len(ring) \in Nat
      BY <1>2, <2>3, <3>0, AppendProperties
    <3>2. \A k \in DOMAIN ring : ring[k].id < m.id
      BY <1>1, <1>3, <2>1
    <3>3. ASSUME NEW j \in DOMAIN r, NEW k \in DOMAIN r, j < k
          PROVE  r[j].id < r[k].id
      <4>1. j \in DOMAIN ring /\ r[j] = ring[j]
        BY <3>1, <3>3
      <4>2. CASE k = Len(ring) + 1
        BY <3>1, <3>2, <4>1, <4>2
      <4>3. CASE k # Len(ring) + 1
        BY <2>2, <3>1, <3>3, <4>1, <4>3
      <4> QED
        BY <4>2, <4>3
    <3>4. ASSUME NEW k \in DOMAIN r PROVE happened'[r[k].id].type \in FileTypes
      <4>1. CASE k = Len(ring) + 1
        <5>1. r[k].id = n
          BY <1>3, <3>1, <4>1
        <5> QED
          BY <1>1, <2>3, <5>1
      <4>2. CASE k # Len(ring) + 1
        <5>1. k \in DOMAIN ring /\ r[k] = ring[k]
          BY <3>1, <4>2
        <5> QED
          BY <2>2, <5>1
      <4> QED
        BY <4>1, <4>2
    <3> QED
      BY <3>0, <3>3, <3>4
  <2> QED
    BY <2>2, <2>3
<1> QED
  BY <1>11, <1>12, <1>13, <1>14 DEF Order

(* A ring that breaks leaves the order of the others. *)
LEMMA OrderBreaks ==
  ASSUME Types, Order, RingBreaks
  PROVE  Order'
<1>1. ring' = << >> /\ UNCHANGED <<happened, packets, worker, queue, loop, published, together>>
  BY DEF RingBreaks
<1>2. Stage(0)' = {}
  BY <1>1, StageIs DEF IdsOf
<1>3. \A k \in 1..5 : Stage(k)' = Stage(k)
  BY <1>1, StageIs
<1>4. \A k \in 0..5 : Stage(k)' \subseteq Stage(k)
  BY <1>2, <1>3
<1>5. \A m, n \in 0..5 : m < n => Ahead(happened, together, Stage(n)', Stage(m)')
  BY <1>4 DEF Order, Ahead
<1> QED
  BY <1>1, <1>5 DEF Order

(* Every step keeps the order. *)
LEMMA OrderStep == Types /\ Order /\ [Next]_vars => Order'
<1> SUFFICES ASSUME Types, Order, [Next]_vars PROVE Order'
  OBVIOUS
<1>1. ASSUME NEW e \in Happenings, FileEvent(e) PROVE Order'
  <2> DEFINE c == [e EXCEPT !.filePath = Capture(@)]
             m == [id |-> Len(happened) + 1, message |-> Serialize(Populate(e))]
  <2>1. c \in Events /\ c.type = e.type /\ Populate(e) \in Events
    BY EventPathAssumption, CapturedType, PopulateType
  <2>2. /\ happened' = Append(happened, c) /\ e.type \in FileTypes /\ packets' = packets
        /\ ring' = ring \/ ring' = Append(ring, m)
        /\ UNCHANGED <<worker, queue, loop, published, together>>
    BY <1>1 DEF FileEvent
  <2> HIDE DEF c
  <2>3. m \in Sent' /\ m.id = Len(happened) + 1
    BY <2>1, <2>2, HappenedGrows, SerializeType DEF Sent
  <2> QED
    BY <2>1, <2>2, <2>3, OrderNew
<1>2. ASSUME NEW e \in Happenings, ProcessEvent(e) PROVE Order'
  <2> DEFINE m == [id |-> Len(happened) + 1, message |-> Serialize(e)]
  <2>1. e \in Events
    BY EventPathAssumption
  <2>2. /\ happened' = Append(happened, e) /\ e.type \in ProcessTypes /\ ring' = ring
        /\ packets' = packets \/ packets' = Append(packets, m)
        /\ UNCHANGED <<worker, queue, loop, published, together>>
    BY <1>2, DeliverPackets DEF ProcessEvent
  <2>3. m \in Sent' /\ m.id = Len(happened) + 1
    BY <2>1, <2>2, HappenedGrows, SerializeType DEF Sent
  <2> QED
    BY <2>1, <2>2, <2>3, OrderNew
<1>3. CASE UNCHANGED vars
  <2>1. \A k \in 0..5 : Stage(k)' = Stage(k)
    BY <1>3, StageIs DEF vars
  <2> QED
    BY <1>3, <2>1 DEF vars, Order
<1> QED
  BY <1>1, <1>2, <1>3, NextCases, OrderSend, OrderDequeue, OrderCompleted, OrderReceive, OrderPublish,
     OrderBreaks

(* Events are published out of order only when two threads held them at    *)
(* the same time, or when OnProcessNotify sent one past the ring           *)
(* (OvertakesOnlyTogether), for any number of workers and event loops.     *)
THEOREM OrderIsKept == Spec => []OvertakesOnlyTogether
<1>1. Init => Order
  BY DEF Init, Order, Ordered, Met, Ahead, Stage, IdsOf, HeldIds
<1>2. Types /\ Order => OvertakesOnlyTogether
  <2> SUFFICES ASSUME Order, NEW j \in DOMAIN published, NEW k \in DOMAIN published, j < k
               PROVE  MayLead(happened, together, published[j].id, published[k].id)
    BY DEF OvertakesOnlyTogether, MayLead
  <2> QED
    BY DEF Order, Ordered
<1> QED
  BY <1>1, <1>2, TruthInit, TruthStep, OrderStep, PTL DEF Spec

-----------------------------------------------------------------------------
(* Every event is in one place. *)

(* Where event i is in a sequence, who holds it, and how it was lost. *)
AtIn(s, i) == {k \in DOMAIN s : s[k].id = i}
HeldBy(f, D, i) == {d \in D : f[d] # Nothing /\ f[d].id = i}
LostAs(L, i) == {x \in L : x.id = i}

One(S) == \E x : S = {x}

(* A place that keeps what it had of an event, one it leaves, one it comes *)
(* to.                                                                     *)
Same(S, T) == (S = {} => T = {}) /\ (One(S) => One(T))
Gone(S, T) == S # {} /\ (One(S) => T = {})
Come(S, T) == S = {} => One(T)

(* What a place has of event i when event n leaves it or enters it. *)
Leaves(n, i, S, T) == IF n = i THEN Gone(S, T) ELSE Same(S, T)
Enters(n, i, S, T) == IF n = i THEN Come(S, T) ELSE Same(S, T)

Somewhere(P) == \E k \in 1..7 : One(P[k]) /\ \A j \in 1..7 \ {k} : P[j] = {}
Placed == \A i \in Ids : Somewhere(Places(i))

(* What the places are. *)
LEMMA PlacesAre ==
  ASSUME NEW i
  PROVE  /\ Places(i)[1] = AtIn(ring, i) /\ Places(i)[2] = AtIn(packets, i)
         /\ Places(i)[3] = HeldBy(worker, Workers, i) /\ Places(i)[4] = AtIn(queue, i)
         /\ Places(i)[5] = HeldBy(loop, Loops, i) /\ Places(i)[6] = AtIn(published, i)
         /\ Places(i)[7] = LostAs(lost, i)
         /\ Places(i)'[1] = AtIn(ring', i) /\ Places(i)'[2] = AtIn(packets', i)
         /\ Places(i)'[3] = HeldBy(worker', Workers, i) /\ Places(i)'[4] = AtIn(queue', i)
         /\ Places(i)'[5] = HeldBy(loop', Loops, i) /\ Places(i)'[6] = AtIn(published', i)
         /\ Places(i)'[7] = LostAs(lost', i)
BY DEF Places, AtIn, HeldBy, LostAs

(* A set stays the same set. *)
LEMMA SameSet == \A S : Same(S, S)
BY DEF Same

(* The head of a sequence leaves it. *)
LEMMA AtTail ==
  ASSUME NEW S, NEW s \in Seq(S), s # << >>, NEW i
  PROVE  Leaves(Head(s).id, i, AtIn(s, i), AtIn(Tail(s), i))
<1>1. /\ Head(s) = s[1] /\ 1 \in DOMAIN s
      /\ DOMAIN s = 1..Len(s) /\ DOMAIN Tail(s) = 1..Len(s) - 1 /\ Len(s) \in Nat
      /\ \A k \in DOMAIN Tail(s) : Tail(s)[k] = s[k + 1] /\ k + 1 \in DOMAIN s
  BY HeadTail
<1>2. PICK t : t = Tail(s)
  OBVIOUS
<1>3. CASE s[1].id = i
  <2>1. 1 \in AtIn(s, i)
    BY <1>1, <1>3 DEF AtIn
  <2>2. ASSUME One(AtIn(s, i)) PROVE AtIn(t, i) = {}
    <3>1. \A k \in AtIn(s, i) : k = 1
      BY <2>1, <2>2 DEF One
    <3>2. ASSUME NEW k \in AtIn(t, i) PROVE FALSE
      <4>1. k \in 1..Len(s) - 1 /\ k + 1 \in AtIn(s, i)
        BY <1>1, <1>2 DEF AtIn
      <4> QED
        BY <1>1, <3>1, <4>1
    <3> QED
      BY <3>2
  <2> QED
    BY <1>1, <1>2, <1>3, <2>1, <2>2 DEF Gone, Leaves
<1>4. CASE s[1].id # i
  <2>1. ASSUME NEW k \in AtIn(s, i) PROVE k - 1 \in AtIn(t, i)
    <3>1. k \in 2..Len(s) /\ s[k].id = i
      BY <1>1, <1>4 DEF AtIn
    <3>2. k - 1 \in DOMAIN t /\ (k - 1) + 1 = k
      BY <1>1, <1>2, <3>1
    <3>3. t[k - 1] = s[(k - 1) + 1]
      BY <1>1, <1>2, <3>2
    <3> QED
      BY <3>1, <3>2, <3>3 DEF AtIn
  <2>2. ASSUME NEW k \in AtIn(t, i) PROVE k + 1 \in AtIn(s, i) /\ k \in Nat
    BY <1>1, <1>2 DEF AtIn
  <2>3. ASSUME NEW x, AtIn(s, i) = {x} PROVE AtIn(t, i) = {x - 1}
    <3>1. x - 1 \in AtIn(t, i)
      BY <2>1, <2>3
    <3>2. ASSUME NEW k \in AtIn(t, i) PROVE k = x - 1
      BY <2>2, <2>3
    <3> QED
      BY <3>1, <3>2
  <2>4. AtIn(s, i) = {} => AtIn(t, i) = {}
    BY <2>2
  <2> QED
    BY <1>1, <1>2, <1>4, <2>3, <2>4 DEF Same, One, Leaves
<1> QED
  BY <1>3, <1>4

(* An event comes to the end of a sequence. *)
LEMMA AtAppend ==
  ASSUME NEW S, NEW s \in Seq(S), NEW x \in S, NEW i
  PROVE  Enters(x.id, i, AtIn(s, i), AtIn(Append(s, x), i))
<1>0. PICK t : t = Append(s, x)
  OBVIOUS
<1>1. /\ DOMAIN t = 1..Len(s) + 1 /\ t[Len(s) + 1] = x
      /\ \A k \in 1..Len(s) : t[k] = s[k]
      /\ DOMAIN s = 1..Len(s) /\ Len(s) \in Nat
  BY <1>0, AppendProperties
<1>2. AtIn(t, i) = AtIn(s, i) \cup (IF x.id = i THEN {Len(s) + 1} ELSE {})
  <2>1. \A k \in AtIn(t, i) : k \in AtIn(s, i) \cup (IF x.id = i THEN {Len(s) + 1} ELSE {})
    BY <1>1 DEF AtIn
  <2>2. \A k \in AtIn(s, i) : k \in AtIn(t, i)
    BY <1>1 DEF AtIn
  <2>3. x.id = i => Len(s) + 1 \in AtIn(t, i)
    BY <1>1 DEF AtIn
  <2> QED
    BY <2>1, <2>2, <2>3
<1> QED
  BY <1>0, <1>2 DEF Same, Come, One, Enters

(* A thread takes up an event. *)
LEMMA HeldTaken ==
  ASSUME NEW D, NEW f, f = [c \in D |-> f[c]], NEW d \in D, f[d] = Nothing, NEW x, x # Nothing, NEW i
  PROVE  Enters(x.id, i, HeldBy(f, D, i), HeldBy([f EXCEPT ![d] = x], D, i))
<1>0. PICK g : g = [f EXCEPT ![d] = x]
  OBVIOUS
<1>1. \A c \in D : g[c] = IF c = d THEN x ELSE f[c]
  BY <1>0
<1>2. HeldBy(g, D, i) = HeldBy(f, D, i) \cup (IF x.id = i THEN {d} ELSE {})
  BY <1>1 DEF HeldBy
<1> QED
  BY <1>0, <1>2 DEF Same, Come, One, Enters

(* A thread gives up its event. *)
LEMMA HeldGiven ==
  ASSUME NEW D, NEW f, f = [c \in D |-> f[c]], NEW d \in D, f[d] # Nothing, NEW i
  PROVE  Leaves(f[d].id, i, HeldBy(f, D, i), HeldBy([f EXCEPT ![d] = Nothing], D, i))
<1>0. PICK g : g = [f EXCEPT ![d] = Nothing]
  OBVIOUS
<1>1. \A c \in D : g[c] = IF c = d THEN Nothing ELSE f[c]
  BY <1>0
<1>2. HeldBy(g, D, i) = HeldBy(f, D, i) \ {d}
  BY <1>1 DEF HeldBy
<1>3. d \in HeldBy(f, D, i) <=> f[d].id = i
  BY DEF HeldBy
<1>4. CASE f[d].id = i
  BY <1>0, <1>2, <1>3, <1>4 DEF Gone, One, Leaves
<1>5. CASE f[d].id # i
  <2>1. HeldBy(g, D, i) = HeldBy(f, D, i)
    BY <1>2, <1>3, <1>5
  <2> QED
    BY <1>0, <1>5, <2>1 DEF Same, Leaves
<1> QED
  BY <1>4, <1>5

(* An event is lost. *)
LEMMA LostOne ==
  ASSUME NEW L, NEW n, NEW why, NEW i
  PROVE  Enters(n, i, LostAs(L, i), LostAs(L \cup {[id |-> n, why |-> why]}, i))
<1>1. PICK r : r = [id |-> n, why |-> why]
  OBVIOUS
<1>2. r.id = n
  BY <1>1
<1>3. LostAs(L \cup {r}, i) = LostAs(L, i) \cup (IF n = i THEN {r} ELSE {})
  BY <1>2 DEF LostAs
<1> QED
  BY <1>1, <1>3 DEF Same, Come, One, Enters

(* An event that keeps its place, one that changes it. *)
Stays(P, Q) == \A k \in 1..7 : Same(P[k], Q[k])
Goes(P, Q, a, b) ==
  /\ Gone(P[a], Q[a]) /\ Come(P[b], Q[b])
  /\ \A k \in 1..7 \ {a, b} : Same(P[k], Q[k])

(* An event that keeps its place is in one place. *)
LEMMA StaysSomewhere ==
  ASSUME NEW P, NEW Q, Stays(P, Q), Somewhere(P)
  PROVE  Somewhere(Q)
<1>1. PICK k \in 1..7 : One(P[k]) /\ \A j \in 1..7 \ {k} : P[j] = {}
  BY DEF Somewhere
<1>2. One(Q[k]) /\ \A j \in 1..7 \ {k} : Q[j] = {}
  BY <1>1 DEF Stays, Same
<1> QED
  BY <1>2 DEF Somewhere

(* An event that changes its place is in one place. *)
LEMMA GoesSomewhere ==
  ASSUME NEW P, NEW Q, NEW a \in 1..7, NEW b \in 1..7 \ {a}, Goes(P, Q, a, b), Somewhere(P)
  PROVE  Somewhere(Q)
<1>1. PICK k \in 1..7 : One(P[k]) /\ \A j \in 1..7 \ {k} : P[j] = {}
  BY DEF Somewhere
<1>2. k = a
  BY <1>1 DEF Goes, Gone
<1>3. One(Q[b])
  BY <1>1, <1>2 DEF Goes, Come
<1>4. Q[a] = {}
  BY <1>1, <1>2 DEF Goes, Gone
<1>5. \A j \in 1..7 \ {a, b} : Q[j] = {}
  BY <1>1, <1>2 DEF Goes, Same
<1> QED
  BY <1>3, <1>4, <1>5 DEF Somewhere

(* What a step that moves event n from place a to place b does to event i. *)
Moved(P, Q, i, n, a, b) == IF i = n THEN Goes(P, Q, a, b) ELSE Stays(P, Q)

(* One event changes its place, the others keep theirs. *)
LEMMA PlacedMoves ==
  ASSUME Placed, happened' = happened, NEW a \in 1..7, NEW b \in 1..7 \ {a}, NEW n,
         \A i \in Ids : Moved(Places(i), Places(i)', i, n, a, b)
  PROVE  Placed'
<1>1. Ids' = Ids
  BY DEF Ids
<1>2. ASSUME NEW i \in Ids PROVE Somewhere(Places(i)')
  <2>1. Somewhere(Places(i))
    BY DEF Placed
  <2> QED
    BY <2>1, StaysSomewhere, GoesSomewhere DEF Moved
<1> QED
  BY <1>1, <1>2 DEF Placed, Somewhere

(* What has not happened is nowhere, and what happens comes to one place. *)
LEMMA PlacedNew ==
  ASSUME Types, Placed, NEW e \in Events, happened' = Append(happened, e), NEW b \in 1..7,
         NEW n, n = Len(happened) + 1,
         Come(Places(n)[b], Places(n)'[b]),
         \A k \in 1..7 \ {b} : Same(Places(n)[k], Places(n)'[k]),
         \A i \in Ids : Stays(Places(i), Places(i)')
  PROVE  Placed'
<1>1. Ids' = Ids \cup {n} /\ n \notin Ids
  BY HappenedGrows
<1>2. \A k \in 1..7 : Places(n)[k] = {}
  <2>1. /\ \A x \in Sent : x.id # n
        /\ \A x \in Parsed : x.id # n
        /\ \A x \in Said : x.id # n
    BY <1>1 DEF Sent, Parsed, Said
  <2>2. AtIn(ring, n) = {} /\ AtIn(packets, n) = {}
    BY <2>1 DEF Types, AtIn
  <2>3. AtIn(queue, n) = {} /\ AtIn(published, n) = {}
    BY <2>1 DEF Types, AtIn
  <2>4. HeldBy(worker, Workers, n) = {} /\ HeldBy(loop, Loops, n) = {}
    BY <2>1 DEF Types, HeldBy
  <2>5. LostAs(lost, n) = {}
    <3>1. \A x \in lost : x.id \in Ids
      BY DEF Types
    <3> QED
      BY <1>1, <3>1 DEF LostAs
  <2> QED
    BY <2>2, <2>3, <2>4, <2>5, PlacesAre
<1>3. Somewhere(Places(n)')
  <2>1. One(Places(n)'[b]) /\ \A k \in 1..7 \ {b} : Places(n)'[k] = {}
    BY <1>2 DEF Come, Same
  <2> QED
    BY <2>1 DEF Somewhere
<1>4. ASSUME NEW i \in Ids PROVE Somewhere(Places(i)')
  BY StaysSomewhere DEF Placed
<1>5. \A i \in Ids' : Somewhere(Places(i)')
  BY <1>1, <1>3, <1>4
<1> QED
  BY <1>5 DEF Placed, Somewhere

(* A message that is delivered comes to the packets, or is lost. *)
LEMMA DeliverPlaces ==
  ASSUME NEW m, Deliver(m), NEW S, packets \in Seq(S), m \in S
  PROVE  \/ \A i : /\ Enters(m.id, i, AtIn(packets, i), AtIn(packets', i))
                   /\ Same(LostAs(lost, i), LostAs(lost', i))
         \/ \A i : /\ Same(AtIn(packets, i), AtIn(packets', i))
                   /\ Enters(m.id, i, LostAs(lost, i), LostAs(lost', i))
<1>1. CASE packets' = Append(packets, m) /\ lost' = lost
  <2>1. ASSUME NEW i PROVE Enters(m.id, i, AtIn(packets, i), AtIn(Append(packets, m), i))
    BY AtAppend
  <2> QED
    BY <1>1, <2>1, SameSet
<1>2. ASSUME NEW why, packets' = packets, lost' = lost \cup {[id |-> m.id, why |-> why]}
      PROVE  \A i : /\ Same(AtIn(packets, i), AtIn(packets', i))
                    /\ Enters(m.id, i, LostAs(lost, i), LostAs(lost', i))
  <2>1. ASSUME NEW i
        PROVE  Enters(m.id, i, LostAs(lost, i), LostAs(lost \cup {[id |-> m.id, why |-> why]}, i))
    BY LostOne
  <2> QED
    BY <1>2, <2>1, SameSet
<1>3. CASE packets' = packets /\ lost' = lost \cup {[id |-> m.id, why |-> "too long"]}
  BY <1>2, <1>3
<1>4. CASE packets' = packets /\ lost' = lost \cup {[id |-> m.id, why |-> "not taken"]}
  BY <1>2, <1>4
<1> QED
  BY <1>1, <1>3, <1>4 DEF Deliver, Lose

(* FileEvent puts the event in one place. *)
LEMMA PlacedFileEvent ==
  ASSUME Types, Placed, NEW e \in Happenings, FileEvent(e)
  PROVE  Placed'
<1>1. PICK c : c = [e EXCEPT !.filePath = Capture(@)]
  OBVIOUS
<1>2. PICK n : n = Len(happened) + 1
  OBVIOUS
<1>3. PICK m : m = [id |-> n, message |-> Serialize(Populate(e))]
  OBVIOUS
<1>4. c \in Events /\ Populate(e) \in Events
  BY <1>1, EventPathAssumption, CapturedType, PopulateType
<1>5. /\ happened' = Append(happened, c)
      /\ UNCHANGED <<packets, worker, queue, loop, published, together>>
      /\ \/ ring' = ring /\ \E y \in Losses : lost' = lost \cup {[id |-> n, why |-> y]}
         \/ ring' = Append(ring, m) /\ lost' = lost
  BY <1>1, <1>2, <1>3, LossesAre DEF FileEvent, Lose
<1>6. m \in Sent' /\ m.id = n /\ ring \in Seq(Sent') /\ n \notin Ids
  BY <1>2, <1>3, <1>4, <1>5, HappenedGrows, SerializeType, TypesGrow DEF Sent
<1>7. ASSUME NEW i PROVE \A k \in 2..6 : Same(Places(i)[k], Places(i)'[k])
  BY <1>5, PlacesAre, SameSet
<1>8. PICK b \in {1, 7} : \A i :
        /\ Enters(n, i, Places(i)[b], Places(i)'[b])
        /\ \A k \in {1, 7} \ {b} : Same(Places(i)[k], Places(i)'[k])
  <2>1. CASE ring' = ring /\ \E y \in Losses : lost' = lost \cup {[id |-> n, why |-> y]}
    <3>0. PICK y \in Losses : lost' = lost \cup {[id |-> n, why |-> y]}
      BY <2>1
    <3>1. ASSUME NEW i PROVE Enters(n, i, LostAs(lost, i), LostAs(lost', i))
      BY <3>0, LostOne
    <3>2. ASSUME NEW i
          PROVE  Same(Places(i)[1], Places(i)'[1]) /\ Enters(n, i, Places(i)[7], Places(i)'[7])
      BY <2>1, <3>1, PlacesAre, SameSet
    <3> QED
      BY <3>2
  <2>2. CASE ring' = Append(ring, m) /\ lost' = lost
    <3>1. ASSUME NEW i PROVE Enters(n, i, AtIn(ring, i), AtIn(ring', i))
      BY <1>6, <2>2, AtAppend
    <3>2. ASSUME NEW i
          PROVE  Same(Places(i)[7], Places(i)'[7]) /\ Enters(n, i, Places(i)[1], Places(i)'[1])
      BY <2>2, <3>1, PlacesAre, SameSet
    <3> QED
      BY <3>2
  <2> QED
    BY <1>5, <2>1, <2>2
<1>9. \A i \in Ids : Stays(Places(i), Places(i)')
  BY <1>6, <1>7, <1>8 DEF Stays, Enters
<1>10. Come(Places(n)[b], Places(n)'[b]) /\ \A k \in 1..7 \ {b} : Same(Places(n)[k], Places(n)'[k])
  BY <1>7, <1>8 DEF Enters
<1> QED
  BY <1>2, <1>4, <1>5, <1>9, <1>10, PlacedNew

(* ProcessEvent puts the event in one place. *)
LEMMA PlacedProcessEvent ==
  ASSUME Types, Placed, NEW e \in Happenings, ProcessEvent(e)
  PROVE  Placed'
<1>2. PICK n : n = Len(happened) + 1
  OBVIOUS
<1>3. PICK m : m = [id |-> n, message |-> Serialize(e)]
  OBVIOUS
<1>4. e \in Events
  BY EventPathAssumption
<1>5. /\ happened' = Append(happened, e)
      /\ UNCHANGED <<ring, worker, queue, loop, published, together>>
      /\ \/ packets' = packets /\ lost' = lost \cup {[id |-> n, why |-> "overflow"]}
         \/ Deliver(m)
  BY <1>2, <1>3 DEF ProcessEvent, Lose
<1>6. m \in Sent' /\ m.id = n /\ packets \in Seq(Sent') /\ n \notin Ids
  BY <1>2, <1>3, <1>4, <1>5, HappenedGrows, SerializeType, TypesGrow DEF Sent
<1>7. ASSUME NEW i PROVE \A k \in {1, 3, 4, 5, 6} : Same(Places(i)[k], Places(i)'[k])
  BY <1>5, PlacesAre, SameSet
<1>8. PICK b \in {2, 7} : \A i :
        /\ Enters(n, i, Places(i)[b], Places(i)'[b])
        /\ \A k \in {2, 7} \ {b} : Same(Places(i)[k], Places(i)'[k])
  <2>1. \/ \A i : /\ Enters(n, i, AtIn(packets, i), AtIn(packets', i))
                  /\ Same(LostAs(lost, i), LostAs(lost', i))
        \/ \A i : /\ Same(AtIn(packets, i), AtIn(packets', i))
                  /\ Enters(n, i, LostAs(lost, i), LostAs(lost', i))
    <3>1. CASE packets' = packets /\ lost' = lost \cup {[id |-> n, why |-> "overflow"]}
      <4>1. ASSUME NEW i PROVE Enters(n, i, LostAs(lost, i), LostAs(lost', i))
        BY <3>1, LostOne
      <4> QED
        BY <3>1, <4>1, SameSet
    <3>2. CASE Deliver(m)
      BY <1>6, <3>2, DeliverPlaces
    <3> QED
      BY <1>5, <3>1, <3>2
  <2> QED
    BY <2>1, PlacesAre
<1>9. \A i \in Ids : Stays(Places(i), Places(i)')
  BY <1>6, <1>7, <1>8 DEF Stays, Enters
<1>10. Come(Places(n)[b], Places(n)'[b]) /\ \A k \in 1..7 \ {b} : Same(Places(n)[k], Places(n)'[k])
  BY <1>7, <1>8 DEF Enters
<1> QED
  BY <1>2, <1>4, <1>5, <1>9, <1>10, PlacedNew

(* A ring that breaks loses the events in it, and no others. *)
LEMMA PlacedBreaks ==
  ASSUME Types, Placed, RingBreaks
  PROVE  Placed'
<1>1. ring' = << >> /\ UNCHANGED <<happened, packets, worker, queue, loop, published>>
  BY DEF RingBreaks
<1>2. ASSUME NEW i \in Ids PROVE Somewhere(Places(i)')
  <2>1. Somewhere(Places(i)) /\ AtIn(ring', i) = {}
    BY <1>1 DEF Placed, AtIn
  <2>2. \A k \in 2..6 : Same(Places(i)[k], Places(i)'[k])
    BY <1>1, PlacesAre, SameSet
  <2>3. CASE AtIn(ring, i) = {}
    <3>1. LostAs(lost', i) = LostAs(lost, i)
      BY <2>3, BreakLoses DEF LostAs, AtIn
    <3>2. Stays(Places(i), Places(i)')
      BY <2>1, <2>2, <2>3, <3>1, PlacesAre, SameSet DEF Stays
    <3> QED
      BY <2>1, <3>2, StaysSomewhere
  <2>4. CASE AtIn(ring, i) # {}
    <3>1. PICK r : r = [id |-> i, why |-> "astray"]
      OBVIOUS
    <3>2. PICK k \in DOMAIN ring : ring[k].id = i
      BY <2>4 DEF AtIn
    <3>3. r \in LostAs(lost', i)
      BY <3>1, <3>2, BreakLoses DEF LostAs
    <3>4. \A x \in LostAs(lost', i) : x \in LostAs(lost, i) \/ x = r
      BY <3>1, BreakLoses DEF LostAs
    <3>5. Come(LostAs(lost, i), LostAs(lost', i))
      <4>1. ASSUME LostAs(lost, i) = {} PROVE LostAs(lost', i) = {r}
        BY <3>3, <3>4, <4>1
      <4> QED
        BY <4>1 DEF Come, One
    <3>6. Gone(AtIn(ring, i), AtIn(ring', i))
      BY <2>1, <2>4 DEF Gone
    <3>7. Goes(Places(i), Places(i)', 1, 7)
      BY <2>2, <3>5, <3>6, PlacesAre DEF Goes
    <3>8. 7 \in 1..7 \ {1} /\ 1 \in 1..7
      OBVIOUS
    <3> QED
      BY <2>1, <3>7, <3>8, GoesSomewhere
  <2> QED
    BY <2>3, <2>4
<1>3. Ids' = Ids
  BY <1>1 DEF Ids
<1> QED
  BY <1>2, <1>3 DEF Placed, Somewhere

(* SendMessage moves the event to the packets or loses it. *)
LEMMA PlacedSend ==
  ASSUME Types, Placed, SendMessage
  PROVE  Placed'
<1>0. PICK m : m = Head(ring)
  OBVIOUS
<1>1. /\ ring # << >> /\ ring' = Tail(ring) /\ Deliver(m)
      /\ UNCHANGED <<happened, worker, queue, loop, published, together>>
  BY <1>0 DEF SendMessage
<1>2. ring \in Seq(Sent) /\ packets \in Seq(Sent) /\ m \in Sent
  BY <1>0, <1>1, HeadTail DEF Types
<1>3. ASSUME NEW i PROVE Leaves(m.id, i, AtIn(ring, i), AtIn(ring', i))
  BY <1>0, <1>1, <1>2, AtTail
<1>4. ASSUME NEW i
      PROVE  /\ Leaves(m.id, i, Places(i)[1], Places(i)'[1])
             /\ \A k \in 3..6 : Same(Places(i)[k], Places(i)'[k])
  BY <1>1, <1>3, PlacesAre, SameSet
<1>5. PICK b \in {2, 7} : \A i :
        /\ Enters(m.id, i, Places(i)[b], Places(i)'[b])
        /\ \A k \in {2, 7} \ {b} : Same(Places(i)[k], Places(i)'[k])
  <2>1. \/ \A i : /\ Enters(m.id, i, AtIn(packets, i), AtIn(packets', i))
                  /\ Same(LostAs(lost, i), LostAs(lost', i))
        \/ \A i : /\ Same(AtIn(packets, i), AtIn(packets', i))
                  /\ Enters(m.id, i, LostAs(lost, i), LostAs(lost', i))
    BY <1>1, <1>2, DeliverPlaces
  <2> QED
    BY <2>1, PlacesAre
<1>6. \A i \in Ids : Moved(Places(i), Places(i)', i, m.id, 1, b)
  BY <1>4, <1>5 DEF Moved, Goes, Stays, Enters, Leaves
<1>q. 1 \in 1..7 /\ b \in 1..7 \ {1}
  OBVIOUS
<1> QED
  BY <1>1, <1>6, <1>q, PlacedMoves

(* Dequeue moves the event to the worker. *)
LEMMA PlacedDequeue ==
  ASSUME Types, Placed, NEW w \in Workers, Dequeue(w)
  PROVE  Placed'
<1>0. PICK m : m = Head(packets)
  OBVIOUS
<1>1. /\ packets # << >> /\ packets' = Tail(packets) /\ worker[w] = Nothing
      /\ worker' = [worker EXCEPT ![w] = m]
      /\ UNCHANGED <<happened, ring, queue, loop, published, lost>>
  BY <1>0 DEF Dequeue
<1>2. packets \in Seq(Sent) /\ worker = [v \in Workers |-> worker[v]] /\ m # Nothing
  BY <1>0, <1>1, HeadTail, SomethingHeld DEF Types
<1>3. ASSUME NEW i PROVE Leaves(m.id, i, AtIn(packets, i), AtIn(packets', i))
  BY <1>0, <1>1, <1>2, AtTail
<1>4. ASSUME NEW i PROVE Enters(m.id, i, HeldBy(worker, Workers, i), HeldBy(worker', Workers, i))
  BY <1>1, <1>2, HeldTaken
<1>5. ASSUME NEW i
      PROVE  /\ Leaves(m.id, i, Places(i)[2], Places(i)'[2])
             /\ Enters(m.id, i, Places(i)[3], Places(i)'[3])
             /\ \A k \in {1, 4, 5, 6, 7} : Same(Places(i)[k], Places(i)'[k])
  <2>1. Leaves(m.id, i, Places(i)[2], Places(i)'[2])
    BY <1>3, PlacesAre
  <2>2. Enters(m.id, i, Places(i)[3], Places(i)'[3])
    BY <1>4, PlacesAre
  <2>3. \A k \in {1, 4, 5, 6, 7} : Same(Places(i)[k], Places(i)'[k])
    BY <1>1, PlacesAre, SameSet
  <2> QED
    BY <2>1, <2>2, <2>3
<1>6. \A i \in Ids : Moved(Places(i), Places(i)', i, m.id, 2, 3)
  BY <1>5 DEF Moved, Goes, Stays, Enters, Leaves
<1>q. 2 \in 1..7 /\ 3 \in 1..7 \ {2}
  OBVIOUS
<1> QED
  BY <1>1, <1>6, <1>q, PlacedMoves

(* ProcessCompletedIO moves the event to the queue or loses it. *)
LEMMA PlacedCompleted ==
  ASSUME Types, Placed, NEW w \in Workers, ProcessCompletedIO(w)
  PROVE  Placed'
<1>0. PICK n : n = worker[w].id
  OBVIOUS
<1>1. PICK x : x = [id |-> n, data |-> Parse(worker[w].message)]
  OBVIOUS
<1>2. /\ worker[w] # Nothing /\ worker' = [worker EXCEPT ![w] = Nothing]
      /\ \/ queue' = Append(queue, x) /\ lost' = lost
         \/ queue' = queue /\ lost' = lost \cup {[id |-> n, why |-> "queue full"]}
      /\ UNCHANGED <<happened, ring, packets, loop, published, together>>
  BY <1>0, <1>1 DEF ProcessCompletedIO, Lose
<1>3. queue \in Seq(Parsed) /\ worker = [v \in Workers |-> worker[v]]
  BY DEF Types
<1>4. x \in Parsed /\ x.id = n
  <2>1. worker[w] \in Sent
    BY <1>2 DEF Types
  <2> QED
    BY <1>0, <1>1, <2>1, ParseType DEF Sent, Parsed
<1>5. ASSUME NEW i PROVE Leaves(n, i, HeldBy(worker, Workers, i), HeldBy(worker', Workers, i))
  BY <1>0, <1>2, <1>3, HeldGiven
<1>6. ASSUME NEW i
      PROVE  /\ Leaves(n, i, Places(i)[3], Places(i)'[3])
             /\ \A k \in {1, 2, 5, 6} : Same(Places(i)[k], Places(i)'[k])
  <2>1. Leaves(n, i, Places(i)[3], Places(i)'[3])
    BY <1>5, PlacesAre
  <2>2. /\ Same(Places(i)[1], Places(i)'[1]) /\ Same(Places(i)[2], Places(i)'[2])
        /\ Same(Places(i)[5], Places(i)'[5]) /\ Same(Places(i)[6], Places(i)'[6])
    BY <1>2, PlacesAre, SameSet
  <2> QED
    BY <2>1, <2>2
<1>7. PICK b \in {4, 7} : \A i :
        /\ Enters(n, i, Places(i)[b], Places(i)'[b])
        /\ \A k \in {4, 7} \ {b} : Same(Places(i)[k], Places(i)'[k])
  <2>1. CASE queue' = Append(queue, x) /\ lost' = lost
    <3>1. ASSUME NEW i PROVE Enters(n, i, AtIn(queue, i), AtIn(queue', i))
      BY <1>3, <1>4, <2>1, AtAppend
    <3>2. ASSUME NEW i
          PROVE  Same(Places(i)[7], Places(i)'[7]) /\ Enters(n, i, Places(i)[4], Places(i)'[4])
      BY <2>1, <3>1, PlacesAre, SameSet
    <3> QED
      BY <3>2
  <2>2. CASE queue' = queue /\ lost' = lost \cup {[id |-> n, why |-> "queue full"]}
    <3>1. ASSUME NEW i PROVE Enters(n, i, LostAs(lost, i), LostAs(lost', i))
      BY <2>2, LostOne
    <3>2. ASSUME NEW i
          PROVE  Same(Places(i)[4], Places(i)'[4]) /\ Enters(n, i, Places(i)[7], Places(i)'[7])
      <4>1. Enters(n, i, Places(i)[7], Places(i)'[7])
        BY <3>1, PlacesAre
      <4>2. queue' = queue
        BY <2>2
      <4>3. Same(Places(i)[4], Places(i)'[4])
        BY <4>2, PlacesAre, SameSet
      <4> QED
        BY <4>1, <4>3
    <3> QED
      BY <3>2
  <2> QED
    BY <1>2, <2>1, <2>2
<1>8. \A i \in Ids : Moved(Places(i), Places(i)', i, n, 3, b)
  BY <1>6, <1>7 DEF Moved, Goes, Stays, Enters, Leaves
<1>q. 3 \in 1..7 /\ b \in 1..7 \ {3}
  OBVIOUS
<1> QED
  BY <1>2, <1>8, <1>q, PlacedMoves

(* ReceiveEvent moves the event to the loop. *)
LEMMA PlacedReceive ==
  ASSUME Types, Placed, NEW l \in Loops, ReceiveEvent(l)
  PROVE  Placed'
<1>0. PICK m : m = Head(queue)
  OBVIOUS
<1>1. /\ queue # << >> /\ queue' = Tail(queue) /\ loop[l] = Nothing
      /\ loop' = [loop EXCEPT ![l] = m]
      /\ UNCHANGED <<happened, ring, packets, worker, published, lost>>
  BY <1>0 DEF ReceiveEvent
<1>2. queue \in Seq(Parsed) /\ loop = [v \in Loops |-> loop[v]] /\ m # Nothing
  BY <1>0, <1>1, HeadTail, SomethingHeld DEF Types
<1>3. ASSUME NEW i PROVE Leaves(m.id, i, AtIn(queue, i), AtIn(queue', i))
  BY <1>0, <1>1, <1>2, AtTail
<1>4. ASSUME NEW i PROVE Enters(m.id, i, HeldBy(loop, Loops, i), HeldBy(loop', Loops, i))
  BY <1>1, <1>2, HeldTaken
<1>5. ASSUME NEW i
      PROVE  /\ Leaves(m.id, i, Places(i)[4], Places(i)'[4])
             /\ Enters(m.id, i, Places(i)[5], Places(i)'[5])
             /\ \A k \in {1, 2, 3, 6, 7} : Same(Places(i)[k], Places(i)'[k])
  <2>1. Leaves(m.id, i, Places(i)[4], Places(i)'[4])
    BY <1>3, PlacesAre
  <2>2. Enters(m.id, i, Places(i)[5], Places(i)'[5])
    BY <1>4, PlacesAre
  <2>3. \A k \in {1, 2, 3, 6, 7} : Same(Places(i)[k], Places(i)'[k])
    BY <1>1, PlacesAre, SameSet
  <2> QED
    BY <2>1, <2>2, <2>3
<1>6. \A i \in Ids : Moved(Places(i), Places(i)', i, m.id, 4, 5)
  BY <1>5 DEF Moved, Goes, Stays, Enters, Leaves
<1>q. 4 \in 1..7 /\ 5 \in 1..7 \ {4}
  OBVIOUS
<1> QED
  BY <1>1, <1>6, <1>q, PlacedMoves

(* Publish publishes it. *)
LEMMA PlacedPublish ==
  ASSUME Types, Placed, NEW l \in Loops, Publish(l)
  PROVE  Placed'
<1>0. PICK n : n = loop[l].id
  OBVIOUS
<1>1. /\ loop[l] # Nothing /\ loop' = [loop EXCEPT ![l] = Nothing]
      /\ UNCHANGED <<happened, ring, packets, worker, queue, lost, together>>
  BY DEF Publish
<1>2. published \in Seq(Said) /\ loop = [v \in Loops |-> loop[v]]
  BY DEF Types
<1>3. PICK x \in Said : x.id = n /\ published' = Append(published, x)
  <2>1. PICK stream \in {"alert", "log"} :
          published' = Append(published, [id |-> loop[l].id, stream |-> stream,
                                          report |-> Convert(loop[l].data)])
    BY DEF Publish
  <2>2. loop[l] \in Parsed
    BY <1>1 DEF Types
  <2>3. loop[l].id \in Ids /\ loop[l].data \in Data
    BY <2>2 DEF Parsed
  <2>4. [id |-> loop[l].id, stream |-> stream, report |-> Convert(loop[l].data)] \in Said
    BY <2>3 DEF Said
  <2> QED
    BY <1>0, <2>1, <2>4
<1>4. ASSUME NEW i PROVE Leaves(n, i, HeldBy(loop, Loops, i), HeldBy(loop', Loops, i))
  BY <1>0, <1>1, <1>2, HeldGiven
<1>5. ASSUME NEW i PROVE Enters(n, i, AtIn(published, i), AtIn(published', i))
  BY <1>2, <1>3, AtAppend
<1>6. ASSUME NEW i
      PROVE  /\ Leaves(n, i, Places(i)[5], Places(i)'[5])
             /\ Enters(n, i, Places(i)[6], Places(i)'[6])
             /\ \A k \in {1, 2, 3, 4, 7} : Same(Places(i)[k], Places(i)'[k])
  <2>1. Leaves(n, i, Places(i)[5], Places(i)'[5])
    BY <1>4, PlacesAre
  <2>2. Enters(n, i, Places(i)[6], Places(i)'[6])
    BY <1>5, PlacesAre
  <2>3. \A k \in {1, 2, 3, 4, 7} : Same(Places(i)[k], Places(i)'[k])
    BY <1>1, PlacesAre, SameSet
  <2> QED
    BY <2>1, <2>2, <2>3
<1>7. \A i \in Ids : Moved(Places(i), Places(i)', i, n, 5, 6)
  BY <1>6 DEF Moved, Goes, Stays, Enters, Leaves
<1>q. 5 \in 1..7 /\ 6 \in 1..7 \ {5}
  OBVIOUS
<1> QED
  BY <1>1, <1>7, <1>q, PlacedMoves

(* Every step keeps every event in one place. *)
LEMMA PlacedStep == Types /\ Placed /\ [Next]_vars => Placed'
<1> SUFFICES ASSUME Types, Placed, [Next]_vars PROVE Placed'
  OBVIOUS
<1>1. CASE \E e \in Happenings : FileEvent(e)
  BY <1>1, PlacedFileEvent
<1>2. CASE \E e \in Happenings : ProcessEvent(e)
  BY <1>2, PlacedProcessEvent
<1>3. CASE UNCHANGED vars
  <2>1. Ids' = Ids
    BY <1>3 DEF vars, Ids
  <2>2. ASSUME NEW i \in Ids PROVE Places(i)' = Places(i)
    BY <1>3 DEF vars, Places
  <2>3. ASSUME NEW i \in Ids PROVE Somewhere(Places(i)')
    BY <2>2 DEF Placed
  <2> QED
    BY <2>1, <2>3 DEF Placed, Somewhere
<1> QED
  BY <1>1, <1>2, <1>3, NextCases, PlacedBreaks, PlacedSend, PlacedDequeue, PlacedCompleted,
     PlacedReceive, PlacedPublish

(* The invariants give what is said of every event. *)
LEMMA AccountedFrom == Types /\ Truth /\ Placed => EventsAccounted
<1> SUFFICES ASSUME Types, Truth, Placed PROVE EventsAccounted
  OBVIOUS
<1>1. TypeOK
  <2>1. \A i \in Ids : happened[i] \in Events
    BY DEF Types, Ids
  <2>2. \A x \in Members(ring) \cup Members(packets) : x \in Sent
    BY DEF Types, Members
  <2>3. \A w \in Workers : worker[w] = Nothing \/ worker[w] \in Sent
    BY DEF Types
  <2>4. \A x \in Members(queue) : x \in Parsed
    BY DEF Types, Members
  <2>5. \A l \in Loops : loop[l] = Nothing \/ loop[l] \in Parsed
    BY DEF Types
  <2> QED
    BY <2>1, <2>2, <2>3, <2>4, <2>5 DEF Types, TypeOK
<1>2. OnePlace
  <2>1. ASSUME NEW S, One(S) PROVE Cardinality(S) = 1
    <3>1. PICK x : S = {x}
      BY <2>1 DEF One
    <3> QED
      BY <3>1, FS_Singleton
  <2>2. ASSUME NEW i \in Ids
        PROVE  \E k \in 1..7 : /\ Cardinality(Places(i)[k]) = 1
                               /\ \A j \in 1..7 \ {k} : Places(i)[j] = {}
    <3>1. PICK k \in 1..7 : One(Places(i)[k]) /\ \A j \in 1..7 \ {k} : Places(i)[j] = {}
      BY DEF Placed, Somewhere
    <3> QED
      BY <2>1, <3>1
  <2> QED
    BY <2>2 DEF OnePlace
<1>3. FileEventsFit
  BY DEF Truth, NotForSize, FileEventsFit
<1> QED
  BY <1>1, <1>2, <1>3 DEF EventsAccounted

(* EventsAccounted: from the driver's callback to the subscribers an event *)
(* is in one place at a time, is published once or lost once, and a file   *)
(* event is not lost for its size, however many events, workers and loops  *)
(* there are.                                                              *)
THEOREM EveryEventAccounted == Spec => []EventsAccounted
<1>1. Init => Placed
  BY DEF Init, Placed, Ids
<1> QED
  BY <1>1, AccountedFrom, TruthInit, TruthStep, PlacedStep, PTL DEF Spec

-----------------------------------------------------------------------------
(* ThreadSafeQueue. *)

QueueInv == QueueTypeOK /\ WakeupsSuffice /\ NobodySleepsClosed

(* How many threads there are in a set of threads, when it grows by one.   *)
LEMMA ThreadCount ==
  ASSUME NEW S, S \subseteq Threads
  PROVE  /\ IsFiniteSet(S) /\ Cardinality(S) \in Nat
         /\ \A t \in Threads \ S : Cardinality(S \cup {t}) = Cardinality(S) + 1
         /\ \A t \in Threads : /\ Cardinality(S \ {t}) \in Nat
                               /\ Cardinality(S) - 1 <= Cardinality(S \ {t})
<1>1. IsFiniteSet(S)
  BY FS_Subset, QueueAssumption
<1>2. Cardinality(S) \in Nat
  BY <1>1, FS_CardinalityType
<1>3. \A t \in Threads \ S : Cardinality(S \cup {t}) = Cardinality(S) + 1
  BY <1>1, FS_AddElement
<1>4. ASSUME NEW t \in Threads
      PROVE  /\ Cardinality(S \ {t}) \in Nat
             /\ Cardinality(S) - 1 <= Cardinality(S \ {t})
  <2>1. CASE t \in S
    <3>1. Cardinality(S \ {t}) = Cardinality(S) - 1
      BY <1>1, <2>1, FS_RemoveElement
    <3>2. IsFiniteSet(S \ {t})
      BY <1>1, FS_Subset
    <3> QED
      BY <1>2, <3>1, <3>2, FS_CardinalityType
  <2>2. CASE t \notin S
    <3>1. S \ {t} = S
      BY <2>2
    <3> QED
      BY <1>2, <3>1
  <2> QED
    BY <2>1, <2>2
<1> QED
  BY <1>1, <1>2, <1>3, <1>4

(* The sets of waiting and of woken threads are sets of threads. *)
LEMMA ThreadSets ==
  /\ PushWaiting \subseteq Threads /\ PopWaiting \subseteq Threads
  /\ PushWoken \subseteq Threads /\ PopWoken \subseteq Threads
BY DEF PushWaiting, PopWaiting, PushWoken, PopWoken

(* Every action keeps the types. *)
LEMMA QueueTypeStep == QueueTypeOK /\ [QueueNext]_queueVars => QueueTypeOK'
<1> SUFFICES ASSUME QueueTypeOK, [QueueNext]_queueVars PROVE QueueTypeOK'
  OBVIOUS
<1> USE QueueAssumption
<1>1. ASSUME NEW t \in Threads, Call(t) PROVE QueueTypeOK'
  BY <1>1 DEF QueueTypeOK, Call, Goto, PushOps, PopOps
<1>2. ASSUME NEW t \in Threads, PushAccepts(t) PROVE QueueTypeOK'
  BY <1>2 DEF QueueTypeOK, PushAccepts, ReturnNotifyOne, Goto, Full, PopWaiting
<1>3. ASSUME NEW t \in Threads, PopTakes(t) PROVE QueueTypeOK'
  BY <1>3 DEF QueueTypeOK, PopTakes, ReturnNotifyOne, Goto, Empty, PushWaiting
<1>4. ASSUME NEW t \in Threads,
             \/ PushRefused(t) \/ PushWaits(t) \/ PushTimesOut(t)
             \/ PopClosed(t) \/ PopWaits(t) \/ PopTimesOut(t)
             \/ SpuriousWake(t) \/ Timeout(t)
      PROVE  QueueTypeOK'
  BY <1>4 DEF QueueTypeOK, Goto, PushRefused, PushWaits, PushTimesOut, PopClosed,
              PopWaits, PopTimesOut, SpuriousWake, Timeout
<1>5. CASE Close
  <2>1. closed' \in BOOLEAN
    BY <1>5, Zenon DEF Close
  <2> QED
    BY <1>5, <2>1 DEF QueueTypeOK, Close, NotifyAll
<1>6. CASE Clear
  BY <1>6 DEF QueueTypeOK, Clear, NotifyAll
<1>7. CASE UNCHANGED queueVars
  BY <1>7 DEF QueueTypeOK, queueVars
<1> QED
  BY <1>1, <1>2, <1>3, <1>4, <1>5, <1>6, <1>7 DEF QueueNext, Push, Pop

(* Every action keeps the balance of wake-ups. *)
LEMMA WakeStep == QueueInv /\ [QueueNext]_queueVars => WakeupsSuffice' /\ NobodySleepsClosed'
<1> SUFFICES ASSUME QueueInv, [QueueNext]_queueVars
             PROVE  WakeupsSuffice' /\ NobodySleepsClosed'
  OBVIOUS
<1> USE QueueAssumption
<1>0. QueueTypeOK /\ WakeupsSuffice /\ NobodySleepsClosed
  BY DEF QueueInv
<1>1. /\ Cardinality(PushWoken) \in Nat /\ Cardinality(PopWoken) \in Nat
  BY ThreadSets, ThreadCount
<1>2. ASSUME NEW t \in Threads, Call(t)
      PROVE  WakeupsSuffice' /\ NobodySleepsClosed'
  <2>1. /\ PushWaiting' = PushWaiting /\ PopWaiting' = PopWaiting
        /\ PushWoken' = PushWoken /\ PopWoken' = PopWoken
    BY <1>0, <1>2 DEF QueueTypeOK, Call, Goto, PushWaiting, PopWaiting, PushWoken, PopWoken
  <2> QED
    BY <1>0, <1>2, <2>1 DEF QueueTypeOK, Call, Goto, WakeupsSuffice, NobodySleepsClosed
<1>3. ASSUME NEW t \in Threads, PushAccepts(t)
      PROVE  WakeupsSuffice' /\ NobodySleepsClosed'
  <2>0. /\ ~closed /\ ~closed' /\ op' = op /\ size' = size + 1 /\ st[t] # "wait"
        /\ op[t] \in PushOps /\ op[t] \notin PopOps
    BY <1>3 DEF PushAccepts, Locks, PushOps, PopOps
  <2>1. CASE PopWaiting = {}
    <3>1. st' = [st EXCEPT ![t] = "idle"]
      BY <1>3, <2>1 DEF PushAccepts, ReturnNotifyOne, Goto
    <3>2. PopWaiting' = {} /\ PushWaiting' = PushWaiting
          /\ PushWoken' = PushWoken \ {t}
      BY <1>0, <2>0, <2>1, <3>1 DEF QueueTypeOK, PopWaiting, PushWaiting, PushWoken
    <3>3. /\ Cardinality(PushWoken \ {t}) \in Nat
          /\ Cardinality(PushWoken) - 1 <= Cardinality(PushWoken \ {t})
      BY ThreadSets, ThreadCount
    <3> QED
      BY <1>0, <1>1, <2>0, <3>2, <3>3 DEF QueueTypeOK, WakeupsSuffice, NobodySleepsClosed
  <2>2. CASE PopWaiting # {}
    <3>1. PICK w \in PopWaiting : st' = [st EXCEPT ![t] = "idle", ![w] = "woken"]
      BY <1>3, <2>2 DEF PushAccepts, ReturnNotifyOne
    <3>2. w \in Threads /\ w # t /\ w \notin PopWoken /\ op[w] \notin PushOps
      BY <2>0, <3>1 DEF PopWaiting, PopWoken, PushOps, PopOps
    <3>3. PopWoken' = PopWoken \cup {w} /\ PushWaiting' = PushWaiting
          /\ PushWoken' = PushWoken \ {t}
      BY <1>0, <2>0, <3>1, <3>2
      DEF QueueTypeOK, PopWaiting, PushWaiting, PopWoken, PushWoken
    <3>4. /\ Cardinality(PushWoken \ {t}) \in Nat
          /\ Cardinality(PushWoken) - 1 <= Cardinality(PushWoken \ {t})
          /\ Cardinality(PopWoken \cup {w}) = Cardinality(PopWoken) + 1
      BY <3>2, ThreadSets, ThreadCount
    <3> QED
      BY <1>0, <1>1, <2>0, <2>2, <3>3, <3>4
      DEF QueueTypeOK, WakeupsSuffice, NobodySleepsClosed
  <2> QED
    BY <2>1, <2>2
<1>4. ASSUME NEW t \in Threads, PopTakes(t)
      PROVE  WakeupsSuffice' /\ NobodySleepsClosed'
  <2>0. /\ closed' = closed /\ op' = op /\ size' = size - 1 /\ st[t] # "wait"
        /\ op[t] \in PopOps /\ op[t] \notin PushOps
    BY <1>4 DEF PopTakes, Locks, PushOps, PopOps
  <2>1. CASE PushWaiting = {}
    <3>1. st' = [st EXCEPT ![t] = "idle"]
      BY <1>4, <2>1 DEF PopTakes, ReturnNotifyOne, Goto
    <3>2. PushWaiting' = {} /\ PopWaiting' = PopWaiting
          /\ PopWoken' = PopWoken \ {t}
      BY <1>0, <2>0, <2>1, <3>1 DEF QueueTypeOK, PopWaiting, PushWaiting, PopWoken
    <3>3. /\ Cardinality(PopWoken \ {t}) \in Nat
          /\ Cardinality(PopWoken) - 1 <= Cardinality(PopWoken \ {t})
      BY ThreadSets, ThreadCount
    <3>4. NobodySleepsClosed'
      BY <1>0, <2>0, <3>1 DEF QueueTypeOK, NobodySleepsClosed
    <3> QED
      BY <1>0, <1>1, <2>0, <3>2, <3>3, <3>4 DEF QueueTypeOK, WakeupsSuffice
  <2>2. CASE PushWaiting # {}
    <3>1. PICK w \in PushWaiting : st' = [st EXCEPT ![t] = "idle", ![w] = "woken"]
      BY <1>4, <2>2 DEF PopTakes, ReturnNotifyOne
    <3>2. w \in Threads /\ w # t /\ w \notin PushWoken /\ op[w] \notin PopOps
      BY <2>0, <3>1 DEF PushWaiting, PushWoken, PushOps, PopOps
    <3>3. PushWoken' = PushWoken \cup {w} /\ PopWaiting' = PopWaiting
          /\ PopWoken' = PopWoken \ {t}
      BY <1>0, <2>0, <3>1, <3>2
      DEF QueueTypeOK, PopWaiting, PushWaiting, PopWoken, PushWoken
    <3>4. /\ Cardinality(PopWoken \ {t}) \in Nat
          /\ Cardinality(PopWoken) - 1 <= Cardinality(PopWoken \ {t})
          /\ Cardinality(PushWoken \cup {w}) = Cardinality(PushWoken) + 1
      BY <3>2, ThreadSets, ThreadCount
    <3>5. ~closed
      BY <1>0, <3>1 DEF NobodySleepsClosed, PushWaiting
    <3> QED
      BY <1>0, <1>1, <2>0, <2>2, <3>3, <3>4, <3>5
      DEF QueueTypeOK, WakeupsSuffice, NobodySleepsClosed
  <2> QED
    BY <2>1, <2>2
<1>5. ASSUME NEW t \in Threads, PushRefused(t) \/ PopClosed(t)
      PROVE  WakeupsSuffice' /\ NobodySleepsClosed'
  BY <1>0, <1>5
  DEF QueueTypeOK, PushRefused, PopClosed, Goto, WakeupsSuffice, NobodySleepsClosed
<1>6. ASSUME NEW t \in Threads, PushWaits(t)
      PROVE  WakeupsSuffice' /\ NobodySleepsClosed'
  <2>1. /\ PopWaiting' = PopWaiting /\ PopWoken' = PopWoken
        /\ PushWoken' = PushWoken \ {t}
    BY <1>0, <1>6 DEF QueueTypeOK, PushWaits, Goto, PopWaiting, PopWoken, PushWoken,
                      PushOps, PopOps
  <2>2. Cardinality(PushWoken \ {t}) \in Nat
    BY ThreadSets, ThreadCount
  <2> QED
    BY <1>0, <1>6, <2>1, <2>2
    DEF QueueTypeOK, PushWaits, Goto, Full, WakeupsSuffice, NobodySleepsClosed
<1>7. ASSUME NEW t \in Threads, PopWaits(t)
      PROVE  WakeupsSuffice' /\ NobodySleepsClosed'
  <2>1. /\ PushWaiting' = PushWaiting /\ PushWoken' = PushWoken
        /\ PopWoken' = PopWoken \ {t}
    BY <1>0, <1>7 DEF QueueTypeOK, PopWaits, Goto, PushWaiting, PushWoken, PopWoken,
                      PushOps, PopOps
  <2>2. Cardinality(PopWoken \ {t}) \in Nat
    BY ThreadSets, ThreadCount
  <2> QED
    BY <1>0, <1>7, <2>1, <2>2
    DEF QueueTypeOK, PopWaits, Goto, Empty, WakeupsSuffice, NobodySleepsClosed
<1>8. ASSUME NEW t \in Threads, PushTimesOut(t) \/ PopTimesOut(t)
      PROVE  WakeupsSuffice' /\ NobodySleepsClosed'
  <2>1. /\ PushWaiting' = PushWaiting /\ PopWaiting' = PopWaiting
        /\ PushWoken' = PushWoken /\ PopWoken' = PopWoken
    BY <1>0, <1>8 DEF QueueTypeOK, PushTimesOut, PopTimesOut, Goto, PushWaiting,
                      PopWaiting, PushWoken, PopWoken
  <2> QED
    BY <1>0, <1>8, <2>1 DEF QueueTypeOK, PushTimesOut, PopTimesOut, Goto,
                            WakeupsSuffice, NobodySleepsClosed
<1>9. ASSUME NEW t \in Threads, SpuriousWake(t)
      PROVE  WakeupsSuffice' /\ NobodySleepsClosed'
  <2>1. /\ op' = op /\ size' = size /\ closed' = closed
        /\ st[t] = "wait" /\ st' = [st EXCEPT ![t] = "woken"]
    BY <1>9 DEF SpuriousWake, Goto
  <2>2. NobodySleepsClosed'
    BY <1>0, <2>1 DEF QueueTypeOK, NobodySleepsClosed
  <2>3. CASE op[t] \in PopOps
    <3>1. /\ PopWaiting' = PopWaiting \ {t} /\ PopWoken' = PopWoken \cup {t}
          /\ PushWaiting' = PushWaiting /\ PushWoken' = PushWoken
          /\ t \notin PopWoken
      BY <1>0, <2>1, <2>3 DEF QueueTypeOK, PushWaiting, PopWaiting, PushWoken, PopWoken,
                              PushOps, PopOps
    <3>2. Cardinality(PopWoken \cup {t}) = Cardinality(PopWoken) + 1
      BY <3>1, ThreadSets, ThreadCount
    <3> QED
      BY <1>0, <1>1, <2>1, <2>2, <3>1, <3>2 DEF QueueTypeOK, WakeupsSuffice
  <2>4. CASE op[t] \in PushOps
    <3>1. /\ PushWaiting' = PushWaiting \ {t} /\ PushWoken' = PushWoken \cup {t}
          /\ PopWaiting' = PopWaiting /\ PopWoken' = PopWoken
          /\ t \notin PushWoken
      BY <1>0, <2>1, <2>4 DEF QueueTypeOK, PushWaiting, PopWaiting, PushWoken, PopWoken,
                              PushOps, PopOps
    <3>2. Cardinality(PushWoken \cup {t}) = Cardinality(PushWoken) + 1
      BY <3>1, ThreadSets, ThreadCount
    <3> QED
      BY <1>0, <1>1, <2>1, <2>2, <3>1, <3>2 DEF QueueTypeOK, WakeupsSuffice
  <2> QED
    BY <1>0, <2>3, <2>4 DEF QueueTypeOK
<1>10. ASSUME NEW t \in Threads, Timeout(t)
       PROVE  WakeupsSuffice' /\ NobodySleepsClosed'
  <2>1. /\ PushWaiting' = PushWaiting \ {t} /\ PopWaiting' = PopWaiting \ {t}
        /\ PushWoken' = PushWoken /\ PopWoken' = PopWoken
    BY <1>0, <1>10 DEF QueueTypeOK, Timeout, Goto, PushWaiting, PopWaiting, PushWoken,
                       PopWoken
  <2> QED
    BY <1>0, <1>10, <2>1 DEF QueueTypeOK, Timeout, Goto, WakeupsSuffice,
                             NobodySleepsClosed
<1>11. CASE Close
  BY <1>0, <1>11 DEF QueueTypeOK, Close, NotifyAll, PushWaiting, PopWaiting,
                     WakeupsSuffice, NobodySleepsClosed
<1>12. CASE Clear
  <2>1. /\ PushWaiting' = {} /\ PopWaiting' = PopWaiting /\ PopWoken' = PopWoken
    BY <1>0, <1>12 DEF QueueTypeOK, Clear, NotifyAll, PushWaiting, PopWaiting, PopWoken,
                       PushOps, PopOps
  <2>2. NobodySleepsClosed'
    BY <1>0, <1>12 DEF QueueTypeOK, Clear, NotifyAll, NobodySleepsClosed
  <2> QED
    BY <1>1, <1>12, <2>1, <2>2 DEF Clear, WakeupsSuffice
<1>13. CASE UNCHANGED queueVars
  BY <1>0, <1>13 DEF queueVars, WakeupsSuffice, NobodySleepsClosed, PushWaiting,
                     PopWaiting, PushWoken, PopWoken
<1> QED
  BY <1>2, <1>3, <1>4, <1>5, <1>6, <1>7, <1>8, <1>9, <1>10, <1>11, <1>12, <1>13
  DEF QueueNext, Push, Pop

(* The queue starts in the invariant. *)
LEMMA QueueInitInv == QueueInit => QueueInv
<1> SUFFICES ASSUME QueueInit PROVE QueueInv
  OBVIOUS
<1> USE QueueAssumption
<1>0. closed \in BOOLEAN
  BY Zenon DEF QueueInit
<1>1. QueueTypeOK
  BY <1>0 DEF QueueInit, QueueTypeOK, PushOps
<1>2. PushWaiting = {} /\ PopWaiting = {}
  BY DEF QueueInit, PushWaiting, PopWaiting
<1> QED
  BY <1>1, <1>2 DEF QueueInit, QueueInv, WakeupsSuffice, NobodySleepsClosed

(* For every number of threads and every size: no thread sleeps in Pop     *)
(* while an item is left that no woken thread will come for, nor in Push   *)
(* while such a place is free.                                             *)
THEOREM NoLostWakeup == QueueSpec => []WakeupsSuffice
<1>1. QueueInv /\ [QueueNext]_queueVars => QueueInv'
  BY QueueTypeStep, WakeStep DEF QueueInv
<1>2. QueueInv => WakeupsSuffice
  BY DEF QueueInv
<1> QED
  BY QueueInitInv, <1>1, <1>2, PTL DEF QueueSpec

(* For every number of threads: a closed queue lets nobody sleep, so the   *)
(* shutdown that closes it does not hang on a thread inside a call.        *)
THEOREM ClosedIsAwake == QueueSpec => [](QueueTypeOK /\ NobodySleepsClosed)
<1>1. QueueInv /\ [QueueNext]_queueVars => QueueInv'
  BY QueueTypeStep, WakeStep DEF QueueInv
<1>2. QueueInv => QueueTypeOK /\ NobodySleepsClosed
  BY DEF QueueInv
<1> QED
  BY QueueInitInv, <1>1, <1>2, PTL DEF QueueSpec
=============================================================================
