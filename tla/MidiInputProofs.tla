--------------------------- MODULE MidiInputProofs ---------------------------
(***************************************************************************)
(* Proofs about MidiInput, for rings of any size and messages of any types *)
(* that keep within them (Disciplined): every message reaches the user     *)
(* whole, once and in order, and the unread messages are counted right     *)
(* where size_t is an unsigned int.                                        *)
(***************************************************************************)
EXTENDS MidiInput, SequenceTheorems, TLAPS

(* The device sends channel messages only, and a size_t is an unsigned int. *)
ChannelMessagesOnly == OtherStatus = {}
SizeIsInt == SizeRange = IntRange

-----------------------------------------------------------------------------
(* The bytes in flight: first those in the ring, then those in the port.    *)

Waiting ==
  IF inputBytesWritePointer >= inputBytesReadPointer
  THEN inputBytesWritePointer - inputBytesReadPointer
  ELSE inputBytesWritePointer - inputBytesReadPointer + Size

RingPlace(j) ==
  IF inputBytesReadPointer + j >= Size
  THEN inputBytesReadPointer + j - Size ELSE inputBytesReadPointer + j

InFlight == Waiting + Len(port)

At(j) == IF j < Waiting THEN inputBytes[RingPlace(j)] ELSE port[j - Waiting + 1]

\* The byte that stands for a value, given what was sent.
IsStatus(v) == v[1] > 0 /\ v[2] = 0
SentByte(v) ==
  IF IsStatus(v)
  THEN [status |-> TRUE, type |-> sent[v[1]], value |-> v]
  ELSE [status |-> FALSE, type |-> kmmNone, value |-> v]

\* Byte k of message i comes next after the one whose value is v.
Follows(v, i, k) ==
  IF v[1] > 0 /\ v[2] < NumDataBytes[sent[v[1]]]
  THEN i = v[1] /\ k = v[2] + 1
  ELSE i = v[1] + 1 /\ k = 0

\* The byte the parser is about to be given.
Whole == pc \in {"complete", "publish"}
NextMessage == IF Whole THEN parsed + 2 ELSE parsed + 1
NextByte == IF Whole \/ waitingForStatus THEN 0 ELSE elapsedDataBytes + 1

ChainInv ==
  /\ \A j \in 0 .. InFlight - 1 :
       At(j) = SentByte(At(j).value) /\ At(j).value[1] <= Len(sent)
  /\ \A j \in 1 .. InFlight - 1 :
       Follows(At(j - 1).value, At(j).value[1], At(j).value[2])

\* The byte that was never received is the first, if it is there.
HeadInv ==
  InFlight > 0 =>
    \/ At(0).value[1] = NextMessage /\ At(0).value[2] = NextByte
    \/ /\ At(0).value[1] = 0 /\ At(0).value[2] = 0
       /\ parsed = 0 /\ waitingForStatus /\ ~Whole

EndInv ==
  IF InFlight = 0 THEN NextMessage = Len(sent) + 1 /\ NextByte = 0
  ELSE Follows(At(InFlight - 1).value, Len(sent) + 1, 0)

RoomInv ==
  /\ Len(port) <= Burst
  /\ pc = "read" => Waiting <= 1
  /\ Len(sent) - Len(handed) <= MaxUnread

-----------------------------------------------------------------------------
(* The message that is being put together, and those not read yet.          *)

Filled(m, i, n) ==
  /\ m.type = sent[i]
  /\ m.channel = <<i, 0>>
  /\ \A k \in 1 .. n : m.data[k] = <<i, k>>

ParserInv ==
  /\ pc # "undefined"
  /\ Whole => ~waitingForStatus
  /\ pc = "wrap" => waitingForStatus
  /\ ~waitingForStatus =>
       /\ parsed + 1 <= Len(sent)
       /\ IF Whole THEN elapsedDataBytes = NumDataBytes[sent[parsed + 1]]
          ELSE elapsedDataBytes < NumDataBytes[sent[parsed + 1]]
       /\ \/ pc = "publish" /\ callbackEnabled
          \/ Filled(messages[writePointer], parsed + 1, elapsedDataBytes)

Unread == parsed - Len(handed)

ReadSlot(j) == IF readPointer + j >= Slots THEN readPointer + j - Slots ELSE readPointer + j

PollInv ==
  ~callbackEnabled =>
    /\ Unread \in 0 .. Slots - 1
    /\ \/ writePointer = ReadSlot(Unread)
       \/ pc = "wrap" /\ writePointer = Slots /\ ReadSlot(Unread) = 0
    /\ \A j \in 0 .. Unread - 1 :
         Filled(messages[ReadSlot(j)], Len(handed) + 1 + j,
                NumDataBytes[sent[Len(handed) + 1 + j]])
    /\ readerPc = "retire" => Unread > 0 /\ message = SentMessage(Len(handed) + 1)

CallbackInv ==
  callbackEnabled =>
    /\ readerPc = "idle"
    /\ IF pc = "publish"
       THEN /\ Len(handed) = parsed + 1
            /\ readPointer = IF writePointer + 1 = Slots THEN 0 ELSE writePointer + 1
       ELSE /\ Len(handed) = parsed
            /\ \/ writePointer = readPointer
               \/ pc = "wrap" /\ writePointer = Slots /\ readPointer = 0

FlightInv == ChainInv /\ HeadInv /\ EndInv /\ RoomInv
MessageInv == ParserInv /\ PollInv /\ CallbackInv

IInv == TypeOK /\ FlightInv /\ MessageInv /\ HandedInOrder

-----------------------------------------------------------------------------
(* The facts of the constants, as the proofs use them.                      *)
LEMMA Constants ==
  /\ Slots \in Nat /\ Slots > 0
  /\ Size \in Nat /\ Size > 0
  /\ MaxMessages \in Nat /\ Burst \in Nat /\ MaxUnread \in Nat
  /\ kmmNoteOff \in Type /\ kmmNone \notin Type
  /\ \A t \in Type : NumDataBytes[t] \in 1 .. 2
BY MidiInputAssumption DEF kmmNone

(* A slot whose data bytes are replaced.                                    *)
LEMMA SlotWithData ==
  ASSUME NEW m \in Slot, NEW data
  PROVE  [m EXCEPT !.data = data] = [type |-> m.type, channel |-> m.channel, data |-> data]
BY DEF Slot

(* The message handed to the user: the data bytes of its type.              *)
LEMMA CopiedData ==
  ASSUME TypeOK
  PROVE  /\ Copied \in Message
         /\ Copied.type = messages[readPointer].type
         /\ Copied.channel = messages[readPointer].channel
         /\ messages[readPointer].type \in Type =>
              /\ Len(Copied.data) = NumDataBytes[messages[readPointer].type]
              /\ \A k \in 1 .. NumDataBytes[messages[readPointer].type] :
                   Copied.data[k] = messages[readPointer].data[k]
<1>. DEFINE m == messages[readPointer]
            n == NumDataBytes[m.type]
<1>1. m \in Slot
  BY DEF TypeOK
<1>2. m.type \in Type \cup {kmmNone} /\ m.channel \in Value /\ m.data \in [1 .. 2 -> Value]
  BY <1>1 DEF Slot
<1>4. Copied = [type |-> m.type, channel |-> m.channel,
                data |-> IF m.type = kmmNone THEN <<>> ELSE SubSeq(m.data, 1, n)]
  BY <1>1, SlotWithData DEF Copied
<1>. HIDE DEF m, n
<1>5. CASE m.type = kmmNone
  <2>1. Copied = [type |-> m.type, channel |-> m.channel, data |-> <<>>]
    BY <1>4, <1>5
  <2>2. <<>> \in Seq(Value)
    OBVIOUS
  <2>. QED
    BY <1>2, <1>5, <2>1, <2>2, Constants DEF Message, m
<1>6. CASE m.type \in Type
  <2>1. m.type # kmmNone /\ n \in 1 .. 2
    BY <1>6, Constants DEF n
  <2>2. /\ SubSeq(m.data, 1, n) \in Seq(Value)
        /\ Len(SubSeq(m.data, 1, n)) = n
        /\ \A k \in 1 .. n : SubSeq(m.data, 1, n)[k] = m.data[k]
    BY <1>2, <2>1, SubSeqProperties
  <2>3. Copied = [type |-> m.type, channel |-> m.channel, data |-> SubSeq(m.data, 1, n)]
    BY <1>4, <2>1
  <2>. QED
    BY <1>2, <2>2, <2>3 DEF Message, m, n
<1>. QED
  BY <1>2, <1>5, <1>6

(* Retiring a message marks its slot and moves on to the next.              *)
LEMMA RetireType ==
  ASSUME TypeOK, Retire
  PROVE  /\ messages' \in [0 .. Slots - 1 -> Slot]
         /\ readPointer' \in 0 .. Slots - 1
<1>1. [messages[readPointer] EXCEPT !.type = kmmNone] \in Slot
  BY DEF TypeOK, Slot
<1>. QED
  BY <1>1, Constants, SMTT(30) DEF TypeOK, Retire

(* The bytes of a message, as the device sends them.                        *)
LEMMA BytesAre ==
  ASSUME NEW i \in 1 .. MaxMessages, NEW type \in Type
  PROVE  /\ Bytes(i, type) \in Seq(Byte)
         /\ Len(Bytes(i, type)) = NumDataBytes[type] + 1
         /\ Bytes(i, type)[1] = [status |-> TRUE, type |-> type, value |-> <<i, 0>>]
         /\ \A k \in 1 .. NumDataBytes[type] :
              Bytes(i, type)[k + 1] =
                [status |-> FALSE, type |-> kmmNone, value |-> <<i, k>>]
<1>. DEFINE n == NumDataBytes[type]
            head == <<[status |-> TRUE, type |-> type, value |-> <<i, 0>>]>>
            tail == [k \in 1 .. n |->
                       [status |-> FALSE, type |-> kmmNone, value |-> <<i, k>>]]
<1>0. n \in 1 .. 2
  BY Constants
<1>1. Bytes(i, type) = head \o tail
  BY DEF Bytes
<1>2. head \in Seq(Byte) /\ Len(head) = 1
  BY Constants DEF Byte, Value
<1>3. tail \in Seq(Byte) /\ Len(tail) = n
  <2>1. \A k \in 1 .. n :
          [status |-> FALSE, type |-> kmmNone, value |-> <<i, k>>] \in Byte
    BY <1>0, Constants DEF Byte, Value
  <2>. QED
    BY <1>0, <2>1
<1>4. head[1] = [status |-> TRUE, type |-> type, value |-> <<i, 0>>]
  OBVIOUS
<1>5. \A k \in 1 .. n :
        tail[k] = [status |-> FALSE, type |-> kmmNone, value |-> <<i, k>>]
  OBVIOUS
<1>. HIDE DEF head, tail, n
<1>6. \A k \in 1 .. n : (head \o tail)[k + 1] = tail[k]
  BY <1>0, <1>2, <1>3, ConcatProperties
<1>7. /\ head \o tail \in Seq(Byte) /\ Len(head \o tail) = 1 + n
      /\ (head \o tail)[1] = head[1]
  BY <1>0, <1>2, <1>3, ConcatProperties
<1>. QED
  BY <1>0, <1>1, <1>4, <1>5, <1>6, <1>7, SMTT(30) DEF n

-----------------------------------------------------------------------------
(* The initial state has the right types.                                   *)
LEMMA TypeInit == Init => TypeOK
<1>. SUFFICES ASSUME Init
              PROVE  TypeOK
  OBVIOUS
<1>1. NoByte \in Byte
  BY Constants DEF NoByte, Byte, Value
<1>2. Unused \in Slot
  BY Constants DEF Unused, Slot, Value
<1>3. Unused \in Message
  BY Constants DEF Unused, Message, Value
<1>4. /\ inputBytes \in [0 .. Size - 1 -> Byte]
      /\ messages \in [0 .. Slots - 1 -> Slot]
      /\ message \in Message
  BY <1>1, <1>2, <1>3 DEF Init
<1>5. /\ inputBytesWritePointer \in 0 .. Size - 1
      /\ inputBytesReadPointer \in 0 .. Size - 1
      /\ writePointer \in 0 .. Slots - 1
      /\ readPointer \in 0 .. Slots - 1
      /\ elapsedDataBytes \in 0 .. 2
      /\ parsed \in Nat
  BY Constants DEF Init
<1>6. port \in Seq(Byte) /\ sent \in Seq(Type) /\ handed \in Seq(Message)
  BY DEF Init
<1>7. /\ pc = "read" /\ waitingForStatus \in BOOLEAN /\ callbackEnabled \in BOOLEAN
      /\ readerPc = "idle"
  BY DEF Init
<1>. QED
  BY <1>4, <1>5, <1>6, <1>7 DEF TypeOK

(* A byte is taken out of the ring.                                         *)
LEMMA GetInputType ==
  ASSUME TypeOK, NEW byte, GetInput(byte)
  PROVE  byte \in Byte /\ inputBytesReadPointer' \in 0 .. Size - 1
BY Constants DEF TypeOK, GetInput

(* The step of each part keeps the types.                                   *)
LEMMA TypeNext == TypeOK /\ [Next]_vars => TypeOK'
<1>. SUFFICES ASSUME TypeOK, [Next]_vars
              PROVE  TypeOK'
  OBVIOUS
<1>1. CASE DeviceSends
  <2>1. PICK type \in Type \cup OtherStatus :
          /\ Len(sent) + 1 <= MaxMessages
          /\ port' = port \o Bytes(Len(sent) + 1, type)
          /\ sent' = IF type \in Type THEN Append(sent, type) ELSE sent
    BY <1>1 DEF DeviceSends
  <2>2. Bytes(Len(sent) + 1, type) \in Seq(Byte)
    <3>1. Len(sent) + 1 \in 1 .. MaxMessages
      BY <2>1, Constants DEF TypeOK
    <3>2. CASE type \in Type
      BY <3>1, <3>2, BytesAre
    <3>3. CASE type \notin Type
      <4>1. type = kmmNone
        BY <3>3, MidiInputAssumption DEF kmmNone
      <4>2. [status |-> TRUE, type |-> type, value |-> <<Len(sent) + 1, 0>>] \in Byte
        BY <3>1, <4>1, Constants DEF Byte, Value
      <4>3. <<[status |-> TRUE, type |-> type, value |-> <<Len(sent) + 1, 0>>]>> \in Seq(Byte)
        BY <4>2
      <4>. QED
        BY <3>3, <4>3, ConcatEmptySeq DEF Bytes
    <3>. QED
      BY <3>2, <3>3
  <2>3. port' \in Seq(Byte)
    BY <2>1, <2>2, ConcatProperties DEF TypeOK
  <2>4. sent' \in Seq(Type)
    BY <2>1 DEF TypeOK
  <2>. QED
    BY <1>1, <2>3, <2>4
       DEF TypeOK, DeviceSends, input, parser, reader
<1>2. CASE ReadInput
  <2>1. PICK n \in 1 .. Len(port) :
          /\ inputBytesWritePointer + n <= Size
          /\ inputBytes' = [i \in 0 .. Size - 1 |->
               IF i \in inputBytesWritePointer .. inputBytesWritePointer + n - 1
               THEN port[i - inputBytesWritePointer + 1] ELSE inputBytes[i]]
          /\ inputBytesWritePointer' =
               IF inputBytesWritePointer + n = Size THEN 0
               ELSE inputBytesWritePointer + n
          /\ port' = SubSeq(port, n + 1, Len(port))
    BY <1>2 DEF ReadInput
  <2>2. \A k \in 1 .. Len(port) : port[k] \in Byte
    BY ElementOfSeq DEF TypeOK
  <2>3. port' \in Seq(Byte)
    BY <2>1, <2>2, SubSeqProperties DEF TypeOK
  <2>4. inputBytes' \in [0 .. Size - 1 -> Byte]
    BY <2>1, <2>2, Constants DEF TypeOK
  <2>5. inputBytesWritePointer' \in 0 .. Size - 1
    BY <2>1, Constants DEF TypeOK
  <2>. QED
    BY <1>2, <2>3, <2>4, <2>5 DEF TypeOK, ReadInput, parser, reader
<1>3. CASE InputDrained
  BY <1>3 DEF TypeOK, InputDrained, input, parser, reader
<1>4. ASSUME NEW byte, IgnoreByte(byte)
      PROVE  TypeOK'
  BY <1>4, GetInputType DEF TypeOK, IgnoreByte, GetInput, parser, reader
<1>5. ASSUME NEW byte, ParseStatus(byte)
      PROVE  TypeOK'
  <2>1. byte \in Byte /\ inputBytesReadPointer' \in 0 .. Size - 1 /\ pc = "parse"
    BY <1>5, GetInputType DEF ParseStatus, GetInput
  <2>2. writePointer \in 0 .. Slots - 1
    BY <2>1 DEF TypeOK
  <2>3. [messages[writePointer] EXCEPT !.type = byte.type, !.channel = byte.value] \in Slot
    BY <2>1, <2>2 DEF TypeOK, Slot, Byte
  <2>4. messages' = [messages EXCEPT ![writePointer] =
          [messages[writePointer] EXCEPT !.type = byte.type, !.channel = byte.value]]
    BY <1>5, <2>2 DEF ParseStatus, TypeOK
  <2>5. messages' \in [0 .. Slots - 1 -> Slot]
    BY <2>3, <2>4 DEF TypeOK
  <2>6. elapsedDataBytes' = 0 /\ waitingForStatus' = FALSE
    BY <1>5 DEF ParseStatus
  <2>7. /\ pc' = pc /\ writePointer' = writePointer
        /\ UNCHANGED <<port, inputBytes, inputBytesWritePointer, callbackEnabled,
                       readPointer, readerPc, message, handed, sent, parsed>>
    BY <1>5 DEF ParseStatus, GetInput, reader
  <2>8. elapsedDataBytes' \in 0 .. 2
    BY <2>6
  <2>10. waitingForStatus' \in BOOLEAN
    BY <2>6, Zenon
  <2>9. /\ callbackEnabled' \in BOOLEAN /\ port' \in Seq(Byte)
        /\ inputBytes' \in [0 .. Size - 1 -> Byte]
        /\ inputBytesWritePointer' \in 0 .. Size - 1
        /\ pc' = "parse" /\ writePointer' \in 0 .. Slots - 1
    BY <2>1, <2>2, <2>7 DEF TypeOK
  <2>. QED
    BY <2>1, <2>5, <2>7, <2>8, <2>9, <2>10 DEF TypeOK
<1>6. ASSUME NEW byte, ParseData(byte)
      PROVE  TypeOK'
  <2>1. byte \in Byte /\ inputBytesReadPointer' \in 0 .. Size - 1 /\ pc = "parse"
    BY <1>6, GetInputType DEF ParseData, GetInput
  <2>2. writePointer \in 0 .. Slots - 1
    BY <2>1 DEF TypeOK
  <2>3. messages' \in [0 .. Slots - 1 -> Slot] /\ elapsedDataBytes' \in 0 .. 2
    <3>1. CASE elapsedDataBytes < 2
      <4>1. [messages[writePointer].data EXCEPT ![elapsedDataBytes + 1] = byte.value]
              \in [1 .. 2 -> Value]
        BY <2>1, <2>2, <3>1 DEF TypeOK, Slot, Byte
      <4>2. [messages[writePointer] EXCEPT !.data[elapsedDataBytes + 1] = byte.value]
              \in Slot
        BY <2>2, <4>1 DEF TypeOK, Slot
      <4>. QED
        BY <1>6, <2>2, <3>1, <4>2 DEF ParseData, TypeOK
    <3>2. CASE ~(elapsedDataBytes < 2)
      BY <1>6, <3>2 DEF ParseData, TypeOK
    <3>. QED
      BY <3>1, <3>2
  <2>4. pc' \in {"parse", "complete", "undefined"}
    BY <1>6, <2>1 DEF ParseData
  <2>. QED
    BY <1>6, <2>1, <2>3, <2>4 DEF TypeOK, ParseData, GetInput, reader
<1>7. CASE CallBack
  <2>1. /\ messages' \in [0 .. Slots - 1 -> Slot]
        /\ readPointer' \in 0 .. Slots - 1
        /\ handed' \in Seq(Message)
    <3>1. CASE callbackEnabled
      <4>1. Retire /\ handed' = Append(handed, Copied)
        BY <1>7, <3>1 DEF CallBack
      <4>2. handed' \in Seq(Message)
        BY <4>1, CopiedData DEF TypeOK
      <4>. QED
        BY <4>1, <4>2, RetireType
    <3>2. CASE ~callbackEnabled
      BY <1>7, <3>2 DEF CallBack, TypeOK
    <3>. QED
      BY <3>1, <3>2
  <2>. QED
    BY <1>7, <2>1 DEF TypeOK, CallBack, input, parser
<1>8. CASE Publish
  <2>1. writePointer' \in 1 .. Slots /\ parsed' \in Nat
    BY <1>8, Constants DEF Publish, TypeOK
  <2>. QED
    BY <1>8, <2>1 DEF TypeOK, Publish, input, reader
<1>9. CASE WrapWritePointer
  <2>1. writePointer' \in 0 .. Slots - 1
    BY <1>9, Constants DEF WrapWritePointer, TypeOK
  <2>. QED
    BY <1>9, <2>1 DEF TypeOK, WrapWritePointer, input, reader
<1>10. CASE CopyMessage
  BY <1>10, CopiedData DEF TypeOK, CopyMessage, input, parser
<1>11. CASE RetireMessage
  <2>1. handed' \in Seq(Message)
    BY <1>11 DEF RetireMessage, TypeOK
  <2>2. Unused \in Message
    BY Constants DEF Unused, Message, Value
  <2>. QED
    BY <1>11, <2>1, <2>2, RetireType DEF TypeOK, RetireMessage, input, parser
<1>12. CASE UNCHANGED vars
  BY <1>12 DEF TypeOK, vars, input, parser, reader
<1>. QED
  BY <1>1, <1>2, <1>3, <1>4, <1>5, <1>6, <1>7, <1>8, <1>9, <1>10, <1>11, <1>12
     DEF Next, ReadThread, AudioThread

(* The variables of the read thread, the parser and the user keep their     *)
(* types, however full the rings are.                                       *)
THEOREM TypeCorrect == Spec => []TypeOK
BY TypeInit, TypeNext, PTL DEF Spec

-----------------------------------------------------------------------------
(* How the steps move the bytes in flight.                                  *)

LEMMA FlightType ==
  ASSUME TypeOK
  PROVE  /\ Waiting \in 0 .. Size - 1 /\ Len(port) \in Nat /\ InFlight \in Nat
         /\ \A j \in 0 .. InFlight - 1 : At(j) \in Byte
<1>1. Waiting \in 0 .. Size - 1
  BY Constants DEF TypeOK, Waiting
<1>2. Len(port) \in Nat /\ \A k \in 1 .. Len(port) : port[k] \in Byte
  BY ElementOfSeq DEF TypeOK
<1>3. \A j \in 0 .. Waiting - 1 : RingPlace(j) \in 0 .. Size - 1
  BY <1>1, Constants DEF TypeOK, RingPlace
<1>4. \A j \in 0 .. Waiting - 1 : inputBytes[RingPlace(j)] \in Byte
  BY <1>3 DEF TypeOK
<1>5. InFlight \in Nat
  BY <1>1, <1>2 DEF InFlight
<1>6. ASSUME NEW j \in 0 .. InFlight - 1
      PROVE  At(j) \in Byte
  <2>1. CASE j < Waiting
    BY <1>1, <1>4, <1>5, <2>1 DEF At
  <2>2. CASE ~(j < Waiting)
    <3>1. j - Waiting + 1 \in 1 .. Len(port)
      BY <1>1, <1>2, <1>5, <2>2 DEF InFlight
    <3>. QED
      BY <1>2, <2>2, <3>1 DEF At
  <2>. QED
    BY <2>1, <2>2
<1>. QED
  BY <1>1, <1>2, <1>5, <1>6

\* Steps of the parser and the user leave them alone.
LEMMA FlightSame ==
  ASSUME UNCHANGED <<port, input>>
  PROVE  /\ Waiting' = Waiting /\ InFlight' = InFlight
         /\ \A j : At(j)' = At(j)
BY DEF input, Waiting, InFlight, At, RingPlace

\* read() moves some from the port to the ring, which has room for them.
LEMMA FlightRead ==
  ASSUME TypeOK, RoomInv, Disciplined, ReadInput
  PROVE  /\ InFlight' = InFlight
         /\ \A j \in 0 .. InFlight - 1 : At(j)' = At(j)
         /\ Len(port') <= Burst
<1>. DEFINE w == inputBytesWritePointer
            r == inputBytesReadPointer
<1>1. PICK n \in 1 .. Len(port) :
        /\ w + n <= Size
        /\ inputBytes' = [i \in 0 .. Size - 1 |->
             IF i \in w .. w + n - 1 THEN port[i - w + 1] ELSE inputBytes[i]]
        /\ inputBytesWritePointer' = IF w + n = Size THEN 0 ELSE w + n
        /\ port' = SubSeq(port, n + 1, Len(port))
  BY DEF ReadInput
<1>2. inputBytesReadPointer' = r /\ pc = "read"
  BY DEF ReadInput
<1>3. /\ w \in 0 .. Size - 1 /\ r \in 0 .. Size - 1 /\ Waiting \in 0 .. Size - 1
      /\ Len(port) \in Nat /\ Len(port) <= Burst /\ Burst <= Size - 2
      /\ Waiting <= 1 /\ n \in Nat /\ n >= 1 /\ n <= Len(port)
      /\ Size \in Nat /\ Burst \in Nat
  BY <1>2, FlightType, Constants DEF TypeOK, RoomInv, Disciplined
<1>4. \A k \in 1 .. Len(port) : port[k] \in Byte
  BY ElementOfSeq DEF TypeOK
<1>5. /\ Len(port') = Len(port) - n
      /\ \A k \in 1 .. Len(port) - n : port'[k] = port[n + k]
  <2>1. \A k \in n + 1 .. Len(port) : port[k] \in Byte
    BY <1>3, <1>4
  <2>2. /\ Len(SubSeq(port, n + 1, Len(port))) =
              IF n + 1 <= Len(port) THEN Len(port) - (n + 1) + 1 ELSE 0
        /\ \A k \in 1 .. Len(port) - (n + 1) + 1 :
             SubSeq(port, n + 1, Len(port))[k] = port[n + 1 + k - 1]
    BY <1>3, <2>1, SubSeqProperties
  <2>3. ASSUME NEW k \in 1 .. Len(port) - n
        PROVE  port'[k] = port[n + k]
    <3>1. k \in 1 .. Len(port) - (n + 1) + 1 /\ n + 1 + k - 1 = n + k
      BY <1>3
    <3>2. SubSeq(port, n + 1, Len(port))[k] = port[n + 1 + k - 1]
      BY <2>2, <3>1
    <3>. QED
      BY <1>1, <3>1, <3>2
  <2>4. Len(port') = Len(port) - n
    BY <1>1, <1>3, <2>2
  <2>. QED
    BY <2>3, <2>4
<1>6. Waiting' = Waiting + n
  BY <1>1, <1>2, <1>3 DEF Waiting
<1>7. InFlight' = InFlight
  BY <1>3, <1>5, <1>6 DEF InFlight
<1>8. ASSUME NEW j \in 0 .. InFlight - 1
      PROVE  At(j)' = At(j)
  <2>0. j \in Nat /\ j < Waiting + Len(port) /\ RingPlace(j)' = RingPlace(j)
    BY <1>2, <1>3 DEF InFlight, RingPlace
  <2>1. CASE j < Waiting
    <3>1. RingPlace(j) \in 0 .. Size - 1 /\ RingPlace(j) \notin w .. w + n - 1
      BY <1>1, <1>3, <2>0, <2>1 DEF RingPlace, Waiting
    <3>2. inputBytes'[RingPlace(j)] = inputBytes[RingPlace(j)]
      BY <1>1, <3>1
    <3>3. j < Waiting'
      BY <1>3, <1>6, <2>0, <2>1
    <3>. QED
      BY <2>0, <2>1, <3>2, <3>3 DEF At
  <2>2. CASE ~(j < Waiting) /\ j < Waiting + n
    <3>1. RingPlace(j) \in 0 .. Size - 1 /\ RingPlace(j) = w + (j - Waiting)
      BY <1>1, <1>3, <2>0, <2>2 DEF RingPlace, Waiting
    <3>2. RingPlace(j) \in w .. w + n - 1 /\ RingPlace(j) - w + 1 = j - Waiting + 1
      BY <1>3, <2>0, <2>2, <3>1
    <3>3. inputBytes'[RingPlace(j)] = port[j - Waiting + 1]
      BY <1>1, <3>1, <3>2
    <3>4. At(j)' = inputBytes'[RingPlace(j)]
      BY <1>6, <2>0, <2>2 DEF At
    <3>5. At(j) = port[j - Waiting + 1]
      BY <2>2 DEF At
    <3>. QED
      BY <3>3, <3>4, <3>5
  <2>3. CASE ~(j < Waiting + n)
    <3>1. At(j)' = port'[j - (Waiting + n) + 1]
      BY <1>6, <2>3 DEF At
    <3>2. j - (Waiting + n) + 1 \in 1 .. Len(port) - n
      BY <1>3, <2>0, <2>3
    <3>3. port'[j - (Waiting + n) + 1] = port[n + (j - (Waiting + n) + 1)]
      BY <1>5, <3>2
    <3>4. n + (j - (Waiting + n) + 1) = j - Waiting + 1 /\ ~(j < Waiting)
      BY <1>3, <2>0, <2>3
    <3>. QED
      BY <3>1, <3>3, <3>4 DEF At
  <2>. QED
    BY <2>1, <2>2, <2>3
<1>9. Len(port') <= Burst
  BY <1>3, <1>5
<1>. QED
  BY <1>7, <1>8, <1>9

\* The parser is given the first, and the others move up.
LEMMA FlightGet ==
  ASSUME TypeOK, NEW byte, GetInput(byte)
  PROVE  /\ InFlight > 0 /\ byte = At(0) /\ byte \in Byte
         /\ InFlight' = InFlight - 1
         /\ \A j \in 0 .. InFlight - 2 : At(j)' = At(j + 1)
<1>. DEFINE w == inputBytesWritePointer
            r == inputBytesReadPointer
<1>1. /\ w \in 0 .. Size - 1 /\ r \in 0 .. Size - 1 /\ Waiting \in 0 .. Size - 1
      /\ Len(port) \in Nat /\ InFlight \in Nat /\ Size \in Nat /\ r # w
  BY FlightType, Constants DEF TypeOK, GetInput
<1>2. /\ byte = inputBytes[r] /\ inputBytesWritePointer' = w
      /\ inputBytesReadPointer' = IF r + 1 = Size THEN 0 ELSE r + 1
      /\ port' = port /\ inputBytes' = inputBytes
  BY DEF GetInput
<1>3. Waiting > 0 /\ RingPlace(0) = r
  BY <1>1 DEF Waiting, RingPlace
<1>4. byte = At(0) /\ InFlight > 0
  BY <1>1, <1>2, <1>3 DEF At, InFlight
<1>5. Waiting' = Waiting - 1
  BY <1>1, <1>2 DEF Waiting
<1>6. InFlight' = InFlight - 1
  BY <1>1, <1>2, <1>5 DEF InFlight
<1>7. ASSUME NEW j \in 0 .. InFlight - 2
      PROVE  At(j)' = At(j + 1)
  <2>1. CASE j < Waiting - 1
    <3>1. RingPlace(j)' = RingPlace(j + 1)
      BY <1>1, <1>2, <2>1 DEF RingPlace
    <3>. QED
      BY <1>1, <1>2, <1>5, <2>1, <3>1 DEF At
  <2>2. CASE ~(j < Waiting - 1)
    <3>1. j - (Waiting - 1) + 1 = (j + 1) - Waiting + 1 /\ ~(j + 1 < Waiting)
      BY <1>1, <2>2
    <3>. QED
      BY <1>2, <1>5, <2>2, <3>1 DEF At
  <2>. QED
    BY <2>1, <2>2
<1>8. byte \in Byte
  BY <1>1, <1>2 DEF TypeOK
<1>. QED
  BY <1>4, <1>6, <1>7, <1>8

\* The device puts its bytes behind the others.
LEMMA FlightSends ==
  ASSUME TypeOK, UNCHANGED input, NEW bytes \in Seq(Byte), port' = port \o bytes
  PROVE  /\ InFlight' = InFlight + Len(bytes)
         /\ \A j \in 0 .. InFlight - 1 : At(j)' = At(j)
         /\ \A k \in 1 .. Len(bytes), j \in Nat :
              j = InFlight + k - 1 => At(j)' = bytes[k]
<1>1. /\ Waiting \in 0 .. Size - 1 /\ Len(port) \in Nat /\ InFlight = Waiting + Len(port)
      /\ Len(bytes) \in Nat /\ Size \in Nat
  BY FlightType, Constants DEF InFlight
<1>2. Waiting' = Waiting /\ \A j : RingPlace(j)' = RingPlace(j)
  BY DEF Waiting, RingPlace, input
<1>3. /\ Len(port') = Len(port) + Len(bytes)
      /\ \A i \in 1 .. Len(port) + Len(bytes) :
           port'[i] = IF i <= Len(port) THEN port[i] ELSE bytes[i - Len(port)]
  BY ConcatProperties DEF TypeOK
<1>4. InFlight' = InFlight + Len(bytes)
  BY <1>1, <1>2, <1>3 DEF InFlight
<1>5. ASSUME NEW j \in 0 .. InFlight - 1
      PROVE  At(j)' = At(j)
  <2>1. CASE j < Waiting
    BY <1>2, <2>1 DEF At, input
  <2>2. CASE ~(j < Waiting)
    <3>1. j - Waiting + 1 \in 1 .. Len(port)
      BY <1>1, <2>2
    <3>2. port'[j - Waiting + 1] = port[j - Waiting + 1]
      BY <1>1, <1>3, <3>1
    <3>. QED
      BY <1>2, <2>2, <3>2 DEF At
  <2>. QED
    BY <2>1, <2>2
<1>6. ASSUME NEW k \in 1 .. Len(bytes), NEW j \in Nat, j = InFlight + k - 1
      PROVE  At(j)' = bytes[k]
  <2>1. /\ ~(j < Waiting) /\ j - Waiting + 1 = Len(port) + k
        /\ Len(port) + k \in 1 .. Len(port) + Len(bytes) /\ ~(Len(port) + k <= Len(port))
        /\ Len(port) + k - Len(port) = k
    BY <1>1, <1>6
  <2>2. port'[Len(port) + k] = bytes[k]
    BY <1>3, <2>1
  <2>3. At(j)' = port'[Len(port) + k]
    BY <1>2, <2>1 DEF At
  <2>. QED
    BY <2>2, <2>3
<1>. QED
  BY <1>4, <1>5, <1>6

-----------------------------------------------------------------------------
(* What the steps do to the chain of bytes.                                 *)

Chain == ChainInv /\ HeadInv /\ EndInv
FirstPlace == parsed = 0 /\ waitingForStatus /\ ~Whole

\* The components of a value.
LEMMA ValueParts ==
  ASSUME NEW v \in Value
  PROVE  v[1] \in 0 .. MaxMessages /\ v[2] \in 0 .. 2 /\ v = <<v[1], v[2]>>
BY DEF Value

\* A byte is followed by one only.
LEMMA FollowsOne ==
  ASSUME NEW v, NEW i, NEW k, NEW j, NEW l, Follows(v, i, k), Follows(v, j, l)
  PROVE  i = j /\ k = l
BY DEF Follows

LEMMA ChainKept ==
  ASSUME TypeOK, Chain, sent' = sent, InFlight' = InFlight,
         \A j \in 0 .. InFlight - 1 : At(j)' = At(j),
         NextMessage' = NextMessage, NextByte' = NextByte,
         FirstPlace => FirstPlace'
  PROVE  Chain'
<1>0. InFlight \in Nat
  BY FlightType
<1>1. ChainInv'
  <2>1. ASSUME NEW j \in 0 .. InFlight - 1
        PROVE  (At(j) = SentByte(At(j).value) /\ At(j).value[1] <= Len(sent))'
    <3>1. At(j) = SentByte(At(j).value) /\ At(j).value[1] <= Len(sent) /\ At(j)' = At(j)
      BY DEF Chain, ChainInv
    <3>. QED
      BY <3>1 DEF SentByte
  <2>2. ASSUME NEW j \in 1 .. InFlight - 1
        PROVE  Follows(At(j - 1).value, At(j).value[1], At(j).value[2])'
    <3>1. Follows(At(j - 1).value, At(j).value[1], At(j).value[2])
      BY DEF Chain, ChainInv
    <3>2. At(j)' = At(j) /\ At(j - 1)' = At(j - 1)
      BY <1>0
    <3>. QED
      BY <3>1, <3>2 DEF Follows
  <2>. QED
    BY <2>1, <2>2 DEF ChainInv
<1>2. HeadInv'
  <2>. SUFFICES ASSUME InFlight > 0
                PROVE  HeadInv'
    BY DEF HeadInv
  <2>1. At(0)' = At(0)
    BY <1>0
  <2>. QED
    BY <2>1 DEF Chain, HeadInv, FirstPlace
<1>3. EndInv'
  <2>1. CASE InFlight = 0
    BY <2>1 DEF Chain, EndInv
  <2>2. CASE InFlight > 0
    <3>1. PICK j \in 0 .. InFlight - 1 : j = InFlight - 1
      BY <1>0, <2>2
    <3>2. Follows(At(j).value, Len(sent) + 1, 0)
      BY <2>2, <3>1 DEF Chain, EndInv
    <3>3. At(j)' = At(j)
      OBVIOUS
    <3>4. Follows(At(j).value, Len(sent) + 1, 0)'
      BY <3>2, <3>3 DEF Follows
    <3>. QED
      BY <1>0, <2>2, <3>1, <3>4 DEF EndInv
  <2>. QED
    BY <1>0, <2>1, <2>2
<1>. QED
  BY <1>1, <1>2, <1>3 DEF Chain

LEMMA ChainConsumed ==
  ASSUME TypeOK, Chain, NEW byte, GetInput(byte), sent' = sent,
         Follows(byte.value, NextMessage', NextByte')
  PROVE  Chain'
<1>0. /\ InFlight \in Nat /\ InFlight > 0 /\ byte = At(0) /\ InFlight' = InFlight - 1
      /\ \A j \in 0 .. InFlight - 2 : At(j)' = At(j + 1)
  BY FlightType, FlightGet
<1>1. ChainInv'
  <2>1. ASSUME NEW j \in 0 .. InFlight' - 1
        PROVE  (At(j) = SentByte(At(j).value) /\ At(j).value[1] <= Len(sent))'
    <3>0. j + 1 \in 0 .. InFlight - 1 /\ j \in 0 .. InFlight - 2
      BY <1>0
    <3>1. /\ At(j + 1) = SentByte(At(j + 1).value) /\ At(j + 1).value[1] <= Len(sent)
      BY <3>0 DEF Chain, ChainInv
    <3>2. At(j)' = At(j + 1)
      BY <1>0, <3>0
    <3>. QED
      BY <3>1, <3>2 DEF SentByte
  <2>2. ASSUME NEW j \in 1 .. InFlight' - 1
        PROVE  Follows(At(j - 1).value, At(j).value[1], At(j).value[2])'
    <3>0. j + 1 \in 1 .. InFlight - 1 /\ j \in 0 .. InFlight - 2
          /\ j - 1 \in 0 .. InFlight - 2 /\ (j + 1) - 1 = j /\ (j - 1) + 1 = j
      BY <1>0
    <3>1. Follows(At(j).value, At(j + 1).value[1], At(j + 1).value[2])
      BY <3>0 DEF Chain, ChainInv
    <3>2. At(j)' = At(j + 1) /\ At(j - 1)' = At(j)
      BY <1>0, <3>0
    <3>. QED
      BY <3>1, <3>2 DEF Follows
  <2>. QED
    BY <2>1, <2>2 DEF ChainInv
<1>2. HeadInv'
  <2>. SUFFICES ASSUME InFlight > 1
                PROVE  HeadInv'
    BY <1>0 DEF HeadInv
  <2>1. At(0)' = At(1)
    BY <1>0
  <2>2. Follows(At(0).value, At(1).value[1], At(1).value[2])
    BY <1>0 DEF Chain, ChainInv
  <2>3. At(1).value[1] = NextMessage' /\ At(1).value[2] = NextByte'
    BY <1>0, <2>2, FollowsOne
  <2>. QED
    BY <2>1, <2>3 DEF HeadInv
<1>3. EndInv'
  <2>1. PICK i \in 0 .. InFlight - 1 : i = InFlight - 1
    BY <1>0
  <2>2. Follows(At(i).value, Len(sent) + 1, 0)
    BY <1>0, <2>1 DEF Chain, EndInv
  <2>3. CASE InFlight = 1
    <3>1. NextMessage' = Len(sent) + 1 /\ NextByte' = 0
      BY <1>0, <2>1, <2>2, <2>3, FollowsOne
    <3>. QED
      BY <1>0, <2>3, <3>1 DEF EndInv
  <2>4. CASE InFlight > 1
    <3>1. PICK j \in 0 .. InFlight - 2 : j = InFlight - 2 /\ j + 1 = i
      BY <1>0, <2>1, <2>4
    <3>2. At(j)' = At(i)
      BY <1>0, <3>1
    <3>3. Follows(At(j).value, Len(sent) + 1, 0)'
      BY <2>2, <3>2 DEF Follows
    <3>. QED
      BY <1>0, <2>4, <3>1, <3>3 DEF EndInv
  <2>. QED
    BY <1>0, <2>3, <2>4
<1>. QED
  BY <1>1, <1>2, <1>3 DEF Chain

\* What is said of a byte does not change when more is sent.
LEMMA SaidBefore ==
  ASSUME TypeOK, NEW type \in Type, sent' = Append(sent, type),
         NEW v \in Value, v[1] <= Len(sent)
  PROVE  /\ SentByte(v)' = SentByte(v)
         /\ \A i, k : Follows(v, i, k)' = Follows(v, i, k)
<1>1. v[1] \in Nat /\ v[2] \in Nat
  BY ValueParts
<1>2. v[1] > 0 => sent'[v[1]] = sent[v[1]]
  BY <1>1 DEF TypeOK
<1>3. SentByte(v)' = SentByte(v)
  BY <1>2 DEF SentByte, IsStatus
<1>4. \A i, k : Follows(v, i, k)' = Follows(v, i, k)
  BY <1>2 DEF Follows
<1>. QED
  BY <1>3, <1>4

LEMMA ChainSent ==
  ASSUME TypeOK, Chain, ChannelMessagesOnly, DeviceSends
  PROVE  Chain' /\ Len(port') <= Burst /\ Len(sent') - Len(handed) <= MaxUnread
<1>1. PICK type \in Type, i \in 1 .. MaxMessages, n \in 1 .. 2, bytes \in Seq(Byte) :
        /\ i = Len(sent) + 1
        /\ n = NumDataBytes[type]
        /\ bytes = Bytes(i, type)
        /\ i - Len(handed) <= MaxUnread
        /\ Len(port) + Len(bytes) <= Burst
        /\ port' = port \o bytes
        /\ sent' = Append(sent, type)
  <2>1. PICK type \in Type :
          /\ Len(sent) + 1 <= MaxMessages
          /\ Len(sent) + 1 - Len(handed) <= MaxUnread
          /\ Len(port) + Len(Bytes(Len(sent) + 1, type)) <= Burst
          /\ port' = port \o Bytes(Len(sent) + 1, type)
          /\ sent' = Append(sent, type)
    BY DEF DeviceSends, ChannelMessagesOnly
  <2>2. Len(sent) + 1 \in 1 .. MaxMessages /\ NumDataBytes[type] \in 1 .. 2
    BY <2>1, Constants DEF TypeOK
  <2>3. Bytes(Len(sent) + 1, type) \in Seq(Byte)
    BY <2>2, BytesAre
  <2>. USE <2>2, <2>3
  <2>. WITNESS type \in Type, Len(sent) + 1 \in 1 .. MaxMessages,
               NumDataBytes[type] \in 1 .. 2, Bytes(Len(sent) + 1, type) \in Seq(Byte)
  <2>. QED
    BY <2>1
<1>2. Len(sent) \in Nat /\ Len(sent') = i /\ sent'[i] = type
  BY <1>1 DEF TypeOK
<1>3. /\ Len(bytes) = n + 1
      /\ bytes[1] = [status |-> TRUE, type |-> type, value |-> <<i, 0>>]
      /\ \A k \in 1 .. n :
           bytes[k + 1] = [status |-> FALSE, type |-> kmmNone, value |-> <<i, k>>]
  BY <1>1, BytesAre
<1>4. UNCHANGED <<input, pc, waitingForStatus, elapsedDataBytes, parsed, handed>>
  BY DEF DeviceSends, parser, reader
<1>5. /\ InFlight \in Nat /\ InFlight' = InFlight + n + 1
      /\ \A j \in 0 .. InFlight - 1 : At(j)' = At(j)
      /\ \A k \in 1 .. n + 1, j \in Nat : j = InFlight + k - 1 => At(j)' = bytes[k]
  <2>1. /\ InFlight' = InFlight + Len(bytes)
        /\ \A j \in 0 .. InFlight - 1 : At(j)' = At(j)
        /\ \A k \in 1 .. Len(bytes), j \in Nat : j = InFlight + k - 1 => At(j)' = bytes[k]
    BY <1>1, <1>4, FlightSends
  <2>2. InFlight \in Nat
    BY FlightType
  <2>. QED
    BY <1>3, <2>1, <2>2
<1>6. ASSUME NEW k \in 0 .. n, NEW j \in Nat, j = InFlight + k
      PROVE  /\ At(j)'.value = <<i, k>>
             /\ At(j)' = SentByte(<<i, k>>)'
             /\ Follows(<<i, k>>, IF k = n THEN i + 1 ELSE i, IF k = n THEN 0 ELSE k + 1)'
  <2>1. k + 1 \in 1 .. n + 1 /\ j = InFlight + (k + 1) - 1
    BY <1>2, <1>5, <1>6
  <2>2. At(j)' = bytes[k + 1]
    BY <1>5, <2>1
  <2>3. bytes[k + 1].value = <<i, k>> /\ bytes[k + 1] = SentByte(<<i, k>>)'
    <3>1. CASE k = 0
      <4>1. bytes[k + 1] = [status |-> TRUE, type |-> type, value |-> <<i, 0>>]
        BY <1>3, <3>1
      <4>2. IsStatus(<<i, 0>>)'
        BY <1>2 DEF IsStatus
      <4>3. SentByte(<<i, 0>>)' = [status |-> TRUE, type |-> type, value |-> <<i, 0>>]
        BY <1>2, <4>2 DEF SentByte
      <4>. QED
        BY <3>1, <4>1, <4>3
    <3>2. CASE k # 0
      <4>1. bytes[k + 1] = [status |-> FALSE, type |-> kmmNone, value |-> <<i, k>>]
        BY <1>3, <3>2
      <4>2. ~IsStatus(<<i, k>>)'
        BY <3>2 DEF IsStatus
      <4>3. SentByte(<<i, k>>)' = [status |-> FALSE, type |-> kmmNone, value |-> <<i, k>>]
        BY <4>2 DEF SentByte
      <4>. QED
        BY <4>1, <4>3
    <3>. QED
      BY <3>1, <3>2
  <2>6. Follows(<<i, k>>, IF k = n THEN i + 1 ELSE i, IF k = n THEN 0 ELSE k + 1)'
    <3>1. sent'[<<i, k>>[1]] = type /\ <<i, k>>[1] = i /\ <<i, k>>[2] = k /\ i > 0
      BY <1>2
    <3>. QED
      BY <1>1, <3>1 DEF Follows
  <2>. QED
    BY <2>2, <2>3, <2>6
<1>7. ASSUME NEW j \in 0 .. InFlight - 1
      PROVE  /\ At(j)' = At(j) /\ At(j) \in Byte /\ At(j).value \in Value
             /\ At(j) = SentByte(At(j).value) /\ At(j).value[1] <= Len(sent)
  <2>1. At(j) \in Byte
    BY FlightType
  <2>. QED
    BY <1>5, <2>1 DEF Chain, ChainInv, Byte
<1>8. ChainInv'
  <2>1. ASSUME NEW j \in 0 .. InFlight' - 1
        PROVE  (At(j) = SentByte(At(j).value) /\ At(j).value[1] <= Len(sent))'
    <3>1. CASE j < InFlight
      <4>1. j \in 0 .. InFlight - 1
        BY <1>5, <3>1
      <4>2. SentByte(At(j).value)' = SentByte(At(j).value)
        BY <1>1, <1>7, <4>1, SaidBefore DEF SentByte
      <4>3. At(j)' = SentByte(At(j).value)'
        BY <1>7, <4>1, <4>2
      <4>4. At(j).value[1] \in Nat /\ At(j).value[1] <= Len(sent)
        BY <1>7, <4>1, ValueParts
      <4>5. At(j)'.value[1] <= Len(sent')
        BY <1>1, <1>2, <1>7, <4>1, <4>4
      <4>. QED
        BY <4>3, <4>5
    <3>2. CASE ~(j < InFlight)
      <4>1. PICK k \in 0 .. n : j = InFlight + k
        <5>1. j - InFlight \in 0 .. n /\ j = InFlight + (j - InFlight)
          BY <1>2, <1>5, <3>2
        <5>. QED
          BY <5>1
      <4>2. j \in Nat
        BY <1>2, <1>5
      <4>3. At(j)'.value = <<i, k>> /\ At(j)' = SentByte(<<i, k>>)'
        BY <1>6, <4>1, <4>2
      <4>4. At(j)'.value[1] = i
        BY <4>3
      <4>5. (SentByte(At(j).value))' = SentByte(<<i, k>>)'
        BY <4>3 DEF SentByte
      <4>. QED
        BY <1>2, <4>3, <4>4, <4>5
    <3>. QED
      BY <3>1, <3>2
  <2>2. ASSUME NEW j \in 1 .. InFlight' - 1
        PROVE  Follows(At(j - 1).value, At(j).value[1], At(j).value[2])'
    <3>1. CASE j < InFlight
      <4>1. j \in 1 .. InFlight - 1 /\ j \in 0 .. InFlight - 1 /\ j - 1 \in 0 .. InFlight - 1
        BY <1>5, <3>1
      <4>2. Follows(At(j - 1).value, At(j).value[1], At(j).value[2])
        BY <4>1 DEF Chain, ChainInv
      <4>3. At(j)' = At(j) /\ At(j - 1)' = At(j - 1)
        BY <1>7, <4>1
      <4>4. \A a, b : Follows(At(j - 1).value, a, b)' = Follows(At(j - 1).value, a, b)
        BY <1>1, <1>7, <4>1, <4>3, SaidBefore DEF Follows
      <4>. QED
        BY <4>2, <4>3, <4>4
    <3>2. CASE j = InFlight
      <4>1. j - 1 \in 0 .. InFlight - 1 /\ j \in Nat /\ InFlight > 0
        BY <1>5, <3>2
      <4>2. Follows(At(j - 1).value, i, 0)
        BY <1>1, <3>2, <4>1 DEF Chain, EndInv
      <4>3. Follows(At(j - 1).value, i, 0)'
        BY <1>1, <1>7, <4>1, <4>2, SaidBefore DEF Follows
      <4>4. At(j)'.value = <<i, 0>>
        <5>1. 0 \in 0 .. n /\ j = InFlight + 0
          BY <1>1, <1>5, <3>2
        <5>. QED
          BY <1>6, <4>1, <5>1
      <4>. QED
        BY <1>7, <4>1, <4>3, <4>4 DEF Follows
    <3>3. CASE j > InFlight
      <4>1. PICK k \in 1 .. n : j = InFlight + k
        <5>1. j - InFlight \in 1 .. n /\ j = InFlight + (j - InFlight)
          BY <1>2, <1>5, <3>3
        <5>. QED
          BY <5>1
      <4>2. /\ k - 1 \in 0 .. n /\ k \in 0 .. n /\ k - 1 # n /\ (k - 1) + 1 = k
            /\ j \in Nat /\ j - 1 \in Nat /\ j - 1 = InFlight + (k - 1)
        BY <1>2, <1>5, <3>3, <4>1
      <4>3. At(j)'.value = <<i, k>>
        BY <1>6, <4>1, <4>2
      <4>4. At(j - 1)'.value = <<i, k - 1>> /\ Follows(<<i, k - 1>>, i, k)'
        BY <1>6, <4>2
      <4>. QED
        BY <4>3, <4>4 DEF Follows
    <3>. QED
      BY <1>5, <3>1, <3>2, <3>3
  <2>. QED
    BY <2>1, <2>2 DEF ChainInv
<1>9. NextMessage' = NextMessage /\ NextByte' = NextByte /\ (FirstPlace' <=> FirstPlace)
  BY <1>4 DEF NextMessage, NextByte, FirstPlace, Whole
<1>10. HeadInv'
  <2>1. CASE InFlight = 0
    <3>1. At(0)'.value = <<i, 0>>
      <4>1. 0 \in 0 .. n /\ 0 \in Nat /\ 0 = InFlight + 0
        BY <1>1, <2>1
      <4>. QED
        BY <1>6, <4>1
    <3>2. NextMessage = i /\ NextByte = 0
      BY <1>1, <2>1 DEF Chain, EndInv
    <3>. QED
      BY <1>9, <3>1, <3>2 DEF HeadInv
  <2>2. CASE InFlight > 0
    <3>1. At(0)' = At(0)
      BY <1>5, <2>2
    <3>. QED
      BY <1>9, <2>2, <3>1 DEF Chain, HeadInv, FirstPlace
  <2>. QED
    BY <1>5, <2>1, <2>2
<1>11. EndInv'
  <2>1. PICK j \in Nat : j = InFlight + n
    BY <1>2, <1>5
  <2>2. At(j)'.value = <<i, n>> /\ Follows(<<i, n>>, i + 1, 0)'
    BY <1>2, <1>6, <2>1
  <2>3. Follows(At(j).value, Len(sent) + 1, 0)'
    BY <1>2, <2>2 DEF Follows
  <2>4. InFlight' # 0 /\ j = InFlight' - 1
    BY <1>2, <1>5, <2>1
  <2>. QED
    BY <2>3, <2>4 DEF EndInv
<1>. QED
  <2>1. Len(port') = Len(port) + Len(bytes)
    BY <1>1, ConcatProperties DEF TypeOK
  <2>. QED
    BY <1>1, <1>2, <1>8, <1>10, <1>11, <2>1 DEF Chain

-----------------------------------------------------------------------------
(* What the invariant says of the numbers of messages.                      *)

LEMMA Lengths ==
  ASSUME TypeOK
  PROVE  /\ Len(sent) \in Nat /\ Len(handed) \in Nat /\ parsed \in Nat
         /\ \A i \in 1 .. Len(sent) : sent[i] \in Type /\ NumDataBytes[sent[i]] \in 1 .. 2
BY Constants DEF TypeOK

\* No more messages are parsed than were sent.
LEMMA ParsedBound ==
  ASSUME TypeOK, Chain, ParserInv
  PROVE  parsed <= Len(sent) /\ (~waitingForStatus => parsed + 1 <= Len(sent))
<1>1. InFlight \in Nat /\ Len(sent) \in Nat /\ parsed \in Nat
  BY FlightType, Lengths
<1>2. CASE InFlight = 0
  BY <1>1, <1>2 DEF Chain, EndInv, ParserInv, NextMessage
<1>3. CASE InFlight > 0
  <2>1. At(0).value[1] <= Len(sent)
    BY <1>1, <1>3 DEF Chain, ChainInv
  <2>. QED
    BY <1>1, <1>3, <2>1 DEF Chain, HeadInv, ParserInv, NextMessage
<1>. QED
  BY <1>1, <1>2, <1>3

\* The slot being filled holds no unread message, and is not the next one.
LEMMA SlotsApart ==
  ASSUME TypeOK, FlightInv, MessageInv, Disciplined, ~callbackEnabled, pc # "wrap"
  PROVE  /\ writePointer = ReadSlot(Unread) /\ writePointer \in 0 .. Slots - 1
         /\ \A j \in 0 .. Unread - 1 : ReadSlot(j) # writePointer
         /\ ~waitingForStatus => Unread + 1 < Slots
<1>1. /\ parsed \in Nat /\ Len(handed) \in Nat /\ Len(sent) \in Nat
      /\ Unread \in 0 .. Slots - 1 /\ Slots \in Nat /\ MaxUnread \in Nat
      /\ readPointer \in 0 .. Slots - 1 /\ writePointer \in 0 .. Slots - 1
      /\ writePointer = ReadSlot(Unread)
  BY Lengths, Constants DEF MessageInv, PollInv, TypeOK
<1>2. \A j \in 0 .. Unread - 1 : ReadSlot(j) # writePointer
  BY <1>1 DEF ReadSlot
<1>3. ~waitingForStatus => parsed + 1 <= Len(sent)
  BY ParsedBound DEF FlightInv, Chain, MessageInv
<1>4. Len(sent) - Len(handed) <= MaxUnread /\ MaxUnread < Slots
  BY DEF FlightInv, RoomInv, Disciplined
<1>5. ~waitingForStatus => Unread + 1 < Slots
  BY <1>1, <1>3, <1>4 DEF Unread
<1>. QED
  BY <1>1, <1>2, <1>5

\* A message with all of its data is handed over as it was sent.
LEMMA CopiedIsSent ==
  ASSUME TypeOK, NEW i \in 1 .. Len(sent),
         Filled(messages[readPointer], i, NumDataBytes[sent[i]])
  PROVE  Copied = SentMessage(i)
<1>. DEFINE n == NumDataBytes[sent[i]]
            m == messages[readPointer]
<1>1. sent[i] \in Type /\ n \in 1 .. 2 /\ m.type = sent[i] /\ m.channel = <<i, 0>>
      /\ \A k \in 1 .. n : m.data[k] = <<i, k>>
  BY Lengths DEF Filled
<1>2. /\ Copied \in Message /\ Copied.type = sent[i] /\ Copied.channel = <<i, 0>>
      /\ Len(Copied.data) = n /\ \A k \in 1 .. n : Copied.data[k] = <<i, k>>
  BY <1>1, CopiedData
<1>3. Copied = [type |-> sent[i], channel |-> <<i, 0>>, data |-> Copied.data]
      /\ Copied.data \in Seq(Value)
  BY <1>2 DEF Message
<1>4. Copied.data \in [1 .. n -> Value]
  BY <1>2, <1>3, LenProperties
<1>5. Copied.data = [k \in 1 .. n |-> <<i, k>>]
  BY <1>2, <1>4
<1>. QED
  BY <1>3, <1>5 DEF SentMessage, MessageOf

\* One more message is handed over in order.
LEMMA HandedOneMore ==
  ASSUME TypeOK, HandedInOrder, sent' = sent, Len(handed) + 1 <= Len(sent),
         handed' = Append(handed, SentMessage(Len(handed) + 1))
  PROVE  HandedInOrder' /\ Len(handed') = Len(handed) + 1
<1>1. /\ Len(handed') = Len(handed) + 1
      /\ \A i \in 1 .. Len(handed) + 1 :
           handed'[i] = IF i <= Len(handed) THEN handed[i]
                        ELSE SentMessage(Len(handed) + 1)
      /\ DOMAIN handed' = 1 .. Len(handed) + 1 /\ DOMAIN handed = 1 .. Len(handed)
      /\ Len(handed) \in Nat /\ Len(sent) \in Nat
  BY DEF TypeOK
<1>2. \A i : SentMessage(i)' = SentMessage(i)
  BY DEF SentMessage, MessageOf
<1>3. ASSUME NEW i \in 1 .. Len(handed) + 1
      PROVE  handed'[i] = SentMessage(i)
  <2>1. CASE i <= Len(handed)
    BY <1>1, <2>1 DEF HandedInOrder
  <2>2. CASE ~(i <= Len(handed))
    <3>1. i = Len(handed) + 1
      BY <1>1, <2>2
    <3>. QED
      BY <1>1, <2>2, <3>1
  <2>. QED
    BY <2>1, <2>2
<1>. QED
  BY <1>1, <1>2, <1>3 DEF HandedInOrder

-----------------------------------------------------------------------------
(* The invariant, step by step.                                             *)

\* Steps that touch no message: what is said of them stays true, more being
\* sent or not.
LEMMA MessagesKept ==
  ASSUME TypeOK, MessageInv, HandedInOrder, parsed <= Len(sent),
         Len(sent') \in Nat, Len(sent') >= Len(sent),
         \A i \in 1 .. Len(sent) : sent'[i] = sent[i],
         UNCHANGED <<messages, writePointer, readPointer, readerPc, message, parsed,
                     handed, callbackEnabled, waitingForStatus, elapsedDataBytes>>,
         \/ pc' = pc
         \/ pc \in {"read", "parse"} /\ pc' \in {"read", "parse"}
         \/ pc = "complete" /\ pc' = "publish" /\ ~callbackEnabled
  PROVE  MessageInv' /\ HandedInOrder'
<1>1. /\ Len(sent) \in Nat /\ Len(handed) \in Nat /\ parsed \in Nat
      /\ ~waitingForStatus => parsed + 1 \in 1 .. Len(sent)
  BY Lengths DEF MessageInv, ParserInv
<1>3. \A i \in 1 .. Len(sent) : SentMessage(i)' = SentMessage(i)
  BY DEF SentMessage, MessageOf
<1>4. ParserInv'
  BY <1>1 DEF MessageInv, ParserInv, Whole, Filled
<1>5. PollInv'
  <2>. SUFFICES ASSUME ~callbackEnabled
                PROVE  PollInv'
    BY DEF PollInv
  <2>1. Unread' = Unread /\ \A j : ReadSlot(j)' = ReadSlot(j)
    BY DEF Unread, ReadSlot
  <2>2. Unread \in 0 .. Slots - 1
    BY DEF MessageInv, PollInv
  <2>3. /\ Unread' \in 0 .. Slots - 1
        /\ \/ writePointer' = ReadSlot(Unread)'
           \/ pc' = "wrap" /\ writePointer' = Slots /\ ReadSlot(Unread)' = 0
    BY <2>1 DEF MessageInv, PollInv, ReadSlot
  <2>4. ASSUME NEW j \in 0 .. Unread - 1
        PROVE  Filled(messages[ReadSlot(j)], Len(handed) + 1 + j,
                      NumDataBytes[sent[Len(handed) + 1 + j]])'
    <3>1. Len(handed) + 1 + j \in 1 .. Len(sent)
      BY <1>1, <2>2 DEF Unread
    <3>2. Filled(messages[ReadSlot(j)], Len(handed) + 1 + j,
                 NumDataBytes[sent[Len(handed) + 1 + j]])
      BY DEF MessageInv, PollInv
    <3>. QED
      BY <2>1, <3>1, <3>2 DEF Filled
  <2>5. readerPc = "retire" => (Unread > 0 /\ message = SentMessage(Len(handed) + 1))'
    <3>. SUFFICES ASSUME readerPc = "retire"
                  PROVE  (Unread > 0 /\ message = SentMessage(Len(handed) + 1))'
      OBVIOUS
    <3>1. Unread > 0 /\ message = SentMessage(Len(handed) + 1)
      BY DEF MessageInv, PollInv
    <3>2. Len(handed) + 1 \in 1 .. Len(sent)
      BY <1>1, <2>2, <3>1 DEF Unread
    <3>3. SentMessage(Len(handed) + 1)' = SentMessage(Len(handed) + 1)
      BY <3>2 DEF SentMessage, MessageOf
    <3>. QED
      BY <2>1, <3>1, <3>3
  <2>. QED
    BY <2>1, <2>3, <2>4, <2>5 DEF PollInv
<1>6. CallbackInv'
  BY DEF MessageInv, CallbackInv
<1>7. HandedInOrder'
  <2>1. Len(handed') <= Len(sent') /\ DOMAIN handed = 1 .. Len(handed)
    BY <1>1 DEF HandedInOrder, TypeOK
  <2>2. \A i \in 1 .. Len(handed) : i \in 1 .. Len(sent)
    BY <1>1 DEF HandedInOrder
  <2>. QED
    BY <1>3, <2>1, <2>2 DEF HandedInOrder
<1>. QED
  BY <1>4, <1>5, <1>6, <1>7 DEF MessageInv

\* The parser writes into the slot it fills, and no other.
LEMMA FillingKept ==
  ASSUME TypeOK, FlightInv, MessageInv, HandedInOrder, Disciplined, pc = "parse",
         UNCHANGED <<sent, writePointer, readPointer, readerPc, message, parsed, handed,
                     callbackEnabled>>,
         pc' \in {"parse", "complete"},
         \A i \in 0 .. Slots - 1 : i # writePointer => messages'[i] = messages[i]
  PROVE  PollInv' /\ CallbackInv' /\ HandedInOrder'
<1>1. PollInv'
  <2>. SUFFICES ASSUME ~callbackEnabled
                PROVE  PollInv'
    BY DEF PollInv
  <2>1. Unread' = Unread /\ \A j : ReadSlot(j)' = ReadSlot(j)
    BY DEF Unread, ReadSlot
  <2>2. /\ Unread \in 0 .. Slots - 1 /\ Slots \in Nat
        /\ readPointer \in 0 .. Slots - 1
    BY Constants DEF MessageInv, PollInv, TypeOK
  <2>3. writePointer = ReadSlot(Unread) /\ \A j \in 0 .. Unread - 1 : ReadSlot(j) # writePointer
    BY SlotsApart
  <2>4. writePointer' = ReadSlot(Unread)'
    BY <2>3 DEF ReadSlot, Unread
  <2>5. ASSUME NEW j \in 0 .. Unread - 1
        PROVE  Filled(messages[ReadSlot(j)], Len(handed) + 1 + j,
                      NumDataBytes[sent[Len(handed) + 1 + j]])'
    <3>1. ReadSlot(j) \in 0 .. Slots - 1
      BY <2>2 DEF ReadSlot
    <3>2. Filled(messages[ReadSlot(j)], Len(handed) + 1 + j,
                 NumDataBytes[sent[Len(handed) + 1 + j]])
      BY DEF MessageInv, PollInv
    <3>3. messages'[ReadSlot(j)'] = messages[ReadSlot(j)]
      BY <2>1, <2>3, <3>1
    <3>. QED
      BY <3>2, <3>3 DEF Filled
  <2>6. readerPc = "retire" => (Unread > 0 /\ message = SentMessage(Len(handed) + 1))'
    BY <2>1 DEF MessageInv, PollInv, SentMessage, MessageOf
  <2>. QED
    BY <2>1, <2>2, <2>4, <2>5, <2>6 DEF PollInv
<1>2. CallbackInv'
  BY DEF MessageInv, CallbackInv
<1>3. HandedInOrder'
  BY DEF HandedInOrder, SentMessage, MessageOf
<1>. QED
  BY <1>1, <1>2, <1>3

LEMMA StatusParsed ==
  ASSUME IInv, Disciplined, NEW byte, ParseStatus(byte)
  PROVE  Chain' /\ MessageInv' /\ HandedInOrder'
<1>. USE DEF IInv
<1>0. TypeOK /\ Chain /\ pc = "parse" /\ waitingForStatus /\ byte.status /\ GetInput(byte)
  BY DEF ParseStatus, GetInput, FlightInv, Chain
<1>1. /\ byte = At(0) /\ byte \in Byte /\ InFlight > 0 /\ InFlight \in Nat
      /\ byte = SentByte(byte.value) /\ byte.value[1] <= Len(sent)
  BY <1>0, FlightGet, FlightType DEF Chain, ChainInv
<1>2. /\ IsStatus(byte.value) /\ byte.type = sent[byte.value[1]] /\ byte.value \in Value
  <2>1. byte.value \in Value
    BY <1>1 DEF Byte
  <2>2. CASE ~IsStatus(byte.value)
    <3>1. byte = [status |-> FALSE, type |-> kmmNone, value |-> byte.value]
      BY <1>1, <2>2 DEF SentByte
    <3>2. byte.status = FALSE
      BY <3>1
    <3>. QED
      BY <1>0, <3>2, Zenon
  <2>3. CASE IsStatus(byte.value)
    <3>1. byte = [status |-> TRUE, type |-> sent[byte.value[1]], value |-> byte.value]
      BY <1>1, <2>3 DEF SentByte
    <3>. QED
      BY <2>1, <2>3, <3>1
  <2>. QED
    BY <2>2, <2>3
<1>3. byte.value[1] = parsed + 1 /\ byte.value[2] = 0 /\ byte.value = <<parsed + 1, 0>>
  <2>1. byte.value[1] > 0
    BY <1>2 DEF IsStatus
  <2>2. byte.value[1] = parsed + 1 /\ byte.value[2] = 0
    BY <1>0, <1>1, <2>1 DEF Chain, HeadInv, NextMessage, NextByte, Whole
  <2>. QED
    BY <1>2, <2>2, ValueParts
<1>4. /\ parsed + 1 \in 1 .. Len(sent) /\ sent[parsed + 1] \in Type
      /\ NumDataBytes[sent[parsed + 1]] \in 1 .. 2 /\ parsed \in Nat
  BY <1>0, <1>1, <1>3, Lengths
<1>5. /\ UNCHANGED <<sent, writePointer, readPointer, readerPc, message, parsed, handed,
                     callbackEnabled, pc>>
      /\ elapsedDataBytes' = 0
  BY DEF ParseStatus, GetInput, reader
<1>6. waitingForStatus' = FALSE
  BY DEF ParseStatus
<1>7. messages' = [messages EXCEPT ![writePointer].type = byte.type,
                                   ![writePointer].channel = byte.value]
  BY DEF ParseStatus
<1>8. writePointer \in 0 .. Slots - 1
  BY <1>0 DEF TypeOK
<1>9. /\ messages'[writePointer].type = byte.type
      /\ messages'[writePointer].channel = byte.value
      /\ \A i \in 0 .. Slots - 1 : i # writePointer => messages'[i] = messages[i]
  BY <1>7, <1>8 DEF TypeOK, Slot
<1>10. Chain'
  <2>1. NextMessage' = parsed + 1 /\ NextByte' = 1
    BY <1>0, <1>5, <1>6 DEF NextMessage, NextByte, Whole
  <2>2. Follows(byte.value, parsed + 1, 1)
    BY <1>3, <1>4 DEF Follows
  <2>. QED
    BY <1>0, <1>5, <2>1, <2>2, ChainConsumed
<1>11. ParserInv'
  <2>1. Filled(messages[writePointer], parsed + 1, elapsedDataBytes)'
    BY <1>2, <1>3, <1>5, <1>9 DEF Filled
  <2>2. pc' = "parse" /\ ~Whole'
    BY <1>0, <1>5 DEF Whole
  <2>. QED
    BY <1>4, <1>5, <1>6, <2>1, <2>2 DEF ParserInv
<1>12. PollInv' /\ CallbackInv' /\ HandedInOrder'
  BY <1>0, <1>5, <1>9, FillingKept
<1>. QED
  BY <1>10, <1>11, <1>12 DEF MessageInv

LEMMA DataParsed ==
  ASSUME IInv, Disciplined, NEW byte, ParseData(byte)
  PROVE  Chain' /\ MessageInv' /\ HandedInOrder'
<1>. USE DEF IInv
<1>0. TypeOK /\ Chain /\ pc = "parse" /\ ~waitingForStatus /\ GetInput(byte)
  BY DEF ParseData, GetInput, FlightInv, Chain
<1>1. byte = At(0) /\ byte \in Byte /\ InFlight > 0 /\ byte.value \in Value
  BY <1>0, FlightGet DEF Byte
<1>. DEFINE n == NumDataBytes[sent[parsed + 1]]
            e == elapsedDataBytes
<1>2. /\ parsed \in Nat /\ parsed + 1 \in 1 .. Len(sent) /\ n \in 1 .. 2 /\ e \in 0 .. 2
      /\ e < n /\ sent[parsed + 1] \in Type
      /\ Filled(messages[writePointer], parsed + 1, e)
  BY <1>0, Lengths DEF MessageInv, ParserInv, Whole, TypeOK
<1>3. byte.value[1] = parsed + 1 /\ byte.value[2] = e + 1 /\ byte.value = <<parsed + 1, e + 1>>
  <2>1. byte.value[1] = parsed + 1 /\ byte.value[2] = e + 1
    BY <1>0, <1>1 DEF Chain, HeadInv, NextMessage, NextByte, Whole
  <2>. QED
    BY <1>1, <2>1, ValueParts
<1>4. BytesExpected = n
  BY <1>2, Constants DEF BytesExpected, Filled
<1>5. /\ messages' = [messages EXCEPT ![writePointer].data[e + 1] = byte.value]
      /\ elapsedDataBytes' = e + 1
      /\ pc' = IF e + 1 = n THEN "complete" ELSE "parse"
  BY <1>0, <1>2, <1>4 DEF ParseData
<1>6. /\ UNCHANGED <<sent, writePointer, readPointer, readerPc, message, parsed, handed,
                     callbackEnabled>>
  BY DEF ParseData, GetInput, reader
<1>7. ~waitingForStatus'
  BY <1>0, Zenon DEF ParseData
<1>8. writePointer \in 0 .. Slots - 1 /\ messages[writePointer] \in Slot
  BY <1>0 DEF TypeOK
<1>9. /\ messages'[writePointer].type = messages[writePointer].type
      /\ messages'[writePointer].channel = messages[writePointer].channel
      /\ messages'[writePointer].data[e + 1] = byte.value
      /\ \A k \in 1 .. e : messages'[writePointer].data[k] = messages[writePointer].data[k]
      /\ \A i \in 0 .. Slots - 1 : i # writePointer => messages'[i] = messages[i]
  BY <1>2, <1>5, <1>8 DEF TypeOK, Slot
<1>10. Chain'
  <2>1. Follows(byte.value, NextMessage', NextByte')
    <3>1. CASE e + 1 = n
      BY <1>2, <1>3, <1>5, <1>6, <3>1 DEF Follows, NextMessage, NextByte, Whole
    <3>2. CASE e + 1 # n
      <4>1. NextMessage' = parsed + 1 /\ NextByte' = e + 2
        BY <1>2, <1>5, <1>6, <1>7, <3>2 DEF NextMessage, NextByte, Whole
      <4>. QED
        BY <1>2, <1>3, <3>2, <4>1 DEF Follows
    <3>. QED
      BY <3>1, <3>2
  <2>. QED
    BY <1>0, <1>6, <2>1, ChainConsumed
<1>11. ParserInv'
  <2>1. Filled(messages[writePointer], parsed + 1, elapsedDataBytes)'
    BY <1>2, <1>3, <1>5, <1>6, <1>9 DEF Filled
  <2>2. IF Whole' THEN elapsedDataBytes' = n ELSE elapsedDataBytes' < n
    BY <1>2, <1>5 DEF Whole
  <2>. QED
    BY <1>2, <1>5, <1>6, <1>7, <2>1, <2>2 DEF ParserInv
<1>12. PollInv' /\ CallbackInv' /\ HandedInOrder'
  BY <1>0, <1>5, <1>6, <1>9, FillingKept
<1>. QED
  BY <1>10, <1>11, <1>12 DEF MessageInv

\* CallBack, when the message is left to be polled, is MessagesKept.
LEMMA CalledBack ==
  ASSUME IInv, CallBack, callbackEnabled
  PROVE  MessageInv' /\ HandedInOrder' /\ Len(handed') = Len(handed) + 1
<1>. USE DEF IInv
<1>1. /\ TypeOK /\ pc = "complete" /\ pc' = "publish" /\ Whole /\ ~waitingForStatus
      /\ Retire /\ handed' = Append(handed, Copied)
      /\ UNCHANGED <<sent, parsed, writePointer, elapsedDataBytes, readerPc>>
  BY DEF CallBack, parser, MessageInv, ParserInv, Whole
<1>2. waitingForStatus' = waitingForStatus /\ callbackEnabled' = callbackEnabled
  BY DEF CallBack, parser
<1>3. /\ parsed + 1 \in 1 .. Len(sent) /\ parsed \in Nat
      /\ elapsedDataBytes = NumDataBytes[sent[parsed + 1]]
      /\ Filled(messages[writePointer], parsed + 1, elapsedDataBytes)
      /\ Len(handed) = parsed /\ writePointer = readPointer /\ readerPc = "idle"
  BY <1>1, Lengths DEF MessageInv, ParserInv, CallbackInv
<1>4. Copied = SentMessage(Len(handed) + 1)
  BY <1>1, <1>3, CopiedIsSent
<1>5. HandedInOrder' /\ Len(handed') = Len(handed) + 1
  BY <1>1, <1>3, <1>4, HandedOneMore
<1>6. readPointer' = IF writePointer' + 1 = Slots THEN 0 ELSE writePointer' + 1
  BY <1>1, <1>3 DEF Retire
<1>7. ParserInv'
  BY <1>1, <1>2, <1>3 DEF ParserInv, Whole
<1>8. CallbackInv'
  BY <1>1, <1>3, <1>5, <1>6 DEF CallbackInv
<1>9. PollInv'
  BY <1>2 DEF PollInv
<1>. QED
  BY <1>5, <1>7, <1>8, <1>9 DEF MessageInv

LEMMA Published ==
  ASSUME IInv, Disciplined, Publish
  PROVE  MessageInv' /\ HandedInOrder'
<1>. USE DEF IInv
<1>1. /\ TypeOK /\ pc = "publish" /\ pc' = "wrap" /\ Whole /\ ~waitingForStatus
      /\ writePointer' = writePointer + 1 /\ parsed' = parsed + 1
      /\ UNCHANGED <<sent, handed, messages, readPointer, readerPc, message,
                     elapsedDataBytes>>
  BY DEF Publish, reader, MessageInv, ParserInv, Whole
<1>2. waitingForStatus' = TRUE
  BY DEF Publish
<1>3. callbackEnabled' = callbackEnabled
  BY DEF Publish
<1>4. /\ parsed \in Nat /\ Len(handed) \in Nat /\ Slots \in Nat
      /\ readPointer \in 0 .. Slots - 1 /\ writePointer \in 0 .. Slots - 1
  BY <1>1, Lengths, Constants DEF TypeOK
<1>5. ParserInv'
  BY <1>1, <1>2 DEF ParserInv, Whole
<1>6. CallbackInv'
  BY <1>1, <1>3, <1>4 DEF MessageInv, CallbackInv
<1>7. PollInv'
  <2>. SUFFICES ASSUME ~callbackEnabled
                PROVE  PollInv'
    BY <1>3 DEF PollInv
  <2>1. /\ writePointer = ReadSlot(Unread) /\ Unread + 1 < Slots
        /\ Unread \in 0 .. Slots - 1 /\ Unread = parsed - Len(handed)
    BY <1>1, SlotsApart DEF MessageInv, PollInv, Unread
  <2>2. Unread' = Unread + 1
    BY <1>1, <1>4 DEF Unread
  <2>3. \A j : ReadSlot(j)' = ReadSlot(j)
    BY <1>1 DEF ReadSlot
  <2>4. \/ writePointer' = ReadSlot(Unread)'
        \/ pc' = "wrap" /\ writePointer' = Slots /\ ReadSlot(Unread)' = 0
    BY <1>1, <1>4, <2>1, <2>2 DEF ReadSlot
  <2>5. Filled(messages[ReadSlot(Unread)], parsed + 1, NumDataBytes[sent[parsed + 1]])
    BY <1>1, <2>1 DEF MessageInv, ParserInv
  <2>6. ASSUME NEW j \in 0 .. Unread
        PROVE  Filled(messages[ReadSlot(j)], Len(handed) + 1 + j,
                      NumDataBytes[sent[Len(handed) + 1 + j]])'
    <3>1. CASE j = Unread
      <4>1. Len(handed) + 1 + j = parsed + 1
        BY <1>4, <2>1, <3>1
      <4>2. Filled(messages[ReadSlot(j)], Len(handed) + 1 + j,
                   NumDataBytes[sent[Len(handed) + 1 + j]])
        BY <2>5, <3>1, <4>1
      <4>. QED
        BY <1>1, <2>3, <4>2 DEF Filled
    <3>2. CASE j # Unread
      <4>1. Filled(messages[ReadSlot(j)], Len(handed) + 1 + j,
                   NumDataBytes[sent[Len(handed) + 1 + j]])
        BY <2>1, <3>2 DEF MessageInv, PollInv
      <4>. QED
        BY <1>1, <2>3, <4>1 DEF Filled
    <3>. QED
      BY <3>1, <3>2
  <2>7. readerPc = "retire" => (Unread > 0 /\ message = SentMessage(Len(handed) + 1))'
    BY <1>1, <2>1, <2>2 DEF MessageInv, PollInv, SentMessage, MessageOf
  <2>8. \A j \in 0 .. Unread' - 1 : j \in 0 .. Unread
    BY <2>1, <2>2
  <2>9. Unread' \in 0 .. Slots - 1
    BY <1>4, <2>1, <2>2
  <2>10. (\A j \in 0 .. Unread - 1 :
            Filled(messages[ReadSlot(j)], Len(handed) + 1 + j,
                   NumDataBytes[sent[Len(handed) + 1 + j]]))'
    BY <2>6, <2>8
  <2>. QED
    BY <1>1, <2>4, <2>7, <2>9, <2>10 DEF PollInv
<1>8. HandedInOrder'
  BY <1>1 DEF HandedInOrder, SentMessage, MessageOf
<1>. QED
  BY <1>5, <1>6, <1>7, <1>8 DEF MessageInv

LEMMA Wrapped ==
  ASSUME IInv, Disciplined, WrapWritePointer
  PROVE  MessageInv' /\ HandedInOrder'
<1>. USE DEF IInv
<1>1. /\ TypeOK /\ pc = "wrap" /\ pc' = "parse" /\ waitingForStatus
      /\ writePointer' = IF writePointer = Slots THEN 0 ELSE writePointer
      /\ UNCHANGED <<sent, handed, parsed, messages, readPointer, readerPc, message,
                     elapsedDataBytes>>
  BY DEF WrapWritePointer, reader, MessageInv, ParserInv
<1>2. waitingForStatus' = waitingForStatus
  BY DEF WrapWritePointer
<1>3. callbackEnabled' = callbackEnabled
  BY DEF WrapWritePointer
<1>4. /\ Unread' = Unread /\ \A j : ReadSlot(j)' = ReadSlot(j)
      /\ Slots \in Nat /\ readPointer \in 0 .. Slots - 1
  BY <1>1, Constants DEF Unread, ReadSlot, TypeOK
<1>5. ParserInv'
  BY <1>1, <1>2 DEF ParserInv, Whole
<1>6. CallbackInv'
  BY <1>1, <1>3, <1>4 DEF MessageInv, CallbackInv
<1>7. PollInv'
  <2>. SUFFICES ASSUME ~callbackEnabled
                PROVE  PollInv'
    BY <1>3 DEF PollInv
  <2>1. Unread \in 0 .. Slots - 1
    BY DEF MessageInv, PollInv
  <2>2. ReadSlot(Unread) \in 0 .. Slots - 1
    BY <1>4, <2>1 DEF ReadSlot
  <2>3. writePointer' = ReadSlot(Unread)
    BY <1>1, <1>4, <2>2 DEF MessageInv, PollInv
  <2>4. writePointer' = ReadSlot(Unread)'
    BY <1>1, <2>3 DEF ReadSlot, Unread
  <2>5. ASSUME NEW j \in 0 .. Unread - 1
        PROVE  Filled(messages[ReadSlot(j)], Len(handed) + 1 + j,
                      NumDataBytes[sent[Len(handed) + 1 + j]])'
    BY <1>1, <1>4 DEF MessageInv, PollInv, Filled
  <2>6. readerPc = "retire" => (Unread > 0 /\ message = SentMessage(Len(handed) + 1))'
    BY <1>1, <1>4 DEF MessageInv, PollInv, SentMessage, MessageOf
  <2>. QED
    BY <1>1, <1>4, <2>1, <2>4, <2>5, <2>6 DEF PollInv
<1>8. HandedInOrder'
  BY <1>1 DEF HandedInOrder, SentMessage, MessageOf
<1>. QED
  BY <1>5, <1>6, <1>7, <1>8 DEF MessageInv

\* With nothing unread, none is announced, whatever the widths.
LEMMA NoneAvailable ==
  ASSUME IInv, ~callbackEnabled, Unread = 0
  PROVE  numAvailableMessages = 0
<1>1. /\ Slots \in Nat /\ Slots > 0 /\ IntRange \in Nat /\ IntRange > 2 * Slots
      /\ SizeRange \in Nat /\ SizeRange >= IntRange
  BY MidiInputAssumption
<1>2. writePointer - readPointer = 0 \/ writePointer - readPointer = Slots
  <2>1. readPointer \in 0 .. Slots - 1 /\ ReadSlot(0) = readPointer
    BY <1>1 DEF IInv, TypeOK, ReadSlot
  <2>. QED
    BY <1>1, <2>1 DEF IInv, MessageInv, PollInv
<1>3. CASE writePointer - readPointer = 0
  <2>1. 0 % IntRange = 0 /\ (0 + Slots) % SizeRange = Slots /\ Slots % Slots = 0
    BY <1>1
  <2>. QED
    BY <1>1, <1>3, <2>1 DEF numAvailableMessages
<1>4. CASE writePointer - readPointer = Slots
  <2>1. Slots % IntRange = Slots /\ (Slots + Slots) % SizeRange = Slots + Slots
    BY <1>1
  <2>2. (Slots + Slots) % Slots = 0
    BY <1>1
  <2>. QED
    BY <1>1, <1>4, <2>1, <2>2 DEF numAvailableMessages
<1>. QED
  BY <1>2, <1>3, <1>4

LEMMA MessageCopied ==
  ASSUME IInv, CopyMessage
  PROVE  MessageInv' /\ HandedInOrder'
<1>. USE DEF IInv
<1>1. /\ TypeOK /\ readerPc' = "retire" /\ message' = Copied
      /\ UNCHANGED <<sent, handed, parsed, messages, readPointer, writePointer, pc,
                     elapsedDataBytes>>
      /\ ~callbackEnabled /\ numAvailableMessages > 0
  BY DEF CopyMessage, parser
<1>2. waitingForStatus' = waitingForStatus
  BY DEF CopyMessage, parser
<1>3. callbackEnabled' = callbackEnabled
  BY DEF CopyMessage
<1>4. /\ Unread \in 0 .. Slots - 1 /\ Unread > 0 /\ Unread = parsed - Len(handed)
      /\ parsed \in Nat /\ Len(handed) \in Nat /\ Len(sent) \in Nat
  BY <1>1, NoneAvailable, Lengths DEF MessageInv, PollInv, Unread
<1>5. message' = SentMessage(Len(handed) + 1)
  <2>1. ReadSlot(0) = readPointer
    BY Constants DEF TypeOK, ReadSlot
  <2>2. Filled(messages[ReadSlot(0)], Len(handed) + 1 + 0,
               NumDataBytes[sent[Len(handed) + 1 + 0]])
    <3>1. 0 \in 0 .. Unread - 1
      BY <1>4
    <3>. QED
      BY <1>1, <3>1 DEF MessageInv, PollInv
  <2>3. Len(handed) + 1 + 0 = Len(handed) + 1 /\ Len(handed) + 1 \in 1 .. Len(sent)
    BY <1>4, ParsedBound DEF FlightInv, Chain, MessageInv
  <2>. QED
    BY <1>1, <2>1, <2>2, <2>3, CopiedIsSent
<1>6. /\ Unread' = Unread /\ \A j : ReadSlot(j)' = ReadSlot(j)
  BY <1>1 DEF Unread, ReadSlot
<1>7. ParserInv'
  BY <1>1, <1>2, <1>3 DEF MessageInv, ParserInv, Whole, Filled
<1>8. CallbackInv'
  BY <1>1, <1>3 DEF CallbackInv
<1>9. PollInv'
  <2>1. ASSUME NEW j \in 0 .. Unread - 1
        PROVE  Filled(messages[ReadSlot(j)], Len(handed) + 1 + j,
                      NumDataBytes[sent[Len(handed) + 1 + j]])'
    BY <1>1, <1>6 DEF MessageInv, PollInv, Filled
  <2>2. \/ writePointer' = ReadSlot(Unread)'
        \/ pc' = "wrap" /\ writePointer' = Slots /\ ReadSlot(Unread)' = 0
    BY <1>1, <1>6 DEF MessageInv, PollInv, ReadSlot
  <2>3. (Unread > 0 /\ message = SentMessage(Len(handed) + 1))'
    BY <1>1, <1>4, <1>5, <1>6 DEF SentMessage, MessageOf
  <2>. QED
    BY <1>4, <1>6, <2>1, <2>2, <2>3 DEF PollInv
<1>10. HandedInOrder'
  BY <1>1 DEF HandedInOrder, SentMessage, MessageOf
<1>. QED
  BY <1>7, <1>8, <1>9, <1>10 DEF MessageInv

LEMMA MessageRetired ==
  ASSUME IInv, Disciplined, RetireMessage
  PROVE  MessageInv' /\ HandedInOrder' /\ Len(handed') = Len(handed) + 1
<1>. USE DEF IInv
<1>1. /\ TypeOK /\ readerPc = "retire" /\ readerPc' = "idle" /\ Retire
      /\ handed' = Append(handed, message)
      /\ UNCHANGED <<sent, parsed, writePointer, pc, elapsedDataBytes>>
  BY DEF RetireMessage, parser
<1>2. waitingForStatus' = waitingForStatus
  BY DEF RetireMessage, parser
<1>3. callbackEnabled' = callbackEnabled
  BY DEF RetireMessage
<1>4. ~callbackEnabled
  BY <1>1 DEF MessageInv, CallbackInv
<1>5. /\ Unread \in 0 .. Slots - 1 /\ Unread > 0 /\ Unread = parsed - Len(handed)
      /\ message = SentMessage(Len(handed) + 1)
      /\ parsed \in Nat /\ Len(handed) \in Nat /\ Len(sent) \in Nat
      /\ Slots \in Nat /\ readPointer \in 0 .. Slots - 1
  BY <1>1, <1>4, Lengths, Constants DEF MessageInv, PollInv, Unread, TypeOK
<1>6. Len(handed) + 1 <= Len(sent)
  BY <1>5, ParsedBound DEF FlightInv, Chain, MessageInv
<1>7. HandedInOrder' /\ Len(handed') = Len(handed) + 1
  BY <1>1, <1>5, <1>6, HandedOneMore
<1>8. /\ Unread' = Unread - 1
      /\ readPointer' = IF readPointer + 1 = Slots THEN 0 ELSE readPointer + 1
      /\ \A i \in 0 .. Slots - 1 : i # readPointer => messages'[i] = messages[i]
  BY <1>1, <1>5, <1>7 DEF Unread, Retire, TypeOK
<1>9. \A j \in 0 .. Slots - 1 : /\ ReadSlot(j)' = ReadSlot(j + 1)
                                /\ ReadSlot(j) \in 0 .. Slots - 1
                                /\ j > 0 => ReadSlot(j) # readPointer
  BY <1>5, <1>8 DEF ReadSlot
<1>10. ParserInv'
  <2>. SUFFICES ASSUME ~waitingForStatus
                PROVE  ParserInv'
    BY <1>1, <1>2 DEF MessageInv, ParserInv, Whole
  <2>1. pc # "wrap"
    BY DEF MessageInv, ParserInv
  <2>2. writePointer = ReadSlot(Unread) /\ writePointer \in 0 .. Slots - 1
    BY <1>4, <2>1, SlotsApart
  <2>3. messages'[writePointer] = messages[writePointer]
    BY <1>5, <1>8, <1>9, <2>2
  <2>. QED
    BY <1>1, <1>2, <1>3, <2>3 DEF MessageInv, ParserInv, Whole, Filled
<1>11. CallbackInv'
  BY <1>3, <1>4 DEF CallbackInv
<1>12. PollInv'
  <2>1. Unread' \in 0 .. Slots - 1
    BY <1>5, <1>8
  <2>2. ReadSlot(Unread)' = ReadSlot(Unread)
    <3>1. Unread - 1 \in 0 .. Slots - 1 /\ (Unread - 1) + 1 = Unread
      BY <1>5
    <3>. QED
      BY <1>5, <1>8 DEF ReadSlot
  <2>3. \/ writePointer' = ReadSlot(Unread)'
        \/ pc' = "wrap" /\ writePointer' = Slots /\ ReadSlot(Unread)' = 0
    BY <1>1, <1>4, <2>2 DEF MessageInv, PollInv
  <2>4. ASSUME NEW j \in 0 .. Unread' - 1
        PROVE  Filled(messages[ReadSlot(j)], Len(handed) + 1 + j,
                      NumDataBytes[sent[Len(handed) + 1 + j]])'
    <3>1. /\ j + 1 \in 0 .. Unread - 1 /\ j \in 0 .. Slots - 1 /\ j + 1 > 0
          /\ j + 1 \in 0 .. Slots - 1
          /\ Len(handed') + 1 + j = Len(handed) + 1 + (j + 1)
      BY <1>5, <1>7, <1>8, SMTT(30)
    <3>2. Filled(messages[ReadSlot(j + 1)], Len(handed) + 1 + (j + 1),
                 NumDataBytes[sent[Len(handed) + 1 + (j + 1)]])
      BY <1>4, <3>1 DEF MessageInv, PollInv
    <3>3. messages'[ReadSlot(j)'] = messages[ReadSlot(j + 1)]
      BY <1>8, <1>9, <3>1
    <3>. QED
      BY <1>1, <3>1, <3>2, <3>3 DEF Filled
  <2>. QED
    BY <1>1, <2>1, <2>3, <2>4 DEF PollInv
<1>. QED
  BY <1>7, <1>10, <1>11, <1>12 DEF MessageInv

-----------------------------------------------------------------------------
(* The initial state: one byte in flight, which was never received.         *)
LEMMA InvInit ==
  ASSUME Init, Disciplined
  PROVE  IInv
<1>1. TypeOK
  BY TypeInit
<1>2. /\ Size \in Nat /\ Size >= 2 /\ Burst \in Nat /\ MaxUnread \in Nat /\ Slots \in Nat
      /\ Slots > 0
  BY Constants DEF Disciplined
<1>3. /\ port = <<>> /\ Len(port) = 0 /\ sent = <<>> /\ Len(sent) = 0 /\ handed = <<>>
      /\ Len(handed) = 0 /\ parsed = 0 /\ pc = "read" /\ waitingForStatus
  BY DEF Init
<1>4. Waiting = 1 /\ InFlight = 1
  BY <1>2, <1>3 DEF Init, Waiting, InFlight
<1>5. At(0) = NoByte
  <2>1. RingPlace(0) \in 0 .. Size - 1
    BY <1>2 DEF Init, RingPlace
  <2>. QED
    BY <1>4, <2>1 DEF At, Init
<1>6. /\ NoByte.value[1] = 0 /\ NoByte.value[2] = 0 /\ SentByte(NoByte.value) = NoByte
  BY DEF NoByte, SentByte, IsStatus
<1>7. ChainInv
  <2>1. \A j \in 0 .. InFlight - 1 : j = 0
    BY <1>4
  <2>2. \A j \in 1 .. InFlight - 1 : FALSE
    BY <1>4
  <2>. QED
    BY <1>3, <1>5, <1>6, <2>1, <2>2 DEF ChainInv
<1>8. HeadInv
  BY <1>3, <1>5, <1>6 DEF HeadInv, Whole
<1>9. EndInv
  <2>1. Follows(At(0).value, 1, 0)
    BY <1>5, <1>6 DEF Follows
  <2>2. InFlight # 0 /\ InFlight - 1 = 0 /\ Len(sent) + 1 = 1
    BY <1>3, <1>4
  <2>. QED
    BY <2>1, <2>2 DEF EndInv
<1>10. RoomInv
  BY <1>2, <1>3, <1>4 DEF RoomInv
<1>11. ParserInv
  BY <1>3 DEF ParserInv, Whole
<1>12. PollInv
  <2>1. Unread = 0 /\ ReadSlot(0) = 0
    BY <1>2, <1>3 DEF Unread, ReadSlot, Init
  <2>. QED
    BY <1>2, <2>1 DEF PollInv, Init
<1>13. CallbackInv
  BY <1>3 DEF CallbackInv, Init
<1>14. HandedInOrder
  BY <1>3 DEF HandedInOrder
<1>. QED
  BY <1>1, <1>7, <1>8, <1>9, <1>10, <1>11, <1>12, <1>13, <1>14
     DEF IInv, FlightInv, MessageInv

\* Steps that leave the bytes in flight alone.
LEMMA FlightKept ==
  ASSUME IInv, UNCHANGED <<port, input, sent>>,
         NextMessage' = NextMessage, NextByte' = NextByte, FirstPlace => FirstPlace',
         pc' = "read" => pc = "read" \/ Waiting = 0,
         Len(handed') \in Nat, Len(handed') >= Len(handed)
  PROVE  FlightInv'
<1>1. /\ TypeOK /\ Chain /\ RoomInv /\ Waiting' = Waiting /\ InFlight' = InFlight
      /\ \A j : At(j)' = At(j)
  BY FlightSame DEF IInv, FlightInv, Chain
<1>2. Chain'
  BY <1>1, ChainKept
<1>3. RoomInv'
  <2>1. Len(sent) \in Nat /\ Len(handed) \in Nat /\ MaxUnread \in Nat
    BY <1>1, Lengths, Constants
  <2>2. Len(sent') - Len(handed') <= MaxUnread
    BY <1>1, <2>1 DEF RoomInv
  <2>3. pc' = "read" => Waiting' <= 1
    BY <1>1 DEF RoomInv
  <2>. QED
    BY <1>1, <2>2, <2>3 DEF RoomInv
<1>. QED
  BY <1>2, <1>3 DEF Chain, FlightInv

\* Steps of the parser, which is not at the point of reading.
LEMMA FlightParsed ==
  ASSUME IInv, Chain', NEW byte, GetInput(byte), sent' = sent, handed' = handed,
         pc' # "read"
  PROVE  FlightInv'
<1>1. port' = port
  BY DEF GetInput
<1>2. RoomInv'
  BY <1>1 DEF IInv, FlightInv, RoomInv
<1>. QED
  BY <1>2 DEF Chain, FlightInv

(* The invariant is inductive when the rings are used as they must be.      *)
LEMMA InvNext ==
  ASSUME IInv, Disciplined, ChannelMessagesOnly, [Next]_vars
  PROVE  IInv'
<1>. USE DEF IInv
<1>1. /\ TypeOK /\ TypeOK' /\ Chain /\ RoomInv /\ ParserInv
      /\ Len(sent) \in Nat /\ Len(handed) \in Nat /\ parsed \in Nat
      /\ parsed <= Len(sent)
  BY TypeNext, Lengths, ParsedBound DEF FlightInv, Chain, MessageInv
<1>. SUFFICES FlightInv' /\ MessageInv' /\ HandedInOrder'
  BY <1>1
<1>2. CASE DeviceSends
  <2>1. PICK type \in Type : sent' = Append(sent, type)
    BY <1>2 DEF DeviceSends, ChannelMessagesOnly
  <2>2. /\ UNCHANGED <<pc, input, messages, writePointer, readPointer, readerPc, message,
                       parsed, handed>>
        /\ UNCHANGED elapsedDataBytes
    BY <1>2 DEF DeviceSends, parser, reader
  <2>3. waitingForStatus' = waitingForStatus
    BY <1>2 DEF DeviceSends, parser
  <2>4. callbackEnabled' = callbackEnabled
    BY <1>2 DEF DeviceSends
  <2>5. MessageInv' /\ HandedInOrder'
    <3>1. /\ Len(sent') \in Nat /\ Len(sent') >= Len(sent)
          /\ \A i \in 1 .. Len(sent) : sent'[i] = sent[i]
      <4>1. sent \in Seq(Type) /\ Len(sent) \in Nat
        BY <1>1 DEF TypeOK
      <4>2. /\ Len(Append(sent, type)) = Len(sent) + 1
            /\ \A i \in 1 .. Len(sent) : Append(sent, type)[i] = sent[i]
        BY <4>1, AppendProperties
      <4>. QED
        BY <2>1, <4>1, <4>2
    <3>. QED
      BY <1>1, <2>2, <2>3, <2>4, <3>1, MessagesKept
  <2>6. Chain' /\ RoomInv'
    <3>1. Chain' /\ Len(port') <= Burst /\ Len(sent') - Len(handed) <= MaxUnread
      BY <1>1, <1>2, ChainSent
    <3>2. Waiting' = Waiting
      BY <2>2 DEF Waiting, input
    <3>. QED
      BY <1>1, <2>2, <3>1, <3>2 DEF RoomInv
  <2>. QED
    BY <2>5, <2>6 DEF FlightInv, Chain
<1>3. CASE ReadInput
  <2>1. /\ UNCHANGED <<sent, messages, writePointer, readPointer, readerPc, message,
                       parsed, handed, elapsedDataBytes>>
        /\ pc = "read" /\ pc' = "parse"
    BY <1>3 DEF ReadInput, parser, reader
  <2>2. waitingForStatus' = waitingForStatus
    BY <1>3 DEF ReadInput, parser
  <2>3. callbackEnabled' = callbackEnabled
    BY <1>3 DEF ReadInput
  <2>4. MessageInv' /\ HandedInOrder'
    BY <1>1, <2>1, <2>2, <2>3, MessagesKept
  <2>5. /\ InFlight' = InFlight /\ \A j \in 0 .. InFlight - 1 : At(j)' = At(j)
        /\ Len(port') <= Burst
    BY <1>1, <1>3, FlightRead
  <2>6. NextMessage' = NextMessage /\ NextByte' = NextByte /\ (FirstPlace => FirstPlace')
    BY <2>1, <2>2 DEF NextMessage, NextByte, FirstPlace, Whole
  <2>7. Chain'
    BY <1>1, <2>1, <2>5, <2>6, ChainKept
  <2>8. RoomInv'
    BY <1>1, <2>1, <2>5 DEF RoomInv
  <2>. QED
    BY <2>4, <2>7, <2>8 DEF FlightInv, Chain
<1>4. CASE InputDrained
  <2>1. /\ UNCHANGED <<port, input, sent, messages, writePointer, readPointer, readerPc,
                       message, parsed, handed, elapsedDataBytes>>
        /\ pc = "parse" /\ pc' = "read"
    BY <1>4 DEF InputDrained, parser, reader
  <2>2. waitingForStatus' = waitingForStatus
    BY <1>4 DEF InputDrained, parser
  <2>3. callbackEnabled' = callbackEnabled
    BY <1>4 DEF InputDrained
  <2>4. MessageInv' /\ HandedInOrder'
    BY <1>1, <2>1, <2>2, <2>3, MessagesKept
  <2>5. NextMessage' = NextMessage /\ NextByte' = NextByte /\ (FirstPlace => FirstPlace')
    BY <2>1, <2>2 DEF NextMessage, NextByte, FirstPlace, Whole
  <2>6. Waiting = 0
    BY <1>1, <1>4 DEF InputDrained, Waiting, TypeOK
  <2>7. FlightInv'
    BY <1>1, <2>1, <2>5, <2>6, FlightKept
  <2>. QED
    BY <2>4, <2>7
<1>5. ASSUME NEW byte, IgnoreByte(byte)
      PROVE  FlightInv' /\ MessageInv' /\ HandedInOrder'
  <2>1. /\ UNCHANGED <<sent, messages, writePointer, readPointer, readerPc, message,
                       parsed, handed, elapsedDataBytes, pc>>
        /\ GetInput(byte) /\ pc = "parse" /\ waitingForStatus
    BY <1>5 DEF IgnoreByte, GetInput, parser, reader
  <2>2. waitingForStatus' = waitingForStatus
    BY <1>5 DEF IgnoreByte, parser
  <2>3. callbackEnabled' = callbackEnabled
    BY <1>5 DEF IgnoreByte, GetInput
  <2>4. MessageInv' /\ HandedInOrder'
    BY <1>1, <2>1, <2>2, <2>3, MessagesKept
  <2>5. byte = At(0) /\ byte \in Byte /\ InFlight > 0 /\ InFlight \in Nat
        /\ byte = SentByte(byte.value)
    BY <1>1, <2>1, FlightGet, FlightType DEF Chain, ChainInv
  <2>6. ~IsStatus(byte.value)
    <3>. SUFFICES ASSUME IsStatus(byte.value)
                  PROVE  FALSE
      OBVIOUS
    <3>1. byte = [status |-> TRUE, type |-> sent[byte.value[1]], value |-> byte.value]
      BY <2>5 DEF SentByte
    <3>2. byte.status = TRUE
      BY <3>1
    <3>3. ~byte.status
      BY <1>5, Zenon DEF IgnoreByte
    <3>. QED
      BY <3>2, <3>3, Zenon
  <2>7. parsed = 0 /\ byte.value[1] = 0 /\ byte.value[2] = 0
    <3>1. NextMessage = parsed + 1 /\ NextByte = 0
      BY <2>1 DEF NextMessage, NextByte, Whole
    <3>. QED
      BY <1>1, <2>5, <2>6, <3>1 DEF Chain, HeadInv, IsStatus
  <2>8. NextMessage' = 1 /\ NextByte' = 0
    BY <2>1, <2>2, <2>7 DEF NextMessage, NextByte, Whole
  <2>9. Follows(byte.value, 1, 0)
    BY <2>7 DEF Follows
  <2>10. Chain'
    BY <1>1, <2>1, <2>8, <2>9, ChainConsumed
  <2>11. FlightInv'
    BY <2>1, <2>10, FlightParsed
  <2>. QED
    BY <2>4, <2>11
<1>6. ASSUME NEW byte, ParseStatus(byte)
      PROVE  FlightInv' /\ MessageInv' /\ HandedInOrder'
  <2>1. Chain' /\ MessageInv' /\ HandedInOrder'
    BY <1>6, StatusParsed
  <2>2. GetInput(byte) /\ sent' = sent /\ handed' = handed /\ pc' # "read"
    BY <1>6 DEF ParseStatus, GetInput, reader
  <2>. QED
    BY <2>1, <2>2, FlightParsed
<1>7. ASSUME NEW byte, ParseData(byte)
      PROVE  FlightInv' /\ MessageInv' /\ HandedInOrder'
  <2>1. Chain' /\ MessageInv' /\ HandedInOrder'
    BY <1>7, DataParsed
  <2>2. GetInput(byte) /\ sent' = sent /\ handed' = handed /\ pc' # "read"
    BY <1>7 DEF ParseData, GetInput, reader
  <2>. QED
    BY <2>1, <2>2, FlightParsed
<1>8. CASE CallBack
  <2>1. /\ UNCHANGED <<port, input, sent, parsed, writePointer, elapsedDataBytes, readerPc,
                       message>>
        /\ pc = "complete" /\ pc' = "publish"
    BY <1>8 DEF CallBack, parser
  <2>2. waitingForStatus' = waitingForStatus
    BY <1>8 DEF CallBack, parser
  <2>3. callbackEnabled' = callbackEnabled
    BY <1>8 DEF CallBack
  <2>4. NextMessage' = NextMessage /\ NextByte' = NextByte /\ ~FirstPlace
    BY <2>1, <2>2 DEF NextMessage, NextByte, FirstPlace, Whole
  <2>5. MessageInv' /\ HandedInOrder' /\ Len(handed') \in Nat /\ Len(handed') >= Len(handed)
    <3>1. CASE callbackEnabled
      BY <1>1, <1>8, <3>1, CalledBack
    <3>2. CASE ~callbackEnabled
      <4>1. UNCHANGED <<messages, readPointer, handed>>
        BY <1>8, <3>2 DEF CallBack
      <4>. QED
        BY <1>1, <2>1, <2>2, <2>3, <3>2, <4>1, MessagesKept
    <3>. QED
      BY <3>1, <3>2
  <2>6. FlightInv'
    BY <2>1, <2>4, <2>5, FlightKept
  <2>. QED
    BY <2>5, <2>6
<1>9. CASE Publish
  <2>1. UNCHANGED <<port, input, sent, handed>> /\ pc = "publish" /\ pc' = "wrap"
        /\ parsed' = parsed + 1
    BY <1>9 DEF Publish, reader
  <2>2. waitingForStatus'
    BY <1>9, Zenon DEF Publish
  <2>3. NextMessage' = NextMessage /\ NextByte' = NextByte /\ ~FirstPlace
    BY <1>1, <2>1, <2>2 DEF NextMessage, NextByte, FirstPlace, Whole
  <2>4. FlightInv'
    BY <1>1, <2>1, <2>3, FlightKept
  <2>. QED
    BY <1>9, <2>4, Published
<1>10. CASE WrapWritePointer
  <2>1. UNCHANGED <<port, input, sent, handed, parsed>> /\ pc = "wrap" /\ pc' = "parse"
        /\ waitingForStatus
    BY <1>1, <1>10 DEF WrapWritePointer, reader, ParserInv
  <2>2. waitingForStatus' = waitingForStatus
    BY <1>10 DEF WrapWritePointer
  <2>3. NextMessage' = NextMessage /\ NextByte' = NextByte /\ (FirstPlace => FirstPlace')
    BY <2>1, <2>2 DEF NextMessage, NextByte, FirstPlace, Whole
  <2>4. FlightInv'
    BY <1>1, <2>1, <2>3, FlightKept
  <2>. QED
    BY <1>10, <2>4, Wrapped
<1>11. CASE CopyMessage
  <2>1. UNCHANGED <<port, input, sent, handed, parsed, pc, elapsedDataBytes>>
    BY <1>11 DEF CopyMessage, parser
  <2>2. waitingForStatus' = waitingForStatus
    BY <1>11 DEF CopyMessage, parser
  <2>3. NextMessage' = NextMessage /\ NextByte' = NextByte /\ (FirstPlace => FirstPlace')
    BY <2>1, <2>2 DEF NextMessage, NextByte, FirstPlace, Whole
  <2>4. FlightInv'
    BY <1>1, <2>1, <2>3, FlightKept
  <2>. QED
    BY <1>11, <2>4, MessageCopied
<1>12. CASE RetireMessage
  <2>1. UNCHANGED <<port, input, sent, parsed, pc, elapsedDataBytes>>
    BY <1>12 DEF RetireMessage, parser
  <2>2. waitingForStatus' = waitingForStatus
    BY <1>12 DEF RetireMessage, parser
  <2>3. NextMessage' = NextMessage /\ NextByte' = NextByte /\ (FirstPlace => FirstPlace')
    BY <2>1, <2>2 DEF NextMessage, NextByte, FirstPlace, Whole
  <2>4. MessageInv' /\ HandedInOrder' /\ Len(handed') \in Nat /\ Len(handed') >= Len(handed)
    BY <1>1, <1>12, MessageRetired
  <2>5. FlightInv'
    BY <2>1, <2>3, <2>4, FlightKept
  <2>. QED
    BY <2>4, <2>5
<1>13. CASE UNCHANGED vars
  <2>1. /\ UNCHANGED <<port, input, sent, handed, parsed, pc, elapsedDataBytes, messages,
                       writePointer, readPointer, readerPc, message>>
    BY <1>13 DEF vars, parser, reader
  <2>2. waitingForStatus' = waitingForStatus
    BY <1>13 DEF vars, parser
  <2>3. callbackEnabled' = callbackEnabled
    BY <1>13 DEF vars
  <2>4. NextMessage' = NextMessage /\ NextByte' = NextByte /\ (FirstPlace => FirstPlace')
    BY <2>1, <2>2 DEF NextMessage, NextByte, FirstPlace, Whole
  <2>5. FlightInv'
    BY <1>1, <2>1, <2>4, FlightKept
  <2>6. MessageInv' /\ HandedInOrder'
    BY <1>1, <2>1, <2>2, <2>3, MessagesKept
  <2>. QED
    BY <2>5, <2>6
<1>. QED
  BY <1>2, <1>3, <1>4, <1>5, <1>6, <1>7, <1>8, <1>9, <1>10, <1>11, <1>12, <1>13
     DEF Next, ReadThread, AudioThread

(* The rings keep the stream of bytes and the unread messages.              *)
LEMMA InvCorrect ==
  ASSUME Disciplined, ChannelMessagesOnly
  PROVE  Spec => []IInv
<1>1. Init => IInv
  BY InvInit
<1>2. IInv /\ [Next]_vars => IInv'
  BY InvNext
<1>. QED
  BY <1>1, <1>2, PTL DEF Spec

(* When the rings are used as they must be, the user gets every message as  *)
(* it was sent, once and in order, by callback or by polling, whatever      *)
(* read() cuts and however the threads interleave.                          *)
THEOREM OrderCorrect ==
  ASSUME Disciplined, ChannelMessagesOnly
  PROVE  Spec => []HandedInOrder
<1>1. IInv => HandedInOrder
  BY DEF IInv
<1>. QED
  BY <1>1, InvCorrect, PTL

\* The sum of the two widths, and its remainder.
LEMMA CountsUnread ==
  ASSUME IInv, SizeIsInt, ~callbackEnabled
  PROVE  numAvailableMessages = Unread
<1>. DEFINE d == writePointer - readPointer
<1>1. /\ Slots \in Nat /\ Slots > 0 /\ IntRange \in Nat /\ IntRange > 2 * Slots
      /\ SizeRange = IntRange
  BY MidiInputAssumption DEF SizeIsInt
<1>2. Unread \in 0 .. Slots - 1 /\ readPointer \in 0 .. Slots - 1
  BY DEF IInv, TypeOK, MessageInv, PollInv
<1>3. /\ d = Unread \/ d = Unread - Slots \/ d = Unread + Slots
      /\ d <= Slots /\ d \in Int
  BY <1>1, <1>2 DEF IInv, MessageInv, PollInv, ReadSlot
<1>4. (((d % IntRange) + Slots) % IntRange) = d + Slots
  <2>1. CASE d >= 0
    <3>1. d % IntRange = d
      BY <1>1, <1>3, <2>1
    <3>2. (d + Slots) % IntRange = d + Slots
      BY <1>1, <1>3, <2>1
    <3>. QED
      BY <3>1, <3>2
  <2>2. CASE d < 0
    <3>1. d % IntRange = d + IntRange
      BY <1>1, <1>2, <1>3, <2>2
    <3>2. (d + IntRange + Slots) % IntRange = d + Slots
      BY <1>1, <1>2, <1>3, <2>2
    <3>. QED
      BY <3>1, <3>2
  <2>. QED
    BY <1>3, <2>1, <2>2
<1>5. (d + Slots) % Slots = Unread
  <2>1. CASE d = Unread
    BY <1>1, <1>2, <2>1
  <2>2. CASE d = Unread - Slots
    BY <1>1, <1>2, <2>2
  <2>3. CASE d = Unread + Slots
    <3>1. Unread = 0 /\ d + Slots = 2 * Slots
      BY <1>1, <1>2, <1>3, <2>3
    <3>2. (2 * Slots) % Slots = 0
      BY <1>1
    <3>. QED
      BY <3>1, <3>2
  <2>. QED
    BY <1>3, <2>1, <2>2, <2>3
<1>. QED
  BY <1>1, <1>4, <1>5 DEF numAvailableMessages

(* Where size_t is an unsigned int, numAvailableMessages() is the number of *)
(* unread messages at every moment.                                         *)
THEOREM AvailableCorrect ==
  ASSUME Disciplined, ChannelMessagesOnly, SizeIsInt
  PROVE  Spec => []AvailableIsUnread
<1>1. IInv => AvailableIsUnread
  BY CountsUnread DEF AvailableIsUnread, Unread
<1>. QED
  BY <1>1, InvCorrect, PTL

(* Whatever the widths of the integers, numAvailableMessages() announces no *)
(* message when none is unread: getNextChannelMessage(), called in          *)
(* while(numAvailableMessages() > 0), never copies a slot that holds none.  *)
NoneAnnounced ==
  ~callbackEnabled /\ parsed = Len(handed) => numAvailableMessages = 0

THEOREM NoneAnnouncedCorrect ==
  ASSUME Disciplined, ChannelMessagesOnly
  PROVE  Spec => []NoneAnnounced
<1>1. IInv => NoneAnnounced
  <2>. SUFFICES ASSUME IInv, ~callbackEnabled, parsed = Len(handed)
                PROVE  numAvailableMessages = 0
    BY DEF NoneAnnounced
  <2>1. Unread = 0
    BY Lengths DEF IInv, Unread
  <2>. QED
    BY <2>1, NoneAvailable
<1>. QED
  BY <1>1, InvCorrect, PTL

-----------------------------------------------------------------------------
(* The queue that the rings are: what is sent and not handed over.          *)

AnyMessage == {MessageOf(type, i) : type \in Type, i \in Nat}

\* The elements of the queue, for s sent and h handed over.
LEMMA TransitIs ==
  ASSUME NEW s \in Seq(Type), NEW h \in Seq(Message), Len(h) <= Len(s), NEW q,
         q = [j \in 1 .. Len(s) - Len(h) |-> MessageOf(s[Len(h) + j], Len(h) + j)]
  PROVE  /\ q \in Seq(AnyMessage)
         /\ Len(q) = Len(s) - Len(h)
         /\ \A j \in 1 .. Len(s) - Len(h) :
              q[j] = MessageOf(s[Len(h) + j], Len(h) + j)
<1>. DEFINE n == Len(s) - Len(h)
            Item(j) == MessageOf(s[Len(h) + j], Len(h) + j)
<1>1. Len(s) \in Nat /\ Len(h) \in Nat /\ n \in Nat
  OBVIOUS
<1>2. ASSUME NEW j \in 1 .. n
      PROVE  Item(j) \in AnyMessage
  <2>1. Len(h) + j \in 1 .. Len(s)
    BY <1>1
  <2>2. s[Len(h) + j] \in Type
    BY <2>1, ElementOfSeq
  <2>. QED
    BY <2>1, <2>2 DEF AnyMessage
<1>3. q = [j \in 1 .. n |-> Item(j)]
  OBVIOUS
<1>. HIDE DEF n, Item
<1>4. q \in Seq(AnyMessage) /\ Len(q) = n
  <2>1. q \in [1 .. n -> AnyMessage] /\ DOMAIN q = 1 .. n
    BY <1>2, <1>3
  <2>2. q \in Seq(AnyMessage)
    BY <1>1, <2>1, SeqDef, ZenonT(30)
  <2>3. Len(q) \in Nat /\ DOMAIN q = 1 .. Len(q)
    BY <2>2, LenProperties
  <2>. QED
    BY <1>1, <2>1, <2>2, <2>3
<1>5. \A j \in 1 .. n : q[j] = Item(j)
  BY <1>3
<1>. QED
  BY <1>4, <1>5 DEF n, Item

\* One more message is sent.
LEMMA EntersQueue ==
  ASSUME TypeOK, TypeOK', HandedInOrder, HandedInOrder', NEW type \in Type,
         sent' = Append(sent, type), handed' = handed
  PROVE  InTransit' = Append(InTransit, MessageOf(type, Len(sent) + 1))
<1>. DEFINE m == MessageOf(type, Len(sent) + 1)
            n == Len(sent) - Len(handed)
<1>1. /\ Len(sent) \in Nat /\ Len(handed) \in Nat /\ n \in Nat
      /\ Len(sent') = Len(sent) + 1 /\ sent'[Len(sent) + 1] = type
      /\ \A i \in 1 .. Len(sent) : sent'[i] = sent[i]
  BY Lengths, AppendProperties, SMTT(30) DEF HandedInOrder, TypeOK
<1>2. /\ InTransit \in Seq(AnyMessage) /\ Len(InTransit) = n
      /\ \A j \in 1 .. n :
           InTransit[j] = MessageOf(sent[Len(handed) + j], Len(handed) + j)
  BY TransitIs DEF TypeOK, HandedInOrder, InTransit, SentMessage
<1>3. /\ InTransit' \in Seq(AnyMessage)
      /\ Len(InTransit') = Len(sent') - Len(handed')
      /\ \A j \in 1 .. Len(sent') - Len(handed') :
           InTransit'[j] = MessageOf(sent'[Len(handed') + j], Len(handed') + j)
  BY TransitIs DEF TypeOK, HandedInOrder, InTransit, SentMessage
<1>4. /\ Len(InTransit') = n + 1
      /\ \A j \in 1 .. n + 1 :
           InTransit'[j] = MessageOf(sent'[Len(handed) + j], Len(handed) + j)
  BY <1>1, <1>3
<1>5. m \in AnyMessage
  BY <1>1 DEF AnyMessage
<1>. HIDE DEF m
<1>6. /\ Append(InTransit, m) \in Seq(AnyMessage) /\ Len(Append(InTransit, m)) = n + 1
      /\ \A j \in 1 .. n : Append(InTransit, m)[j] = InTransit[j]
      /\ Append(InTransit, m)[n + 1] = m
  BY <1>2, <1>5, AppendProperties
<1>7. ASSUME NEW j \in 1 .. n + 1
      PROVE  InTransit'[j] = Append(InTransit, m)[j]
  <2>1. InTransit'[j] = MessageOf(sent'[Len(handed) + j], Len(handed) + j)
    BY <1>4
  <2>2. CASE j \in 1 .. n
    <3>1. Len(handed) + j \in 1 .. Len(sent)
      BY <1>1, <2>2
    <3>. QED
      BY <1>1, <1>2, <1>6, <2>1, <2>2, <3>1
  <2>3. CASE j = n + 1
    <3>1. Len(handed) + j = Len(sent) + 1
      BY <1>1, <2>3
    <3>2. InTransit'[j] = m
      BY <1>1, <2>1, <3>1 DEF m
    <3>. QED
      BY <1>6, <2>3, <3>2
  <2>4. j \in 1 .. n \/ j = n + 1
    BY <1>1
  <2>. QED
    BY <2>2, <2>3, <2>4
<1>8. InTransit' = Append(InTransit, m)
  BY <1>3, <1>4, <1>6, <1>7, SeqEqual
<1>. QED
  BY <1>8 DEF m

\* One is handed over.
LEMMA LeavesQueue ==
  ASSUME TypeOK, TypeOK', HandedInOrder, HandedInOrder', sent' = sent,
         NEW m \in Message, handed' = Append(handed, m)
  PROVE  OQ!HandOver
<1>. DEFINE n == Len(sent) - Len(handed)
<1>1. /\ Len(handed') = Len(handed) + 1 /\ handed'[Len(handed) + 1] = m
      /\ Len(handed) \in Nat /\ Len(sent) \in Nat /\ Len(handed') <= Len(sent)
      /\ Len(handed) + 1 \in DOMAIN handed'
  BY Lengths, AppendProperties DEF HandedInOrder, TypeOK
<1>2. \A i \in DOMAIN handed' : handed'[i] = MessageOf(sent[i], i)
  BY DEF HandedInOrder, SentMessage
<1>3. m = MessageOf(sent[Len(handed) + 1], Len(handed) + 1)
  BY <1>1, <1>2
<1>4. /\ InTransit \in Seq(AnyMessage) /\ Len(InTransit) = n
      /\ \A j \in 1 .. n :
           InTransit[j] = MessageOf(sent[Len(handed) + j], Len(handed) + j)
  BY TransitIs DEF TypeOK, HandedInOrder, InTransit, SentMessage
<1>5. /\ InTransit' \in Seq(AnyMessage)
      /\ Len(InTransit') = Len(sent') - Len(handed')
      /\ \A j \in 1 .. Len(sent') - Len(handed') :
           InTransit'[j] = MessageOf(sent'[Len(handed') + j], Len(handed') + j)
  BY TransitIs DEF TypeOK, HandedInOrder, InTransit, SentMessage
<1>6. n \in Nat /\ n >= 1 /\ 1 \in 1 .. n /\ Len(InTransit') = n - 1
  BY <1>1, <1>5
<1>7. InTransit # <<>> /\ Head(InTransit) = m
  BY <1>3, <1>4, <1>6
<1>8. /\ Tail(InTransit) \in Seq(AnyMessage) /\ Len(Tail(InTransit)) = n - 1
      /\ \A j \in 1 .. n - 1 : Tail(InTransit)[j] = InTransit[j + 1]
  BY <1>4, <1>7, HeadTailProperties
<1>9. ASSUME NEW j \in 1 .. n - 1
      PROVE  InTransit'[j] = Tail(InTransit)[j]
  <2>1. j \in 1 .. Len(sent') - Len(handed') /\ j + 1 \in 1 .. n
        /\ Len(handed') + j = Len(handed) + (j + 1)
    BY <1>1, <1>6
  <2>2. InTransit'[j] = MessageOf(sent[Len(handed') + j], Len(handed') + j)
    BY <1>5, <2>1
  <2>3. Tail(InTransit)[j] = MessageOf(sent[Len(handed) + (j + 1)], Len(handed) + (j + 1))
    BY <1>4, <1>8, <2>1
  <2>. QED
    BY <2>1, <2>2, <2>3
<1>10. InTransit' = Tail(InTransit)
  BY <1>5, <1>6, <1>8, <1>9, SeqEqual
<1>. QED
  BY <1>7, <1>10 DEF OQ!HandOver

(* The MIDI input implements a queue of messages: one is put in when the    *)
(* device sends it, and taken out when the callback is called with it or    *)
(* getNextChannelMessage() returns it; all other steps leave the queue as   *)
(* it is.                                                                   *)
THEOREM QueueRefinement ==
  ASSUME Disciplined, ChannelMessagesOnly
  PROVE  Spec => ImplementsQueue
<1>1. Init => OQ!Init
  <2>. SUFFICES ASSUME Init
                PROVE  InTransit = <<>>
    BY DEF Init, OQ!Init
  <2>1. Len(sent) - Len(handed) = 0
    BY DEF Init
  <2>. QED
    BY <2>1 DEF InTransit
<1>2. IInv /\ IInv' /\ [Next]_vars => [OQ!Next]_(OQ!vars)
  <2>. SUFFICES ASSUME IInv, IInv', [Next]_vars
                PROVE  [OQ!Next]_(OQ!vars)
    OBVIOUS
  <2>0. TypeOK /\ TypeOK' /\ HandedInOrder /\ HandedInOrder'
    BY DEF IInv
  <2>1. CASE DeviceSends
    <3>1. PICK type \in Type :
            /\ Len(sent) + 1 <= MaxMessages
            /\ sent' = Append(sent, type) /\ handed' = handed
      BY <2>1 DEF DeviceSends, ChannelMessagesOnly, reader
    <3>2. InTransit' = Append(InTransit, MessageOf(type, Len(sent) + 1))
      BY <2>0, <3>1, EntersQueue
    <3>3. Len(sent) + 1 \in 1 .. MaxMessages
      BY <2>0, <3>1, Constants, Lengths
    <3>. QED
      BY <3>1, <3>2, <3>3 DEF OQ!Next, OQ!Accept
  <2>2. ASSUME NEW m \in Message, sent' = sent, handed' = Append(handed, m)
        PROVE  OQ!Next
    BY <2>0, <2>2, LeavesQueue DEF OQ!Next
  <2>3. ASSUME UNCHANGED <<sent, handed>>
        PROVE  UNCHANGED OQ!vars
    BY <2>3 DEF OQ!vars, InTransit, SentMessage
  <2>4. CASE CallBack
    <3>1. Copied \in Message
      BY <2>0, CopiedData
    <3>. QED
      BY <2>2, <2>3, <2>4, <3>1 DEF CallBack
  <2>5. CASE RetireMessage
    <3>1. message \in Message
      BY <2>0 DEF TypeOK
    <3>. QED
      BY <2>2, <2>5, <3>1 DEF RetireMessage
  <2>6. ASSUME NEW byte, IgnoreByte(byte) \/ ParseStatus(byte) \/ ParseData(byte)
        PROVE  UNCHANGED <<sent, handed>>
    BY <2>6 DEF IgnoreByte, ParseStatus, ParseData, GetInput, reader
  <2>7. CASE \/ ReadInput \/ InputDrained \/ Publish \/ WrapWritePointer
             \/ CopyMessage \/ UNCHANGED vars
    BY <2>3, <2>7
       DEF ReadInput, InputDrained, Publish, WrapWritePointer, CopyMessage, vars, reader
  <2>. QED
    BY <2>1, <2>3, <2>4, <2>5, <2>6, <2>7 DEF Next, ReadThread, AudioThread
<1>. QED
  BY <1>1, <1>2, InvCorrect, PTL DEF Spec, ImplementsQueue, OQ!Spec

-----------------------------------------------------------------------------
(* Nothing is left when all is quiet.                                       *)

\* The read thread waits in read() with the ring empty, but for the byte that
\* was never received before the first one is.
StartInv ==
  pc = "read" =>
    \/ Waiting = 0
    \/ Waiting = 1 /\ inputBytes[inputBytesReadPointer].value[1] = 0

LEMMA StartNext == TypeOK /\ StartInv /\ [Next]_vars => StartInv'
<1>. SUFFICES ASSUME TypeOK, StartInv, [Next]_vars
              PROVE  StartInv'
  OBVIOUS
<1>1. CASE ReadInput \/ CallBack \/ Publish \/ WrapWritePointer
  BY <1>1 DEF ReadInput, CallBack, Publish, WrapWritePointer, StartInv
<1>2. CASE InputDrained
  <2>1. Waiting' = 0
    BY <1>2 DEF InputDrained, Waiting, TypeOK, input
  <2>. QED
    BY <2>1 DEF StartInv
<1>3. ASSUME NEW byte, IgnoreByte(byte) \/ ParseStatus(byte) \/ ParseData(byte)
      PROVE  StartInv'
  BY <1>3 DEF IgnoreByte, ParseStatus, ParseData, GetInput, StartInv
<1>4. CASE DeviceSends \/ CopyMessage \/ RetireMessage \/ UNCHANGED vars
  <2>1. UNCHANGED <<pc, inputBytes, inputBytesReadPointer, inputBytesWritePointer>>
    BY <1>4 DEF DeviceSends, CopyMessage, RetireMessage, vars, input
  <2>. QED
    BY <2>1 DEF StartInv, Waiting
<1>. QED
  BY <1>1, <1>2, <1>3, <1>4 DEF Next, ReadThread, AudioThread

LEMMA StartCorrect == Spec => []StartInv
<1>1. Init => StartInv
  <2>. SUFFICES ASSUME Init
                PROVE  StartInv
    OBVIOUS
  <2>1. inputBytesReadPointer \in 0 .. Size - 1
    BY Constants DEF Init
  <2>2. inputBytes[inputBytesReadPointer] = NoByte
    BY <2>1 DEF Init
  <2>3. Waiting \in 0 .. 1
    BY Constants DEF Init, Waiting
  <2>. QED
    BY <2>2, <2>3 DEF StartInv, NoByte
<1>. QED
  BY <1>1, StartNext, TypeCorrect, PTL DEF Spec

(* When the port is empty and the threads rest, every message the device    *)
(* has sent was handed to the user: the byte the ring withholds is never    *)
(* one that was received.                                                   *)
THEOREM NothingLeftCorrect ==
  ASSUME Disciplined, ChannelMessagesOnly, SizeIsInt
  PROVE  Spec => []NothingLeftBehind
<1>1. IInv /\ StartInv => NothingLeftBehind
  <2>. SUFFICES ASSUME IInv, StartInv, port = <<>>, pc = "read",
                       callbackEnabled \/ numAvailableMessages = 0
                PROVE  Len(handed) = Len(sent)
    BY DEF NothingLeftBehind
  <2>1. /\ TypeOK /\ ChainInv /\ EndInv /\ ParserInv
        /\ Len(sent) \in Nat /\ Len(handed) \in Nat /\ parsed \in Nat
        /\ parsed <= Len(sent) /\ ~Whole /\ NextMessage = parsed + 1
    BY Lengths, ParsedBound DEF IInv, FlightInv, MessageInv, Chain, Whole, NextMessage
  <2>2. InFlight = Waiting /\ Waiting \in Nat
    BY <2>1, FlightType DEF InFlight
  <2>3. parsed = Len(sent)
    <3>1. CASE Waiting = 0
      BY <2>1, <2>2, <3>1 DEF EndInv
    <3>2. CASE Waiting = 1 /\ inputBytes[inputBytesReadPointer].value[1] = 0
      <4>1. At(0) = inputBytes[inputBytesReadPointer]
        BY <2>1, <3>2, Constants DEF At, RingPlace, TypeOK
      <4>2. Follows(At(0).value, Len(sent) + 1, 0)
        BY <2>1, <2>2, <3>2 DEF EndInv
      <4>3. Len(sent) + 1 = 0 + 1
        BY <3>2, <4>1, <4>2 DEF Follows
      <4>. QED
        BY <2>1, <4>3
    <3>. QED
      BY <3>1, <3>2 DEF StartInv
  <2>4. CASE callbackEnabled
    BY <2>3, <2>4 DEF IInv, MessageInv, CallbackInv
  <2>5. CASE ~callbackEnabled
    <3>1. Unread = 0
      BY <2>5, CountsUnread
    <3>. QED
      BY <2>1, <2>3, <3>1 DEF Unread
  <2>. QED
    BY <2>4, <2>5
<1>. QED
  BY <1>1, InvCorrect, StartCorrect, PTL

=============================================================================
