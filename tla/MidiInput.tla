------------------------------ MODULE MidiInput ------------------------------
(***************************************************************************)
(* MIDI input (core/Midi.cpp, include/Midi.h).  The read thread copies the *)
(* bytes of the port into a ring, takes them out again one by one and      *)
(* gives them to MidiParser, which puts messages together in the slots of  *)
(* a second ring.  When a message is complete it either calls the user's   *)
(* callback, on the read thread, or leaves the message to whoever calls    *)
(* numAvailableMessages() and getNextChannelMessage(), the audio thread.   *)
(* Neither ring looks at the other end before it writes, and no index is   *)
(* atomic.                                                                 *)
(*                                                                         *)
(* The parser is enabled before the first byte arrives.  The port delivers *)
(* complete messages; a byte is the message it belongs to and its place in *)
(* it.  Left out: getInput() without a parser, and the output thread,      *)
(* which never has anything to write.                                      *)
(***************************************************************************)
EXTENDS Integers, Sequences

CONSTANTS
  Type,          \* the types of channel messages
  kmmNoteOff,    \* the type of a slot never used
  NumDataBytes,  \* midiMessageNumDataBytes, for each of them
  OtherStatus,   \* status bytes that begin no channel message, if there are
  Size,          \* bytes in inputBytes (1000)
  Slots,         \* messages in the parser (100)
  IntRange,      \* 2^32: unsigned int, the type of the indices
  SizeRange,     \* range of size_t: 2^32 or 2^64
  MaxMessages,   \* bound: messages sent
  Burst,         \* bound: bytes waiting in the port
  MaxUnread      \* bound: messages sent and not yet handed to the user

ASSUME MidiInputAssumption ==
  /\ kmmNoteOff \in Type
  /\ NumDataBytes \in [Type -> 1 .. 2]
  /\ "kmmNone" \notin Type
  /\ OtherStatus \subseteq {"kmmNone"}
  /\ Size \in Nat \ {0}
  /\ Slots \in Nat \ {0}
  /\ IntRange \in Nat /\ IntRange > 2 * Slots
  /\ SizeRange \in Nat /\ SizeRange >= IntRange
  /\ MaxMessages \in Nat
  /\ Burst \in Nat
  /\ MaxUnread \in Nat

VARIABLES
  port,              \* bytes the device has sent and read() not returned
  inputBytes,        \* the first ring
  inputBytesWritePointer,
  inputBytesReadPointer,
  pc,                \* where the read thread is
  waitingForStatus,  \* MidiParser
  elapsedDataBytes,
  messages,          \* the second ring
  writePointer,
  readPointer,
  callbackEnabled,
  readerPc,          \* getNextChannelMessage() on the audio thread
  message,           \* its local copy
  sent,              \* history: types of the messages the device sent
  parsed,            \* history: number of messages made available
  handed             \* history: messages given to the user

input == <<inputBytes, inputBytesWritePointer, inputBytesReadPointer>>
parser == <<waitingForStatus, elapsedDataBytes, writePointer>>
reader == <<readPointer, readerPc, message, handed>>
vars == <<port, input, pc, parser, messages, callbackEnabled, reader, sent, parsed>>

kmmNone == "kmmNone"

\* Byte k of message i; nothing but resized memory has the value <<0, 0>>.
Value == (0 .. MaxMessages) \X (0 .. 2)
Byte == [status : BOOLEAN, type : Type \cup {kmmNone}, value : Value]
Message == [type : Type \cup {kmmNone}, channel : Value, data : Seq(Value)]
Slot == [type : Type \cup {kmmNone}, channel : Value, data : [1 .. 2 -> Value]]

NoByte == [status |-> FALSE, type |-> kmmNone, value |-> <<0, 0>>]
Unused == [type |-> kmmNoteOff, channel |-> <<0, 0>>, data |-> <<<<0, 0>>, <<0, 0>>>>]

TypeOK ==
  /\ port \in Seq(Byte)
  /\ inputBytes \in [0 .. Size - 1 -> Byte]
  /\ inputBytesWritePointer \in 0 .. Size - 1
  /\ inputBytesReadPointer \in 0 .. Size - 1
  /\ pc \in {"read", "parse", "complete", "publish", "wrap", "undefined"}
  /\ waitingForStatus \in BOOLEAN
  /\ elapsedDataBytes \in 0 .. 2
  /\ messages \in [0 .. Slots - 1 -> Slot]
  /\ writePointer \in IF pc = "wrap" THEN 1 .. Slots ELSE 0 .. Slots - 1
  /\ readPointer \in 0 .. Slots - 1
  /\ callbackEnabled \in BOOLEAN
  /\ readerPc \in {"idle", "retire"}
  /\ message \in Message
  /\ sent \in Seq(Type)
  /\ parsed \in Nat
  /\ handed \in Seq(Message)

Init ==
  /\ port = <<>>
  /\ inputBytes = [i \in 0 .. Size - 1 |-> NoByte]
  /\ inputBytesWritePointer = 0
  /\ inputBytesReadPointer = Size - 1
  /\ pc = "read"
  /\ waitingForStatus = TRUE
  /\ elapsedDataBytes = 0
  /\ messages = [i \in 0 .. Slots - 1 |-> Unused]
  /\ writePointer = 0
  /\ readPointer = 0
  /\ callbackEnabled \in BOOLEAN
  /\ readerPc = "idle"
  /\ message = Unused
  /\ sent = <<>>
  /\ parsed = 0
  /\ handed = <<>>

-----------------------------------------------------------------------------
(* The device                                                               *)

Bytes(i, type) ==
  <<[status |-> TRUE, type |-> type, value |-> <<i, 0>>]>> \o
    IF type \in Type
    THEN [k \in 1 .. NumDataBytes[type] |->
            [status |-> FALSE, type |-> kmmNone, value |-> <<i, k>>]]
    ELSE <<>>

DeviceSends ==
  \E type \in Type \cup OtherStatus :
    LET i == Len(sent) + 1 IN
    /\ i <= MaxMessages
    /\ i - Len(handed) <= MaxUnread
    /\ Len(port) + Len(Bytes(i, type)) <= Burst
    /\ port' = port \o Bytes(i, type)
    /\ sent' = IF type \in Type THEN Append(sent, type) ELSE sent
    /\ UNCHANGED <<input, pc, parser, messages, callbackEnabled, reader, parsed>>

-----------------------------------------------------------------------------
(* readInputLoop(), on the read thread                                      *)

\* read(): some of what waits, and no more than there is room for up to the
\* end of the ring.
ReadInput ==
  /\ pc = "read"
  /\ \E n \in 1 .. Len(port) :
       LET w == inputBytesWritePointer IN
       /\ w + n <= Size
       /\ inputBytes' = [i \in 0 .. Size - 1 |->
            IF i \in w .. w + n - 1 THEN port[i - w + 1] ELSE inputBytes[i]]
       /\ inputBytesWritePointer' = IF w + n = Size THEN 0 ELSE w + n
       /\ port' = SubSeq(port, n + 1, Len(port))
  /\ pc' = "parse"
  /\ UNCHANGED <<inputBytesReadPointer, parser, messages, callbackEnabled, reader,
                 sent, parsed>>

\* _getInput() returns -1.
InputDrained ==
  /\ pc = "parse"
  /\ inputBytesReadPointer = inputBytesWritePointer
  /\ pc' = "read"
  /\ UNCHANGED <<port, input, parser, messages, callbackEnabled, reader, sent, parsed>>

\* Mutant of GetInput: the ring is taken to be one byte shorter.
GetInputShort(byte) ==
  /\ pc = "parse"
  /\ inputBytesReadPointer # inputBytesWritePointer
  /\ byte = inputBytes[inputBytesReadPointer]
  /\ inputBytesReadPointer' =
       IF inputBytesReadPointer >= Size - 2 THEN 0 ELSE inputBytesReadPointer + 1
  /\ UNCHANGED <<port, inputBytes, inputBytesWritePointer, callbackEnabled, reader,
                 sent, parsed>>

\* _getInput() returns byte, to be given to parse().
GetInput(byte) ==
  /\ pc = "parse"
  /\ inputBytesReadPointer # inputBytesWritePointer
  /\ byte = inputBytes[inputBytesReadPointer]
  /\ inputBytesReadPointer' =
       IF inputBytesReadPointer + 1 = Size THEN 0 ELSE inputBytesReadPointer + 1
  /\ UNCHANGED <<port, inputBytes, inputBytesWritePointer, callbackEnabled, reader,
                 sent, parsed>>

\* A data byte where a status is expected is passed over.
IgnoreByte(byte) ==
  /\ GetInput(byte)
  /\ waitingForStatus
  /\ ~byte.status
  /\ UNCHANGED <<pc, parser, messages>>

\* Mutant of ParseStatus: the count of data bytes is not begun again.
ParseStatusOnly(byte) ==
  /\ GetInput(byte)
  /\ waitingForStatus
  /\ byte.status
  /\ messages' = [messages EXCEPT ![writePointer].type = byte.type,
                                  ![writePointer].channel = byte.value]
  /\ waitingForStatus' = FALSE
  /\ UNCHANGED <<pc, elapsedDataBytes, writePointer>>

\* A status byte that is not in the table leaves newType at kmmNone.
ParseStatus(byte) ==
  /\ GetInput(byte)
  /\ waitingForStatus
  /\ byte.status
  /\ messages' = [messages EXCEPT ![writePointer].type = byte.type,
                                  ![writePointer].channel = byte.value]
  /\ elapsedDataBytes' = 0
  /\ waitingForStatus' = FALSE
  /\ UNCHANGED <<pc, writePointer>>

\* getNumDataBytes() of the slot being filled
BytesExpected ==
  LET type == messages[writePointer].type IN
  IF type = kmmNone THEN 0 ELSE NumDataBytes[type]

\* Whatever the byte is.  _dataBytes has two places.
ParseData(byte) ==
  /\ GetInput(byte)
  /\ ~waitingForStatus
  /\ IF elapsedDataBytes < 2
     THEN /\ messages' = [messages EXCEPT
                            ![writePointer].data[elapsedDataBytes + 1] = byte.value]
          /\ elapsedDataBytes' = elapsedDataBytes + 1
          /\ pc' = IF elapsedDataBytes + 1 = BytesExpected THEN "complete" ELSE pc
     ELSE /\ pc' = "undefined"
          /\ UNCHANGED <<messages, elapsedDataBytes>>
  /\ UNCHANGED <<waitingForStatus, writePointer>>

\* getNextChannelMessage(): the copy, cleared if there was no message
Copied ==
  LET m == messages[readPointer] IN
  [m EXCEPT !.data = IF m.type = kmmNone THEN <<>>
                     ELSE SubSeq(m.data, 1, NumDataBytes[m.type])]

Retire ==
  /\ messages' = [messages EXCEPT ![readPointer].type = kmmNone]
  /\ readPointer' = IF readPointer + 1 = Slots THEN 0 ELSE readPointer + 1

\* The callback takes the message before writePointer has passed it.
CallBack ==
  /\ pc = "complete"
  /\ IF callbackEnabled
     THEN Retire /\ handed' = Append(handed, Copied)
     ELSE UNCHANGED <<messages, readPointer, handed>>
  /\ pc' = "publish"
  /\ UNCHANGED <<port, input, parser, callbackEnabled, readerPc, message, sent,
                 parsed>>

Publish ==
  /\ pc = "publish"
  /\ waitingForStatus' = TRUE
  /\ writePointer' = writePointer + 1
  /\ parsed' = parsed + 1
  /\ pc' = "wrap"
  /\ UNCHANGED <<port, input, elapsedDataBytes, messages, callbackEnabled, reader,
                 sent>>

\* Mutant of WrapWritePointer: the index is compared with one slot too many.
WrapWritePointerLate ==
  /\ pc = "wrap"
  /\ writePointer' = IF writePointer > Slots THEN 0 ELSE writePointer
  /\ pc' = "parse"
  /\ UNCHANGED <<port, input, waitingForStatus, elapsedDataBytes, messages,
                 callbackEnabled, reader, sent, parsed>>

\* Between the two steps the index is past the last slot.
WrapWritePointer ==
  /\ pc = "wrap"
  /\ writePointer' = IF writePointer = Slots THEN 0 ELSE writePointer
  /\ pc' = "parse"
  /\ UNCHANGED <<port, input, waitingForStatus, elapsedDataBytes, messages,
                 callbackEnabled, reader, sent, parsed>>

ReadThread ==
  \/ ReadInput \/ InputDrained
  \/ \E byte \in {inputBytes[inputBytesReadPointer]} :
       IgnoreByte(byte) \/ ParseStatus(byte) \/ ParseData(byte)
  \/ CallBack \/ Publish \/ WrapWritePointer

-----------------------------------------------------------------------------
(* The audio thread, when there is no callback                              *)

\* Mutant of numAvailableMessages: without the term that keeps it positive.
numAvailableUnsigned == ((writePointer - readPointer) % IntRange) % Slots

\* The difference is an unsigned int, the sum a size_t.
numAvailableMessages ==
  ((((writePointer - readPointer) % IntRange) + Slots) % SizeRange) % Slots

\* while(numAvailableMessages() > 0) getNextChannelMessage()
CopyMessage ==
  /\ readerPc = "idle"
  /\ ~callbackEnabled
  /\ numAvailableMessages > 0
  /\ message' = Copied
  /\ readerPc' = "retire"
  /\ UNCHANGED <<port, input, pc, parser, messages, callbackEnabled, readPointer,
                 handed, sent, parsed>>

RetireMessage ==
  /\ readerPc = "retire"
  /\ Retire
  /\ handed' = Append(handed, message)
  /\ readerPc' = "idle"
  /\ message' = Unused
  /\ UNCHANGED <<port, input, pc, parser, callbackEnabled, sent, parsed>>

AudioThread == CopyMessage \/ RetireMessage

Next == DeviceSends \/ ReadThread \/ AudioThread

Spec == Init /\ [][Next]_vars

(* The read thread polls the port, the audio thread polls the parser; the   *)
(* device need not send anything.                                           *)
Fairness == WF_vars(ReadThread) /\ WF_vars(AudioThread)

FairSpec == Spec /\ Fairness

-----------------------------------------------------------------------------
(* How the rings must be used: fewer bytes at a time than the first has     *)
(* room for (its read index starts one behind, so that one place is lost)   *)
(* and fewer unread messages than there are slots.                          *)
Disciplined == Burst <= Size - 2 /\ MaxUnread < Slots

\* Message i, if the device sent one of this type; and as it sent it.
MessageOf(type, i) ==
  [type |-> type, channel |-> <<i, 0>>,
   data |-> [k \in 1 .. NumDataBytes[type] |-> <<i, k>>]]

SentMessage(i) == MessageOf(sent[i], i)

(* The user gets the messages the device sent, each whole, once and in      *)
(* order, although they are cut anywhere by read(), put together in slots   *)
(* that are used again, and taken out by another thread.                    *)
HandedInOrder ==
  /\ Len(handed) <= Len(sent)
  /\ \A i \in DOMAIN handed : handed[i] = SentMessage(i)

(* The two rings, the parser between them and either way of handing over    *)
(* are one queue: a message enters it when the device sends it and leaves   *)
(* it when the user gets it, in one step, whole; no other step of read      *)
(* thread or audio thread puts anything in, drops or changes anything.      *)
InTransit == [j \in 1 .. Len(sent) - Len(handed) |-> SentMessage(Len(handed) + j)]

OQ == INSTANCE OutputQueue WITH
        Output <- {MessageOf(type, i) : type \in Type, i \in 1 .. MaxMessages},
        queue <- InTransit

ImplementsQueue == OQ!Spec

(* numAvailableMessages() is "the number of unread MidiChannelMessage       *)
(* available from the input port" (include/Midi.h:233), at every moment,    *)
(* with the write index past the last slot or behind the read index too.    *)
AvailableIsUnread ==
  ~callbackEnabled => numAvailableMessages = parsed - Len(handed)

(* When the port is empty, the read thread waits in read() and the user is  *)
(* told of no message (or has them all by callback), nothing is left in     *)
(* either ring or in the parser: no end of a message waits for the next     *)
(* one, although one byte was never received.                               *)
NothingLeftBehind ==
  port = <<>> /\ pc = "read" /\ readerPc = "idle"
      /\ (callbackEnabled \/ numAvailableMessages = 0)
    => Len(handed) = Len(sent)

(* Every message the device sends reaches the user.                         *)
EveryMessageHandedOver ==
  \A i \in 1 .. MaxMessages : (Len(sent) >= i) ~> (Len(handed) >= i)

-----------------------------------------------------------------------------
(* "either something went wrong or it's a system message",                  *)
(* core/Midi.cpp:95, of the bytes that parse() passes over while it waits   *)
(* for a status: a system message is passed over and the parser stays       *)
(* inside its message.                                                      *)
SystemMessagePassedOver == pc # "undefined"
=============================================================================
