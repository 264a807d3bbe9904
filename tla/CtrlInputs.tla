----------------------------- MODULE CtrlInputs ------------------------------
(***************************************************************************)
(* The control inputs of core/ctrlInputs.cpp: buttons and the touch screen.*)
(* At the start every input device is asked which events it sends; those   *)
(* that send something of interest, and nothing of a foreign kind, are     *)
(* monitored by the control input thread.  It stores the value of each     *)
(* event in the place of the channel that event_map gives its type and     *)
(* code; the touch channels have one place per finger (slot), and the      *)
(* finger an event belongs to is said by an earlier event.  The audio      *)
(* thread copies all places into one flat buffer before each render(),     *)
(* value by value, while the other thread stores.                          *)
(*                                                                         *)
(* A channel is its number: the buttons, then chn_mt_anyTouch, then the    *)
(* touch channels.  A code is the number of an event and the type it comes *)
(* with: a key and an axis may have the same number.  Left out: the end of *)
(* the threads (see Lifecycle), EV_SYN events, which are read and ignored, *)
(* and the ranges of axes told to the user.                                *)
(***************************************************************************)
EXTENDS Integers, Sequences, FiniteSets

CONSTANTS
  Buttons,     \* chn_btn_count
  Touches,     \* chn_mt_count - 1: the channels with a value per finger
  KeyCodes,    \* numbers of EV_KEY events, those LDSP does not know included
  AbsCodes,    \* numbers of EV_ABS events that have a value per finger
  event_map,   \* ctrlInputsEvent_channel: the channel of each code LDSP knows
  Devices,     \* number of input devices
  Phones,      \* what the devices send, see Sends; one of these is the phone
  MaxFingers,  \* the most slots a device has
  Values,      \* what events carry
  MaxReports,  \* bound: changes reported
  MaxQueue     \* events the kernel keeps for one device

Device == 1 .. Devices
anyTouch == Buttons
offset == Buttons + 1
Single == 0 .. Buttons
Multi == offset .. offset + Touches - 1
Channel == Single \cup Multi

\* The event that says the finger; KEY_V has the same number (linux/input.h).
ABS_MT_SLOT == 47
Keys == {"EV_KEY"} \X KeyCodes
Axes == {"EV_ABS"} \X AbsCodes
Code == Keys \cup Axes
SlotCode == <<"EV_ABS", ABS_MT_SLOT>>
Known == DOMAIN event_map

\* What a device sends: EV_KEY events, EV_ABS events, how many slots it has
\* (0: it does not say), and the place among the event types of one that
\* LDSP does not know: before EV_ABS (EV_REL), after it (EV_MSC...) or none.
Sends == [keys : SUBSET Keys, abs : SUBSET Axes, slots : 0 .. MaxFingers,
          other : {"none", "early", "late"}]

ASSUME CtrlInputsAssumption ==
  /\ Buttons \in Nat
  /\ Touches \in Nat
  /\ KeyCodes \subseteq Nat
  /\ AbsCodes \subseteq Nat \ {ABS_MT_SLOT}
  /\ Known \subseteq Code
  /\ event_map \in [Known -> Channel]
  /\ \A c \in Known : event_map[c] \in Single <=> c \in Keys
  /\ Devices \in Nat
  /\ Phones \subseteq [Device -> Sends]
  /\ MaxFingers \in Nat \ {0}
  /\ Values \subseteq Nat
  /\ MaxReports \in Nat
  /\ MaxQueue \in Nat \ {0}

VARIABLES
  phone,            \* what each device sends
  pc,               \* main(), then the audio thread
  dev,              \* the device being asked, in readdir's order
  supported,        \* channels some device was seen to send
  monitored,        \* ufds: the devices kept open
  touchSlots,
  buttonSupported,  \* what the user is told
  value,            \* the places: for each channel, one per slot or one
  ctrlInBuffer,
  chn, finger,      \* readCtrlInputs' loops
  slot,             \* ctrlInputs_loop's local
  ready,            \* devices it still has to read since it polled
  queue,            \* kernel: events not read yet, for each device
  kernelSlot,       \* kernel: the slot its next event belongs to
  last,             \* kernel: the last value of each code and slot
  firstSlot,        \* history: kernelSlot when LDSP started
  dropped,          \* history: a queue overflowed
  reports

config == <<phone, dev, supported, monitored, touchSlots, buttonSupported, firstSlot>>
reading == <<ctrlInBuffer, chn, finger>>
kernel == <<queue, kernelSlot, last, dropped, reports>>
vars == <<config, pc, value, reading, slot, ready, kernel>>

Finger == 0 .. MaxFingers - 1
Event == [code : Code, value : Values] \cup [code : {SlotCode}, value : Finger]
AnyValue == Values \cup {-1, 0}
Place == Code \X Finger

TypeOK ==
  /\ phone \in Phones
  /\ pc \in {"scan", "alloc", "buffers", "read", "render", "undefined"}
  /\ dev \in 1 .. Devices + 1
  /\ supported \subseteq Channel
  /\ monitored \subseteq Device
  /\ touchSlots \in 1 .. MaxFingers
  /\ buttonSupported \subseteq 0 .. Buttons - 1
  /\ value \in [Channel -> Seq(AnyValue)]
  /\ \A c \in Channel : Len(value[c]) <= MaxFingers
  /\ \A p \in DOMAIN ctrlInBuffer : ctrlInBuffer[p] \in AnyValue
  /\ chn \in Channel
  /\ finger \in Finger
  /\ slot \in Finger \cup Values
  /\ ready \subseteq monitored
  /\ queue \in [Device -> Seq(Event)]
  /\ \A d \in Device : Len(queue[d]) <= MaxQueue
  /\ kernelSlot \in [Device -> Finger]
  /\ last \in [Device -> [Place -> AnyValue]]
  /\ firstSlot \in [Device -> Finger]
  /\ dropped \in BOOLEAN
  /\ reports \in 0 .. MaxReports

\* The slots of device d; one that does not say has one.
SlotsOf(d) == IF phone[d].slots = 0 THEN 1 ELSE phone[d].slots

Init ==
  /\ phone \in Phones
  /\ pc = "scan"
  /\ dev = 1
  /\ supported = {}
  /\ monitored = {}
  /\ touchSlots = 1
  /\ buttonSupported = {}
  /\ value = [c \in Channel |-> <<>>]
  /\ ctrlInBuffer = <<>>
  /\ chn = 0
  /\ finger = 0
  /\ slot = 0
  /\ ready = {}
  /\ queue = [d \in Device |-> <<>>]
  /\ kernelSlot \in {f \in [Device -> Finger] : \A d \in Device : f[d] < SlotsOf(d)}
  /\ last = [d \in Device |-> [p \in Place |-> -1]]
  /\ firstSlot = kernelSlot
  /\ dropped = FALSE
  /\ reports = 0

-----------------------------------------------------------------------------
(* Initialisation, on the main thread                                       *)

\* The channels of those of the codes that LDSP knows.
Channels(codes) == {event_map[c] : c \in codes \cap Known}

\* Mutant of CheckEvents: a device has as many slots as its highest one.
CheckEventsMaximum(d) ==
  LET sends == phone[d]
      seen == Channels(sends.keys \cup (IF sends.other = "early" THEN {} ELSE sends.abs))
  IN
  /\ supported' = supported \cup seen
  /\ touchSlots' = IF sends.other # "early" /\ sends.slots > 1
                   THEN sends.slots - 1 ELSE touchSlots
  /\ monitored' = IF sends.other = "none" /\ seen # {}
                  THEN monitored \cup {d} ELSE monitored

\* checkEvents() goes through the event types in order; a foreign one ends it
\* with false, and what was noted until then stays noted.
CheckEvents(d) ==
  LET sends == phone[d]
      seen == Channels(sends.keys \cup (IF sends.other = "early" THEN {} ELSE sends.abs))
  IN
  /\ supported' = supported \cup seen
  /\ touchSlots' = IF sends.other # "early" /\ sends.slots > 0
                   THEN sends.slots ELSE touchSlots
  /\ monitored' = IF sends.other = "none" /\ seen # {}
                  THEN monitored \cup {d} ELSE monitored

\* openCtrlInputDev()
OpenDevice ==
  /\ pc = "scan"
  /\ dev <= Devices
  /\ CheckEvents(dev)
  /\ dev' = dev + 1
  /\ UNCHANGED <<phone, pc, buttonSupported, firstSlot, value, reading, slot, ready,
                 kernel>>

\* initCtrlInputs() fails if no device was opened, and leaves the places out.
\* All of them begin with -1 (chn_mt_anyTouch, the bound of the test, is 0).
AllocatePlaces ==
  /\ pc = "scan"
  /\ dev = Devices + 1
  /\ pc' = "buffers"
  /\ value' = IF monitored = {} THEN value
              ELSE [c \in Channel |->
                      [i \in 1 .. (IF c \in supported \cap Multi THEN touchSlots ELSE 1)
                         |-> -1]]
  /\ UNCHANGED <<config, reading, slot, ready, kernel>>

\* initCtrlInputBuffers(): new bool[] is not initialised, and only TRUE is
\* assigned to it.
InitBuffers ==
  /\ pc = "buffers"
  /\ pc' = "read"
  /\ \E noise \in SUBSET (0 .. Buttons - 1) :
       buttonSupported' = noise \cup (supported \cap (0 .. Buttons - 1))
  /\ ctrlInBuffer' = [i \in 0 .. offset + Touches * touchSlots - 1 |-> 0]
  /\ UNCHANGED <<phone, dev, supported, monitored, touchSlots, firstSlot, value, chn,
                 finger, slot, ready, kernel>>

-----------------------------------------------------------------------------
(* readCtrlInputs(), on the audio thread, then render()                     *)

\* The next turn of the loops; at their end, render() is called.
NextPlace ==
  IF chn \in Multi /\ finger + 1 < touchSlots
  THEN finger' = finger + 1 /\ UNCHANGED <<chn, pc>>
  ELSE IF chn + 1 \in Channel
  THEN finger' = 0 /\ chn' = chn + 1 /\ UNCHANGED pc
  ELSE finger' = 0 /\ chn' = 0 /\ pc' = "render"

\* Mutant of BufferIndex: the touch channels are counted from the buttons.
BufferIndexFromButtons(c, f) ==
  IF c \in Single THEN c ELSE Buttons + (c - offset) * touchSlots + f

BufferIndex(c, f) ==
  IF c \in Single THEN c ELSE offset + (c - offset) * touchSlots + f

LoadPlace ==
  /\ pc = "read"
  /\ chn \in supported
  /\ IF finger + 1 \in DOMAIN value[chn]
     THEN /\ ctrlInBuffer' = [ctrlInBuffer EXCEPT
                                ![BufferIndex(chn, finger)] = value[chn][finger + 1]]
          /\ NextPlace
     ELSE /\ pc' = "undefined"
          /\ UNCHANGED reading
  /\ UNCHANGED <<config, value, slot, ready, kernel>>

SkipPlace ==
  /\ pc = "read"
  /\ chn \notin supported
  /\ NextPlace
  /\ UNCHANGED <<config, value, ctrlInBuffer, slot, ready, kernel>>

\* render() returns and the next block begins.
Render ==
  /\ pc = "render"
  /\ pc' = "read"
  /\ UNCHANGED <<config, value, reading, slot, ready, kernel>>

AudioThread == LoadPlace \/ SkipPlace \/ Render

-----------------------------------------------------------------------------
(* ctrlInputs_loop()                                                        *)

Monitoring == pc \in {"read", "render"} /\ monitored # {} /\ supported # {}

\* poll(): the devices that have something to read
Poll ==
  /\ Monitoring
  /\ ready = {}
  /\ ready' = {d \in monitored : queue[d] # <<>>}
  /\ ready' # {}
  /\ UNCHANGED <<config, pc, value, reading, slot, kernel>>

\* Mutant of Store: every finger is the first.
StoreFirst(event) ==
  IF event.code[2] = ABS_MT_SLOT
  THEN slot' = event.value /\ UNCHANGED <<pc, value>>
  ELSE IF event.code \notin Known
  THEN UNCHANGED <<pc, slot, value>>
  ELSE /\ value' = [value EXCEPT ![event_map[event.code]][1] = event.value]
       /\ UNCHANGED <<pc, slot>>

\* Mutant of Store: slots are taken to count from one.
StoreNextSlot(event) ==
  LET c == event_map[event.code]
      i == IF c \in Multi THEN slot + 1 ELSE 1
  IN
  IF event.code[2] = ABS_MT_SLOT
  THEN slot' = event.value + 1 /\ UNCHANGED <<pc, value>>
  ELSE IF event.code \notin Known
  THEN UNCHANGED <<pc, slot, value>>
  ELSE IF i \in DOMAIN value[c]
  THEN value' = [value EXCEPT ![c][i] = event.value] /\ UNCHANGED <<pc, slot>>
  ELSE pc' = "undefined" /\ UNCHANGED <<slot, value>>

\* The loop's body: note the slot, which is told by the number alone, or store
\* the value of a known event in the place of its channel.
Store(event) ==
  LET c == event_map[event.code]
      i == IF c \in Multi THEN slot + 1 ELSE 1
  IN
  IF event.code[2] = ABS_MT_SLOT
  THEN slot' = event.value /\ UNCHANGED <<pc, value>>
  ELSE IF event.code \notin Known
  THEN UNCHANGED <<pc, slot, value>>
  ELSE IF i \in DOMAIN value[c]
  THEN value' = [value EXCEPT ![c][i] = event.value] /\ UNCHANGED <<pc, slot>>
  ELSE pc' = "undefined" /\ UNCHANGED <<slot, value>>

\* One event of each device that was ready, in the order of ufds.
ReadEvent ==
  /\ Monitoring
  /\ ready # {}
  /\ \E d \in ready :
       /\ \A e \in ready : d <= e
       /\ Store(Head(queue[d]))
       /\ queue' = [queue EXCEPT ![d] = Tail(@)]
       /\ ready' = ready \ {d}
  /\ UNCHANGED <<config, reading, kernelSlot, last, dropped, reports>>

InputThread == Poll \/ ReadEvent

-----------------------------------------------------------------------------
(* The kernel: an event only for what has changed, preceded by the slot if  *)
(* that has; a queue that overflows is emptied but for the newest event.    *)
(* (The marker that comes with it is an EV_SYN event.)                      *)

Report(d, c, f, v) ==
  LET events == (IF c \in Axes /\ kernelSlot[d] # f
                 THEN <<[code |-> SlotCode, value |-> f]>> ELSE <<>>)
                \o <<[code |-> c, value |-> v]>>
      fits == Len(queue[d]) + Len(events) <= MaxQueue
  IN
  /\ last[d][<<c, f>>] # v
  /\ last' = [last EXCEPT ![d][<<c, f>>] = v]
  /\ kernelSlot' = IF c \in Axes THEN [kernelSlot EXCEPT ![d] = f] ELSE kernelSlot
  /\ queue' = [queue EXCEPT ![d] = IF fits THEN @ \o events
                                   ELSE <<[code |-> c, value |-> v]>>]
  /\ dropped' = (dropped \/ ~fits)

\* A finger moves, or a button changes, on a device that is open.
UserActs ==
  /\ Monitoring
  /\ reports < MaxReports
  /\ reports' = reports + 1
  /\ \E d \in monitored, v \in Values :
       \/ \E c \in phone[d].keys : Report(d, c, 0, v)
       \/ \E c \in phone[d].abs, f \in 0 .. SlotsOf(d) - 1 : Report(d, c, f, v)
  /\ UNCHANGED <<config, pc, value, reading, slot, ready>>

Main == OpenDevice \/ AllocatePlaces \/ InitBuffers

Next == Main \/ AudioThread \/ InputThread \/ UserActs

Spec == Init /\ [][Next]_vars

(* Blocks follow one another and the input thread polls every millisecond.  *)
Fairness == WF_vars(Main) /\ WF_vars(AudioThread) /\ WF_vars(InputThread)

FairSpec == Spec /\ Fairness

-----------------------------------------------------------------------------
TouchDevices == {d \in Device : phone[d].abs # {}}

(* A phone the code is made for: one touch screen at most, which LDSP       *)
(* monitors, each input from one device, some device opened,                *)
OrdinaryDevices ==
  /\ Cardinality(TouchDevices) <= 1
  /\ \A d, e \in Device : d # e => phone[d].keys \cap phone[e].keys = {}
  /\ \E d \in Device : /\ phone[d].other = "none"
                        /\ (phone[d].keys \cup phone[d].abs) \cap Known # {}
  /\ \A d \in Device : phone[d].slots > 0 => phone[d].abs # {}

(* and no key that would be taken for the slot.                             *)
Ordinary ==
  /\ OrdinaryDevices
  /\ \A d \in Device : <<"EV_KEY", ABS_MT_SLOT>> \notin phone[d].keys

\* What the phone sends has a channel each: event_map gives both ABS_MT_TOOL_X
\* and ABS_MT_TOOL_Y chn_mt_hoverX.
ChannelsApart ==
  \A d, e \in Device :
    \A b \in (phone[d].keys \cup phone[d].abs) \cap Known,
       c \in (phone[e].keys \cup phone[e].abs) \cap Known :
         event_map[b] = event_map[c] => b = c

\* So far the kernel and the thread agreed on the finger of every event.
SlotsAgree == ~dropped /\ \A d \in TouchDevices : firstSlot[d] = 0

(* Every place the threads use exists, and every position of the buffer:    *)
(* the number of slots told by the screen, the places made for them, the    *)
(* slots its events name and the layout of the buffer fit, whichever        *)
(* devices were given up half way and whatever events were lost.            *)
PlacesExist ==
  Ordinary =>
    /\ pc # "undefined"
    /\ pc \in {"read", "render"} =>
         \A c \in Channel, f \in 0 .. touchSlots - 1 :
           BufferIndex(c, f) \in DOMAIN ctrlInBuffer

\* Each place holds what the device last reported for that code and finger.
Stored(d) ==
  /\ \A c \in phone[d].keys \cap Known : value[event_map[c]][1] = last[d][<<c, 0>>]
  /\ \A c \in phone[d].abs \cap Known, f \in 0 .. SlotsOf(d) - 1 :
       value[event_map[c]][f + 1] = last[d][<<c, f>>]

(* When all events of a device have been read, each place holds what the    *)
(* device last reported for that code and that finger, although events do   *)
(* not name the finger and the kernel leaves out what has not changed.      *)
StoredAsReported ==
  Ordinary /\ ChannelsApart /\ SlotsAgree /\ pc \in {"read", "render"} =>
    \A d \in monitored : queue[d] = <<>> => Stored(d)

\* buttonRead() and multiTouchRead() of include/LDSP.h
multiTouchRead(c, f) ==
  ctrlInBuffer[IF c \in Single THEN c ELSE offset + (c - offset) * touchSlots + f]

BufferAgrees ==
  \A d \in monitored :
    /\ \A c \in phone[d].keys \cap Known :
         multiTouchRead(event_map[c], 0) = last[d][<<c, 0>>]
    /\ \A c \in phone[d].abs \cap Known, f \in 0 .. SlotsOf(d) - 1 :
         multiTouchRead(event_map[c], f) = last[d][<<c, f>>]

(* Once nothing changes any more, render() reads of every button and finger *)
(* what its device last reported: "mapping is manual! and must be the same  *)
(* in LDSP.h buttonRead() and multitouchRead()", core/ctrlInputs.cpp:596.   *)
RenderSeesReports ==
  \/ []<><<UserActs>>_vars
  \/ <>[](Ordinary /\ ChannelsApart /\ SlotsAgree /\ pc = "render" => BufferAgrees)

\* Every event was read and none comes; readCtrlInputs() begins.
Still ==
  /\ Ordinary /\ ChannelsApart /\ SlotsAgree /\ pc \in {"read", "render"}
  /\ \A d \in monitored : queue[d] = <<>>
BlockBegins == pc = "read" /\ chn = 0 /\ finger = 0

(* Its safety half: from the first block that begins after the last event   *)
(* was read, and as long as none comes, every render() reads of every       *)
(* button and finger what its device last reported.  No two places share a  *)
(* position of the flat buffer, and the writer and the reader of it count   *)
(* the fingers alike.                                                       *)
RenderSeesSettled ==
  [](BlockBegins /\ []Still => [](pc = "render" => BufferAgrees))

-----------------------------------------------------------------------------
(* "not important if unseuccessful, we will still run LDSP if no inputs can *)
(* be read", core/ctrlInputs.cpp:62, of LDSP_initCtrlInputs().              *)
RunsWithoutInputs == monitored = {} => pc # "undefined"

(* Every input is stored, the "x pos" and the "y pos of center of           *)
(* finger/tool detected above touch" (core/ctrlInputs.h:57-58) included, of *)
(* whichever finger: StoredAsReported without the conditions on the codes   *)
(* and on the slot the screen is at when LDSP starts.                       *)
StoredOnAnyPhone ==
  OrdinaryDevices /\ ~dropped /\ pc \in {"read", "render"} =>
    \A d \in monitored : queue[d] = <<>> => Stored(d)

(* PlacesExist without the condition on the codes: any event but the slot's *)
(* is stored where it belongs or ignored ("it does not mean that such       *)
(* devices could not raise additional/unwanted events!",                    *)
(* core/ctrlInputs.cpp:166).                                                *)
PlacesOnAnyPhone == OrdinaryDevices => pc # "undefined"
=============================================================================
