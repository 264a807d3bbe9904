--------------------------- MODULE CtrlInputsProofs ---------------------------
(***************************************************************************)
(* Proofs about CtrlInputs, for any number of devices, channels and        *)
(* fingers, any event_map, any phone and any events: on a phone the code   *)
(* is made for, every place the threads use exists, and if its events have *)
(* a channel each, each is stored in the place of its channel and finger.  *)
(***************************************************************************)
EXTENDS CtrlInputs, SequenceTheorems, FiniteSetTheorems, TLAPS

-----------------------------------------------------------------------------
(* Codes, channels, devices and sequences                                   *)

(* A channel has one value or one per finger.                               *)
LEMMA ChannelFacts ==
  /\ Buttons \in Nat /\ Touches \in Nat /\ offset = Buttons + 1
  /\ Channel \subseteq Nat /\ 0 \in Channel
  /\ \A c \in Channel : c \in Multi <=> c \notin Single
  /\ Single \subseteq Channel /\ Multi \subseteq Channel
BY CtrlInputsAssumption DEF Channel, Single, Multi, offset

(* A code is a key or an axis; the slot is neither, and only a key has its  *)
(* number.  The channel of a known key has one value, that of a known axis  *)
(* one per finger.                                                          *)
LEMMA CodeFacts ==
  /\ Keys \subseteq Code /\ Axes \subseteq Code /\ Known \subseteq Code
  /\ SlotCode \notin Code /\ SlotCode[2] = ABS_MT_SLOT
  /\ \A c \in Code : c \in Keys <=> c \notin Axes
  /\ \A c \in Code : c[2] = ABS_MT_SLOT => c = <<"EV_KEY", ABS_MT_SLOT>>
  /\ \A c \in Known : event_map[c] \in Channel
  /\ \A c \in Known \cap Keys : event_map[c] \in Single /\ event_map[c] \notin Multi
  /\ \A c \in Known \cap Axes : event_map[c] \in Multi /\ event_map[c] \notin Single
<1>1. \A c \in Keys : c[1] = "EV_KEY" /\ c[2] \in KeyCodes /\ c = <<"EV_KEY", c[2]>>
  BY DEF Keys
<1>2. \A c \in Axes : c[1] = "EV_ABS" /\ c[2] \in AbsCodes /\ c = <<"EV_ABS", c[2]>>
  BY DEF Axes
<1>3. ABS_MT_SLOT \notin AbsCodes
  BY CtrlInputsAssumption
<1>4. SlotCode[1] = "EV_ABS" /\ SlotCode[2] = ABS_MT_SLOT
  BY DEF SlotCode
<1>5. "EV_KEY" # "EV_ABS"
  OBVIOUS
<1>6. \A c \in Code : c \in Keys <=> c \notin Axes
  BY <1>1, <1>2, <1>5 DEF Code
<1>7. SlotCode \notin Code
  BY <1>1, <1>2, <1>3, <1>4, <1>5 DEF Code
<1>8. \A c \in Code : c[2] = ABS_MT_SLOT => c = <<"EV_KEY", ABS_MT_SLOT>>
  BY <1>1, <1>2, <1>3, <1>6 DEF Code
<1>9. /\ Known \subseteq Code /\ \A c \in Known : event_map[c] \in Channel
      /\ \A c \in Known : event_map[c] \in Single <=> c \in Keys
  BY CtrlInputsAssumption
<1>. HIDE DEF Known, Keys, Axes, Channel, Single, Multi, SlotCode, ABS_MT_SLOT
<1>10. /\ \A c \in Known \cap Keys : event_map[c] \in Single /\ event_map[c] \notin Multi
       /\ \A c \in Known \cap Axes : event_map[c] \in Multi /\ event_map[c] \notin Single
  BY <1>6, <1>9, ChannelFacts
<1>. QED
  BY <1>4, <1>6, <1>7, <1>8, <1>9, <1>10 DEF Code

(* What a device may send.                                                  *)
LEMMA PhoneType ==
  ASSUME TypeOK, NEW d \in Device
  PROVE  /\ phone[d].keys \subseteq Keys /\ phone[d].abs \subseteq Axes
         /\ phone[d].slots \in 0 .. MaxFingers
         /\ phone[d].other \in {"none", "early", "late"}
         /\ SlotsOf(d) \in 1 .. MaxFingers
         /\ MaxFingers \in Nat \ {0}
<1>1. phone[d] \in Sends /\ MaxFingers \in Nat \ {0}
  BY CtrlInputsAssumption DEF TypeOK
<1>2. /\ phone[d].keys \subseteq Keys /\ phone[d].abs \subseteq Axes
      /\ phone[d].slots \in 0 .. MaxFingers
      /\ phone[d].other \in {"none", "early", "late"}
  BY <1>1 DEF Sends
<1>. QED
  BY <1>1, <1>2 DEF SlotsOf

(* A sequence of the same value all over.                                   *)
LEMMA Constant ==
  ASSUME NEW S, NEW e \in S, NEW n \in Nat
  PROVE  /\ [i \in 1 .. n |-> e] \in Seq(S)
         /\ Len([i \in 1 .. n |-> e]) = n
OBVIOUS

(* One element more at the end of a sequence, or two.                       *)
LEMMA OneMore ==
  ASSUME NEW S, NEW q \in Seq(S), NEW e \in S
  PROVE  /\ Len(<<>> \o <<e>>) = 1
         /\ q \o (<<>> \o <<e>>) \in Seq(S)
         /\ Len(q \o (<<>> \o <<e>>)) = Len(q) + 1
         /\ \A i \in 1 .. Len(q) : (q \o (<<>> \o <<e>>))[i] = q[i]
         /\ (q \o (<<>> \o <<e>>))[Len(q) + 1] = e
<1>1. <<e>> \in Seq(S) /\ Len(<<e>>) = 1 /\ <<e>>[1] = e
  OBVIOUS
<1>2. <<>> \o <<e>> = <<e>>
  BY <1>1, ConcatEmptySeq
<1>3. Len(q) \in Nat
  BY LenProperties
<1>. QED
  BY <1>1, <1>2, <1>3, ConcatProperties

LEMMA TwoMore ==
  ASSUME NEW S, NEW q \in Seq(S), NEW e \in S, NEW f \in S
  PROVE  /\ Len(<<e>> \o <<f>>) = 2
         /\ q \o (<<e>> \o <<f>>) \in Seq(S)
         /\ Len(q \o (<<e>> \o <<f>>)) = Len(q) + 2
         /\ \A i \in 1 .. Len(q) : (q \o (<<e>> \o <<f>>))[i] = q[i]
         /\ (q \o (<<e>> \o <<f>>))[Len(q) + 1] = e
         /\ (q \o (<<e>> \o <<f>>))[Len(q) + 2] = f
<1>. DEFINE t == <<e>> \o <<f>>
<1>1. /\ <<e>> \in Seq(S) /\ Len(<<e>>) = 1 /\ <<e>>[1] = e
      /\ <<f>> \in Seq(S) /\ Len(<<f>>) = 1 /\ <<f>>[1] = f
  OBVIOUS
<1>2. t \in Seq(S) /\ Len(t) = 2 /\ t[1] = e /\ t[2] = f
  BY <1>1, ConcatProperties
<1>3. Len(q) \in Nat
  BY LenProperties
<1>. HIDE DEF t
<1>4. /\ q \o t \in Seq(S) /\ Len(q \o t) = Len(q) + 2
      /\ \A i \in 1 .. Len(q) + 2 :
           (q \o t)[i] = IF i <= Len(q) THEN q[i] ELSE t[i - Len(q)]
  <2>1. /\ q \o t \in Seq(S) /\ Len(q \o t) = Len(q) + Len(t)
        /\ \A i \in 1 .. Len(q) + Len(t) :
             (q \o t)[i] = IF i <= Len(q) THEN q[i] ELSE t[i - Len(q)]
    BY <1>2, ConcatProperties, Zenon
  <2>. QED
    BY <1>2, <2>1, Zenon
<1>5. /\ \A i \in 1 .. Len(q) : (q \o t)[i] = q[i]
      /\ (q \o t)[Len(q) + 1] = t[1] /\ (q \o t)[Len(q) + 2] = t[2]
  BY <1>3, <1>4
<1>. QED
  BY <1>2, <1>4, <1>5 DEF t

(* What a report does to the queue of its device: the slot first, if it has *)
(* changed, then the event; or the event alone, if there is no room.        *)
SlotEvent(f) == [code |-> SlotCode, value |-> f]
ValueEvent(c, v) == [code |-> c, value |-> v]

Keeps(q, r) == Len(r) >= Len(q) /\ \A i \in 1 .. Len(q) : r[i] = q[i]

LEMMA ReportQueue ==
  ASSUME TypeOK, NEW d \in Device, NEW c \in Code, NEW f \in Finger,
         NEW v \in Values, Report(d, c, f, v)
  PROVE  LET q == queue[d]
             r == queue'[d]
             moves == c \in Axes /\ kernelSlot[d] # f
         IN  /\ queue' \in [Device -> Seq(Event)]
             /\ \A e \in Device \ {d} : queue'[e] = queue[e]
             /\ Len(r) <= MaxQueue /\ r # <<>> /\ Len(r) \in Nat
             /\ \/ /\ moves /\ dropped' = dropped
                   /\ Len(r) = Len(q) + 2 /\ Keeps(q, r)
                   /\ r[Len(q) + 1] = SlotEvent(f) /\ r[Len(q) + 2] = ValueEvent(c, v)
                \/ /\ ~moves /\ dropped' = dropped
                   /\ Len(r) = Len(q) + 1 /\ Keeps(q, r)
                   /\ r[Len(q) + 1] = ValueEvent(c, v)
                \/ /\ dropped'
                   /\ Len(r) = 1 /\ r[1] = ValueEvent(c, v)
<1>. DEFINE q == queue[d]
            moves == c \in Axes /\ kernelSlot[d] # f
            events == (IF moves THEN <<SlotEvent(f)>> ELSE <<>>) \o <<ValueEvent(c, v)>>
            fits == Len(q) + Len(events) <= MaxQueue
<1>1. /\ q \in Seq(Event) /\ Len(q) \in Nat /\ MaxQueue \in Nat \ {0}
      /\ SlotEvent(f) \in Event /\ ValueEvent(c, v) \in Event
  BY CtrlInputsAssumption, LenProperties DEF TypeOK, Event, SlotEvent, ValueEvent
<1>2. queue' = [queue EXCEPT ![d] = IF fits THEN q \o events ELSE <<ValueEvent(c, v)>>]
  BY DEF Report, SlotEvent, ValueEvent
<1>3. fits => dropped' = dropped
  BY Zenon DEF Report, TypeOK, SlotEvent, ValueEvent
<1>4. ~fits => dropped'
  BY Zenon DEF Report, SlotEvent, ValueEvent
<1>5. queue \in [Device -> Seq(Event)]
  BY DEF TypeOK
<1>6. CASE ~fits
  <2>1. /\ <<ValueEvent(c, v)>> \in Seq(Event) /\ Len(<<ValueEvent(c, v)>>) = 1
        /\ <<ValueEvent(c, v)>>[1] = ValueEvent(c, v)
    BY <1>1
  <2>2. queue' = [queue EXCEPT ![d] = <<ValueEvent(c, v)>>]
    BY <1>2, <1>6
  <2>. HIDE DEF fits, events, moves, q
  <2>3. /\ queue' \in [Device -> Seq(Event)] /\ queue'[d] = <<ValueEvent(c, v)>>
        /\ \A e \in Device \ {d} : queue'[e] = queue[e]
    BY <1>5, <2>1, <2>2
  <2>. QED
    BY <1>1, <1>4, <1>6, <2>1, <2>3
<1>7. CASE fits /\ moves
  <2>1. events = <<SlotEvent(f)>> \o <<ValueEvent(c, v)>>
    BY <1>7
  <2>2. /\ Len(events) = 2
        /\ q \o events \in Seq(Event) /\ Len(q \o events) = Len(q) + 2
        /\ \A i \in 1 .. Len(q) : (q \o events)[i] = q[i]
        /\ (q \o events)[Len(q) + 1] = SlotEvent(f)
        /\ (q \o events)[Len(q) + 2] = ValueEvent(c, v)
    <3>. HIDE DEF events, q
    <3>. QED
      BY <1>1, <2>1, TwoMore
  <2>3. queue' = [queue EXCEPT ![d] = q \o events]
    BY <1>2, <1>7
  <2>. HIDE DEF events
  <2>4. /\ queue' \in [Device -> Seq(Event)] /\ queue'[d] = q \o events
        /\ \A e \in Device \ {d} : queue'[e] = queue[e]
    BY <1>5, <2>2, <2>3
  <2>. QED
    BY <1>1, <1>3, <1>7, <2>2, <2>4 DEF Keeps
<1>8. CASE fits /\ ~moves
  <2>1. events = <<>> \o <<ValueEvent(c, v)>>
    BY <1>8
  <2>2. /\ Len(events) = 1
        /\ q \o events \in Seq(Event) /\ Len(q \o events) = Len(q) + 1
        /\ \A i \in 1 .. Len(q) : (q \o events)[i] = q[i]
        /\ (q \o events)[Len(q) + 1] = ValueEvent(c, v)
    <3>. HIDE DEF events, q
    <3>. QED
      BY <1>1, <2>1, OneMore
  <2>3. queue' = [queue EXCEPT ![d] = q \o events]
    BY <1>2, <1>8
  <2>. HIDE DEF events
  <2>4. /\ queue' \in [Device -> Seq(Event)] /\ queue'[d] = q \o events
        /\ \A e \in Device \ {d} : queue'[e] = queue[e]
    BY <1>5, <2>2, <2>3
  <2>. QED
    BY <1>1, <1>3, <1>8, <2>2, <2>4 DEF Keeps
<1>. QED
  BY <1>6, <1>7, <1>8

-----------------------------------------------------------------------------
(* Types                                                                    *)

(* poll() names devices that have something to read, and nobody else reads. *)
ReadyInv == \A d \in ready : queue[d] # <<>>

(* The initial state has the right types.                                   *)
LEMMA TypeInit == Init => TypeOK /\ ReadyInv
<1>. SUFFICES ASSUME Init
              PROVE  TypeOK /\ ReadyInv
  OBVIOUS
<1>1. /\ Devices \in Nat /\ MaxFingers \in Nat \ {0} /\ MaxReports \in Nat
      /\ MaxQueue \in Nat \ {0}
  BY CtrlInputsAssumption
<1>2. /\ value \in [Channel -> Seq(AnyValue)] /\ \A c \in Channel : Len(value[c]) = 0
      /\ queue \in [Device -> Seq(Event)] /\ \A d \in Device : Len(queue[d]) = 0
  BY EmptySeq DEF Init
<1>3. last \in [Device -> [Place -> AnyValue]]
  BY DEF Init, AnyValue
<1>4. kernelSlot \in [Device -> Finger] /\ firstSlot \in [Device -> Finger]
  BY DEF Init
<1>5. /\ phone \in Phones /\ dev \in 1 .. Devices + 1
      /\ supported \subseteq Channel /\ monitored \subseteq Device
      /\ touchSlots \in 1 .. MaxFingers
      /\ buttonSupported \subseteq 0 .. Buttons - 1
      /\ chn \in Channel /\ finger \in Finger /\ slot \in Finger \cup Values
      /\ ready = {} /\ reports \in 0 .. MaxReports
      /\ pc = "scan"
  BY <1>1, ChannelFacts DEF Init, Finger
<1>6. dropped \in BOOLEAN
  BY DEF Init
<1>7. \A p \in DOMAIN ctrlInBuffer : ctrlInBuffer[p] \in AnyValue
  BY DEF Init
<1>. QED
  BY <1>1, <1>2, <1>3, <1>4, <1>5, <1>6, <1>7 DEF TypeOK, ReadyInv

(* The next turn of readCtrlInputs' loops is one of them.                   *)
LEMMA NextPlaceType ==
  ASSUME TypeOK, pc = "read", NextPlace
  PROVE  chn' \in Channel /\ finger' \in Finger /\ pc' \in {"read", "render"}
<1>1. touchSlots \in 1 .. MaxFingers /\ MaxFingers \in Nat \ {0} /\ finger \in Finger
  BY CtrlInputsAssumption DEF TypeOK
<1>2. 0 \in Finger /\ 0 \in Channel /\ (finger + 1 < touchSlots => finger + 1 \in Finger)
  BY <1>1, ChannelFacts DEF Finger
<1>. QED
  BY <1>2 DEF NextPlace, TypeOK

(* What Store does with an event, wherever it goes.                         *)
LEMMA StoreType ==
  ASSUME TypeOK, Monitoring, NEW event \in Event, Store(event)
  PROVE  /\ value' \in [Channel -> Seq(AnyValue)]
         /\ \A c \in Channel : Len(value'[c]) = Len(value[c])
         /\ slot' \in Finger \cup Values
         /\ pc' \in {pc, "undefined"}
<1>. DEFINE c == event_map[event.code]
            i == IF c \in Multi THEN slot + 1 ELSE 1
<1>0. value \in [Channel -> Seq(AnyValue)] /\ slot \in Finger \cup Values
  BY DEF TypeOK
<1>1. event.value \in Finger \cup Values
  BY DEF Event
<1>2. CASE event.code[2] = ABS_MT_SLOT
  <2>1. slot' = event.value /\ UNCHANGED <<pc, value>>
    BY <1>2 DEF Store
  <2>. QED
    BY <1>0, <1>1, <2>1
<1>3. CASE event.code[2] # ABS_MT_SLOT /\ event.code \notin Known
  <2>1. UNCHANGED <<pc, slot, value>>
    BY <1>3 DEF Store
  <2>. QED
    BY <1>0, <2>1
<1>4. CASE event.code[2] # ABS_MT_SLOT /\ event.code \in Known
  <2>1. c \in Channel /\ event.code \in Code
    BY <1>4, CodeFacts
  <2>2. event.value \in AnyValue
    BY <2>1, CodeFacts DEF Event, AnyValue
  <2>3. CASE i \in DOMAIN value[c]
    <3>1. /\ value' = [value EXCEPT ![c][i] = event.value]
          /\ UNCHANGED <<pc, slot>>
      BY <1>4, <2>3 DEF Store
    <3>. HIDE DEF c, i
    <3>2. value[c] \in Seq(AnyValue) /\ i \in 1 .. Len(value[c])
      BY <1>0, <2>1, <2>3, LenProperties
    <3>3. /\ [value[c] EXCEPT ![i] = event.value] \in Seq(AnyValue)
          /\ Len([value[c] EXCEPT ![i] = event.value]) = Len(value[c])
      BY <2>2, <3>2, ExceptSeq
    <3>4. value' = [value EXCEPT ![c] = [value[c] EXCEPT ![i] = event.value]]
      BY <3>1
    <3>. QED
      BY <1>0, <2>1, <3>1, <3>3, <3>4
  <2>4. CASE i \notin DOMAIN value[c]
    <3>1. pc' = "undefined" /\ UNCHANGED <<slot, value>>
      BY <1>4, <2>4 DEF Store
    <3>. QED
      BY <1>0, <3>1
  <2>. QED
    BY <2>3, <2>4
<1>. QED
  BY <1>2, <1>3, <1>4

(* The event that is read, and what is left of the queue.                   *)
LEMMA ReadType ==
  ASSUME TypeOK, ReadyInv, NEW d \in ready,
         queue' = [queue EXCEPT ![d] = Tail(@)]
  PROVE  /\ d \in Device /\ d \in monitored
         /\ queue[d] \in Seq(Event) /\ Len(queue[d]) \in Nat \ {0}
         /\ Head(queue[d]) = queue[d][1] /\ Head(queue[d]) \in Event
         /\ queue' \in [Device -> Seq(Event)]
         /\ \A e \in Device \ {d} : queue'[e] = queue[e]
         /\ Len(queue'[d]) = Len(queue[d]) - 1
         /\ \A i \in 1 .. Len(queue'[d]) : queue'[d][i] = queue[d][i + 1]
<1>1. d \in Device /\ d \in monitored /\ queue[d] \in Seq(Event) /\ queue[d] # <<>>
      /\ queue \in [Device -> Seq(Event)]
  BY DEF TypeOK, ReadyInv
<1>2. queue'[d] = Tail(queue[d]) /\ \A e \in Device \ {d} : queue'[e] = queue[e]
  BY <1>1
<1>3. /\ Head(queue[d]) \in Event /\ Tail(queue[d]) \in Seq(Event)
      /\ Len(Tail(queue[d])) = Len(queue[d]) - 1
      /\ \A i \in 1 .. Len(Tail(queue[d])) : Tail(queue[d])[i] = queue[d][i + 1]
  BY <1>1, HeadTailProperties
<1>4. Len(queue[d]) \in Nat \ {0}
  BY <1>1, EmptySeq
<1>5. Head(queue[d]) = queue[d][1]
  BY <1>1
<1>. QED
  BY <1>1, <1>2, <1>3, <1>4, <1>5

(* No step disturbs the types.                                              *)
LEMMA TypeNext == TypeOK /\ ReadyInv /\ [Next]_vars => (TypeOK /\ ReadyInv)'
<1>. SUFFICES ASSUME TypeOK, ReadyInv, [Next]_vars
              PROVE  (TypeOK /\ ReadyInv)'
  OBVIOUS
<1>. USE DEF TypeOK, ReadyInv
<1>0. /\ Devices \in Nat /\ MaxFingers \in Nat \ {0} /\ MaxReports \in Nat
      /\ MaxQueue \in Nat \ {0}
  BY CtrlInputsAssumption
<1>1. CASE OpenDevice
  <2>1. dev \in Device
    BY <1>0, <1>1 DEF OpenDevice, Device
  <2>2. supported' \subseteq Channel
    BY <1>1, <2>1, CodeFacts DEF OpenDevice, CheckEvents, Channels
  <2>3. touchSlots' \in 1 .. MaxFingers
    BY <1>0, <1>1, <2>1, PhoneType DEF OpenDevice, CheckEvents
  <2>4. monitored' \subseteq Device /\ ready' \subseteq monitored'
    BY <1>1, <2>1 DEF OpenDevice, CheckEvents
  <2>5. dev' \in 1 .. Devices + 1
    BY <1>0, <1>1 DEF OpenDevice
  <2>. QED
    BY <1>1, <2>2, <2>3, <2>4, <2>5 DEF OpenDevice, reading, kernel
<1>2. CASE AllocatePlaces
  <2>1. /\ value' \in [Channel -> Seq(AnyValue)]
        /\ \A c \in Channel : Len(value'[c]) <= MaxFingers
    <3>1. CASE monitored = {}
      BY <1>2, <3>1 DEF AllocatePlaces
    <3>2. CASE monitored # {}
      <4>. DEFINE n(c) == IF c \in supported \cap Multi THEN touchSlots ELSE 1
      <4>1. \A c \in Channel : n(c) \in Nat /\ n(c) <= MaxFingers
        BY <1>0
      <4>2. value' = [c \in Channel |-> [i \in 1 .. n(c) |-> -1]]
        BY <1>2, <3>2 DEF AllocatePlaces
      <4>. HIDE DEF n
      <4>3. -1 \in AnyValue
        BY DEF AnyValue
      <4>4. \A c \in Channel : /\ [i \in 1 .. n(c) |-> -1] \in Seq(AnyValue)
                               /\ Len([i \in 1 .. n(c) |-> -1]) = n(c)
        BY <4>1, <4>3, Constant
      <4>. QED
        BY <4>1, <4>2, <4>4
    <3>. QED
      BY <3>1, <3>2
  <2>. QED
    BY <1>2, <2>1 DEF AllocatePlaces, config, reading, kernel
<1>3. CASE InitBuffers
  <2>1. buttonSupported' \subseteq 0 .. Buttons - 1
    BY <1>3 DEF InitBuffers
  <2>2. \A p \in DOMAIN ctrlInBuffer' : ctrlInBuffer'[p] \in AnyValue
    BY <1>3 DEF InitBuffers, AnyValue
  <2>. QED
    BY <1>3, <2>1, <2>2 DEF InitBuffers, kernel
<1>4. CASE LoadPlace
  <2>1. CASE finger + 1 \in DOMAIN value[chn]
    <3>1. /\ NextPlace /\ pc = "read"
          /\ ctrlInBuffer' = [ctrlInBuffer EXCEPT
                                ![BufferIndex(chn, finger)] = value[chn][finger + 1]]
      BY <1>4, <2>1 DEF LoadPlace
    <3>2. value[chn][finger + 1] \in AnyValue
      BY <2>1, LenProperties, ElementOfSeq
    <3>3. \A p \in DOMAIN ctrlInBuffer' : ctrlInBuffer'[p] \in AnyValue
      BY <3>1, <3>2
    <3>. QED
      BY <1>4, <3>1, <3>3, NextPlaceType DEF LoadPlace, config, kernel
  <2>2. CASE finger + 1 \notin DOMAIN value[chn]
    BY <1>4, <2>2 DEF LoadPlace, config, reading, kernel
  <2>. QED
    BY <2>1, <2>2
<1>5. CASE SkipPlace
  BY <1>5, NextPlaceType DEF SkipPlace, config, kernel
<1>6. CASE Render
  BY <1>6 DEF Render, config, reading, kernel
<1>7. CASE Poll
  BY <1>7 DEF Poll, config, reading, kernel
<1>8. CASE ReadEvent
  <2>1. PICK d \in ready : /\ \A e \in ready : d <= e
                           /\ Store(Head(queue[d]))
                           /\ queue' = [queue EXCEPT ![d] = Tail(@)]
                           /\ ready' = ready \ {d}
    BY <1>8 DEF ReadEvent
  <2>2. /\ d \in Device /\ Head(queue[d]) \in Event
        /\ queue' \in [Device -> Seq(Event)]
        /\ \A e \in Device \ {d} : queue'[e] = queue[e]
        /\ Len(queue'[d]) = Len(queue[d]) - 1 /\ Len(queue[d]) \in Nat \ {0}
    BY <2>1, ReadType, Zenon
  <2>3. Monitoring
    BY <1>8 DEF ReadEvent
  <2>. HIDE DEF TypeOK, ReadyInv
  <2>4. /\ value' \in [Channel -> Seq(AnyValue)]
        /\ \A c \in Channel : Len(value'[c]) = Len(value[c])
        /\ slot' \in Finger \cup Values
        /\ pc' \in {pc, "undefined"}
    BY <2>1, <2>2, <2>3, StoreType
  <2>. USE DEF TypeOK, ReadyInv
  <2>5. \A e \in Device : Len(queue'[e]) <= MaxQueue
    BY <1>0, <2>2
  <2>6. ready' \subseteq monitored /\ \A e \in ready' : queue'[e] # <<>>
    BY <2>1, <2>2
  <2>. QED
    BY <1>8, <2>2, <2>4, <2>5, <2>6 DEF ReadEvent, config, reading
<1>9. CASE UserActs
  <2>1. PICK d \in monitored, c \in Code, f \in Finger, v \in Values :
          Report(d, c, f, v)
    <3>1. \A d \in Device : phone[d].keys \subseteq Code /\ phone[d].abs \subseteq Code
      BY PhoneType, CodeFacts
    <3>2. 0 \in Finger /\ \A d \in Device : 0 .. SlotsOf(d) - 1 \subseteq Finger
      BY <1>0, PhoneType, SMTT(30) DEF Finger
    <3>3. monitored \subseteq Device
      OBVIOUS
    <3>. HIDE DEF TypeOK, ReadyInv
    <3>4. PICK d \in monitored, v \in Values :
            \/ \E c \in phone[d].keys : Report(d, c, 0, v)
            \/ \E c \in phone[d].abs, f \in 0 .. SlotsOf(d) - 1 : Report(d, c, f, v)
      BY <1>9 DEF UserActs
    <3>5. CASE \E c \in phone[d].keys : Report(d, c, 0, v)
      BY <3>1, <3>2, <3>3, <3>5
    <3>6. CASE \E c \in phone[d].abs, f \in 0 .. SlotsOf(d) - 1 : Report(d, c, f, v)
      <4>1. PICK c \in phone[d].abs, f \in 0 .. SlotsOf(d) - 1 : Report(d, c, f, v)
        BY <3>6
      <4>2. c \in Code /\ f \in Finger
        BY <3>1, <3>2, <3>3
      <4>. QED
        BY <4>1, <4>2
    <3>. QED
      BY <3>4, <3>5, <3>6
  <2>2. d \in Device
    BY <2>1
  <2>3. /\ queue' \in [Device -> Seq(Event)]
        /\ \A e \in Device \ {d} : queue'[e] = queue[e]
        /\ Len(queue'[d]) <= MaxQueue /\ queue'[d] # <<>>
    <3>. HIDE DEF TypeOK
    <3>. QED
      BY <2>1, <2>2, ReportQueue
  <2>4. dropped' \in BOOLEAN
    BY <2>1, Zenon DEF Report
  <2>5. kernelSlot' \in [Device -> Finger]
    BY <2>1, <2>2 DEF Report
  <2>6. last' \in [Device -> [Place -> AnyValue]]
    <3>1. last \in [Device -> [Place -> AnyValue]] /\ <<c, f>> \in Place /\ v \in AnyValue
      BY <2>1 DEF Place, AnyValue
    <3>2. last' = [last EXCEPT ![d] = [last[d] EXCEPT ![<<c, f>>] = v]]
      BY <2>1 DEF Report
    <3>. QED
      BY <2>2, <3>1, <3>2
  <2>7. reports' \in 0 .. MaxReports
    BY <1>0, <1>9 DEF UserActs
  <2>. QED
    BY <1>9, <2>2, <2>3, <2>4, <2>5, <2>6, <2>7 DEF UserActs, config, reading
<1>10. CASE UNCHANGED vars
  BY <1>10 DEF vars, config, reading, kernel
<1>. QED
  BY <1>1, <1>2, <1>3, <1>4, <1>5, <1>6, <1>7, <1>8, <1>9, <1>10
     DEF Next, Main, AudioThread, InputThread

(* The variables keep their types, whatever the devices send.               *)
THEOREM TypeCorrect == Spec => []TypeOK
BY TypeInit, TypeNext, PTL DEF Spec

-----------------------------------------------------------------------------
(* Places                                                                   *)

(* Nobody changes what the devices send.                                    *)
LEMMA PhoneStays ==
  ASSUME [Next]_vars
  PROVE  phone' = phone
BY DEF Next, Main, AudioThread, InputThread, OpenDevice, AllocatePlaces, InitBuffers,
       LoadPlace, SkipPlace, Render, Poll, ReadEvent, UserActs, vars, config

(* An ordinary phone has one touch screen.                                  *)
LEMMA OneScreen ==
  ASSUME TypeOK, Ordinary, NEW d \in TouchDevices, NEW e \in TouchDevices
  PROVE  d = e
<1>1. IsFiniteSet(Device)
  <2>1. Devices \in Int /\ 1 \in Int
    BY CtrlInputsAssumption
  <2>. QED
    BY <2>1, FS_Interval DEF Device
<1>2. IsFiniteSet(TouchDevices)
  BY <1>1, FS_Subset DEF TouchDevices
<1>. SUFFICES ASSUME d # e
              PROVE  FALSE
  OBVIOUS
<1>3. /\ IsFiniteSet(TouchDevices \ {d})
      /\ Cardinality(TouchDevices \ {d}) = Cardinality(TouchDevices) - 1
  BY <1>2, FS_RemoveElement
<1>4. /\ Cardinality(TouchDevices) \in Nat /\ Cardinality(TouchDevices) <= 1
      /\ Cardinality(TouchDevices \ {d}) \in Nat
  BY <1>2, <1>3, FS_CardinalityType DEF Ordinary, OrdinaryDevices
<1>5. Cardinality(TouchDevices \ {d}) = 0
  BY <1>3, <1>4
<1>6. TouchDevices \ {d} = {}
  BY <1>3, <1>5, FS_EmptySet
<1>. QED
  BY <1>6

\* The channels checkEvents() notes of a device.
Seen(d) ==
  Channels(phone[d].keys \cup (IF phone[d].other = "early" THEN {} ELSE phone[d].abs))

(* What the scan has found so far: nothing is read before it is over.       *)
ScanInv ==
  /\ pc # "undefined"
  /\ supported = {c \in Channel : \E d \in Device : d < dev /\ c \in Seen(d)}
  /\ monitored = {d \in Device : d < dev /\ phone[d].other = "none" /\ Seen(d) # {}}
  /\ \A d \in TouchDevices :
       d < dev /\ phone[d].other # "early" => SlotsOf(d) <= touchSlots
  /\ pc # "scan" => dev = Devices + 1
  /\ pc \in {"scan", "buffers"} =>
       chn = 0 /\ finger = 0 /\ slot = 0 /\ \A d \in Device : queue[d] = <<>>

(* There is a place for each finger, and the buffer has room for all.       *)
PlaceInv ==
  /\ pc # "scan" => \A c \in Channel :
       Len(value[c]) = IF c \in supported \cap Multi THEN touchSlots ELSE 1
  /\ pc \in {"read", "render"} =>
       DOMAIN ctrlInBuffer = 0 .. offset + Touches * touchSlots - 1
  /\ chn \in Single => finger = 0
  /\ finger < touchSlots /\ slot < touchSlots

(* What waits in a queue is what the device may send.                       *)
MaySend(d, event) ==
  \/ event.code \in phone[d].keys \cup phone[d].abs
  \/ event.code = SlotCode /\ d \in TouchDevices /\ event.value < SlotsOf(d)

QueueInv ==
  \A d \in Device :
    /\ queue[d] # <<>> => d \in monitored
    /\ \A i \in 1 .. Len(queue[d]) : MaySend(d, queue[d][i])

PlacesInv == ScanInv /\ PlaceInv /\ QueueInv

(* At the start there is nothing to read and no place is used.              *)
LEMMA PlacesInit ==
  ASSUME Init
  PROVE  PlacesInv
<1>0. TypeOK
  BY TypeInit
<1>1. ScanInv
  <2>1. \A d \in Device : ~(d < dev)
    BY CtrlInputsAssumption DEF Init, Device
  <2>2. pc = "scan" /\ supported = {} /\ monitored = {} /\ slot = 0 /\ chn = 0
        /\ finger = 0 /\ \A d \in Device : queue[d] = <<>>
    BY DEF Init
  <2>3. \A d \in TouchDevices : d \in Device
    BY DEF TouchDevices
  <2>. QED
    BY <2>1, <2>2, <2>3 DEF ScanInv
<1>2. PlaceInv
  BY DEF Init, PlaceInv
<1>3. QueueInv
  BY EmptySeq DEF Init, QueueInv
<1>. QED
  BY <1>1, <1>2, <1>3 DEF PlacesInv

(* A monitored device: LDSP knows all it sends, and has a place for each.   *)
LEMMA MonitoredIsKnown ==
  ASSUME TypeOK, Ordinary, ScanInv, NEW d \in monitored
  PROVE  /\ d \in Device
         /\ phone[d].keys \subseteq Keys /\ phone[d].abs \subseteq Axes
         /\ \A c \in phone[d].keys \cap Known : event_map[c] \in supported \cap Single
         /\ \A c \in phone[d].abs \cap Known : event_map[c] \in supported \cap Multi
         /\ d \in TouchDevices => SlotsOf(d) <= touchSlots
         /\ phone[d].abs # {} => d \in TouchDevices
<1>1. d \in Device /\ d < dev /\ phone[d].other = "none"
  BY DEF ScanInv
<1>2. phone[d].keys \subseteq Keys /\ phone[d].abs \subseteq Axes
  BY <1>1, PhoneType
<1>3. Seen(d) = Channels(phone[d].keys \cup phone[d].abs)
  BY <1>1 DEF Seen
<1>4. Seen(d) \subseteq supported
  <2>1. Seen(d) \subseteq Channel
    BY <1>3, CodeFacts DEF Channels
  <2>. QED
    BY <1>1, <2>1 DEF ScanInv
<1>5. \A c \in (phone[d].keys \cup phone[d].abs) \cap Known : event_map[c] \in supported
  BY <1>3, <1>4 DEF Channels
<1>. QED
  BY <1>1, <1>2, <1>5, CodeFacts DEF ScanInv, TouchDevices

(* The scan of one device.                                                  *)
LEMMA PlacesScan ==
  ASSUME TypeOK, Ordinary, PlacesInv, OpenDevice
  PROVE  PlacesInv'
<1>0. /\ dev \in Device /\ dev \in Int /\ Devices \in Nat /\ dev' = dev + 1
      /\ pc = "scan" /\ pc' = "scan"
      /\ UNCHANGED <<phone, value, ctrlInBuffer, chn, finger, slot, queue>>
      /\ touchSlots \in Nat \ {0}
  BY CtrlInputsAssumption DEF OpenDevice, reading, kernel, TypeOK, Device
<1>1. /\ supported' = supported \cup Seen(dev)
      /\ touchSlots' = IF phone[dev].other # "early" /\ phone[dev].slots > 0
                       THEN phone[dev].slots ELSE touchSlots
      /\ monitored' = IF phone[dev].other = "none" /\ Seen(dev) # {}
                      THEN monitored \cup {dev} ELSE monitored
  BY DEF OpenDevice, CheckEvents, Seen
<1>2. \A d \in Device : d < dev' <=> d < dev \/ d = dev
  BY <1>0 DEF Device
<1>3. \A d \in Device : Seen(d) \subseteq Channel
  BY CodeFacts DEF Seen, Channels
<1>4. supported' = {c \in Channel : \E d \in Device : d < dev' /\ c \in Seen(d)}
  BY <1>0, <1>1, <1>2, <1>3 DEF PlacesInv, ScanInv
<1>5. monitored' = {d \in Device : d < dev' /\ phone[d].other = "none" /\ Seen(d) # {}}
  <2>1. monitored = {d \in Device : d < dev /\ phone[d].other = "none" /\ Seen(d) # {}}
    BY DEF PlacesInv, ScanInv
  <2>. QED
    BY <1>0, <1>1, <1>2, <2>1
<1>6. ASSUME NEW d \in TouchDevices, d < dev', phone[d].other # "early"
      PROVE  SlotsOf(d) <= touchSlots'
  <2>0. /\ d \in Device /\ SlotsOf(d) \in Nat \ {0} /\ phone[d].slots \in Nat
        /\ phone[dev].slots \in Nat
    BY <1>0, PhoneType DEF TouchDevices
  <2>1. CASE d = dev
    BY <1>0, <1>1, <1>6, <2>0, <2>1 DEF SlotsOf
  <2>2. CASE d < dev /\ d # dev
    <3>1. phone[dev].slots > 0 => dev \in TouchDevices
      BY <1>0 DEF Ordinary, OrdinaryDevices, TouchDevices
    <3>2. ~(phone[dev].slots > 0)
      BY <2>2, <3>1, OneScreen
    <3>. QED
      BY <1>1, <1>6, <2>2, <3>2 DEF PlacesInv, ScanInv
  <2>. QED
    BY <1>2, <1>6, <2>0, <2>1, <2>2
<1>7. ScanInv'
  <2>1. /\ TouchDevices' = TouchDevices
        /\ \A d \in Device : SlotsOf(d)' = SlotsOf(d) /\ Seen(d)' = Seen(d)
    BY <1>0 DEF TouchDevices, SlotsOf, Seen
  <2>2. \A d \in TouchDevices' :
          d < dev' /\ phone'[d].other # "early" => SlotsOf(d)' <= touchSlots'
    BY <1>0, <1>6 DEF TouchDevices, SlotsOf
  <2>3. /\ supported' = {c \in Channel : \E d \in Device : d < dev' /\ c \in Seen(d)'}
        /\ monitored' = {d \in Device : d < dev' /\ phone'[d].other = "none" /\ Seen(d)' # {}}
    BY <1>0, <1>4, <1>5 DEF Seen
  <2>4. chn' = 0 /\ finger' = 0 /\ slot' = 0 /\ \A d \in Device : queue'[d] = <<>>
    BY <1>0 DEF PlacesInv, ScanInv
  <2>. QED
    BY <1>0, <2>2, <2>3, <2>4 DEF ScanInv
<1>8. PlaceInv'
  <2>1. touchSlots' \in Nat \ {0}
    BY <1>0, <1>1, PhoneType
  <2>. QED
    BY <1>0, <2>1 DEF PlacesInv, ScanInv, PlaceInv
<1>9. QueueInv'
  <2>1. \A d \in Device : queue'[d] = <<>>
    BY <1>0 DEF PlacesInv, ScanInv
  <2>. QED
    BY <2>1, EmptySeq DEF QueueInv
<1>. QED
  BY <1>7, <1>8, <1>9 DEF PlacesInv

(* A position of the buffer is within it.                                   *)
LEMMA IndexInRange ==
  ASSUME NEW c \in Channel, NEW n \in Nat \ {0}, NEW f \in 0 .. n - 1
  PROVE  (IF c \in Single THEN c ELSE offset + (c - offset) * n + f)
           \in 0 .. offset + Touches * n - 1
<1>0. Buttons \in Nat /\ Touches \in Nat /\ offset = Buttons + 1 /\ c \in Nat
  BY ChannelFacts
<1>1. Touches * n \in Nat
  BY <1>0
<1>2. CASE c \in Single
  BY <1>0, <1>1, <1>2 DEF Single
<1>3. CASE c \notin Single
  <2>. DEFINE k == c - offset
  <2>1. k \in Nat /\ k + 1 <= Touches
    BY <1>0, <1>3 DEF Channel, Multi
  <2>. HIDE DEF k
  <2>2. k * n \in Nat /\ k * n + n <= Touches * n
    <3>1. PICK j \in Nat : Touches = k + 1 + j
      <4>1. Touches - k - 1 \in Nat /\ Touches = k + 1 + (Touches - k - 1)
        BY <1>0, <2>1
      <4>. QED
        BY <4>1
    <3>2. (k + 1 + j) * n = k * n + n + j * n /\ j * n \in Nat /\ k * n \in Nat
      BY <2>1
    <3>. QED
      BY <3>1, <3>2
  <2>. QED
    BY <1>0, <1>1, <1>3, <2>2 DEF k
<1>. QED
  BY <1>2, <1>3

(* No event but the slot's is taken for it.                                 *)
LEMMA OnlySlots ==
  ASSUME TypeOK, Ordinary, NEW d \in Device
  PROVE  \A c \in phone[d].keys \cup phone[d].abs :
           c \in Code /\ c # SlotCode /\ c[2] # ABS_MT_SLOT
<1>1. phone[d].keys \subseteq Keys /\ phone[d].abs \subseteq Axes
  BY PhoneType
<1>2. <<"EV_KEY", ABS_MT_SLOT>> \notin phone[d].keys
  BY DEF Ordinary
<1>3. <<"EV_KEY", ABS_MT_SLOT>> \notin Axes
  BY DEF Axes
<1>4. \A c \in phone[d].keys \cup phone[d].abs :
        c \in Code /\ c # <<"EV_KEY", ABS_MT_SLOT>>
  BY <1>1, <1>2, <1>3, CodeFacts
<1>. QED
  BY <1>4, CodeFacts

(* An event that may be sent has a place, and none is stored elsewhere.     *)
LEMMA StoreFits ==
  ASSUME TypeOK, ReadyInv, Ordinary, PlacesInv, Monitoring, NEW d \in ready,
         Store(Head(queue[d]))
  PROVE  LET event == Head(queue[d])
             c == event_map[event.code]
             i == IF c \in Multi THEN slot + 1 ELSE 1
         IN  /\ pc' = pc
             /\ event.code = SlotCode =>
                  /\ d \in TouchDevices /\ event.value < SlotsOf(d)
                  /\ slot' = event.value /\ value' = value
             /\ event.code # SlotCode =>
                  /\ event.code \in phone[d].keys \cup phone[d].abs
                  /\ slot' = slot
             /\ event.code # SlotCode /\ event.code \notin Known => value' = value
             /\ event.code # SlotCode /\ event.code \in Known =>
                  /\ i \in 1 .. Len(value[c])
                  /\ value' = [value EXCEPT ![c] = [value[c] EXCEPT ![i] = event.value]]
<1>. DEFINE event == Head(queue[d])
            c == event_map[event.code]
            i == IF c \in Multi THEN slot + 1 ELSE 1
<1>1. /\ d \in Device /\ d \in monitored
      /\ queue[d] \in Seq(Event) /\ queue[d] # <<>>
  BY DEF TypeOK, ReadyInv
<1>2. Len(queue[d]) \in Nat \ {0} /\ event = queue[d][1] /\ event \in Event
  BY <1>1, EmptySeq, HeadTailProperties
<1>3. MaySend(d, event)
  BY <1>1, <1>2 DEF PlacesInv, QueueInv
<1>4. \A b \in (phone[d].keys \cup phone[d].abs) \cap Known :
        event_map[b] \in Channel /\ event_map[b] \in supported
  BY <1>1, MonitoredIsKnown, CodeFacts DEF PlacesInv
<1>5. \A b \in phone[d].keys \cup phone[d].abs : b # SlotCode /\ b[2] # ABS_MT_SLOT
  BY <1>1, OnlySlots
<1>. HIDE DEF event
<1>6. Store(event)
  BY DEF event
<1>7. CASE event.code = SlotCode
  BY <1>3, <1>5, <1>6, <1>7, CodeFacts DEF MaySend, Store, event
<1>8. CASE event.code # SlotCode
  <2>1. /\ event.code \in phone[d].keys \cup phone[d].abs
        /\ event.code[2] # ABS_MT_SLOT
    BY <1>3, <1>5, <1>8 DEF MaySend
  <2>2. CASE event.code \notin Known
    BY <1>6, <1>8, <2>1, <2>2 DEF Store, event
  <2>3. CASE event.code \in Known
    <3>1. c \in Channel /\ c \in supported
      BY <1>4, <2>1, <2>3
    <3>2. i \in 1 .. Len(value[c]) /\ value[c] \in Seq(AnyValue)
      <4>1. Len(value[c]) = IF c \in supported \cap Multi THEN touchSlots ELSE 1
        BY <3>1 DEF PlacesInv, PlaceInv, Monitoring
      <4>2. slot \in Nat /\ touchSlots \in Nat /\ slot < touchSlots
        BY CtrlInputsAssumption DEF PlacesInv, PlaceInv, TypeOK, Finger
      <4>3. value[c] \in Seq(AnyValue)
        BY <3>1 DEF TypeOK
      <4>. QED
        BY <3>1, <4>1, <4>2, <4>3
    <3>3. i \in DOMAIN value[c]
      BY <3>2, LenProperties
    <3>4. /\ value' = [value EXCEPT ![c][i] = event.value]
          /\ UNCHANGED <<pc, slot>>
      BY <1>6, <2>1, <2>3, <3>3 DEF Store
    <3>. HIDE DEF c, i
    <3>. QED
      BY <1>8, <2>1, <2>3, <3>2, <3>4 DEF event, c, i
  <2>. QED
    BY <2>2, <2>3
<1>. QED
  BY <1>7, <1>8 DEF event

(* A report adds only what the device may send.                             *)
LEMMA ReportFits ==
  ASSUME TypeOK, Ordinary, PlacesInv, NEW d \in monitored, NEW c \in Code,
         NEW f \in Finger, NEW v \in Values, Report(d, c, f, v),
         c \in phone[d].keys \/ (c \in phone[d].abs /\ f < SlotsOf(d)),
         phone' = phone, monitored' = monitored
  PROVE  QueueInv'
<1>1. /\ d \in Device /\ phone[d].keys \subseteq Keys
      /\ phone[d].abs # {} => d \in TouchDevices
  BY MonitoredIsKnown DEF PlacesInv
<1>2. MaySend(d, ValueEvent(c, v))
  BY DEF MaySend, ValueEvent
<1>3. c \in Axes => MaySend(d, SlotEvent(f))
  BY <1>1, CodeFacts DEF MaySend, SlotEvent
<1>. DEFINE q == queue[d]
            r == queue'[d]
<1>4. /\ \A e \in Device \ {d} : queue'[e] = queue[e]
      /\ Len(r) \in Nat /\ r # <<>>
      /\ \/ /\ c \in Axes
            /\ Len(r) = Len(q) + 2 /\ Keeps(q, r)
            /\ r[Len(q) + 1] = SlotEvent(f) /\ r[Len(q) + 2] = ValueEvent(c, v)
         \/ /\ Len(r) = Len(q) + 1 /\ Keeps(q, r)
            /\ r[Len(q) + 1] = ValueEvent(c, v)
         \/ Len(r) = 1 /\ r[1] = ValueEvent(c, v)
  BY <1>1, ReportQueue
<1>5. Len(q) \in Nat /\ \A i \in 1 .. Len(q) : MaySend(d, q[i])
  BY <1>1, EmptySeq DEF PlacesInv, QueueInv, TypeOK
<1>. HIDE DEF q, r
<1>6. \A i \in 1 .. Len(r) : MaySend(d, r[i])
  BY <1>2, <1>3, <1>4, <1>5 DEF Keeps
<1>7. ASSUME NEW e \in Device
      PROVE  /\ queue'[e] # <<>> => e \in monitored'
             /\ \A i \in 1 .. Len(queue'[e]) : MaySend(e, queue'[e][i])
  BY <1>4, <1>6 DEF PlacesInv, QueueInv, q, r
<1>. QED
  BY <1>7 DEF QueueInv, MaySend, SlotsOf, TouchDevices

(* No step leads to a place that does not exist.                            *)
LEMMA PlacesNext ==
  ASSUME TypeOK, ReadyInv, Ordinary, PlacesInv, [Next]_vars
  PROVE  PlacesInv'
<1>0. /\ touchSlots \in Nat \ {0} /\ chn \in Channel /\ finger \in Nat
      /\ Devices \in Nat /\ slot \in Nat
  BY CtrlInputsAssumption DEF TypeOK, Finger
<1>p. phone' = phone
  BY PhoneStays
<1>s. ASSUME UNCHANGED <<supported, monitored, dev, touchSlots>>,
             pc # "scan", pc' \in {"buffers", "read", "render"}, pc' # "buffers"
      PROVE  ScanInv'
  BY <1>p, <1>s DEF PlacesInv, ScanInv, Seen, TouchDevices, SlotsOf
<1>q. ASSUME UNCHANGED <<queue, monitored>>
      PROVE  QueueInv'
  BY <1>p, <1>q DEF PlacesInv, QueueInv, MaySend, TouchDevices, SlotsOf
<1>n. ASSUME NextPlace, pc = "read", UNCHANGED touchSlots
      PROVE  (chn' \in Single => finger' = 0) /\ finger' < touchSlots
             /\ pc' \in {"read", "render"}
  BY <1>0, <1>n, ChannelFacts DEF NextPlace
<1>1. CASE OpenDevice
  BY <1>1, PlacesScan
<1>2. CASE AllocatePlaces
  <2>1. /\ pc = "scan" /\ pc' = "buffers" /\ dev = Devices + 1
        /\ UNCHANGED <<supported, monitored, dev, touchSlots, chn, finger, slot, queue>>
    BY <1>2 DEF AllocatePlaces, config, reading, kernel
  <2>2. monitored # {}
    <3>1. PICK d \in Device : phone[d].other = "none"
                              /\ (phone[d].keys \cup phone[d].abs) \cap Known # {}
      BY DEF Ordinary, OrdinaryDevices
    <3>2. d < dev /\ Seen(d) # {}
      BY <1>0, <2>1, <3>1 DEF Device, Seen, Channels
    <3>. QED
      BY <3>1, <3>2 DEF PlacesInv, ScanInv
  <2>3. \A c \in Channel :
          Len(value'[c]) = IF c \in supported \cap Multi THEN touchSlots ELSE 1
    <3>. DEFINE n(c) == IF c \in supported \cap Multi THEN touchSlots ELSE 1
    <3>1. value' = [c \in Channel |-> [i \in 1 .. n(c) |-> -1]]
      BY <1>2, <2>2 DEF AllocatePlaces
    <3>2. \A c \in Channel : n(c) \in Nat
      BY <1>0
    <3>. HIDE DEF n
    <3>3. \A c \in Channel : Len([i \in 1 .. n(c) |-> -1]) = n(c)
      BY <3>2, Constant
    <3>4. \A c \in Channel : Len(value'[c]) = n(c)
      BY <3>1, <3>3
    <3>. QED
      BY <3>4 DEF n
  <2>4. ScanInv'
    BY <1>p, <2>1 DEF PlacesInv, ScanInv, Seen, TouchDevices, SlotsOf
  <2>5. PlaceInv'
    BY <2>1, <2>3 DEF PlacesInv, PlaceInv
  <2>. QED
    BY <1>q, <2>1, <2>4, <2>5 DEF PlacesInv
<1>3. CASE InitBuffers
  <2>1. /\ pc = "buffers" /\ pc' = "read"
        /\ UNCHANGED <<supported, monitored, dev, touchSlots, chn, finger, slot, queue, value>>
        /\ DOMAIN ctrlInBuffer' = 0 .. offset + Touches * touchSlots - 1
    BY <1>3 DEF InitBuffers, kernel
  <2>2. PlaceInv'
    BY <2>1 DEF PlacesInv, PlaceInv
  <2>. QED
    BY <1>s, <1>q, <2>1, <2>2 DEF PlacesInv
<1>4. CASE LoadPlace
  <2>1. finger + 1 \in DOMAIN value[chn]
    <3>1. /\ chn \in supported /\ pc = "read"
      BY <1>4 DEF LoadPlace
    <3>2. Len(value[chn]) = IF chn \in Multi THEN touchSlots ELSE 1
      BY <1>0, <3>1 DEF PlacesInv, PlaceInv
    <3>3. finger < touchSlots /\ (chn \notin Multi => finger = 0)
      BY <1>0, ChannelFacts DEF PlacesInv, PlaceInv
    <3>4. DOMAIN value[chn] = 1 .. Len(value[chn])
      BY <1>0, LenProperties DEF TypeOK
    <3>. QED
      BY <1>0, <3>2, <3>3, <3>4
  <2>2. /\ pc = "read" /\ NextPlace
        /\ UNCHANGED <<supported, monitored, dev, touchSlots, slot, queue, value>>
        /\ DOMAIN ctrlInBuffer' = DOMAIN ctrlInBuffer
    BY <1>4, <2>1 DEF LoadPlace, config, kernel
  <2>3. PlaceInv'
    BY <1>n, <2>2 DEF PlacesInv, PlaceInv
  <2>. QED
    BY <1>s, <1>q, <1>n, <2>2, <2>3 DEF PlacesInv
<1>5. CASE SkipPlace
  <2>1. /\ pc = "read" /\ NextPlace
        /\ UNCHANGED <<supported, monitored, dev, touchSlots, slot, queue, value>>
        /\ DOMAIN ctrlInBuffer' = DOMAIN ctrlInBuffer
    BY <1>5 DEF SkipPlace, config, kernel
  <2>2. PlaceInv'
    BY <1>n, <2>1 DEF PlacesInv, PlaceInv
  <2>. QED
    BY <1>s, <1>q, <1>n, <2>1, <2>2 DEF PlacesInv
<1>6. CASE Render
  <2>1. /\ pc = "render" /\ pc' = "read"
        /\ UNCHANGED <<supported, monitored, dev, touchSlots, chn, finger, slot, queue,
                       value, ctrlInBuffer>>
    BY <1>6 DEF Render, config, reading, kernel
  <2>2. PlaceInv'
    BY <2>1 DEF PlacesInv, PlaceInv
  <2>. QED
    BY <1>s, <1>q, <2>1, <2>2 DEF PlacesInv
<1>7. CASE Poll
  <2>1. /\ pc \in {"read", "render"}
        /\ UNCHANGED <<pc, supported, monitored, dev, touchSlots, chn, finger, slot,
                       queue, value, ctrlInBuffer>>
    BY <1>7 DEF Poll, Monitoring, config, reading, kernel
  <2>2. PlaceInv'
    BY <2>1 DEF PlacesInv, PlaceInv
  <2>. QED
    BY <1>s, <1>q, <2>1, <2>2 DEF PlacesInv
<1>8. CASE ReadEvent
  <2>1. PICK d \in ready : /\ Store(Head(queue[d]))
                           /\ queue' = [queue EXCEPT ![d] = Tail(@)]
    BY <1>8 DEF ReadEvent
  <2>2. Monitoring /\ UNCHANGED <<supported, monitored, dev, touchSlots, chn, finger,
                                  ctrlInBuffer>>
    BY <1>8 DEF ReadEvent, config, reading
  <2>3. /\ d \in Device /\ d \in monitored
        /\ Len(queue[d]) \in Nat \ {0}
        /\ \A e \in Device \ {d} : queue'[e] = queue[e]
        /\ Len(queue'[d]) = Len(queue[d]) - 1
        /\ \A i \in 1 .. Len(queue'[d]) : queue'[d][i] = queue[d][i + 1]
    BY <2>1, ReadType, Zenon
  <2>4. QueueInv'
    <3>1. ASSUME NEW e \in Device, NEW i \in 1 .. Len(queue'[e])
          PROVE  MaySend(e, queue'[e][i])
      <4>1. CASE e = d
        <5>1. i + 1 \in 1 .. Len(queue[d]) /\ queue'[e][i] = queue[d][i + 1]
          BY <2>3, <3>1, <4>1
        <5>. QED
          BY <2>3, <4>1, <5>1 DEF PlacesInv, QueueInv
      <4>2. CASE e # d
        BY <2>3, <3>1, <4>2 DEF PlacesInv, QueueInv
      <4>. QED
        BY <4>1, <4>2
    <3>2. \A e \in Device : queue'[e] # <<>> => e \in monitored'
      BY <2>2, <2>3 DEF PlacesInv, QueueInv
    <3>. QED
      BY <1>p, <3>1, <3>2 DEF QueueInv, MaySend, TouchDevices, SlotsOf
  <2>5. /\ pc' = pc
        /\ slot' < touchSlots
        /\ \A c \in Channel : Len(value'[c]) = Len(value[c])
    <3>. DEFINE event == Head(queue[d])
    <3>1. /\ pc' = pc
          /\ event.code = SlotCode =>
               /\ d \in TouchDevices /\ event.value < SlotsOf(d)
               /\ slot' = event.value /\ value' = value
          /\ event.code # SlotCode => slot' = slot
      BY <2>1, <2>2, StoreFits
    <3>2. event \in Event
      BY <2>1, ReadType, Zenon
    <3>3. \A c \in Channel : Len(value'[c]) = Len(value[c])
      BY <2>1, <2>2, <3>2, StoreType
    <3>. HIDE DEF event
    <3>4. event.code = SlotCode => slot' < touchSlots
      <4>1. d \in TouchDevices => SlotsOf(d) <= touchSlots /\ SlotsOf(d) \in Nat
        BY <2>3, MonitoredIsKnown, PhoneType DEF PlacesInv
      <4>2. event.code = SlotCode => event.value \in Nat
        BY <3>2, CodeFacts DEF Event, Finger
      <4>. QED
        BY <1>0, <3>1, <4>1, <4>2
    <3>. QED
      BY <3>1, <3>3, <3>4 DEF PlacesInv, PlaceInv
  <2>6. PlaceInv'
    BY <2>2, <2>5 DEF PlacesInv, PlaceInv, Monitoring
  <2>. QED
    BY <1>s, <2>2, <2>4, <2>5, <2>6 DEF PlacesInv, Monitoring
<1>9. CASE UserActs
  <2>1. /\ pc \in {"read", "render"}
        /\ UNCHANGED <<pc, supported, monitored, dev, touchSlots, chn, finger, slot,
                       value, ctrlInBuffer>>
    BY <1>9 DEF UserActs, Monitoring, config, reading
  <2>2. PICK d \in monitored, c \in Code, f \in Finger, v \in Values :
          /\ Report(d, c, f, v)
          /\ c \in phone[d].keys \/ (c \in phone[d].abs /\ f < SlotsOf(d))
    <3>1. \A d \in Device : /\ phone[d].keys \subseteq Code
                            /\ phone[d].abs \subseteq Code
                            /\ 0 .. SlotsOf(d) - 1 \subseteq Finger
                            /\ SlotsOf(d) \in Nat
      <4>1. \A d \in Device : /\ phone[d].keys \subseteq Code
                              /\ phone[d].abs \subseteq Code
                              /\ SlotsOf(d) \in 1 .. MaxFingers
        BY PhoneType, CodeFacts
      <4>2. MaxFingers \in Nat
        BY CtrlInputsAssumption
      <4>. QED
        BY <4>1, <4>2 DEF Finger
    <3>2. 0 \in Finger /\ monitored \subseteq Device
      BY CtrlInputsAssumption DEF Finger, TypeOK
    <3>. QED
      BY <1>9, <3>1, <3>2 DEF UserActs
  <2>3. QueueInv'
    BY <1>p, <2>1, <2>2, ReportFits
  <2>4. PlaceInv'
    BY <2>1 DEF PlacesInv, PlaceInv
  <2>. QED
    BY <1>s, <2>1, <2>3, <2>4 DEF PlacesInv
<1>10. CASE UNCHANGED vars
  BY <1>p, <1>10 DEF vars, config, reading, kernel, PlacesInv, ScanInv, PlaceInv,
     QueueInv, MaySend, Seen, TouchDevices, SlotsOf
<1>. QED
  BY <1>1, <1>2, <1>3, <1>4, <1>5, <1>6, <1>7, <1>8, <1>9, <1>10
     DEF Next, Main, AudioThread, InputThread

(* A phone is ordinary or not for good.                                     *)
LEMMA OrdinaryStays ==
  ASSUME [Next]_vars
  PROVE  Ordinary' <=> Ordinary
<1>1. phone' = phone
  BY PhoneStays
<1>2. TouchDevices' = TouchDevices
  BY <1>1 DEF TouchDevices
<1>. QED
  BY <1>1, <1>2 DEF Ordinary, OrdinaryDevices

(* What the proofs about an ordinary phone build on.                        *)
IInv == TypeOK /\ ReadyInv /\ (Ordinary => PlacesInv)

(* It holds of every behaviour.                                             *)
LEMMA IInvInvariant == Spec => []IInv
<1>1. Init => IInv
  BY TypeInit, PlacesInit DEF IInv
<1>2. IInv /\ [Next]_vars => IInv'
  BY TypeNext, PlacesNext, OrdinaryStays DEF IInv
<1>. QED
  BY <1>1, <1>2, PTL DEF Spec

(* On an ordinary phone every place the threads use exists.                 *)
THEOREM PlacesCorrect == Spec => []PlacesExist
<1>1. IInv => PlacesExist
  <2>. SUFFICES ASSUME TypeOK, Ordinary, PlacesInv
                PROVE  /\ pc # "undefined"
                       /\ pc \in {"read", "render"} =>
                            \A c \in Channel, f \in 0 .. touchSlots - 1 :
                              BufferIndex(c, f) \in DOMAIN ctrlInBuffer
    BY DEF PlacesExist, IInv
  <2>1. touchSlots \in Nat \ {0}
    BY CtrlInputsAssumption DEF TypeOK
  <2>2. \A c \in Channel, f \in 0 .. touchSlots - 1 :
          BufferIndex(c, f) \in 0 .. offset + Touches * touchSlots - 1
    BY <2>1, IndexInRange DEF BufferIndex
  <2>. QED
    BY <2>2 DEF PlacesInv, ScanInv, PlaceInv
<1>. QED
  BY <1>1, IInvInvariant, PTL

-----------------------------------------------------------------------------
(* What a queue will do: the finger of an event is said by the last slot    *)
(* event before it, or by what the thread remembers, and the last event for *)
(* a place says what the place will hold.                                   *)
NoSlot(q, a, b) == \A m \in a .. b : q[m].code # SlotCode

FingerAt(q, s, j, f) ==
  \/ \E k \in 1 .. j - 1 :
       q[k].code = SlotCode /\ q[k].value = f /\ NoSlot(q, k + 1, j - 1)
  \/ NoSlot(q, 1, j - 1) /\ f = s

Reports(q, s, c, f, j) == q[j].code = c /\ (c \in Axes => FingerAt(q, s, j, f))

\* A place that holds w now will hold v when the queue has been read.
Becomes(q, s, c, f, w, v) ==
  \/ w = v /\ \A j \in 1 .. Len(q) : ~Reports(q, s, c, f, j)
  \/ \E j \in 1 .. Len(q) :
       /\ Reports(q, s, c, f, j) /\ q[j].value = v
       /\ \A k \in j + 1 .. Len(q) : ~Reports(q, s, c, f, k)

(* An event belongs to one finger.                                          *)
LEMMA OneFinger ==
  ASSUME NEW q, NEW s, NEW j \in Nat, NEW f, NEW g,
         FingerAt(q, s, j, f), FingerAt(q, s, j, g)
  PROVE  f = g
<1>1. CASE NoSlot(q, 1, j - 1)
  BY <1>1 DEF FingerAt, NoSlot
<1>2. CASE ~NoSlot(q, 1, j - 1)
  <2>1. PICK k \in 1 .. j - 1 :
          q[k].code = SlotCode /\ q[k].value = f /\ NoSlot(q, k + 1, j - 1)
    BY <1>2 DEF FingerAt
  <2>2. PICK m \in 1 .. j - 1 :
          q[m].code = SlotCode /\ q[m].value = g /\ NoSlot(q, m + 1, j - 1)
    BY <1>2 DEF FingerAt
  <2>3. ~(k < m) /\ ~(m < k)
    BY <2>1, <2>2 DEF NoSlot
  <2>4. k = m
    BY <2>3
  <2>. QED
    BY <2>1, <2>2, <2>4
<1>. QED
  BY <1>1, <1>2

(* Events added at the end change no finger before them.                    *)
LEMMA FingerKeeps ==
  ASSUME NEW q, NEW r, Len(q) \in Nat, Keeps(q, r), NEW s, NEW f,
         NEW j \in 1 .. Len(q) + 1
  PROVE  FingerAt(r, s, j, f) <=> FingerAt(q, s, j, f)
<1>1. \A k \in 1 .. j - 1 : r[k] = q[k]
  BY DEF Keeps
<1>2. \A a \in 1 .. j : NoSlot(r, a, j - 1) <=> NoSlot(q, a, j - 1)
  BY <1>1 DEF NoSlot
<1>3. \A k \in 1 .. j - 1 : k + 1 \in 1 .. j
  OBVIOUS
<1>. QED
  BY <1>1, <1>2, <1>3 DEF FingerAt

(* What other places will hold does not change either.                      *)
LEMMA OthersKeep ==
  ASSUME NEW q, NEW r, Len(q) \in Nat, Len(r) \in Nat, Keeps(q, r),
         NEW s, NEW c, NEW f, NEW w, NEW v, Becomes(q, s, c, f, w, v),
         \A j \in Len(q) + 1 .. Len(r) : ~Reports(r, s, c, f, j)
  PROVE  Becomes(r, s, c, f, w, v)
<1>1. \A j \in 1 .. Len(q) :
        r[j] = q[j] /\ (Reports(r, s, c, f, j) <=> Reports(q, s, c, f, j))
  BY FingerKeeps DEF Keeps, Reports
<1>2. Len(q) <= Len(r)
  BY DEF Keeps
<1>. HIDE DEF Reports
<1>3. CASE w = v /\ \A j \in 1 .. Len(q) : ~Reports(q, s, c, f, j)
  BY <1>1, <1>2, <1>3 DEF Becomes
<1>4. CASE \E j \in 1 .. Len(q) :
             /\ Reports(q, s, c, f, j) /\ q[j].value = v
             /\ \A k \in j + 1 .. Len(q) : ~Reports(q, s, c, f, k)
  <2>1. PICK j \in 1 .. Len(q) :
          /\ Reports(q, s, c, f, j) /\ q[j].value = v
          /\ \A k \in j + 1 .. Len(q) : ~Reports(q, s, c, f, k)
    BY <1>4
  <2>2. \A k \in j + 1 .. Len(r) : ~Reports(r, s, c, f, k)
    BY <1>1, <1>2, <2>1
  <2>3. j \in 1 .. Len(r) /\ Reports(r, s, c, f, j) /\ r[j].value = v
    BY <1>1, <1>2, <2>1
  <2>. QED
    BY <2>2, <2>3 DEF Becomes
<1>. QED
  BY <1>3, <1>4 DEF Becomes

(* The first event is read, and remembered if it is a slot: the fingers of  *)
(* the others are the same.                                                 *)
LEMMA FingerAfterRead ==
  ASSUME NEW q, NEW r, Len(q) \in Nat \ {0}, Len(r) = Len(q) - 1,
         \A i \in 1 .. Len(r) : r[i] = q[i + 1],
         NEW s, NEW t, t = IF q[1].code = SlotCode THEN q[1].value ELSE s,
         NEW f, NEW j \in 1 .. Len(r) + 1
  PROVE  FingerAt(r, t, j, f) <=> FingerAt(q, s, j + 1, f)
<1>1. \A a \in 1 .. j : NoSlot(r, a, j - 1) <=> NoSlot(q, a + 1, j)
  <2>. SUFFICES ASSUME NEW a \in 1 .. j
                PROVE  NoSlot(r, a, j - 1) <=> NoSlot(q, a + 1, j)
    OBVIOUS
  <2>1. ASSUME NoSlot(r, a, j - 1), NEW m \in a + 1 .. j
        PROVE  q[m].code # SlotCode
    <3>1. m - 1 \in a .. j - 1 /\ m - 1 \in 1 .. Len(r) /\ (m - 1) + 1 = m
      OBVIOUS
    <3>. QED
      BY <2>1, <3>1 DEF NoSlot
  <2>2. ASSUME NoSlot(q, a + 1, j), NEW m \in a .. j - 1
        PROVE  r[m].code # SlotCode
    <3>1. m + 1 \in a + 1 .. j /\ m \in 1 .. Len(r)
      OBVIOUS
    <3>. QED
      BY <2>2, <3>1 DEF NoSlot
  <2>. QED
    BY <2>1, <2>2 DEF NoSlot
<1>2. NoSlot(q, 1, j) <=> q[1].code # SlotCode /\ NoSlot(q, 2, j)
  BY DEF NoSlot
<1>3. ASSUME FingerAt(r, t, j, f)
      PROVE  FingerAt(q, s, j + 1, f)
  <2>1. CASE NoSlot(r, 1, j - 1) /\ f = t
    <3>1. NoSlot(q, 2, j)
      BY <1>1, <2>1
    <3>2. CASE q[1].code = SlotCode
      <4>1. q[1].value = f /\ 1 \in 1 .. j + 1 - 1 /\ NoSlot(q, 1 + 1, j + 1 - 1)
        BY <2>1, <3>1, <3>2
      <4>. QED
        BY <3>2, <4>1 DEF FingerAt
    <3>3. CASE q[1].code # SlotCode
      <4>1. NoSlot(q, 1, j + 1 - 1) /\ f = s
        BY <1>2, <2>1, <3>1, <3>3
      <4>. QED
        BY <4>1 DEF FingerAt
    <3>. QED
      BY <3>2, <3>3
  <2>2. CASE ~(NoSlot(r, 1, j - 1) /\ f = t)
    <3>1. PICK k \in 1 .. j - 1 :
            r[k].code = SlotCode /\ r[k].value = f /\ NoSlot(r, k + 1, j - 1)
      BY <1>3, <2>2 DEF FingerAt
    <3>2. k + 1 \in 1 .. j + 1 - 1 /\ k + 1 \in 1 .. j /\ r[k] = q[k + 1]
      BY <3>1
    <3>3. NoSlot(q, (k + 1) + 1, j + 1 - 1)
      BY <1>1, <3>1, <3>2
    <3>. QED
      BY <3>1, <3>2, <3>3 DEF FingerAt
  <2>. QED
    BY <2>1, <2>2
<1>4. ASSUME FingerAt(q, s, j + 1, f)
      PROVE  FingerAt(r, t, j, f)
  <2>1. CASE NoSlot(q, 1, j) /\ f = s
    <3>1. NoSlot(r, 1, j - 1) /\ f = t
      BY <1>1, <1>2, <2>1
    <3>. QED
      BY <3>1 DEF FingerAt
  <2>2. CASE ~(NoSlot(q, 1, j) /\ f = s)
    <3>1. PICK k \in 1 .. j :
            q[k].code = SlotCode /\ q[k].value = f /\ NoSlot(q, k + 1, j)
      <4>1. j + 1 - 1 = j
        OBVIOUS
      <4>. QED
        BY <1>4, <2>2, <4>1 DEF FingerAt
    <3>2. CASE k = 1
      <4>1. NoSlot(r, 1, j - 1) /\ f = t
        BY <1>1, <3>1, <3>2
      <4>. QED
        BY <4>1 DEF FingerAt
    <3>3. CASE k > 1
      <4>1. PICK i \in 1 .. j - 1 : k = i + 1
        <5>1. k - 1 \in 1 .. j - 1 /\ k = (k - 1) + 1
          BY <3>3
        <5>. QED
          BY <5>1
      <4>2. i \in 1 .. Len(r) /\ i + 1 \in 1 .. j /\ r[i] = q[k]
        BY <4>1
      <4>3. NoSlot(r, i + 1, j - 1)
        BY <1>1, <3>1, <4>1, <4>2
      <4>. QED
        BY <3>1, <4>1, <4>2, <4>3 DEF FingerAt
    <3>. QED
      BY <3>2, <3>3
  <2>. QED
    BY <2>1, <2>2
<1>. QED
  BY <1>3, <1>4

(* And the places will hold what they would have held: the one the event    *)
(* was for holds its value now.                                             *)
LEMMA BecomesAfterRead ==
  ASSUME NEW q, NEW r, Len(q) \in Nat \ {0}, Len(r) = Len(q) - 1,
         \A i \in 1 .. Len(r) : r[i] = q[i + 1],
         NEW s, NEW t, t = IF q[1].code = SlotCode THEN q[1].value ELSE s,
         NEW c, NEW f, NEW v, NEW w, NEW x,
         Reports(q, s, c, f, 1) => x = q[1].value,
         ~Reports(q, s, c, f, 1) => x = w,
         Becomes(q, s, c, f, w, v)
  PROVE  Becomes(r, t, c, f, x, v)
<1>0. \A j \in 1 .. Len(r) + 1 : FingerAt(r, t, j, f) <=> FingerAt(q, s, j + 1, f)
  BY FingerAfterRead, SMTT(30)
<1>1. ASSUME NEW j \in 1 .. Len(r)
      PROVE  /\ j + 1 \in 1 .. Len(q) /\ r[j] = q[j + 1]
             /\ Reports(r, t, c, f, j) <=> Reports(q, s, c, f, j + 1)
  <2>1. j \in 1 .. Len(r) + 1
    OBVIOUS
  <2>2. FingerAt(r, t, j, f) <=> FingerAt(q, s, j + 1, f)
    BY <1>0, <2>1
  <2>. QED
    BY <2>2 DEF Reports
<1>2. CASE \A j \in 1 .. Len(r) : ~Reports(r, t, c, f, j)
  <2>1. \A j \in 2 .. Len(q) : ~Reports(q, s, c, f, j)
    <3>. SUFFICES ASSUME NEW j \in 2 .. Len(q)
                  PROVE  ~Reports(q, s, c, f, j)
      OBVIOUS
    <3>1. PICK i \in 1 .. Len(r) : j = i + 1
      <4>1. j - 1 \in 1 .. Len(r) /\ j = (j - 1) + 1
        OBVIOUS
      <4>. QED
        BY <4>1
    <3>. QED
      BY <1>1, <1>2, <3>1
  <2>2. x = v
    <3>1. CASE Reports(q, s, c, f, 1)
      <4>1. PICK j \in 1 .. Len(q) : Reports(q, s, c, f, j) /\ q[j].value = v
        BY <3>1 DEF Becomes
      <4>2. j = 1
        BY <2>1, <4>1
      <4>. QED
        BY <3>1, <4>1, <4>2
    <3>2. CASE ~Reports(q, s, c, f, 1)
      <4>1. \A j \in 1 .. Len(q) : ~Reports(q, s, c, f, j)
        BY <2>1, <3>2
      <4>. QED
        BY <3>2, <4>1 DEF Becomes
    <3>. QED
      BY <3>1, <3>2
  <2>. QED
    BY <1>2, <2>2 DEF Becomes
<1>3. CASE \E j \in 1 .. Len(r) : Reports(r, t, c, f, j)
  <2>1. PICK i \in 1 .. Len(q) :
          /\ Reports(q, s, c, f, i) /\ q[i].value = v
          /\ \A k \in i + 1 .. Len(q) : ~Reports(q, s, c, f, k)
    BY <1>1, <1>3 DEF Becomes
  <2>2. i > 1
    <3>1. PICK j \in 1 .. Len(r) : Reports(r, t, c, f, j)
      BY <1>3
    <3>2. j + 1 \in 2 .. Len(q) /\ Reports(q, s, c, f, j + 1)
      BY <1>1, <3>1
    <3>. QED
      BY <2>1, <3>2
  <2>3. PICK j \in 1 .. Len(r) : i = j + 1
    <3>1. i - 1 \in 1 .. Len(r) /\ i = (i - 1) + 1
      BY <2>2
    <3>. QED
      BY <3>1
  <2>4. Reports(r, t, c, f, j) /\ r[j].value = v
    BY <1>1, <2>1, <2>3
  <2>5. ASSUME NEW k \in j + 1 .. Len(r)
        PROVE  ~Reports(r, t, c, f, k)
    <3>1. k \in 1 .. Len(r) /\ k + 1 \in i + 1 .. Len(q)
      BY <2>3
    <3>. QED
      BY <1>1, <2>1, <3>1
  <2>. QED
    BY <2>4, <2>5 DEF Becomes
<1>. QED
  BY <1>2, <1>3

(* Whose place it is.                                                       *)
Owns(d, c, f) ==
  \/ c \in phone[d].keys /\ f = 0
  \/ c \in phone[d].abs /\ f < SlotsOf(d)

(* The kernel and the thread mean the same finger, and every place will     *)
(* hold what its device last reported.                                      *)
FingersInv ==
  \A d \in monitored \cap TouchDevices :
    FingerAt(queue[d], slot, Len(queue[d]) + 1, kernelSlot[d])
ValuesInv ==
  \A d \in monitored, c \in Known, f \in Finger : Owns(d, c, f) =>
    Becomes(queue[d], slot, c, f, value[event_map[c]][f + 1], last[d][<<c, f>>])

ReplayInv ==
  /\ pc = "scan" => \A d \in Device : kernelSlot[d] = firstSlot[d]
                                      /\ \A p \in Place : last[d][p] = -1
  /\ SlotsAgree /\ pc # "scan" => FingersInv /\ ValuesInv

(* After an event that is no slot the finger is still the same.             *)
LEMMA FingerGoesOn ==
  ASSUME NEW q, NEW s, NEW f, NEW j \in Nat \ {0}, FingerAt(q, s, j, f),
         q[j].code # SlotCode
  PROVE  FingerAt(q, s, j + 1, f)
<1>1. ASSUME NEW a \in 1 .. j, NoSlot(q, a, j - 1)
      PROVE  NoSlot(q, a, j + 1 - 1)
  BY <1>1 DEF NoSlot
<1>2. CASE NoSlot(q, 1, j - 1) /\ f = s
  BY <1>1, <1>2 DEF FingerAt
<1>3. CASE ~(NoSlot(q, 1, j - 1) /\ f = s)
  <2>1. PICK k \in 1 .. j - 1 :
          q[k].code = SlotCode /\ q[k].value = f /\ NoSlot(q, k + 1, j - 1)
    BY <1>3 DEF FingerAt
  <2>2. k \in 1 .. j + 1 - 1 /\ k + 1 \in 1 .. j
    BY <2>1
  <2>3. NoSlot(q, k + 1, j + 1 - 1)
    BY <1>1, <2>1, <2>2
  <2>. QED
    BY <2>1, <2>2, <2>3 DEF FingerAt
<1>. QED
  BY <1>2, <1>3

(* The last slot before an event says its finger.                           *)
LEMMA SlotSays ==
  ASSUME NEW q, NEW s, NEW f, NEW j \in Nat, NEW k \in 1 .. j - 1,
         q[k].code = SlotCode, q[k].value = f, NoSlot(q, k + 1, j - 1)
  PROVE  FingerAt(q, s, j, f)
BY DEF FingerAt

(* What a report adds, if there was room.                                   *)
LEMMA ReportAdds ==
  ASSUME TypeOK, Ordinary, PlacesInv, FingersInv, NEW d \in monitored,
         NEW c \in Code, NEW f \in Finger, NEW v \in Values, Owns(d, c, f),
         Report(d, c, f, v), ~dropped'
  PROVE  LET q == queue[d]
             r == queue'[d]
         IN  /\ Len(q) \in Nat /\ Len(r) \in Nat \ {0} /\ Keeps(q, r)
             /\ Len(r) > Len(q) /\ Len(r) <= Len(q) + 2
             /\ r[Len(r)].code = c /\ r[Len(r)].value = v
             /\ \A j \in Len(q) + 1 .. Len(r) - 1 : r[j].code = SlotCode
             /\ c \in Axes => d \in TouchDevices /\ FingerAt(r, slot, Len(r), f)
             /\ d \in TouchDevices => FingerAt(r, slot, Len(r), kernelSlot'[d])
<1>. DEFINE q == queue[d]
            r == queue'[d]
            n == Len(q)
<1>1. /\ d \in Device /\ phone[d].keys \subseteq Keys
      /\ phone[d].abs # {} => d \in TouchDevices
  BY MonitoredIsKnown DEF PlacesInv
<1>2. c \in Axes => d \in TouchDevices
  BY <1>1, CodeFacts DEF Owns
<1>3. n \in Nat
  BY <1>1, EmptySeq DEF TypeOK
<1>4. kernelSlot'[d] = IF c \in Axes THEN f ELSE kernelSlot[d]
  BY <1>1 DEF Report, TypeOK
<1>5. \/ /\ c \in Axes /\ kernelSlot[d] # f
         /\ Len(r) = n + 2 /\ Keeps(q, r)
         /\ r[n + 1] = SlotEvent(f) /\ r[n + 2] = ValueEvent(c, v)
      \/ /\ ~(c \in Axes /\ kernelSlot[d] # f)
         /\ Len(r) = n + 1 /\ Keeps(q, r)
         /\ r[n + 1] = ValueEvent(c, v)
  BY <1>1, ReportQueue
<1>6. d \in TouchDevices => FingerAt(q, slot, n + 1, kernelSlot[d])
  BY DEF FingersInv
<1>. HIDE DEF q, r, n
<1>7. CASE /\ c \in Axes
           /\ Len(r) = n + 2 /\ Keeps(q, r)
           /\ r[n + 1] = SlotEvent(f) /\ r[n + 2] = ValueEvent(c, v)
  <2>1. /\ n + 1 \in 1 .. n + 2 - 1
        /\ r[n + 1].code = SlotCode /\ r[n + 1].value = f
        /\ NoSlot(r, n + 1 + 1, n + 2 - 1)
        /\ r[n + 2].code = c /\ r[n + 2].value = v
    BY <1>3, <1>7 DEF SlotEvent, ValueEvent, NoSlot
  <2>2. FingerAt(r, slot, n + 2, f)
    <3>. DEFINE j == n + 2
                k == n + 1
    <3>1. /\ j \in Nat /\ k \in 1 .. j - 1 /\ NoSlot(r, k + 1, j - 1)
          /\ r[k].code = SlotCode /\ r[k].value = f
      BY <1>3, <2>1
    <3>. HIDE DEF j, k
    <3>2. FingerAt(r, slot, j, f)
      BY <3>1, SlotSays
    <3>. QED
      BY <3>2 DEF j
  <2>3. \A j \in n + 1 .. n + 2 - 1 : j = n + 1
    BY <1>3
  <2>. QED
    BY <1>2, <1>3, <1>4, <1>7, <2>1, <2>2, <2>3 DEF q, r, n
<1>8. CASE /\ ~(c \in Axes /\ kernelSlot[d] # f)
           /\ Len(r) = n + 1 /\ Keeps(q, r)
           /\ r[n + 1] = ValueEvent(c, v)
  <2>1. r[n + 1].code = c /\ r[n + 1].value = v
    BY <1>8 DEF ValueEvent
  <2>2. d \in TouchDevices => FingerAt(r, slot, n + 1, kernelSlot[d])
    <3>1. Len(q) \in Nat /\ n + 1 \in 1 .. Len(q) + 1
      BY <1>3 DEF n
    <3>2. \A g : FingerAt(r, slot, n + 1, g) <=> FingerAt(q, slot, n + 1, g)
      BY <1>8, <3>1, FingerKeeps
    <3>. QED
      BY <1>6, <3>2
  <2>3. \A j \in n + 1 .. n + 1 - 1 : FALSE
    BY <1>3
  <2>4. kernelSlot'[d] = kernelSlot[d] /\ (c \in Axes => kernelSlot[d] = f)
    BY <1>4, <1>8
  <2>. QED
    BY <1>2, <1>3, <1>8, <2>1, <2>2, <2>3, <2>4 DEF q, r, n
<1>. QED
  BY <1>5, <1>7, <1>8

(* A report keeps the invariant.                                            *)
LEMMA ReplayReport ==
  ASSUME TypeOK, Ordinary, PlacesInv, FingersInv, ValuesInv, NEW d \in monitored,
         NEW c \in Code, NEW f \in Finger, NEW v \in Values, Owns(d, c, f),
         Report(d, c, f, v), ~dropped',
         UNCHANGED <<phone, monitored, slot, value>>
  PROVE  FingersInv' /\ ValuesInv'
<1>. DEFINE q == queue[d]
            r == queue'[d]
<1>1. /\ Len(q) \in Nat /\ Len(r) \in Nat \ {0} /\ Keeps(q, r)
      /\ Len(r) > Len(q) /\ Len(r) <= Len(q) + 2
      /\ r[Len(r)].code = c /\ r[Len(r)].value = v
      /\ \A j \in Len(q) + 1 .. Len(r) - 1 : r[j].code = SlotCode
      /\ c \in Axes => d \in TouchDevices /\ FingerAt(r, slot, Len(r), f)
      /\ d \in TouchDevices => FingerAt(r, slot, Len(r), kernelSlot'[d])
  BY ReportAdds
<1>2. /\ d \in Device /\ phone[d].keys \subseteq Keys
      /\ phone[d].abs \subseteq Axes
  BY MonitoredIsKnown DEF PlacesInv
<1>3. /\ \A e \in Device \ {d} : queue'[e] = queue[e]
      /\ \A e \in Device \ {d} : kernelSlot'[e] = kernelSlot[e]
      /\ \A e \in Device \ {d} : last'[e] = last[e]
      /\ last'[d] = [last[d] EXCEPT ![<<c, f>>] = v]
  <2>1. \A e \in Device \ {d} : queue'[e] = queue[e]
    BY <1>2, ReportQueue
  <2>. QED
    BY <1>2, <2>1 DEF Report, TypeOK
<1>4. /\ last'[d][<<c, f>>] = v
      /\ \A b \in Code, g \in Finger :
           ~(b = c /\ g = f) => last'[d][<<b, g>>] = last[d][<<b, g>>]
  <2>1. last[d] \in [Place -> AnyValue] /\ <<c, f>> \in Place
    BY <1>2 DEF TypeOK, Place
  <2>. QED
    BY <1>3, <2>1 DEF Place
<1>5. monitored \subseteq Device /\ c # SlotCode /\ Known \subseteq Code
  BY CodeFacts DEF TypeOK
<1>. HIDE DEF q, r
<1>6. d \in TouchDevices => FingerAt(r, slot, Len(r) + 1, kernelSlot'[d])
  BY <1>1, <1>5, FingerGoesOn
<1>7. TouchDevices' = TouchDevices
  BY DEF TouchDevices
<1>8. FingersInv'
  <2>. SUFFICES ASSUME NEW e \in monitored \cap TouchDevices
                PROVE  FingerAt(queue'[e], slot, Len(queue'[e]) + 1, kernelSlot'[e])
    BY <1>7 DEF FingersInv
  <2>1. CASE e = d
    BY <1>6, <2>1 DEF r
  <2>2. CASE e # d
    BY <1>3, <1>5, <2>2 DEF FingersInv
  <2>. QED
    BY <2>1, <2>2
<1>9. ASSUME NEW e \in monitored, NEW b \in Known, NEW g \in Finger, Owns(e, b, g)
      PROVE  Becomes(queue'[e], slot, b, g, value[event_map[b]][g + 1],
                     last'[e][<<b, g>>])
  <2>. DEFINE w == value[event_map[b]][g + 1]
  <2>0. b \in Code
    BY <1>5
  <2>1. CASE e # d
    BY <1>3, <1>5, <1>9, <2>1 DEF ValuesInv
  <2>2. CASE e = d /\ b = c /\ g = f
    <3>1. Reports(r, slot, c, f, Len(r))
      BY <1>1 DEF Reports
    <3>2. Len(r) \in 1 .. Len(r) /\ \A k \in Len(r) + 1 .. Len(r) : FALSE
      BY <1>1
    <3>3. Becomes(r, slot, c, f, w, v)
      BY <1>1, <3>1, <3>2 DEF Becomes
    <3>. QED
      BY <1>4, <2>0, <2>2, <3>3 DEF r
  <2>3. CASE e = d /\ ~(b = c /\ g = f)
    <3>1. ASSUME NEW j \in Len(q) + 1 .. Len(r), Reports(r, slot, b, g, j)
          PROVE  FALSE
      <4>1. b # SlotCode
        BY <2>0, CodeFacts
      <4>2. j = Len(r)
        BY <1>1, <3>1, <4>1 DEF Reports
      <4>3. b = c
        BY <1>1, <3>1, <4>2 DEF Reports
      <4>4. c \in Axes
        BY <1>2, <1>9, <2>3, <4>3, CodeFacts DEF Owns
      <4>5. FingerAt(r, slot, Len(r), g) /\ FingerAt(r, slot, Len(r), f)
        BY <1>1, <3>1, <4>2, <4>3, <4>4 DEF Reports
      <4>6. g = f
        BY <1>1, <4>5, OneFinger
      <4>. QED
        BY <2>3, <4>3, <4>6
    <3>2. Becomes(q, slot, b, g, w, last[d][<<b, g>>])
      BY <1>9, <2>3 DEF ValuesInv, q
    <3>3. Becomes(r, slot, b, g, w, last[d][<<b, g>>])
      BY <1>1, <3>1, <3>2, OthersKeep
    <3>. QED
      BY <1>4, <2>0, <2>3, <3>3 DEF r
  <2>. QED
    BY <2>1, <2>2, <2>3
<1>10. ValuesInv'
  BY <1>9 DEF ValuesInv, Owns, SlotsOf
<1>. QED
  BY <1>8, <1>10

(* A place that belongs to a finger exists.                                 *)
LEMMA OwnsFits ==
  ASSUME TypeOK, Ordinary, PlacesInv, NEW d \in monitored, NEW c \in Known,
         NEW f \in Finger, Owns(d, c, f)
  PROVE  /\ event_map[c] \in Channel
         /\ f + 1 \in 1 .. (IF event_map[c] \in supported \cap Multi
                            THEN touchSlots ELSE 1)
         /\ event_map[c] \notin Multi => f = 0
         /\ c \in (phone[d].keys \cup phone[d].abs) \cap Known
         /\ c \in Keys => f = 0 /\ c \in phone[d].keys
         /\ c \in Axes => d \in TouchDevices /\ c \in phone[d].abs
<1>1. /\ d \in Device
      /\ phone[d].keys \subseteq Keys /\ phone[d].abs \subseteq Axes
      /\ \A e \in phone[d].keys \cap Known : event_map[e] \in supported \cap Single
      /\ \A e \in phone[d].abs \cap Known : event_map[e] \in supported \cap Multi
      /\ d \in TouchDevices => SlotsOf(d) <= touchSlots
      /\ phone[d].abs # {} => d \in TouchDevices
  BY MonitoredIsKnown DEF PlacesInv
<1>2. f \in Nat /\ touchSlots \in Nat \ {0} /\ SlotsOf(d) \in Nat
  <2>1. SlotsOf(d) \in 1 .. MaxFingers /\ MaxFingers \in Nat
    BY <1>1, PhoneType
  <2>. QED
    BY <2>1, CtrlInputsAssumption DEF TypeOK, Finger
<1>3. c \in Code /\ event_map[c] \in Channel /\ (c \in Keys <=> c \notin Axes)
  BY CodeFacts
<1>4. CASE c \in phone[d].keys /\ f = 0
  <2>1. c \in Keys /\ event_map[c] \in Single
    BY <1>1, <1>4
  <2>. QED
    BY <1>2, <1>3, <1>4, <2>1, ChannelFacts
<1>5. CASE c \in phone[d].abs /\ f < SlotsOf(d)
  <2>1. c \in Axes /\ d \in TouchDevices /\ event_map[c] \in supported \cap Multi
    BY <1>1, <1>5
  <2>. QED
    BY <1>1, <1>2, <1>3, <1>5, <2>1
<1>. QED
  BY <1>4, <1>5 DEF Owns

(* What becomes of a place with one value does not depend on the finger.    *)
LEMMA BecomesSingle ==
  ASSUME NEW q, NEW s, NEW t, NEW c, c \notin Axes, NEW f, NEW w, NEW v,
         Becomes(q, s, c, f, w, v)
  PROVE  Becomes(q, t, c, f, w, v)
<1>1. \A j : Reports(q, s, c, f, j) <=> Reports(q, t, c, f, j)
  BY DEF Reports
<1>. QED
  BY <1>1 DEF Becomes

(* What the thread does with the event it reads.                            *)
LEMMA StoreSets ==
  ASSUME TypeOK, ReadyInv, Ordinary, ChannelsApart, PlacesInv, Monitoring,
         NEW d \in ready, Store(Head(queue[d])),
         NEW c \in Known, NEW f \in Finger, Owns(d, c, f)
  PROVE  value'[event_map[c]][f + 1] = IF Reports(queue[d], slot, c, f, 1)
                                       THEN Head(queue[d]).value
                                       ELSE value[event_map[c]][f + 1]
<1>. DEFINE event == Head(queue[d])
            e == event_map[event.code]
            i == IF e \in Multi THEN slot + 1 ELSE 1
            m == event_map[c]
<1>1. d \in monitored /\ d \in Device /\ queue[d] \in Seq(Event) /\ queue[d] # <<>>
  BY DEF TypeOK, ReadyInv
<1>2. event = queue[d][1]
  BY <1>1
<1>3. /\ event.code = SlotCode => value' = value
      /\ event.code # SlotCode => event.code \in phone[d].keys \cup phone[d].abs
      /\ event.code # SlotCode /\ event.code \notin Known => value' = value
      /\ event.code # SlotCode /\ event.code \in Known =>
           /\ i \in 1 .. Len(value[e])
           /\ value' = [value EXCEPT ![e] = [value[e] EXCEPT ![i] = event.value]]
  BY StoreFits
<1>4. Reports(queue[d], slot, c, f, 1) <=> event.code = c /\ (c \in Axes => f = slot)
  <2>1. FingerAt(queue[d], slot, 1, f) <=> f = slot
    BY DEF FingerAt, NoSlot
  <2>. QED
    BY <1>2, <2>1 DEF Reports
<1>5. /\ c # SlotCode /\ f \in Nat /\ slot \in Nat /\ m \in Channel
      /\ value \in [Channel -> Seq(AnyValue)]
      /\ m \in Multi <=> c \in Axes
  BY CodeFacts, CtrlInputsAssumption DEF TypeOK, Finger
<1>6. /\ m \notin Multi => f = 0
      /\ c \in (phone[d].keys \cup phone[d].abs) \cap Known
      /\ f + 1 \in 1 .. (IF m \in supported \cap Multi THEN touchSlots ELSE 1)
  BY <1>1, OwnsFits
<1>7. value[m] \in Seq(AnyValue) /\ f + 1 \in 1 .. Len(value[m])
  <2>1. Len(value[m]) = IF m \in supported \cap Multi THEN touchSlots ELSE 1
    BY <1>5 DEF PlacesInv, PlaceInv, Monitoring
  <2>. QED
    BY <1>5, <1>6, <2>1
<1>. HIDE DEF event, i, e, m
<1>8. CASE event.code # c
  <2>1. event.code # SlotCode /\ event.code \in Known => e # m
    BY <1>1, <1>3, <1>6, <1>8 DEF ChannelsApart, e, m
  <2>2. value'[m] = value[m]
    BY <1>3, <1>5, <2>1
  <2>. QED
    BY <1>4, <1>8, <2>2 DEF m
<1>9. CASE event.code = c
  <2>1. e = m
    BY <1>9 DEF e, m
  <2>2. /\ i \in 1 .. Len(value[m])
        /\ value'[m] = [value[m] EXCEPT ![i] = event.value]
    BY <1>3, <1>5, <1>9, <2>1
  <2>3. i = f + 1 <=> (c \in Axes => f = slot)
    BY <1>5, <1>6, <2>1 DEF i
  <2>4. i = f + 1 => value'[m][f + 1] = event.value
    BY <1>7, <2>2
  <2>5. i # f + 1 => value'[m][f + 1] = value[m][f + 1]
    BY <1>7, <2>2
  <2>. QED
    BY <1>4, <1>9, <2>3, <2>4, <2>5 DEF event, m
<1>. QED
  BY <1>8, <1>9

(* An event changes no place of another device.                             *)
LEMMA OthersUntouched ==
  ASSUME TypeOK, ReadyInv, Ordinary, ChannelsApart, PlacesInv, Monitoring,
         NEW d \in ready, Store(Head(queue[d])), NEW e \in monitored, e # d
  PROVE  /\ e \in TouchDevices => slot' = slot
         /\ \A c \in Known, f \in Finger :
              Owns(e, c, f) => value'[event_map[c]] = value[event_map[c]]
<1>. DEFINE event == Head(queue[d])
            n == event_map[event.code]
            i == IF n \in Multi THEN slot + 1 ELSE 1
            stored == [value[n] EXCEPT ![i] = event.value]
<1>1. d \in monitored /\ d \in Device /\ e \in Device
  BY DEF TypeOK
<1>2. /\ event.code = SlotCode => d \in TouchDevices /\ value' = value
      /\ event.code # SlotCode =>
           event.code \in phone[d].keys \cup phone[d].abs /\ slot' = slot
      /\ event.code # SlotCode /\ event.code \notin Known => value' = value
      /\ event.code # SlotCode /\ event.code \in Known =>
           value' = [value EXCEPT ![n] = stored]
  BY StoreFits
<1>3. ~(d \in TouchDevices /\ e \in TouchDevices)
  BY OneScreen
<1>4. /\ phone[d].keys \subseteq Keys /\ phone[d].abs \subseteq Axes
      /\ phone[d].keys \cap phone[e].keys = {}
  BY <1>1, PhoneType DEF Ordinary, OrdinaryDevices
<1>5. phone[d].abs # {} => d \in TouchDevices
  BY <1>1 DEF TouchDevices
<1>6. value \in [Channel -> Seq(AnyValue)]
  BY DEF TypeOK
<1>. HIDE DEF event, n, i, stored
<1>7. ASSUME NEW c \in Known, NEW f \in Finger, Owns(e, c, f)
      PROVE  value'[event_map[c]] = value[event_map[c]]
  <2>1. /\ c \in (phone[e].keys \cup phone[e].abs) \cap Known
        /\ c \in Keys => c \in phone[e].keys
        /\ c \in Axes => e \in TouchDevices
        /\ c \in Keys <=> c \notin Axes
        /\ event_map[c] \in Channel
    BY <1>7, OwnsFits, CodeFacts
  <2>2. event.code # SlotCode => event.code # c
    BY <1>2, <1>3, <1>4, <1>5, <2>1
  <2>3. event.code # SlotCode /\ event.code \in Known => n # event_map[c]
    BY <1>1, <1>2, <2>1, <2>2 DEF ChannelsApart, n
  <2>. QED
    BY <1>2, <1>6, <2>1, <2>3
<1>. QED
  BY <1>2, <1>3, <1>7

(* An event that is read keeps the invariant: its finger is the one the     *)
(* thread remembers, and what its place will hold it holds now.             *)
LEMMA ReplayRead ==
  ASSUME TypeOK, ReadyInv, Ordinary, ChannelsApart, PlacesInv, Monitoring,
         FingersInv, ValuesInv, NEW d \in ready,
         Store(Head(queue[d])), queue' = [queue EXCEPT ![d] = Tail(@)],
         UNCHANGED <<phone, monitored, kernelSlot, last>>
  PROVE  FingersInv' /\ ValuesInv'
<1>. DEFINE q == queue[d]
            r == queue'[d]
<1>1. /\ d \in monitored /\ d \in Device
      /\ Len(q) \in Nat \ {0} /\ Head(q) = q[1] /\ Head(q) \in Event
      /\ Len(r) = Len(q) - 1 /\ \A i \in 1 .. Len(r) : r[i] = q[i + 1]
      /\ \A e \in Device \ {d} : queue'[e] = queue[e]
  BY ReadType
<1>2. slot' = IF q[1].code = SlotCode THEN q[1].value ELSE slot
  BY <1>1, StoreFits
<1>t. PICK t : t = slot' /\ t = IF q[1].code = SlotCode THEN q[1].value ELSE slot
  BY <1>2
<1>f. \A j \in 1 .. Len(r) + 1 : \A f :
        FingerAt(r, t, j, f) <=> FingerAt(q, slot, j + 1, f)
  BY <1>1, <1>t, FingerAfterRead
<1>b. ASSUME NEW c, NEW f, NEW v, NEW w, NEW x,
             Reports(q, slot, c, f, 1) => x = q[1].value,
             ~Reports(q, slot, c, f, 1) => x = w,
             Becomes(q, slot, c, f, w, v)
      PROVE  Becomes(r, t, c, f, x, v)
  BY <1>1, <1>t, <1>b, BecomesAfterRead
<1>3. monitored \subseteq Device /\ TouchDevices' = TouchDevices
  BY DEF TypeOK, TouchDevices
<1>. HIDE DEF q, r
<1>4. ASSUME NEW e \in monitored \cap TouchDevices
      PROVE  FingerAt(queue'[e], slot', Len(queue'[e]) + 1, kernelSlot[e])
  <2>1. CASE e = d
    <3>. DEFINE j == Len(r) + 1
    <3>1. j \in 1 .. Len(r) + 1 /\ j + 1 = Len(q) + 1
      BY <1>1
    <3>2. FingerAt(q, slot, Len(q) + 1, kernelSlot[d])
      BY <1>4, <2>1 DEF FingersInv, q
    <3>. HIDE DEF j
    <3>3. \A f : FingerAt(r, t, j, f) <=> FingerAt(q, slot, j + 1, f)
      BY <1>f, <3>1
    <3>. QED
      BY <1>t, <2>1, <3>1, <3>2, <3>3 DEF j, r
  <2>2. CASE e # d
    <3>1. slot' = slot /\ queue'[e] = queue[e]
      BY <1>1, <1>3, <2>2, OthersUntouched
    <3>. QED
      BY <3>1 DEF FingersInv
  <2>. QED
    BY <2>1, <2>2
<1>5. ASSUME NEW e \in monitored, NEW c \in Known, NEW f \in Finger, Owns(e, c, f)
      PROVE  Becomes(queue'[e], slot', c, f, value'[event_map[c]][f + 1],
                     last[e][<<c, f>>])
  <2>. DEFINE w == value[event_map[c]][f + 1]
              x == value'[event_map[c]][f + 1]
              v == last[e][<<c, f>>]
  <2>1. Becomes(queue[e], slot, c, f, w, v)
    BY <1>5 DEF ValuesInv
  <2>2. CASE e = d
    <3>1. x = IF Reports(q, slot, c, f, 1) THEN q[1].value ELSE w
      BY <1>1, <1>5, <2>2, StoreSets DEF q
    <3>2. Becomes(q, slot, c, f, w, v)
      BY <2>1, <2>2 DEF q
    <3>. HIDE DEF w, x, v
    <3>3. Becomes(r, t, c, f, x, v)
      BY <1>b, <3>1, <3>2
    <3>. QED
      BY <1>t, <2>2, <3>3 DEF r, x, v
  <2>3. CASE e # d
    <3>1. queue'[e] = queue[e] /\ value'[event_map[c]] = value[event_map[c]]
      BY <1>1, <1>3, <1>5, <2>3, OthersUntouched
    <3>2. c \in Axes => slot' = slot
      BY <1>5, <2>3, OwnsFits, OthersUntouched
    <3>. HIDE DEF w, v
    <3>3. Becomes(queue[e], slot', c, f, w, v)
      BY <2>1, <3>2, BecomesSingle
    <3>. QED
      BY <3>1, <3>3 DEF w, v
  <2>. QED
    BY <2>2, <2>3
<1>6. FingersInv'
  BY <1>3, <1>4 DEF FingersInv
<1>7. ValuesInv'
  BY <1>5 DEF ValuesInv, Owns, SlotsOf
<1>. QED
  BY <1>6, <1>7

(* At the start nothing was reported.                                       *)
LEMMA ReplayInit ==
  ASSUME Init
  PROVE  ReplayInv
BY DEF Init, ReplayInv

(* The places begin with what a device that has not reported last reported, *)
(* and the thread with the slot 0.                                          *)
LEMMA ReplayAllocate ==
  ASSUME TypeOK, Ordinary, PlacesInv, ReplayInv, AllocatePlaces, SlotsAgree
  PROVE  FingersInv' /\ ValuesInv'
<1>1. /\ pc = "scan"
      /\ UNCHANGED <<phone, monitored, slot, queue, kernelSlot, last>>
      /\ monitored # {} => value' = [c \in Channel |->
           [i \in 1 .. (IF c \in supported \cap Multi THEN touchSlots ELSE 1) |-> -1]]
  BY DEF AllocatePlaces, config, reading, kernel
<1>2. /\ slot = 0 /\ monitored \subseteq Device
      /\ \A d \in Device : queue[d] = <<>>
  BY <1>1 DEF PlacesInv, ScanInv, TypeOK
<1>3. \A d \in Device : kernelSlot[d] = firstSlot[d]
                        /\ \A p \in Place : last[d][p] = -1
  BY <1>1 DEF ReplayInv
<1>4. Len(<<>>) = 0 /\ TouchDevices' = TouchDevices
  BY <1>1 DEF TouchDevices
<1>5. FingerAt(<<>>, 0, 1, 0)
  BY DEF FingerAt, NoSlot
<1>6. FingersInv'
  <2>1. \A d \in TouchDevices : d \in Device => kernelSlot[d] = 0
    BY <1>3 DEF SlotsAgree
  <2>2. 0 + 1 = 1
    OBVIOUS
  <2>. QED
    BY <1>1, <1>2, <1>4, <1>5, <2>1, <2>2 DEF FingersInv
<1>7. ASSUME NEW d \in monitored, NEW c \in Known, NEW f \in Finger, Owns(d, c, f)
      PROVE  Becomes(<<>>, slot, c, f, value'[event_map[c]][f + 1], last[d][<<c, f>>])
  <2>. DEFINE m == event_map[c]
  <2>1. /\ m \in Channel
        /\ f + 1 \in 1 .. (IF m \in supported \cap Multi THEN touchSlots ELSE 1)
    BY <1>7, OwnsFits
  <2>. HIDE DEF m
  <2>2. value'[m][f + 1] = -1
    BY <1>1, <2>1, ZenonT(30)
  <2>3. last[d][<<c, f>>] = -1
    BY <1>2, <1>3, CodeFacts DEF Place
  <2>. QED
    BY <1>4, <2>2, <2>3 DEF Becomes, m
<1>8. ValuesInv'
  <2>1. \A d, c, f : Owns(d, c, f)' <=> Owns(d, c, f)
    BY <1>1 DEF Owns, SlotsOf
  <2>. QED
    BY <1>1, <1>2, <1>7, <2>1 DEF ValuesInv, Owns, SlotsOf
<1>. QED
  BY <1>6, <1>8

(* The slots the kernel and the thread begin with, and a lost event, are    *)
(* not forgotten.                                                           *)
LEMMA AgreedBefore ==
  ASSUME TypeOK, [Next]_vars, SlotsAgree'
  PROVE  SlotsAgree
<1>1. phone' = phone
  BY PhoneStays
<1>2. firstSlot' = firstSlot
  BY DEF Next, Main, AudioThread, InputThread, OpenDevice, AllocatePlaces, InitBuffers,
         LoadPlace, SkipPlace, Render, Poll, ReadEvent, UserActs, vars, config
<1>3. dropped => dropped'
  <2>1. CASE UserActs
    <3>1. ASSUME NEW d, NEW c, NEW f, NEW v, Report(d, c, f, v), dropped
          PROVE  dropped'
      BY <3>1, Zenon DEF Report
    <3>. QED
      BY <2>1, <3>1 DEF UserActs
  <2>2. CASE ~UserActs
    BY <2>2 DEF Next, Main, AudioThread, InputThread, OpenDevice, AllocatePlaces,
       InitBuffers, LoadPlace, SkipPlace, Render, Poll, ReadEvent, vars, kernel
  <2>. QED
    BY <2>1, <2>2
<1>. QED
  BY <1>1, <1>2, <1>3 DEF SlotsAgree, TouchDevices

(* What a user does is a report of a monitored device about something it    *)
(* sends.                                                                   *)
LEMMA UserReports ==
  ASSUME TypeOK, UserActs
  PROVE  \E d \in monitored, v \in Values, c \in Code, f \in Finger :
           Owns(d, c, f) /\ Report(d, c, f, v)
<1>1. \A d \in monitored : /\ phone[d].keys \subseteq Code
                           /\ phone[d].abs \subseteq Code
                           /\ SlotsOf(d) \in 1 .. MaxFingers
  BY PhoneType, CodeFacts DEF TypeOK
<1>2. MaxFingers \in Nat \ {0}
  BY CtrlInputsAssumption
<1>3. 0 \in Finger /\ \A d \in monitored : 0 .. SlotsOf(d) - 1 \subseteq Finger
  BY <1>1, <1>2 DEF Finger
<1>4. PICK d \in monitored, v \in Values :
        \/ \E c \in phone[d].keys : Report(d, c, 0, v)
        \/ \E c \in phone[d].abs, f \in 0 .. SlotsOf(d) - 1 : Report(d, c, f, v)
  BY DEF UserActs
<1>5. CASE \E c \in phone[d].keys : Report(d, c, 0, v)
  BY <1>1, <1>3, <1>5 DEF Owns
<1>6. CASE \E c \in phone[d].abs, f \in 0 .. SlotsOf(d) - 1 : Report(d, c, f, v)
  <2>1. PICK c \in phone[d].abs, f \in 0 .. SlotsOf(d) - 1 : Report(d, c, f, v)
    BY <1>6
  <2>2. c \in Code /\ f \in Finger /\ f < SlotsOf(d)
    BY <1>1, <1>2, <1>3, <2>1
  <2>. QED
    BY <2>1, <2>2 DEF Owns
<1>. QED
  BY <1>4, <1>5, <1>6

(* No step breaks the agreement.                                            *)
LEMMA ReplayNext ==
  ASSUME TypeOK, ReadyInv, Ordinary, ChannelsApart, PlacesInv, ReplayInv, [Next]_vars
  PROVE  ReplayInv'
<1>p. phone' = phone
  BY PhoneStays
<1>a. SlotsAgree' => SlotsAgree
  BY AgreedBefore
<1>u. ASSUME UNCHANGED <<monitored, slot, value, queue, kernelSlot, last>>,
             pc # "scan", pc' # "scan"
      PROVE  ReplayInv'
  <2>1. FingersInv => FingersInv'
    BY <1>p, <1>u DEF FingersInv, TouchDevices
  <2>2. ValuesInv => ValuesInv'
    BY <1>p, <1>u DEF ValuesInv, Owns, SlotsOf
  <2>. QED
    BY <1>a, <1>u, <2>1, <2>2 DEF ReplayInv
<1>1. CASE OpenDevice
  BY <1>1 DEF OpenDevice, kernel, ReplayInv
<1>2. CASE AllocatePlaces
  <2>1. pc' = "buffers"
    BY <1>2 DEF AllocatePlaces
  <2>. QED
    BY <1>2, <1>a, <2>1, ReplayAllocate DEF ReplayInv
<1>3. CASE InitBuffers
  BY <1>3, <1>u DEF InitBuffers, kernel
<1>4. CASE LoadPlace
  <2>1. pc' # "scan"
    BY <1>4 DEF LoadPlace, NextPlace
  <2>. QED
    BY <1>4, <1>u, <2>1 DEF LoadPlace, config, kernel
<1>5. CASE SkipPlace
  <2>1. pc' # "scan"
    BY <1>5 DEF SkipPlace, NextPlace
  <2>. QED
    BY <1>5, <1>u, <2>1 DEF SkipPlace, config, kernel
<1>6. CASE Render
  BY <1>6, <1>u DEF Render, config, kernel
<1>7. CASE Poll
  BY <1>7, <1>u DEF Poll, Monitoring, config, kernel
<1>8. CASE ReadEvent
  <2>1. PICK d \in ready : /\ Store(Head(queue[d]))
                           /\ queue' = [queue EXCEPT ![d] = Tail(@)]
    BY <1>8 DEF ReadEvent
  <2>2. Monitoring /\ UNCHANGED <<phone, monitored, kernelSlot, last>>
    BY <1>8 DEF ReadEvent, config
  <2>3. pc # "scan" /\ pc' # "scan"
    BY <2>1, <2>2, StoreFits DEF Monitoring
  <2>4. FingersInv /\ ValuesInv => FingersInv' /\ ValuesInv'
    BY <2>1, <2>2, ReplayRead
  <2>. QED
    BY <1>a, <2>3, <2>4 DEF ReplayInv
<1>9. CASE UserActs
  <2>1. Monitoring /\ UNCHANGED <<phone, monitored, slot, value, pc>>
    BY <1>9 DEF UserActs, config
  <2>2. PICK d \in monitored, v \in Values, c \in Code, f \in Finger :
          Owns(d, c, f) /\ Report(d, c, f, v)
    BY <1>9, UserReports
  <2>3. ~dropped' /\ FingersInv /\ ValuesInv => FingersInv' /\ ValuesInv'
    BY <2>1, <2>2, ReplayReport
  <2>. QED
    BY <1>a, <2>1, <2>3 DEF ReplayInv, SlotsAgree, Monitoring
<1>10. CASE UNCHANGED vars
  <2>1. pc = "scan" => ReplayInv'
    BY <1>10 DEF vars, config, kernel, ReplayInv
  <2>. QED
    BY <1>10, <1>u, <2>1 DEF vars, config, kernel
<1>. QED
  BY <1>1, <1>2, <1>3, <1>4, <1>5, <1>6, <1>7, <1>8, <1>9, <1>10
     DEF Next, Main, AudioThread, InputThread

(* Whose codes share a channel does not change.                             *)
LEMMA ApartStays ==
  ASSUME [Next]_vars
  PROVE  ChannelsApart' <=> ChannelsApart
BY PhoneStays DEF ChannelsApart

(* On a phone the code is made for, whose events have a channel each and    *)
(* whose screen was at slot 0 when LDSP started: when all events of a       *)
(* device have been read, each place holds what the device last reported    *)
(* for its code and its finger.                                             *)
THEOREM StoredCorrect == Spec => []StoredAsReported
<1>1. Init => (Ordinary /\ ChannelsApart => ReplayInv)
  BY ReplayInit
<1>2. IInv /\ (Ordinary /\ ChannelsApart => ReplayInv) /\ [Next]_vars
        => (Ordinary /\ ChannelsApart => ReplayInv)'
  BY ReplayNext, OrdinaryStays, ApartStays DEF IInv
<1>3. IInv /\ (Ordinary /\ ChannelsApart => ReplayInv) => StoredAsReported
  <2>. SUFFICES ASSUME IInv, ReplayInv, Ordinary, SlotsAgree, pc \in {"read", "render"},
                       NEW d \in monitored, queue[d] = <<>>
                PROVE  Stored(d)
    BY DEF StoredAsReported
  <2>1. \A c \in Known, f \in Finger : Owns(d, c, f) =>
          value[event_map[c]][f + 1] = last[d][<<c, f>>]
    <3>1. \A c, f, w, v : Becomes(<<>>, slot, c, f, w, v) => w = v
      BY DEF Becomes
    <3>. QED
      BY <3>1 DEF ReplayInv, ValuesInv
  <2>2. SlotsOf(d) \in 1 .. MaxFingers /\ MaxFingers \in Nat \ {0}
    BY PhoneType DEF IInv, TypeOK
  <2>3. 0 \in Finger /\ 0 .. SlotsOf(d) - 1 \subseteq Finger /\ 0 + 1 = 1
    BY <2>2 DEF Finger
  <2>4. ASSUME NEW c \in phone[d].keys \cap Known
        PROVE  value[event_map[c]][1] = last[d][<<c, 0>>]
    <3>1. Owns(d, c, 0)
      BY DEF Owns
    <3>. QED
      BY <2>1, <2>3, <3>1
  <2>5. ASSUME NEW c \in phone[d].abs \cap Known, NEW f \in 0 .. SlotsOf(d) - 1
        PROVE  value[event_map[c]][f + 1] = last[d][<<c, f>>]
    <3>1. f < SlotsOf(d) /\ f \in Finger
      BY <2>2, <2>3
    <3>2. Owns(d, c, f)
      BY <3>1 DEF Owns
    <3>. QED
      BY <2>1, <3>1, <3>2
  <2>. QED
    BY <2>4, <2>5 DEF Stored
<1>. QED
  BY <1>1, <1>2, <1>3, IInvInvariant, PTL DEF Spec

-----------------------------------------------------------------------------
(* The flat buffer.                                                         *)

(* A finger of a lower channel comes before every finger of a higher one.   *)
LEMMA RowsApart ==
  ASSUME NEW a \in Nat, NEW b \in Nat, NEW n \in Nat \ {0},
         NEW f \in 0 .. n - 1, NEW g \in 0 .. n - 1, a < b
  PROVE  (a * n) + f < (b * n) + g
<1>1. PICK k \in Nat : b = a + 1 + k
  <2>1. b - a - 1 \in Nat /\ b = a + 1 + (b - a - 1)
    OBVIOUS
  <2>. QED
    BY <2>1
<1>2. (a + 1 + k) * n = (a * n) + n + (k * n) /\ k * n \in Nat /\ a * n \in Nat
  OBVIOUS
<1>. QED
  BY <1>1, <1>2

(* No two places share a position of the buffer.                            *)
LEMMA IndexApart ==
  ASSUME NEW c \in Channel, NEW e \in Channel, NEW n \in Nat \ {0},
         NEW f \in 0 .. n - 1, NEW g \in 0 .. n - 1,
         c \in Single => f = 0, e \in Single => g = 0,
         (IF c \in Single THEN c ELSE offset + (c - offset) * n + f)
           = (IF e \in Single THEN e ELSE offset + (e - offset) * n + g)
  PROVE  c = e /\ f = g
<1>0. Buttons \in Nat /\ offset = Buttons + 1 /\ c \in Nat /\ e \in Nat
  BY ChannelFacts
<1>a. ASSUME NEW x \in Channel, x \notin Single, NEW h \in 0 .. n - 1
      PROVE  x - offset \in Nat /\ offset + (x - offset) * n + h >= offset
  <2>1. x - offset \in Nat
    BY <1>0, <1>a, ChannelFacts DEF Multi
  <2>2. (x - offset) * n \in Nat
    BY <2>1
  <2>. QED
    BY <1>0, <2>1, <2>2
<1>1. CASE c \in Single /\ e \in Single
  BY <1>1
<1>2. CASE c \in Single /\ e \notin Single
  BY <1>0, <1>2, <1>a DEF Single
<1>3. CASE c \notin Single /\ e \in Single
  BY <1>0, <1>3, <1>a DEF Single
<1>4. CASE c \notin Single /\ e \notin Single
  <2>1. PICK a \in Nat, b \in Nat : a = c - offset /\ b = e - offset
    BY <1>4, <1>a
  <2>2. a * n \in Nat /\ b * n \in Nat
    BY <2>1
  <2>3. (a * n) + f = (b * n) + g
    BY <1>0, <1>4, <2>1, <2>2
  <2>4. ~(a < b) /\ ~(b < a)
    BY <2>2, <2>3, RowsApart
  <2>5. a = b
    BY <2>4
  <2>. QED
    BY <1>0, <2>1, <2>2, <2>3, <2>5
<1>. QED
  BY <1>1, <1>2, <1>3, <1>4

\* The places of a channel that is copied, and those that this block's loops
\* have copied so far.
FingersOf(c) == IF c \in supported \cap Multi THEN 0 .. touchSlots - 1 ELSE {0}
Passed(c, f) == pc = "render" \/ c < chn \/ (c = chn /\ f < finger)
Loaded ==
  \A c \in supported : \A f \in FingersOf(c) :
    Passed(c, f) => ctrlInBuffer[BufferIndex(c, f)] = value[c][f + 1]

(* The loops pass no place of a supported channel but the one they are at.  *)
LEMMA NextPlacePasses ==
  ASSUME TypeOK, PlaceInv, pc = "read", NextPlace, NEW c \in supported,
         NEW f \in FingersOf(c), Passed(c, f)'
  PROVE  Passed(c, f) \/ (c = chn /\ f = finger)
<1>0. /\ touchSlots \in Nat \ {0} /\ finger \in Nat /\ finger < touchSlots
      /\ chn \in Nat /\ c \in Nat /\ f \in Nat /\ f < touchSlots
      /\ c \in Single => f = 0
      /\ chn \in Channel /\ c \in Channel
  BY CtrlInputsAssumption, ChannelFacts DEF TypeOK, Finger, PlaceInv, FingersOf
<1>1. CASE chn \in Multi /\ finger + 1 < touchSlots
  <2>1. finger' = finger + 1 /\ chn' = chn /\ pc' = pc
    BY <1>1 DEF NextPlace
  <2>. QED
    BY <1>0, <2>1 DEF Passed
<1>2. CASE ~(chn \in Multi /\ finger + 1 < touchSlots)
  <2>1. c <= chn
    <3>1. CASE chn + 1 \in Channel
      <4>1. finger' = 0 /\ chn' = chn + 1 /\ pc' = pc
        BY <1>2, <3>1 DEF NextPlace
      <4>. QED
        BY <1>0, <4>1 DEF Passed
    <3>2. CASE chn + 1 \notin Channel
      BY <1>0, <3>2, CtrlInputsAssumption DEF Channel, Single, Multi, offset
    <3>. QED
      BY <3>1, <3>2
  <2>2. c = chn => f <= finger
    BY <1>0, <1>2, ChannelFacts
  <2>. QED
    BY <1>0, <2>1, <2>2 DEF Passed
<1>. QED
  BY <1>1, <1>2

(* While nothing is on its way, what was copied stays as it is stored.      *)
LEMMA LoadedNext ==
  ASSUME TypeOK, ReadyInv, PlacesInv, Still, Still', Loaded, [Next]_vars
  PROVE  Loaded'
<1>0. /\ touchSlots \in Nat \ {0} /\ supported \subseteq Channel /\ finger \in Nat
      /\ finger < touchSlots /\ chn \in Channel /\ (chn \in Single => finger = 0)
      /\ 0 \in 0 .. touchSlots - 1
  BY CtrlInputsAssumption DEF TypeOK, Finger, PlacesInv, PlaceInv
<1>a. ASSUME UNCHANGED <<supported, touchSlots, value>>, NEW c, NEW f
      PROVE  /\ FingersOf(c)' = FingersOf(c)
             /\ BufferIndex(c, f)' = BufferIndex(c, f)
             /\ value'[c][f + 1] = value[c][f + 1]
  BY <1>a DEF FingersOf, BufferIndex
<1>1. ~Main
  BY DEF Still, Main, OpenDevice, AllocatePlaces, InitBuffers
<1>2. CASE LoadPlace
  <2>1. /\ pc = "read" /\ chn \in supported /\ NextPlace
        /\ UNCHANGED <<supported, touchSlots, value>>
        /\ ctrlInBuffer' = [ctrlInBuffer EXCEPT
                              ![BufferIndex(chn, finger)] = value[chn][finger + 1]]
    BY <1>2 DEF LoadPlace, config, Still
  <2>2. SUFFICES ASSUME NEW c \in supported, NEW f \in FingersOf(c), Passed(c, f)'
                 PROVE  ctrlInBuffer'[BufferIndex(c, f)] = value[c][f + 1]
    BY <1>a, <2>1 DEF Loaded
  <2>3. Passed(c, f) \/ (c = chn /\ f = finger)
    BY <2>1, <2>2, NextPlacePasses DEF PlacesInv
  <2>4. DOMAIN ctrlInBuffer = 0 .. offset + Touches * touchSlots - 1
    BY <2>1 DEF PlacesInv, PlaceInv
  <2>5. f \in 0 .. touchSlots - 1 /\ finger \in 0 .. touchSlots - 1
        /\ (c \in Single => f = 0)
    BY <1>0, ChannelFacts DEF FingersOf
  <2>6. BufferIndex(c, f) \in DOMAIN ctrlInBuffer
    BY <1>0, <2>4, <2>5, IndexInRange DEF BufferIndex
  <2>7. CASE c = chn /\ f = finger
    BY <2>1, <2>6, <2>7
  <2>8. CASE ~(c = chn /\ f = finger)
    <3>1. BufferIndex(c, f) # BufferIndex(chn, finger)
      BY <1>0, <2>5, <2>8, IndexApart DEF BufferIndex
    <3>2. ctrlInBuffer[BufferIndex(c, f)] = value[c][f + 1]
      BY <2>2, <2>3, <2>8 DEF Loaded
    <3>. QED
      BY <2>1, <2>6, <3>1, <3>2
  <2>. QED
    BY <2>7, <2>8
<1>3. CASE SkipPlace
  <2>1. /\ pc = "read" /\ chn \notin supported /\ NextPlace
        /\ UNCHANGED <<supported, touchSlots, value, ctrlInBuffer>>
    BY <1>3 DEF SkipPlace, config
  <2>2. \A c \in supported : \A f \in FingersOf(c) : Passed(c, f)' => Passed(c, f)
    BY <2>1, NextPlacePasses DEF PlacesInv
  <2>. QED
    BY <1>a, <2>1, <2>2 DEF Loaded
<1>4. CASE Render
  <2>1. pc = "render" /\ UNCHANGED <<supported, touchSlots, value, ctrlInBuffer>>
    BY <1>4 DEF Render, config, reading
  <2>. QED
    BY <1>a, <2>1 DEF Loaded, Passed
<1>5. CASE Poll
  <2>1. UNCHANGED <<supported, touchSlots, value, ctrlInBuffer, pc, chn, finger>>
    BY <1>5 DEF Poll, config, reading
  <2>. QED
    BY <1>a, <2>1 DEF Loaded, Passed
<1>6. ~ReadEvent
  BY DEF ReadEvent, ReadyInv, Still, TypeOK
<1>7. ~UserActs
  <2>. SUFFICES ASSUME UserActs
                PROVE  FALSE
    OBVIOUS
  <2>1. PICK d \in monitored, v \in Values, c \in Code, f \in Finger :
          Report(d, c, f, v)
    BY UserReports
  <2>2. d \in Device /\ monitored' = monitored
    BY DEF TypeOK, UserActs, config
  <2>3. queue'[d] # <<>>
    BY <2>1, <2>2, ReportQueue
  <2>. QED
    BY <2>2, <2>3 DEF Still
<1>8. CASE UNCHANGED vars
  <2>1. UNCHANGED <<supported, touchSlots, value, ctrlInBuffer, pc, chn, finger>>
    BY <1>8 DEF vars, config, reading
  <2>. QED
    BY <1>a, <2>1 DEF Loaded, Passed
<1>. QED
  BY <1>1, <1>2, <1>3, <1>4, <1>5, <1>6, <1>7, <1>8 DEF Next, AudioThread, InputThread

(* From the first block that begins with every event read, render() reads   *)
(* what was last reported, finger by finger, while no more events come.     *)
THEOREM RenderCorrect == Spec => RenderSeesSettled
<1>1. IInv /\ BlockBegins /\ Still => Loaded
  <2>. SUFFICES ASSUME IInv, BlockBegins, Still,
                       NEW c \in supported, NEW f \in FingersOf(c), Passed(c, f)
                PROVE  FALSE
    BY DEF Loaded
  <2>1. c \in Nat /\ f \in Nat
    BY CtrlInputsAssumption, ChannelFacts DEF IInv, TypeOK, FingersOf
  <2>. QED
    BY <2>1 DEF BlockBegins, Passed
<1>2. IInv /\ Still /\ Still' /\ Loaded /\ [Next]_vars => Loaded'
  BY LoadedNext DEF IInv, Still
<1>3. IInv /\ StoredAsReported /\ Still /\ Loaded => (pc = "render" => BufferAgrees)
  <2>. SUFFICES ASSUME IInv, StoredAsReported, Still, Loaded, pc = "render",
                       NEW d \in monitored
                PROVE  /\ \A c \in phone[d].keys \cap Known :
                            multiTouchRead(event_map[c], 0) = last[d][<<c, 0>>]
                       /\ \A c \in phone[d].abs \cap Known, f \in 0 .. SlotsOf(d) - 1 :
                            multiTouchRead(event_map[c], f) = last[d][<<c, f>>]
    BY DEF BufferAgrees
  <2>1. /\ \A c \in phone[d].keys \cap Known : event_map[c] \in supported \cap Single
        /\ \A c \in phone[d].abs \cap Known : event_map[c] \in supported \cap Multi
        /\ phone[d].abs # {} => SlotsOf(d) <= touchSlots
    BY MonitoredIsKnown DEF IInv, Still, PlacesInv
  <2>2. /\ \A c \in phone[d].keys \cap Known :
             value[event_map[c]][1] = last[d][<<c, 0>>]
        /\ \A c \in phone[d].abs \cap Known, f \in 0 .. SlotsOf(d) - 1 :
             value[event_map[c]][f + 1] = last[d][<<c, f>>]
    BY DEF StoredAsReported, Stored, Still
  <2>3. \A c \in supported : \A f \in FingersOf(c) :
          multiTouchRead(c, f) = value[c][f + 1]
    BY DEF Loaded, Passed, multiTouchRead, BufferIndex
  <2>4. ASSUME NEW c \in phone[d].keys \cap Known
        PROVE  multiTouchRead(event_map[c], 0) = last[d][<<c, 0>>]
    <3>1. event_map[c] \in supported /\ 0 \in FingersOf(event_map[c]) /\ 0 + 1 = 1
      BY <2>1, ChannelFacts DEF IInv, TypeOK, FingersOf
    <3>2. multiTouchRead(event_map[c], 0) = value[event_map[c]][0 + 1]
      BY <2>3, <3>1
    <3>. QED
      BY <2>2, <3>1, <3>2
  <2>5. ASSUME NEW c \in phone[d].abs \cap Known, NEW f \in 0 .. SlotsOf(d) - 1
        PROVE  multiTouchRead(event_map[c], f) = last[d][<<c, f>>]
    <3>1. SlotsOf(d) \in Nat /\ touchSlots \in Nat
      BY PhoneType, CtrlInputsAssumption DEF IInv, TypeOK
    <3>2. event_map[c] \in supported /\ f \in FingersOf(event_map[c])
      BY <2>1, <3>1 DEF FingersOf
    <3>. QED
      BY <2>2, <2>3, <3>2
  <2>. QED
    BY <2>4, <2>5
<1>. QED
  BY <1>1, <1>2, <1>3, IInvInvariant, StoredCorrect, PTL DEF Spec, RenderSeesSettled
==============================================================================
