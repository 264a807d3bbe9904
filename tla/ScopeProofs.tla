----------------------------- MODULE ScopeProofs -----------------------------
(***************************************************************************)
(* Proofs about Scope, for frames and rings of any size, any number of     *)
(* samples and any hold-off, when the settings change only while the other *)
(* threads rest (Serialised), the offset and the hold-off at any time: a   *)
(* frame placed and counted with one offset is one window of the samples   *)
(* logged, and none of them is shown twice.                                *)
(***************************************************************************)
EXTENDS Scope, TLAPS

-----------------------------------------------------------------------------
(* Arithmetic                                                               *)

(* What % does to a number up to three times round the ring.                *)
LEMMA Modulo ==
  ASSUME NEW n \in Nat \ {0}, NEW x \in Int
  PROVE  /\ x % n \in 0 .. n - 1
         /\ x \in 0 .. n - 1 => x % n = x
         /\ x \in n .. 2 * n - 1 => x % n = x - n
         /\ x \in 2 * n .. 3 * n - 1 => x % n = x - 2 * n
<1>1. x % n \in 0 .. n - 1
  OBVIOUS
<1>2. x \in 0 .. n - 1 => x % n = x
  OBVIOUS
<1>3. x \in n .. 2 * n - 1 => x % n = x - n
  OBVIOUS
<1>4. x \in 2 * n .. 3 * n - 1 => x % n = x - 2 * n
  OBVIOUS
<1>. QED
  BY <1>1, <1>2, <1>3, <1>4

(* An index that goes on by less than a round.                              *)
LEMMA Wrap ==
  ASSUME NEW n \in Nat \ {0}, NEW p \in 0 .. n - 1, NEW k \in 0 .. n
  PROVE  (p + k) % n \in 0 .. n - 1 /\ ((p + k) % n = p + k \/ (p + k) % n = p + k - n)
<1>. DEFINE x == p + k
<1>1. x \in Int /\ (x \in 0 .. n - 1 \/ x \in n .. 2 * n - 1)
  OBVIOUS
<1>2. x % n \in 0 .. n - 1 /\ (x % n = x \/ x % n = x - n)
  <2>. HIDE DEF x
  <2>. QED
    BY <1>1, Modulo
<1>. QED
  BY <1>2

(* An index that goes on in a ring.                                         *)
LEMMA NextIndex ==
  ASSUME NEW n \in Nat \ {0}, NEW p \in 0 .. n - 1
  PROVE  (p + 1) % n = IF p + 1 < n THEN p + 1 ELSE 0
<1>. DEFINE x == p + 1
<1>1. x \in Int /\ (x \in 0 .. n - 1 \/ x \in n .. 2 * n - 1)
  OBVIOUS
<1>2. /\ x \in 0 .. n - 1 => x % n = x
      /\ x \in n .. 2 * n - 1 => x % n = x - n
  <2>. HIDE DEF x
  <2>. QED
    BY <1>1, Modulo
<1>. QED
  BY <1>1, <1>2

(* The ring holds a frame at least, and half a frame is what it says.       *)
LEMMA Widths ==
  /\ frameWidth \in Nat /\ frameWidth >= 2
  /\ channelWidth \in Nat \ {0} /\ channelWidth >= frameWidth
  /\ HalfFrame \in Nat \ {0}
  /\ 2 * HalfFrame <= frameWidth /\ frameWidth <= 2 * HalfFrame + 1
<1>1. frameWidth \in Nat /\ frameWidth >= 2 /\ FRAMES_STORED \in Nat \ {0}
  BY ScopeAssumption
<1>2. channelWidth \in Nat /\ channelWidth >= frameWidth
  BY <1>1 DEF channelWidth
<1>3. /\ HalfFrame \in Nat \ {0}
      /\ 2 * HalfFrame <= frameWidth /\ frameWidth <= 2 * HalfFrame + 1
  BY <1>1 DEF HalfFrame
<1>. QED
  BY <1>1, <1>2, <1>3

(* (int)(frameWidth/2.0f + n) is half a frame and n, from where it is not   *)
(* negative; below that it rounds to what counts as one step all the same.  *)
LEMMA HalfFramePlusIs ==
  ASSUME NEW n \in Int
  PROVE  /\ HalfFramePlus(n) \in Int
         /\ HalfFrame + n >= 0 => HalfFramePlus(n) = HalfFrame + n
         /\ HalfFrame + n < 0 => HalfFramePlus(n) <= 0
<1>. DEFINE f == frameWidth
            h == HalfFrame
<1>1. /\ f \in Nat /\ h \in Nat
      /\ f = 2 * h \/ f = 2 * h + 1
  BY Widths
<1>2. CASE f + 2 * n >= 0
  <2>1. HalfFramePlus(n) = (f + 2 * n) \div 2
    BY <1>2 DEF HalfFramePlus
  <2>2. (f + 2 * n) \div 2 = h + n
    BY <1>1, <1>2
  <2>. QED
    BY <1>1, <1>2, <2>1, <2>2
<1>3. CASE ~(f + 2 * n >= 0)
  <2>1. HalfFramePlus(n) = -((-(f + 2 * n)) \div 2)
    BY <1>3 DEF HalfFramePlus
  <2>2. (-(f + 2 * n)) \div 2 \in Nat
    BY <1>1, <1>3
  <2>3. HalfFrame + n < 0
    BY <1>1, <1>3
  <2>. QED
    BY <1>1, <2>1, <2>2, <2>3
<1>. QED
  BY <1>2, <1>3

-----------------------------------------------------------------------------
(* Types                                                                    *)

(* The initial state has the right types.                                   *)
LEMMA TypeInit == Init => TypeOK
<1>. SUFFICES ASSUME Init
              PROVE  TypeOK
  OBVIOUS
<1>1. 0 \in 0 .. channelWidth - 1 /\ 0 \in 0 .. frameWidth - 1 /\ 0 \in 0 .. frameWidth
  BY Widths
<1>2. /\ 0 \in 0 .. MaxSamples /\ 0 \in 0 .. TRIGGER_LOG_COUNT + 1
      /\ 0 \in 0 .. MaxChanges /\ 0 \in Offsets /\ 0 \in HoldOffs
  BY ScopeAssumption
<1>3. Nowhere \in Place
  BY <1>2 DEF Nowhere, Place
<1>4. /\ buffer \in [0 .. channelWidth - 1 -> 0 .. MaxSamples]
      /\ outBuffer \in [0 .. frameWidth - 1 -> 0 .. MaxSamples]
  BY <1>2 DEF Init
<1>5. started \in BOOLEAN /\ isResizing \in BOOLEAN
  BY DEF Init
<1>6. /\ isUsingBuffer \in BOOLEAN /\ isUsingOutBuffer \in BOOLEAN
      /\ triggerSignal \in BOOLEAN
  BY DEF Init
<1>. QED
  BY <1>1, <1>2, <1>3, <1>4, <1>5, <1>6 DEF Init, TypeOK

(* One step of the audio thread keeps the types.                            *)
LEMMA TypeAudio ==
  ASSUME TypeOK, AudioThread
  PROVE  TypeOK'
<1>. USE DEF TypeOK, flags, search, scan, copy, settings
<1>1. CASE prelog
  BY <1>1 DEF prelog
<1>2. CASE EnterBuffer
  BY <1>2 DEF EnterBuffer
<1>3. CASE log
  <2>1. logged + 1 \in 0 .. MaxSamples
    BY <1>3, ScopeAssumption DEF log
  <2>2. buffer' \in [0 .. channelWidth - 1 -> 0 .. MaxSamples]
    BY <1>3, <2>1 DEF log
  <2>. QED
    BY <1>3, <2>2 DEF log
<1>4. CASE LeaveBuffer
  <2>1. isUsingBuffer' \in BOOLEAN
    BY <1>4, Zenon DEF LeaveBuffer
  <2>. QED
    BY <1>4, <2>1 DEF LeaveBuffer
<1>5. CASE AdvanceWrite
  <2>1. writePointer' \in 0 .. channelWidth - 1
    BY <1>5, Widths, Modulo DEF AdvanceWrite
  <2>2. logged' \in 0 .. MaxSamples
    BY <1>5, ScopeAssumption DEF AdvanceWrite
  <2>. QED
    BY <1>5, <2>1, <2>2 DEF AdvanceWrite
<1>6. CASE postlog
  <2>1. logCount' \in 0 .. TRIGGER_LOG_COUNT + 1
    BY <1>6, ScopeAssumption DEF postlog
  <2>2. triggerSignal' \in BOOLEAN
    BY <1>6, Zenon DEF postlog
  <2>3. due' \in 0 .. MaxSamples
    BY <1>6 DEF postlog
  <2>. QED
    BY <1>6, <2>1, <2>2, <2>3 DEF postlog
<1>. QED
  BY <1>1, <1>2, <1>3, <1>4, <1>5, <1>6 DEF AudioThread

(* The pointer of the scan goes round the ring.                             *)
LEMMA TypeAdvance ==
  ASSUME TypeOK, Advance
  PROVE  readPointer' \in 0 .. channelWidth - 1 /\ scanned' \in Nat
BY Widths, Modulo DEF Advance, TypeOK

(* One step of the trigger thread keeps the types.                          *)
LEMMA TypeTrigger ==
  ASSUME TypeOK, TriggerThread
  PROVE  TypeOK'
<1>. USE DEF TypeOK, flags, audio, search, scan, copy, settings, Scanning
<1>1. CASE Woken
  BY <1>1 DEF Woken
<1>2. CASE ClearSignal
  <2>1. triggerSignal' \in BOOLEAN
    BY <1>2, Zenon DEF ClearSignal
  <2>. QED
    BY <1>2, <2>1 DEF ClearSignal
<1>3. CASE ScanDone
  BY <1>3 DEF ScanDone
<1>4. CASE Triggered
  <2>1. xOffsetSamples \in Int
    BY ScopeAssumption
  <2>2. triggerPointer' \in 0 .. channelWidth - 1
    <3>1. readPointer - xOffsetSamples + channelWidth \in Int
      BY <2>1, Widths
    <3>. QED
      BY <1>4, <3>1, Widths, Modulo DEF Triggered, StartCollecting
  <2>3. frame' \in Place
    BY <1>4, <2>1 DEF Triggered, StartCollecting, Place
  <2>. QED
    BY <1>4, <2>2, <2>3 DEF Triggered, StartCollecting
<1>14. CASE CountSamples
  <2>1. -xOffsetSamples \in Int
    BY ScopeAssumption
  <2>2. triggerCount' \in Int
    BY <1>14, <2>1, HalfFramePlusIs DEF CountSamples
  <2>3. Nowhere \in Place
    BY ScopeAssumption DEF Nowhere, Place
  <2>4. frame' \in Place
    <3>1. frame' = Nowhere \/ frame' = [frame EXCEPT !.counted = xOffsetSamples]
      BY <1>14 DEF CountSamples
    <3>2. [frame EXCEPT !.counted = xOffsetSamples] \in Place
      BY DEF Place
    <3>. QED
      BY <2>3, <3>1, <3>2
  <2>. QED
    <3>1. readPointer' \in 0 .. channelWidth - 1 /\ scanned' \in Nat
      BY <1>14, TypeAdvance DEF CountSamples
    <3>2. autoTriggerCount' \in Nat /\ triggerPc' = "loop"
      BY <1>14 DEF CountSamples
    <3>3. UNCHANGED <<flags, audio, triggerPhase, triggerPointer, copy, settings,
                      triggerSignal>>
      BY <1>14 DEF CountSamples
    <3>. QED
      BY <2>2, <2>4, <3>1, <3>2, <3>3, SMTT(30)
<1>5. CASE NotTriggered
  BY <1>5, TypeAdvance DEF NotTriggered
<1>6. CASE Collect
  BY <1>6, TypeAdvance DEF Collect
<1>7. CASE Collected
  <2>1. triggerCount' \in Int
    BY <1>7, HalfFramePlusIs, ScopeAssumption DEF Collected
  <2>2. readPointer' \in 0 .. channelWidth - 1 /\ scanned' \in Nat
    BY <1>7, TypeAdvance DEF Collected
  <2>3. triggerPc' \in {"loop", "claim"}
    BY <1>7 DEF Collected
  <2>. QED
    BY <1>7, <2>1, <2>2, <2>3 DEF Collected
<1>8. CASE Wait
  <2>1. readPointer' \in 0 .. channelWidth - 1 /\ scanned' \in Nat
    BY <1>8, TypeAdvance DEF Wait
  <2>2. triggerPc' \in {"loop", "limit"}
    BY <1>8 DEF Wait
  <2>. QED
    BY <1>8, <2>1, <2>2 DEF Wait
<1>15. CASE LimitWait
  <2>1. triggerCount' \in Int
    BY <1>15, HalfFramePlusIs, ScopeAssumption DEF LimitWait
  <2>. QED
    BY <1>15, <2>1, TypeAdvance DEF LimitWait
<1>9. CASE Waited
  BY <1>9, TypeAdvance DEF Waited
<1>10. CASE Claim
  BY <1>10, Widths, SMTT(30) DEF Claim
<1>11. CASE CopySample
  <2>1. startptr + copied \in Int
    BY Widths, Modulo DEF startptr
  <2>2. (startptr + copied) % channelWidth \in 0 .. channelWidth - 1
    BY <2>1, Widths, Modulo
  <2>3. outBuffer' \in [0 .. frameWidth - 1 -> 0 .. MaxSamples]
    BY <1>11, <2>2 DEF CopySample
  <2>4. copied' \in 0 .. frameWidth
    BY <1>11, Widths DEF CopySample
  <2>. QED
    BY <1>11, <2>3, <2>4 DEF CopySample
<1>12. CASE Release
  <2>1. isUsingBuffer' \in BOOLEAN
    BY <1>12, Zenon DEF Release
  <2>. QED
    BY <1>12, <2>1 DEF Release
<1>13. CASE Send
  <2>1. Nowhere \in Place
    BY ScopeAssumption DEF Nowhere, Place
  <2>2. LastOfFrame \in Int
    BY Widths, SMTT(30) DEF LastOfFrame, FirstOfFrame, Place
  <2>3. last' \in Place
    BY <1>13, <2>1, <2>2 DEF Send, Shown, Place
  <2>4. isUsingOutBuffer' \in BOOLEAN
    BY <1>13, Zenon DEF Send
  <2>. QED
    BY <1>13, <2>3, <2>4, TypeAdvance DEF Send
<1>. QED
  BY <1>1, <1>2, <1>3, <1>4, <1>5, <1>6, <1>7, <1>8, <1>9, <1>10, <1>11, <1>12, <1>13,
     <1>14, <1>15
     DEF TriggerThread, triggerTimeDomain

(* One step of the server's thread keeps the types.                         *)
LEMMA TypeSettings ==
  ASSUME TypeOK, SettingsThread
  PROVE  TypeOK'
<1>. USE DEF TypeOK, flags, search, scan, copy, Settings
<1>1. CASE stop
  <2>1. started' \in BOOLEAN
    BY <1>1, Zenon DEF stop
  <2>. QED
    BY <1>1, <2>1, ScopeAssumption DEF stop
<1>2. CASE Disconnect
  <2>1. started' \in BOOLEAN
    BY <1>2, Zenon DEF Disconnect
  <2>. QED
    BY <1>2, <2>1, ScopeAssumption DEF Disconnect
<1>3. CASE RaiseResizing
  BY <1>3 DEF RaiseResizing
<1>4. CASE ThreadsLeft
  BY <1>4 DEF ThreadsLeft
<1>5. Nowhere \in Place
  BY ScopeAssumption DEF Nowhere, Place
<1>6. CASE setPlotMode
  <2>1. isResizing' \in BOOLEAN
    BY <1>6, Zenon DEF setPlotMode
  <2>. QED
    BY <1>5, <1>6, <2>1, Widths DEF setPlotMode
<1>7. 0 \in 0 .. channelWidth - 1 /\ 0 \in 0 .. TRIGGER_LOG_COUNT + 1
  BY Widths, ScopeAssumption
<1>8. CASE start
  BY <1>5, <1>7, <1>8 DEF start, ResetPointers
<1>9. CASE ConnectionReply
  BY <1>5, <1>7, <1>9 DEF ConnectionReply, ResetPointers
<1>10. CASE NoReply
  BY <1>10 DEF NoReply
<1>11. CASE setXParams
  BY <1>11, ScopeAssumption DEF setXParams
<1>. QED
  BY <1>1, <1>2, <1>3, <1>4, <1>6, <1>8, <1>9, <1>10, <1>11 DEF SettingsThread

(* No step disturbs the types.                                              *)
LEMMA TypeNext == TypeOK /\ [Next]_vars => TypeOK'
<1>. SUFFICES ASSUME TypeOK, [Next]_vars
              PROVE  TypeOK'
  OBVIOUS
<1>1. CASE UNCHANGED vars
  BY <1>1 DEF vars, TypeOK, flags, audio, search, scan, copy, settings
<1>. QED
  BY <1>1, TypeAudio, TypeTrigger, TypeSettings DEF Next

(* The variables keep their types, the indices their place in the ring,     *)
(* whatever threads overlap.                                                *)
THEOREM TypeCorrect == Spec => []TypeOK
BY TypeInit, TypeNext, PTL DEF Spec

-----------------------------------------------------------------------------
(* Assumptions                                                              *)

(* The settings change only while the other threads rest.                   *)
Serialised == ~Overlap

(* The scan is never as far behind as the ring is wide.                     *)
RoomAhead == MaxAhead < channelWidth

(* Nor so far that a frame is overwritten before it is copied, wherever the *)
(* trigger is shown.                                                        *)
FrameFits ==
  /\ 2 * HalfFrame + MaxAhead <= channelWidth
  /\ \A x \in Offsets : x > -channelWidth /\ x + HalfFrame + 1 + MaxAhead <= channelWidth

(* The trigger is shown in the middle or left of it.                        *)
TriggerInTime == \A x \in Offsets : x <= 2 * HalfFrame + 1 - frameWidth

-----------------------------------------------------------------------------
(* The inductive invariant                                                  *)

Logging == audioPc \in {"enter", "write", "leave", "advance"}
Showing == triggerPc \in {"claim", "copy", "send"}
Holding == Showing \/ triggerPc \in {"count", "limit"}

(* Whoever resets the pointers is alone.                                    *)
QuietInv ==
  /\ settingsPc \in {"resize", "wait", "reset", "start"} => Quiet /\ ~started
  /\ isResizing => Quiet /\ ~started
  /\ settingsPc \in {"start", "reply"} => ~isResizing

(* The pointers are as far apart as the scan is behind, so that they are    *)
(* equal only when it is not.                                               *)
Behind == logged - scanned
PointerInv ==
  /\ Behind \in 0 .. MaxAhead
  /\ Logging => Behind < MaxAhead
  /\ Holding => Behind > 0
  /\ since <= scanned
  /\ \/ writePointer = readPointer + Behind
     \/ writePointer = readPointer + Behind - channelWidth

(* The steps from a trigger to the end of its frame, and those still left.  *)
Collecting(x) == IF HalfFrame - x >= 1 THEN HalfFrame - x ELSE 1
Left == IF triggerCount >= 1 THEN triggerCount ELSE 1
TriggerOf == frame.at + frame.offset

CollectInv ==
  /\ Showing => triggerPhase = "waiting" /\ triggerCount >= HalfFrame
  /\ triggerPc = "limit" => triggerPhase = "waiting"
  /\ triggerPc = "count" => triggerPhase = "collecting"
  /\ frame # Nowhere =>
       /\ triggerPc = "count" => scanned + 1 = TriggerOf /\ Steady(frame)
       /\ triggerPhase = "collecting" /\ triggerPc # "count" =>
            /\ TriggerOf <= scanned
            /\ scanned + Left = TriggerOf + Collecting(frame.counted)
       /\ Showing => scanned + 1 = TriggerOf + Collecting(frame.counted)

(* triggerPointer is the slot of the sample it stands for, seen from the    *)
(* slot that is written next.                                               *)
SlotInv ==
  frame # Nowhere /\ Steady(frame) /\ (triggerPhase = "collecting" \/ Showing) =>
    LET d == frame.at - logged - 1
    IN  \/ triggerPointer = writePointer + d
        \/ triggerPointer = writePointer + d + channelWidth
        \/ triggerPointer = writePointer + d - channelWidth

(* The ring holds the last channelWidth samples, the one just being logged  *)
(* among them.                                                              *)
Top == IF audioPc \in {"leave", "advance"} THEN logged + 1 ELSE logged
RingInv ==
  \A p \in 0 .. channelWidth - 1, s \in Nat :
    /\ s > since /\ s <= Top /\ s > Top - channelWidth
    /\ \/ p = writePointer + s - logged - 1
       \/ p = writePointer + s - logged - 1 + channelWidth
    => buffer[p] = s

(* What has been copied is the frame's beginning.                           *)
CopyInv ==
  /\ triggerPc = "send" => copied = frameWidth
  /\ triggerPc \in {"copy", "send"} /\ frame # Nowhere /\ Steady(frame)
       /\ FirstOfFrame > since =>
       \A i \in 0 .. frameWidth - 1 : i < copied => outBuffer[i] = FirstOfFrame + i

(* The scan stood here when the last frame had been sent.                   *)
SentAt == last.at + last.offset - (frameWidth - 1 - HalfFrame) + Collecting(last.counted)

(* From there half a frame at least is waited before a trigger counts; or   *)
(* the pointers were reset since, or are about to be.                       *)
ApartInv ==
  last # Nowhere /\ Steady(last) =>
    /\ last.at <= scanned
    /\ \/ last.at <= since
       \/ settingsPc = "start"
       \/ /\ triggerPhase = "primed" => scanned >= SentAt + HalfFrame
          /\ triggerPhase = "waiting" /\ ~Showing =>
               /\ scanned >= SentAt
               /\ triggerPc # "limit" => scanned + Left >= SentAt + HalfFrame
          /\ frame # Nowhere /\ (triggerPhase = "collecting" \/ Showing) =>
               TriggerOf > SentAt + HalfFrame

(* Whoever resets the pointers is alone: the others cannot begin before it  *)
(* is done.                                                                 *)
LEMMA QuietNext ==
  ASSUME Serialised, TypeOK, QuietInv, [Next]_vars
  PROVE  QuietInv'
<1>. USE DEF QuietInv, Quiet, Serialised, Settings, Scanning, flags, audio, search,
         scan, copy, settings
<1>1. CASE prelog
  BY <1>1 DEF prelog
<1>2. CASE EnterBuffer
  BY <1>2 DEF EnterBuffer
<1>3. CASE log
  BY <1>3 DEF log
<1>4. CASE LeaveBuffer
  BY <1>4 DEF LeaveBuffer
<1>5. CASE AdvanceWrite
  BY <1>5 DEF AdvanceWrite
<1>6. CASE postlog
  BY <1>6 DEF postlog
<1>7. CASE Woken
  BY <1>7 DEF Woken
<1>8. CASE ClearSignal
  BY <1>8 DEF ClearSignal
<1>9. CASE ScanDone
  BY <1>9 DEF ScanDone
<1>10. CASE Triggered
  BY <1>10 DEF Triggered, StartCollecting
<1>11. CASE NotTriggered
  BY <1>11 DEF NotTriggered
<1>12. CASE Collect
  BY <1>12 DEF Collect
<1>13. CASE Collected
  BY <1>13 DEF Collected
<1>14. CASE Wait
  BY <1>14 DEF Wait
<1>15. CASE Waited
  BY <1>15 DEF Waited
<1>16. CASE Claim
  BY <1>16 DEF Claim
<1>17. CASE CopySample
  BY <1>17 DEF CopySample
<1>18. CASE Release
  BY <1>18 DEF Release
<1>19. CASE Send
  BY <1>19 DEF Send
<1>20. CASE stop
  BY <1>20 DEF stop
<1>21. CASE Disconnect
  BY <1>21 DEF Disconnect
<1>22. CASE RaiseResizing
  BY <1>22 DEF RaiseResizing
<1>23. CASE ThreadsLeft
  BY <1>23 DEF ThreadsLeft
<1>24. CASE setPlotMode
  BY <1>24 DEF setPlotMode
<1>25. CASE start
  BY <1>25 DEF start, ResetPointers
<1>26. CASE ConnectionReply
  BY <1>26 DEF ConnectionReply, ResetPointers
<1>27. CASE NoReply
  BY <1>27 DEF NoReply
<1>28. CASE setXParams
  BY <1>28 DEF setXParams
<1>30. CASE CountSamples
  BY <1>30 DEF CountSamples
<1>31. CASE LimitWait
  BY <1>31 DEF LimitWait
<1>29. CASE UNCHANGED vars
  BY <1>29 DEF vars
<1>. QED
  BY <1>1, <1>2, <1>3, <1>4, <1>5, <1>6, <1>7, <1>8, <1>9, <1>10, <1>11,
     <1>12, <1>13, <1>14, <1>15, <1>16, <1>17, <1>18, <1>19, <1>20, <1>21,
     <1>22, <1>23, <1>24, <1>25, <1>26, <1>27, <1>28, <1>29, <1>30, <1>31
     DEF Next, AudioThread, TriggerThread, triggerTimeDomain, SettingsThread

(* The pointers and the counts move together.                               *)
LEMMA PointerNext ==
  ASSUME Serialised, RoomAhead, TypeOK, QuietInv, PointerInv, [Next]_vars
  PROVE  PointerInv'
<1>. USE DEF PointerInv, Behind, Logging, Showing, Holding, RoomAhead
<1>0. /\ logged \in Nat /\ scanned \in Nat /\ since \in Nat /\ MaxAhead \in Nat
      /\ writePointer \in 0 .. channelWidth - 1 /\ readPointer \in 0 .. channelWidth - 1
      /\ channelWidth \in Nat \ {0}
  BY Widths, ScopeAssumption DEF TypeOK
<1>a. ASSUME Advance, readPointer # writePointer \/ Behind > 0,
             UNCHANGED <<writePointer, logged, audioPc, since>>,
             triggerPc' = "loop"
      PROVE  PointerInv'
  <2>1. readPointer' = IF readPointer + 1 < channelWidth THEN readPointer + 1 ELSE 0
    BY <1>0, <1>a, NextIndex DEF Advance
  <2>2. Behind > 0
    BY <1>0, <1>a, RoomAhead
  <2>. QED
    BY <1>0, <1>a, <2>1, <2>2 DEF Advance
<1>. USE DEF Settings, Scanning, flags, audio, search, scan, copy, settings, Serialised
<1>1. CASE prelog
  BY <1>1, <1>0, RoomAhead, ScopeAssumption DEF prelog
<1>2. CASE EnterBuffer
  BY <1>2, <1>0, RoomAhead, ScopeAssumption DEF EnterBuffer
<1>3. CASE log
  BY <1>3, <1>0, RoomAhead, ScopeAssumption DEF log
<1>4. CASE LeaveBuffer
  BY <1>4, <1>0, RoomAhead, ScopeAssumption DEF LeaveBuffer
<1>5. CASE AdvanceWrite
  <2>1. writePointer' = IF writePointer + 1 < channelWidth THEN writePointer + 1 ELSE 0
    BY <1>5, <1>0, NextIndex DEF AdvanceWrite
  <2>. QED
    BY <1>5, <1>0, <2>1, RoomAhead DEF AdvanceWrite
<1>6. CASE postlog
  BY <1>6, <1>0, RoomAhead, ScopeAssumption DEF postlog
<1>7. CASE Woken
  BY <1>7, <1>0, RoomAhead, ScopeAssumption DEF Woken
<1>8. CASE ClearSignal
  BY <1>8, <1>0, RoomAhead, ScopeAssumption DEF ClearSignal
<1>9. CASE ScanDone
  BY <1>9, <1>0, RoomAhead, ScopeAssumption DEF ScanDone
<1>10. CASE Triggered
  <2>1. Behind > 0
    BY <1>10, <1>0 DEF Triggered
  <2>. QED
    BY <1>10, <1>0, <2>1 DEF Triggered, StartCollecting
<1>30. CASE CountSamples
  BY <1>30, <1>0, <1>a DEF CountSamples
<1>31. CASE LimitWait
  BY <1>31, <1>0, <1>a DEF LimitWait
<1>11. CASE NotTriggered
  BY <1>11, <1>0, <1>a DEF NotTriggered
<1>12. CASE Collect
  BY <1>12, <1>0, <1>a DEF Collect
<1>13. CASE Collected
  <2>1. ~isResizing
    BY <1>13 DEF Collected, QuietInv, Quiet
  <2>2. Behind > 0
    BY <1>13, <1>0, RoomAhead DEF Collected
  <2>. QED
    BY <1>13, <1>0, <2>1, <2>2 DEF Collected
<1>14. CASE Wait
  <2>1. Behind > 0
    BY <1>14, <1>0 DEF Wait
  <2>2. CASE TooLong
    BY <1>14, <1>0, <2>1, <2>2 DEF Wait
  <2>3. CASE ~TooLong
    BY <1>14, <1>0, <1>a, <2>3 DEF Wait
  <2>. QED
    BY <2>2, <2>3
<1>15. CASE Waited
  BY <1>15, <1>0, <1>a DEF Waited
<1>16. CASE Claim
  BY <1>16, <1>0, RoomAhead, ScopeAssumption DEF Claim
<1>17. CASE CopySample
  BY <1>17, <1>0, RoomAhead, ScopeAssumption DEF CopySample
<1>18. CASE Release
  BY <1>18, <1>0, RoomAhead, ScopeAssumption DEF Release
<1>19. CASE Send
  BY <1>19, <1>0, <1>a DEF Send
<1>20. CASE stop
  BY <1>20, <1>0, RoomAhead, ScopeAssumption DEF stop
<1>21. CASE Disconnect
  BY <1>21, <1>0, RoomAhead, ScopeAssumption DEF Disconnect
<1>22. CASE RaiseResizing
  BY <1>22, <1>0, RoomAhead, ScopeAssumption DEF RaiseResizing
<1>23. CASE ThreadsLeft
  BY <1>23, <1>0, RoomAhead, ScopeAssumption DEF ThreadsLeft
<1>24. CASE setPlotMode
  BY <1>24, <1>0, RoomAhead, ScopeAssumption DEF setPlotMode
<1>25. CASE start
  <2>1. Quiet
    BY <1>25 DEF QuietInv, start
  <2>. QED
    BY <1>25, <1>0, <2>1 DEF Quiet, start, ResetPointers
<1>26. CASE ConnectionReply
  <2>1. Quiet
    BY <1>26 DEF QuietInv, ConnectionReply
  <2>. QED
    BY <1>26, <1>0, <2>1 DEF Quiet, ConnectionReply, ResetPointers
<1>27. CASE NoReply
  BY <1>27, <1>0, RoomAhead, ScopeAssumption DEF NoReply
<1>28. CASE setXParams
  BY <1>28, <1>0, RoomAhead, ScopeAssumption DEF setXParams
<1>29. CASE UNCHANGED vars
  BY <1>29 DEF vars
<1>. QED
  BY <1>1, <1>2, <1>3, <1>4, <1>5, <1>6, <1>7, <1>8, <1>9, <1>10, <1>11,
     <1>12, <1>13, <1>14, <1>15, <1>16, <1>17, <1>18, <1>19, <1>20, <1>21,
     <1>22, <1>23, <1>24, <1>25, <1>26, <1>27, <1>28, <1>29, <1>30, <1>31
     DEF Next, AudioThread, TriggerThread, triggerTimeDomain, SettingsThread

(* From a trigger to the end of its frame the steps are counted right,      *)
(* wherever the trigger is shown.                                           *)
LEMMA CollectNext ==
  ASSUME Serialised, TypeOK, QuietInv, CollectInv, [Next]_vars
  PROVE  CollectInv'
<1>. USE DEF CollectInv, Showing, Left, TriggerOf, Collecting, Steady
<1>0. /\ scanned \in Nat /\ triggerCount \in Int /\ HalfFrame \in Nat \ {0}
      /\ frame.at \in Int /\ frame.offset \in Int /\ frame.counted \in Int
      /\ xOffsetSamples \in Int /\ holdOffSamples \in Nat
  BY Widths, ScopeAssumption DEF TypeOK, Place
<1>a. /\ HalfFramePlus(holdOffSamples) = HalfFrame + holdOffSamples
      /\ HalfFramePlus(-xOffsetSamples) \in Int
      /\ HalfFrame - xOffsetSamples >= 0 =>
           HalfFramePlus(-xOffsetSamples) = HalfFrame - xOffsetSamples
      /\ HalfFrame - xOffsetSamples < 0 => HalfFramePlus(-xOffsetSamples) <= 0
  <2>1. -xOffsetSamples \in Int /\ HalfFrame + (-xOffsetSamples) = HalfFrame - xOffsetSamples
    BY <1>0
  <2>2. holdOffSamples \in Int /\ HalfFrame + holdOffSamples >= 0
    BY <1>0
  <2>. QED
    BY <2>1, <2>2, HalfFramePlusIs
<1>. USE DEF Settings, Scanning, flags, audio, search, scan, copy, settings
<1>1. CASE prelog
  BY <1>1, <1>0 DEF prelog
<1>2. CASE EnterBuffer
  BY <1>2, <1>0 DEF EnterBuffer
<1>3. CASE log
  BY <1>3, <1>0 DEF log
<1>4. CASE LeaveBuffer
  BY <1>4, <1>0 DEF LeaveBuffer
<1>5. CASE AdvanceWrite
  BY <1>5, <1>0 DEF AdvanceWrite
<1>6. CASE postlog
  BY <1>6, <1>0 DEF postlog
<1>7. CASE Woken
  BY <1>7, <1>0 DEF Woken
<1>8. CASE ClearSignal
  BY <1>8, <1>0 DEF ClearSignal
<1>9. CASE ScanDone
  BY <1>9, <1>0 DEF ScanDone
<1>10. CASE Triggered
  <2>1. frame' = [at |-> scanned + 1 - xOffsetSamples,
                  offset |-> xOffsetSamples, counted |-> xOffsetSamples]
    BY <1>10 DEF Triggered, StartCollecting
  <2>2. /\ frame'.at = scanned + 1 - xOffsetSamples /\ frame'.offset = xOffsetSamples
        /\ frame'.counted = xOffsetSamples
    BY <2>1
  <2>3. triggerPhase' = "collecting" /\ triggerPc' = "count" /\ scanned' = scanned
    BY <1>10 DEF Triggered, StartCollecting
  <2>. QED
    BY <1>0, <2>2, <2>3
<1>30. CASE CountSamples
  <2>1. /\ triggerPc = "count" /\ triggerPc' = "loop" /\ scanned' = scanned + 1
        /\ triggerPhase' = triggerPhase /\ triggerCount' = HalfFramePlus(-xOffsetSamples)
    BY <1>30 DEF CountSamples, Advance
  <2>2. CASE frame = Nowhere
    BY <1>30, <2>1, <2>2 DEF CountSamples
  <2>3. CASE frame # Nowhere
    <3>1. frame' = [frame EXCEPT !.counted = xOffsetSamples]
      BY <1>30, <2>3 DEF CountSamples
    <3>2. /\ frame'.at = frame.at /\ frame'.offset = frame.offset
          /\ frame'.counted = xOffsetSamples
      BY <3>1 DEF TypeOK, Place
    <3>. QED
      BY <1>0, <1>a, <2>1, <2>3, <3>2
  <2>. QED
    BY <2>2, <2>3
<1>31. CASE LimitWait
  BY <1>31, <1>0 DEF LimitWait
<1>11. CASE NotTriggered
  BY <1>11, <1>0 DEF NotTriggered, Advance
<1>12. CASE Collect
  BY <1>12, <1>0 DEF Collect, Advance
<1>13. CASE Collected
  <2>1. ~isResizing
    BY <1>13 DEF Collected, QuietInv, Quiet
  <2>. QED
    BY <1>13, <1>0, <1>a, <2>1 DEF Collected
<1>14. CASE Wait
  <2>1. triggerPhase' = "waiting" /\ triggerPc' \in {"loop", "limit"}
    BY <1>14 DEF Wait
  <2>. QED
    BY <2>1
<1>15. CASE Waited
  BY <1>15, <1>0 DEF Waited, Advance
<1>16. CASE Claim
  BY <1>16, <1>0 DEF Claim
<1>17. CASE CopySample
  BY <1>17, <1>0 DEF CopySample
<1>18. CASE Release
  BY <1>18, <1>0 DEF Release
<1>19. CASE Send
  BY <1>19, <1>0 DEF Send, Advance
<1>20. CASE stop
  BY <1>20, <1>0 DEF stop
<1>21. CASE Disconnect
  BY <1>21, <1>0 DEF Disconnect
<1>22. CASE RaiseResizing
  BY <1>22, <1>0 DEF RaiseResizing
<1>23. CASE ThreadsLeft
  BY <1>23, <1>0 DEF ThreadsLeft
<1>24. CASE setPlotMode
  <2>1. Quiet
    BY <1>24 DEF QuietInv, Serialised, setPlotMode
  <2>. QED
    BY <1>24, <1>0, <2>1 DEF Quiet, setPlotMode
<1>25. CASE start
  <2>1. Quiet
    BY <1>25 DEF QuietInv, Serialised, start
  <2>. QED
    BY <1>25, <1>0, <2>1 DEF Quiet, start, ResetPointers
<1>26. CASE ConnectionReply
  <2>1. Quiet
    BY <1>26 DEF QuietInv, Serialised, ConnectionReply
  <2>. QED
    BY <1>26, <1>0, <2>1 DEF Quiet, ConnectionReply, ResetPointers
<1>27. CASE NoReply
  BY <1>27, <1>0 DEF NoReply
<1>28. CASE setXParams
  BY <1>28, <1>0 DEF setXParams
<1>29. CASE UNCHANGED vars
  BY <1>29 DEF vars
<1>. QED
  BY <1>1, <1>2, <1>3, <1>4, <1>5, <1>6, <1>7, <1>8, <1>9, <1>10, <1>11,
     <1>12, <1>13, <1>14, <1>15, <1>16, <1>17, <1>18, <1>19, <1>20, <1>21,
     <1>22, <1>23, <1>24, <1>25, <1>26, <1>27, <1>28, <1>29, <1>30, <1>31
     DEF Next, AudioThread, TriggerThread, triggerTimeDomain, SettingsThread

(* triggerPointer goes on standing for the trigger while the ring turns.    *)
LEMMA SlotNext ==
  ASSUME Serialised, RoomAhead, FrameFits, TypeOK, QuietInv, PointerInv, CollectInv,
         SlotInv, [Next]_vars
  PROVE  SlotInv'
<1>. USE DEF SlotInv, Showing, Steady
<1>0. /\ scanned \in Nat /\ logged \in Nat /\ MaxAhead \in Nat /\ triggerCount \in Int
      /\ HalfFrame \in Nat \ {0} /\ channelWidth \in Nat \ {0}
      /\ frame.at \in Int /\ frame.offset \in Int
      /\ xOffsetSamples \in Int
      /\ -channelWidth < xOffsetSamples
      /\ xOffsetSamples + HalfFrame + 1 + MaxAhead <= channelWidth
      /\ frame.offset + HalfFrame + 1 + MaxAhead <= channelWidth
      /\ 2 * HalfFrame + MaxAhead <= channelWidth
      /\ writePointer \in 0 .. channelWidth - 1
      /\ readPointer \in 0 .. channelWidth - 1
      /\ triggerPointer \in 0 .. channelWidth - 1
  <2>1. /\ xOffsetSamples \in Offsets /\ frame.offset \in Offsets /\ Offsets \subseteq Int
        /\ frame.at \in Int
    BY ScopeAssumption DEF TypeOK, Place
  <2>2. \A x \in Offsets : -channelWidth < x /\ x + HalfFrame + 1 + MaxAhead <= channelWidth
    BY <2>1, Widths DEF FrameFits
  <2>3. 2 * HalfFrame + MaxAhead <= channelWidth
    BY DEF FrameFits
  <2>4. /\ xOffsetSamples \in Int /\ -channelWidth < xOffsetSamples
        /\ xOffsetSamples + HalfFrame + 1 + MaxAhead <= channelWidth
        /\ frame.offset \in Int
        /\ frame.offset + HalfFrame + 1 + MaxAhead <= channelWidth
    BY <2>1, <2>2
  <2>5. /\ scanned \in Nat /\ logged \in Nat /\ MaxAhead \in Nat /\ triggerCount \in Int
        /\ writePointer \in 0 .. channelWidth - 1
        /\ readPointer \in 0 .. channelWidth - 1
        /\ triggerPointer \in 0 .. channelWidth - 1
    BY ScopeAssumption DEF TypeOK
  <2>. QED
    BY <2>1, <2>3, <2>4, <2>5, Widths
<1>. USE DEF Settings, Scanning, flags, audio, search, scan, copy, settings
<1>1. CASE prelog
  BY <1>1 DEF prelog
<1>2. CASE EnterBuffer
  BY <1>2 DEF EnterBuffer
<1>3. CASE log
  BY <1>3 DEF log
<1>4. CASE LeaveBuffer
  BY <1>4 DEF LeaveBuffer
<1>5. CASE AdvanceWrite
  <2>1. writePointer' = IF writePointer + 1 < channelWidth THEN writePointer + 1 ELSE 0
    BY <1>5, <1>0, NextIndex DEF AdvanceWrite
  <2>2. /\ logged' = logged + 1
        /\ UNCHANGED <<frame, triggerPhase, triggerPc, triggerPointer>>
    BY <1>5 DEF AdvanceWrite
  <2>3. SUFFICES ASSUME frame # Nowhere, Steady(frame), triggerPhase = "collecting" \/ Showing
                 PROVE  LET d == frame.at - logged - 2
                        IN  \/ triggerPointer = writePointer' + d
                            \/ triggerPointer = writePointer' + d + channelWidth
                            \/ triggerPointer = writePointer' + d - channelWidth
    BY <1>0, <2>2
  <2>4. frame.at - logged - 1 > -channelWidth
    <3>1. scanned + 1 <= TriggerOf + Collecting(frame.offset)
      <4>1. CASE triggerPc = "count"
        BY <1>0, <2>3, <4>1 DEF CollectInv, TriggerOf, Collecting
      <4>2. CASE triggerPc # "count"
        BY <1>0, <2>3, <4>2 DEF CollectInv, Left, TriggerOf, Collecting
      <4>. QED
        BY <4>1, <4>2
    <3>2. logged - scanned < MaxAhead
      BY <1>0, <1>5 DEF PointerInv, Behind, Logging, AdvanceWrite
    <3>. QED
      BY <1>0, <3>1, <3>2 DEF TriggerOf, Collecting
  <2>. QED
    BY <1>0, <2>1, <2>3, <2>4
<1>6. CASE postlog
  BY <1>6 DEF postlog
<1>7. CASE Woken
  BY <1>7 DEF Woken
<1>8. CASE ClearSignal
  BY <1>8 DEF ClearSignal
<1>9. CASE ScanDone
  BY <1>9 DEF ScanDone
<1>10. CASE Triggered
  <2>1. frame' = [at |-> scanned + 1 - xOffsetSamples,
                  offset |-> xOffsetSamples, counted |-> xOffsetSamples]
    BY <1>10 DEF Triggered, StartCollecting
  <2>2. frame'.at = scanned + 1 - xOffsetSamples /\ frame'.offset = xOffsetSamples
    BY <2>1
  <2>3. triggerPointer' = (readPointer - xOffsetSamples + channelWidth) % channelWidth
    BY <1>10 DEF Triggered, StartCollecting
  <2>4. UNCHANGED <<writePointer, logged>>
    BY <1>10 DEF Triggered
  <2>. DEFINE p == readPointer - xOffsetSamples + channelWidth
  <2>5. p \in Int /\ 0 <= p /\ p < 3 * channelWidth
    BY <1>0
  <2>6. triggerPointer' \in {p, p - channelWidth, p - 2 * channelWidth}
        /\ triggerPointer' \in 0 .. channelWidth - 1
    <3>1. \/ p \in 0 .. channelWidth - 1
          \/ p \in channelWidth .. 2 * channelWidth - 1
          \/ p \in 2 * channelWidth .. 3 * channelWidth - 1
      BY <1>0, <2>5
    <3>2. triggerPointer' = p % channelWidth
      BY <2>3
    <3>. HIDE DEF p
    <3>. QED
      BY <1>0, <2>5, <3>1, <3>2, Modulo
  <2>7. /\ Behind \in Nat /\ Behind > 0 /\ Behind <= MaxAhead
        /\ \/ writePointer = readPointer + Behind
           \/ writePointer = readPointer + Behind - channelWidth
    BY <1>10, <1>0, RoomAhead DEF PointerInv, Triggered, RoomAhead
  <2>8. frame'.at - logged - 1 = -Behind - xOffsetSamples
    BY <1>0, <2>2 DEF Behind
  <2>. QED
    BY <1>0, <2>2, <2>4, <2>6, <2>7, <2>8
<1>30. CASE CountSamples
  <2>1. /\ triggerPc = "count" /\ triggerPhase' = triggerPhase
        /\ UNCHANGED <<logged, writePointer, triggerPointer>>
    BY <1>30 DEF CountSamples
  <2>2. CASE frame = Nowhere
    BY <1>30, <2>2 DEF CountSamples
  <2>3. CASE frame # Nowhere
    <3>1. frame' = [frame EXCEPT !.counted = xOffsetSamples]
      BY <1>30, <2>3 DEF CountSamples
    <3>2. frame'.at = frame.at
      BY <3>1 DEF TypeOK, Place
    <3>3. Steady(frame) /\ triggerPhase = "collecting"
      BY <2>1, <2>3 DEF CollectInv
    <3>. QED
      BY <2>1, <2>3, <3>2, <3>3
  <2>. QED
    BY <2>2, <2>3
<1>31. CASE LimitWait
  BY <1>31, <1>0 DEF LimitWait, CollectInv
<1>11. CASE NotTriggered
  BY <1>11 DEF NotTriggered
<1>12. CASE Collect
  BY <1>12 DEF Collect
<1>13. CASE Collected
  <2>1. ~isResizing
    BY <1>13 DEF Collected, QuietInv, Quiet
  <2>. QED
    BY <1>13, <2>1 DEF Collected
<1>14. CASE Wait
  <2>1. /\ triggerPhase' = "waiting" /\ triggerPc' \in {"loop", "limit"}
    BY <1>14 DEF Wait
  <2>. QED
    BY <2>1
<1>15. CASE Waited
  BY <1>15 DEF Waited
<1>16. CASE Claim
  BY <1>16 DEF Claim, CollectInv
<1>17. CASE CopySample
  BY <1>17 DEF CopySample, CollectInv
<1>18. CASE Release
  BY <1>18 DEF Release, CollectInv
<1>19. CASE Send
  BY <1>19 DEF Send, CollectInv
<1>20. CASE stop
  BY <1>20 DEF stop
<1>21. CASE Disconnect
  BY <1>21 DEF Disconnect
<1>22. CASE RaiseResizing
  BY <1>22 DEF RaiseResizing
<1>23. CASE ThreadsLeft
  BY <1>23 DEF ThreadsLeft
<1>24. CASE setPlotMode
  BY <1>24 DEF setPlotMode
<1>25. CASE start
  BY <1>25 DEF start, ResetPointers
<1>26. CASE ConnectionReply
  BY <1>26 DEF ConnectionReply, ResetPointers
<1>27. CASE NoReply
  BY <1>27 DEF NoReply
<1>28. CASE setXParams
  BY <1>28 DEF setXParams
<1>29. CASE UNCHANGED vars
  BY <1>29 DEF vars
<1>. QED
  BY <1>1, <1>2, <1>3, <1>4, <1>5, <1>6, <1>7, <1>8, <1>9, <1>10, <1>11,
     <1>12, <1>13, <1>14, <1>15, <1>16, <1>17, <1>18, <1>19, <1>20, <1>21,
     <1>22, <1>23, <1>24, <1>25, <1>26, <1>27, <1>28, <1>29, <1>30, <1>31
     DEF Next, AudioThread, TriggerThread, triggerTimeDomain, SettingsThread

(* Logging overwrites the oldest sample of the ring and no other.           *)
LEMMA RingNext ==
  ASSUME Serialised, TypeOK, QuietInv, RingInv, [Next]_vars
  PROVE  RingInv'
<1>. USE DEF RingInv, Top
<1>0. /\ logged \in Nat /\ since \in Nat /\ channelWidth \in Nat \ {0}
      /\ writePointer \in 0 .. channelWidth - 1
      /\ buffer \in [0 .. channelWidth - 1 -> 0 .. MaxSamples]
  BY Widths, ScopeAssumption DEF TypeOK
<1>. USE DEF Settings, Scanning, flags, audio, search, scan, copy, settings
<1>1. CASE prelog
  BY <1>1 DEF prelog
<1>2. CASE EnterBuffer
  BY <1>2 DEF EnterBuffer
<1>3. CASE log
  <2>1. /\ buffer' = [buffer EXCEPT ![writePointer] = logged + 1]
        /\ Top = logged /\ Top' = logged + 1
        /\ UNCHANGED <<writePointer, logged, since>>
    BY <1>3 DEF log
  <2>2. SUFFICES ASSUME NEW p \in 0 .. channelWidth - 1, NEW s \in Nat,
                        s > since, s <= logged + 1, s > logged + 1 - channelWidth,
                        \/ p = writePointer + s - logged - 1
                        \/ p = writePointer + s - logged - 1 + channelWidth
                 PROVE  buffer'[p] = s
    BY <1>0, <2>1
  <2>3. CASE s = logged + 1
    BY <1>0, <2>1, <2>2, <2>3
  <2>4. CASE s <= logged
    <3>1. p # writePointer /\ s > logged - channelWidth
      BY <1>0, <2>2, <2>4
    <3>2. buffer[p] = s
      BY <2>1, <2>2, <2>4, <3>1
    <3>. QED
      BY <1>0, <2>1, <3>1, <3>2
  <2>. QED
    BY <1>0, <2>2, <2>3, <2>4
<1>4. CASE LeaveBuffer
  BY <1>4 DEF LeaveBuffer
<1>5. CASE AdvanceWrite
  <2>1. writePointer' = IF writePointer + 1 < channelWidth THEN writePointer + 1 ELSE 0
    BY <1>5, <1>0, NextIndex DEF AdvanceWrite
  <2>2. /\ logged' = logged + 1 /\ Top = logged + 1 /\ Top' = logged + 1
        /\ UNCHANGED <<buffer, since>>
    BY <1>5 DEF AdvanceWrite
  <2>3. SUFFICES ASSUME NEW p \in 0 .. channelWidth - 1, NEW s \in Nat,
                        s > since, s <= logged + 1, s > logged + 1 - channelWidth,
                        \/ p = writePointer' + s - logged - 2
                        \/ p = writePointer' + s - logged - 2 + channelWidth
                 PROVE  buffer[p] = s
    BY <1>0, <2>2
  <2>4. \/ p = writePointer + s - logged - 1
        \/ p = writePointer + s - logged - 1 + channelWidth
    BY <1>0, <2>1, <2>3
  <2>. QED
    BY <1>0, <2>2, <2>3, <2>4
<1>6. CASE postlog
  BY <1>6 DEF postlog
<1>7. CASE Woken
  BY <1>7 DEF Woken
<1>8. CASE ClearSignal
  BY <1>8 DEF ClearSignal
<1>9. CASE ScanDone
  BY <1>9 DEF ScanDone
<1>10. CASE Triggered
  BY <1>10 DEF Triggered, StartCollecting
<1>11. CASE NotTriggered
  BY <1>11 DEF NotTriggered
<1>12. CASE Collect
  BY <1>12 DEF Collect
<1>13. CASE Collected
  <2>1. UNCHANGED <<audio, since>>
    BY <1>13 DEF Collected
  <2>. QED
    BY <2>1
<1>14. CASE Wait
  <2>1. UNCHANGED <<audio, since>>
    BY <1>14 DEF Wait
  <2>. QED
    BY <2>1
<1>15. CASE Waited
  BY <1>15 DEF Waited
<1>16. CASE Claim
  BY <1>16 DEF Claim
<1>17. CASE CopySample
  BY <1>17 DEF CopySample
<1>18. CASE Release
  BY <1>18 DEF Release
<1>19. CASE Send
  BY <1>19 DEF Send
<1>20. CASE stop
  BY <1>20 DEF stop
<1>21. CASE Disconnect
  BY <1>21 DEF Disconnect
<1>22. CASE RaiseResizing
  BY <1>22 DEF RaiseResizing
<1>23. CASE ThreadsLeft
  BY <1>23 DEF ThreadsLeft
<1>24. CASE setPlotMode
  BY <1>24 DEF setPlotMode
<1>25. CASE start
  <2>1. Quiet
    BY <1>25 DEF QuietInv, Serialised, start
  <2>2. since' = logged /\ logged' = logged /\ audioPc' = "idle"
    BY <1>25, <2>1 DEF Quiet, start, ResetPointers
  <2>. QED
    BY <1>0, <2>2
<1>26. CASE ConnectionReply
  <2>1. Quiet
    BY <1>26 DEF QuietInv, Serialised, ConnectionReply
  <2>2. since' = logged /\ logged' = logged /\ audioPc' = "idle"
    BY <1>26, <2>1 DEF Quiet, ConnectionReply, ResetPointers
  <2>. QED
    BY <1>0, <2>2
<1>27. CASE NoReply
  BY <1>27 DEF NoReply
<1>28. CASE setXParams
  BY <1>28 DEF setXParams
<1>30. CASE CountSamples
  BY <1>30 DEF CountSamples
<1>31. CASE LimitWait
  BY <1>31 DEF LimitWait
<1>29. CASE UNCHANGED vars
  BY <1>29 DEF vars
<1>. QED
  BY <1>1, <1>2, <1>3, <1>4, <1>5, <1>6, <1>7, <1>8, <1>9, <1>10, <1>11,
     <1>12, <1>13, <1>14, <1>15, <1>16, <1>17, <1>18, <1>19, <1>20, <1>21,
     <1>22, <1>23, <1>24, <1>25, <1>26, <1>27, <1>28, <1>29, <1>30, <1>31
     DEF Next, AudioThread, TriggerThread, triggerTimeDomain, SettingsThread

(* A sample that is copied is the one the frame has in its place: all of    *)
(* the frame has been logged, and none of it has been overwritten.          *)
LEMMA CopyStep ==
  ASSUME RoomAhead, FrameFits, TypeOK, PointerInv, CollectInv, SlotInv, RingInv,
         triggerPc = "copy", copied < frameWidth, frame # Nowhere, Steady(frame),
         FirstOfFrame > since
  PROVE  buffer[(startptr + copied) % channelWidth] = FirstOfFrame + copied
<1>0. /\ scanned \in Nat /\ logged \in Nat /\ since \in Nat /\ MaxAhead \in Nat
      /\ frameWidth \in Nat /\ HalfFrame \in Nat \ {0} /\ frameWidth <= 2 * HalfFrame + 1
      /\ channelWidth \in Nat \ {0} /\ frameWidth <= channelWidth
      /\ writePointer \in 0 .. channelWidth - 1
      /\ triggerPointer \in 0 .. channelWidth - 1
      /\ copied \in Nat /\ copied \in 0 .. channelWidth /\ HalfFrame < channelWidth
  BY Widths, ScopeAssumption DEF TypeOK
<1>1. /\ frame.at \in Int /\ frame.offset \in Int
      /\ frame.offset + HalfFrame + 1 + MaxAhead <= channelWidth
      /\ 2 * HalfFrame + MaxAhead <= channelWidth
  <2>1. frame.at \in Int /\ frame.offset \in Offsets /\ Offsets \subseteq Int
    BY ScopeAssumption DEF TypeOK, Place
  <2>. QED
    BY <2>1 DEF FrameFits
<1>. DEFINE s == FirstOfFrame + copied
            q == (startptr + copied) % channelWidth
<1>2. /\ scanned + 1 = frame.at + frame.offset + Collecting(frame.offset)
      /\ \/ triggerPointer = writePointer + (frame.at - logged - 1)
         \/ triggerPointer = writePointer + (frame.at - logged - 1) + channelWidth
         \/ triggerPointer = writePointer + (frame.at - logged - 1) - channelWidth
  BY DEF CollectInv, SlotInv, Showing, TriggerOf, Steady
<1>3. scanned + 1 <= logged /\ Top <= scanned + MaxAhead /\ Top \in Nat
  BY <1>0 DEF PointerInv, Behind, Showing, Holding, Logging, Top
<1>4. s = frame.at - HalfFrame + copied
  BY DEF FirstOfFrame
<1>5. s \in Nat /\ s > since /\ s <= logged /\ s > Top - channelWidth
  BY <1>0, <1>1, <1>2, <1>3, <1>4 DEF Collecting, FirstOfFrame
<1>6. /\ \/ startptr = triggerPointer - HalfFrame
         \/ startptr = triggerPointer - HalfFrame + channelWidth
      /\ startptr \in 0 .. channelWidth - 1
  <2>. DEFINE x == triggerPointer - HalfFrame + channelWidth
  <2>1. x \in Int /\ (x \in 0 .. channelWidth - 1 \/ x \in channelWidth .. 2 * channelWidth - 1)
    BY <1>0
  <2>2. startptr = x % channelWidth
    BY DEF startptr
  <2>. HIDE DEF x
  <2>3. (startptr = x \/ startptr = x - channelWidth) /\ startptr \in 0 .. channelWidth - 1
    BY <1>0, <2>1, <2>2, Modulo
  <2>. QED
    BY <1>0, <2>3 DEF x
<1>7. /\ q \in 0 .. channelWidth - 1
      /\ q = startptr + copied \/ q = startptr + copied - channelWidth
  BY <1>0, <1>6, Wrap
<1>. HIDE DEF q, s
<1>8. \/ q = writePointer + s - logged - 1
      \/ q = writePointer + s - logged - 1 + channelWidth
  <2>. DEFINE d == frame.at - logged - 1
  <2>1. s - logged - 1 = d - HalfFrame + copied
    BY <1>0, <1>1, <1>4
  <2>2. /\ q \in Int /\ 0 <= q /\ q < channelWidth
        /\ \/ q = triggerPointer - HalfFrame + copied
           \/ q = triggerPointer - HalfFrame + copied - channelWidth
           \/ q = triggerPointer - HalfFrame + copied + channelWidth
    BY <1>0, <1>6, <1>7
  <2>3. /\ d \in Int
        /\ \/ triggerPointer = writePointer + d
           \/ triggerPointer = writePointer + d + channelWidth
           \/ triggerPointer = writePointer + d - channelWidth
    BY <1>0, <1>1, <1>2
  <2>4. s - logged - 1 < 0 /\ s - logged - 1 >= -channelWidth
    BY <1>0, <1>5 DEF Top
  <2>. HIDE DEF d
  <2>5. \/ q = writePointer + (d - HalfFrame + copied)
        \/ q = writePointer + (d - HalfFrame + copied) + channelWidth
    BY <1>0, <2>1, <2>2, <2>3, <2>4
  <2>. QED
    BY <1>0, <1>5, <2>1, <2>3, <2>5
<1>9. s <= Top
  BY <1>0, <1>5 DEF Top
<1>10. buffer[q] = s
  BY <1>5, <1>7, <1>8, <1>9 DEF RingInv
<1>. QED
  BY <1>10 DEF q, s

(* The copy goes on from the beginning of the frame.                        *)
LEMMA CopyNext ==
  ASSUME Serialised, RoomAhead, FrameFits, TypeOK, QuietInv, PointerInv, CollectInv,
         SlotInv, RingInv, CopyInv, [Next]_vars
  PROVE  CopyInv'
<1>. USE DEF CopyInv, FirstOfFrame, Steady
<1>0. copied \in 0 .. frameWidth /\ frameWidth \in Nat
      /\ outBuffer \in [0 .. frameWidth - 1 -> 0 .. MaxSamples]
  BY Widths DEF TypeOK
<1>. USE DEF Settings, Scanning, flags, audio, search, scan, copy, settings
<1>1. CASE prelog
  BY <1>1 DEF prelog
<1>2. CASE EnterBuffer
  BY <1>2 DEF EnterBuffer
<1>3. CASE log
  BY <1>3 DEF log
<1>4. CASE LeaveBuffer
  BY <1>4 DEF LeaveBuffer
<1>5. CASE AdvanceWrite
  BY <1>5 DEF AdvanceWrite
<1>6. CASE postlog
  BY <1>6 DEF postlog
<1>7. CASE Woken
  BY <1>7 DEF Woken
<1>8. CASE ClearSignal
  BY <1>8 DEF ClearSignal
<1>9. CASE ScanDone
  BY <1>9 DEF ScanDone
<1>10. CASE Triggered
  BY <1>10 DEF Triggered, StartCollecting
<1>11. CASE NotTriggered
  BY <1>11 DEF NotTriggered
<1>12. CASE Collect
  BY <1>12 DEF Collect
<1>13. CASE Collected
  <2>1. triggerPc' \notin {"copy", "send"}
    BY <1>13 DEF Collected
  <2>. QED
    BY <2>1
<1>14. CASE Wait
  <2>1. triggerPc' \notin {"copy", "send"}
    BY <1>14 DEF Wait
  <2>. QED
    BY <2>1
<1>15. CASE Waited
  BY <1>15 DEF Waited
<1>16. CASE Claim
  <2>1. copied' = 0 /\ triggerPc' = "copy"
    BY <1>16 DEF Claim
  <2>. QED
    BY <2>1
<1>17. CASE CopySample
  <2>1. /\ triggerPc = "copy" /\ triggerPc' = "copy" /\ copied < frameWidth
        /\ copied' = copied + 1 /\ UNCHANGED <<frame, since>>
        /\ outBuffer' = [outBuffer EXCEPT
                           ![copied] = buffer[(startptr + copied) % channelWidth]]
    BY <1>17 DEF CopySample
  <2>2. SUFFICES ASSUME frame # Nowhere, Steady(frame), FirstOfFrame > since,
                        NEW i \in 0 .. frameWidth - 1, i < copied + 1
                 PROVE  outBuffer'[i] = FirstOfFrame + i
    BY <2>1
  <2>3. CASE i = copied
    <3>1. buffer[(startptr + copied) % channelWidth] = FirstOfFrame + copied
      BY <2>1, <2>2, CopyStep
    <3>. QED
      BY <1>0, <2>1, <2>2, <2>3, <3>1
  <2>4. CASE i < copied
    <3>1. outBuffer[i] = FirstOfFrame + i
      BY <2>1, <2>2, <2>4
    <3>. QED
      BY <1>0, <2>1, <2>2, <2>4, <3>1
  <2>. QED
    BY <1>0, <2>2, <2>3, <2>4
<1>18. CASE Release
  BY <1>18 DEF Release
<1>19. CASE Send
  BY <1>19 DEF Send
<1>20. CASE stop
  BY <1>20 DEF stop
<1>21. CASE Disconnect
  BY <1>21 DEF Disconnect
<1>22. CASE RaiseResizing
  BY <1>22 DEF RaiseResizing
<1>23. CASE ThreadsLeft
  BY <1>23 DEF ThreadsLeft
<1>24. CASE setPlotMode
  <2>1. triggerPc = "sleep" /\ triggerPc' = triggerPc
    BY <1>24 DEF QuietInv, Quiet, Serialised, setPlotMode
  <2>. QED
    BY <2>1
<1>25. CASE start
  <2>1. triggerPc = "sleep" /\ triggerPc' = triggerPc
    BY <1>25 DEF QuietInv, Quiet, Serialised, start, ResetPointers
  <2>. QED
    BY <2>1
<1>26. CASE ConnectionReply
  <2>1. triggerPc = "sleep" /\ triggerPc' = triggerPc
    BY <1>26 DEF QuietInv, Quiet, Serialised, ConnectionReply, ResetPointers
  <2>. QED
    BY <2>1
<1>27. CASE NoReply
  BY <1>27 DEF NoReply
<1>28. CASE setXParams
  BY <1>28 DEF setXParams
<1>30. CASE CountSamples
  BY <1>30 DEF CountSamples
<1>31. CASE LimitWait
  BY <1>31 DEF LimitWait
<1>29. CASE UNCHANGED vars
  BY <1>29 DEF vars
<1>. QED
  BY <1>1, <1>2, <1>3, <1>4, <1>5, <1>6, <1>7, <1>8, <1>9, <1>10, <1>11,
     <1>12, <1>13, <1>14, <1>15, <1>16, <1>17, <1>18, <1>19, <1>20, <1>21,
     <1>22, <1>23, <1>24, <1>25, <1>26, <1>27, <1>28, <1>29, <1>30, <1>31
     DEF Next, AudioThread, TriggerThread, triggerTimeDomain, SettingsThread

(* After a frame, half a frame is waited before the next trigger counts.    *)
LEMMA ApartNext ==
  ASSUME Serialised, RoomAhead, TypeOK, QuietInv, PointerInv, CollectInv, ApartInv,
         [Next]_vars
  PROVE  ApartInv'
<1>. USE DEF ApartInv, Showing, SentAt, TriggerOf, Left, Steady
<1>0. /\ scanned \in Nat /\ since \in Nat /\ logged \in Nat /\ triggerCount \in Int
      /\ HalfFrame \in Nat \ {0} /\ frameWidth \in Nat
      /\ frameWidth <= 2 * HalfFrame + 1
      /\ frame.at \in Int /\ frame.offset \in Int
      /\ last.at \in Int /\ last.offset \in Int
      /\ Collecting(last.counted) \in Int /\ Collecting(frame.counted) \in Int
      /\ xOffsetSamples \in Int /\ holdOffSamples \in Nat
  <2>1. /\ frame.at \in Int /\ frame.offset \in Offsets /\ frame.counted \in Offsets
        /\ last.at \in Int /\ last.offset \in Offsets /\ last.counted \in Offsets
        /\ xOffsetSamples \in Offsets /\ Offsets \subseteq Int
    BY ScopeAssumption DEF TypeOK, Place
  <2>2. HalfFrame \in Nat \ {0} /\ frameWidth \in Nat /\ frameWidth <= 2 * HalfFrame + 1
    BY Widths
  <2>3. /\ frame.offset \in Int /\ frame.counted \in Int
        /\ last.offset \in Int /\ last.counted \in Int /\ xOffsetSamples \in Int
    BY <2>1
  <2>4. /\ scanned \in Nat /\ since \in Nat /\ logged \in Nat /\ triggerCount \in Int
        /\ holdOffSamples \in Nat
    BY ScopeAssumption DEF TypeOK
  <2>5. Collecting(last.counted) \in Int /\ Collecting(frame.counted) \in Int
    BY <2>2, <2>3 DEF Collecting
  <2>. QED
    BY <2>1, <2>2, <2>5, <2>3, <2>4
<1>a. HalfFramePlus(holdOffSamples) = HalfFrame + holdOffSamples
  <2>1. holdOffSamples \in Int /\ HalfFrame + holdOffSamples >= 0
    BY <1>0
  <2>. QED
    BY <2>1, HalfFramePlusIs
<1>. USE DEF Settings, Scanning, flags, audio, search, scan, copy, settings
<1>1. CASE prelog
  BY <1>1, <1>0 DEF prelog
<1>2. CASE EnterBuffer
  BY <1>2, <1>0 DEF EnterBuffer
<1>3. CASE log
  BY <1>3, <1>0 DEF log
<1>4. CASE LeaveBuffer
  BY <1>4, <1>0 DEF LeaveBuffer
<1>5. CASE AdvanceWrite
  BY <1>5, <1>0 DEF AdvanceWrite
<1>6. CASE postlog
  BY <1>6, <1>0 DEF postlog
<1>7. CASE Woken
  BY <1>7, <1>0 DEF Woken
<1>8. CASE ClearSignal
  BY <1>8, <1>0 DEF ClearSignal
<1>9. CASE ScanDone
  BY <1>9, <1>0 DEF ScanDone
<1>10. CASE Triggered
  <2>1. frame' = [at |-> scanned + 1 - xOffsetSamples,
                  offset |-> xOffsetSamples, counted |-> xOffsetSamples]
    BY <1>10 DEF Triggered, StartCollecting
  <2>2. frame'.at = scanned + 1 - xOffsetSamples /\ frame'.offset = xOffsetSamples
    BY <2>1
  <2>3. /\ triggerPhase = "primed" /\ triggerPhase' = "collecting"
        /\ triggerPc' = "count" /\ scanned' = scanned
        /\ UNCHANGED <<last, since, settingsPc>>
    BY <1>10 DEF Triggered, StartCollecting
  <2>. QED
    BY <1>0, <2>2, <2>3
<1>30. CASE CountSamples
  <2>1. /\ triggerPc = "count" /\ triggerPc' = "loop" /\ scanned' = scanned + 1
        /\ UNCHANGED <<last, since, settingsPc, triggerPhase>>
        /\ triggerPhase = "collecting"
    BY <1>30 DEF CountSamples, Advance, CollectInv
  <2>2. CASE frame = Nowhere
    BY <1>30, <1>0, <2>1, <2>2 DEF CountSamples
  <2>3. CASE frame # Nowhere
    <3>1. frame' = [frame EXCEPT !.counted = xOffsetSamples]
      BY <1>30, <2>3 DEF CountSamples
    <3>2. frame'.at = frame.at /\ frame'.offset = frame.offset
      BY <3>1 DEF TypeOK, Place
    <3>. QED
      BY <1>0, <2>1, <2>3, <3>2
  <2>. QED
    BY <2>2, <2>3
<1>31. CASE LimitWait
  <2>1. /\ triggerPc = "limit" /\ triggerPc' = "loop" /\ scanned' = scanned + 1
        /\ UNCHANGED <<last, since, settingsPc, triggerPhase, frame>>
        /\ triggerPhase = "waiting"
        /\ triggerCount' = HalfFrame + holdOffSamples
    BY <1>31, <1>a DEF LimitWait, Advance, CollectInv
  <2>. QED
    BY <1>0, <2>1
<1>11. CASE NotTriggered
  BY <1>11, <1>0 DEF NotTriggered, Advance
<1>12. CASE Collect
  BY <1>12, <1>0 DEF Collect, Advance
<1>13. CASE Collected
  <2>1. ~isResizing
    BY <1>13 DEF Collected, QuietInv, Quiet
  <2>. QED
    BY <1>13, <1>0, <1>a, <2>1 DEF Collected
<1>14. CASE Wait
  <2>1. /\ triggerPc = "loop" /\ triggerPhase = "waiting" /\ triggerCount > 1
        /\ triggerPhase' = "waiting" /\ triggerCount' = triggerCount - 1
        /\ UNCHANGED <<last, since, settingsPc, frame>>
        /\ \/ triggerPc' = "limit" /\ scanned' = scanned
           \/ triggerPc' = "loop" /\ scanned' = scanned + 1
    BY <1>14 DEF Wait, Advance
  <2>. QED
    BY <1>0, <2>1
<1>15. CASE Waited
  BY <1>15, <1>0 DEF Waited, Advance
<1>16. CASE Claim
  BY <1>16, <1>0 DEF Claim
<1>17. CASE CopySample
  BY <1>17, <1>0 DEF CopySample
<1>18. CASE Release
  BY <1>18, <1>0 DEF Release
<1>19. CASE Send
  <2>1. CASE frame = Nowhere
    BY <1>19, <2>1 DEF Send, Shown
  <2>2. CASE frame # Nowhere
    <3>1. last' = [frame EXCEPT !.at = LastOfFrame]
      BY <1>19, <2>2 DEF Send, Shown
    <3>2. /\ last'.offset = frame.offset /\ last'.counted = frame.counted
          /\ last'.at = frame.at - HalfFrame + frameWidth - 1
      BY <3>1 DEF LastOfFrame, FirstOfFrame, TypeOK, Place
    <3>3. /\ triggerPhase' = "waiting" /\ triggerPc' = "loop" /\ scanned' = scanned + 1
          /\ triggerCount' = triggerCount /\ triggerCount >= HalfFrame
          /\ scanned + 1 = TriggerOf + Collecting(frame.counted)
      BY <1>19, <2>2 DEF Send, Advance, CollectInv
    <3>4. Steady(last)' => last'.at <= scanned'
      BY <1>0, <3>2, <3>3 DEF Collecting
    <3>5. SentAt' = scanned'
      BY <1>0, <3>2, <3>3
    <3>. QED
      BY <1>0, <3>3, <3>4, <3>5
  <2>. QED
    BY <2>1, <2>2
<1>20. CASE stop
  BY <1>20, <1>0 DEF stop
<1>21. CASE Disconnect
  BY <1>21, <1>0 DEF Disconnect
<1>22. CASE RaiseResizing
  BY <1>22, <1>0 DEF RaiseResizing
<1>23. CASE ThreadsLeft
  BY <1>23, <1>0 DEF ThreadsLeft
<1>24. CASE setPlotMode
  BY <1>24, <1>0 DEF setPlotMode
<1>25. CASE start
  <2>1. since' = logged /\ scanned' = logged /\ last' = last
    BY <1>25 DEF start, ResetPointers
  <2>2. scanned <= logged
    BY <1>0, ScopeAssumption DEF PointerInv, Behind
  <2>. QED
    BY <1>0, <2>1, <2>2
<1>26. CASE ConnectionReply
  <2>1. since' = logged /\ scanned' = logged /\ last' = last
    BY <1>26 DEF ConnectionReply, ResetPointers
  <2>2. scanned <= logged
    BY <1>0, ScopeAssumption DEF PointerInv, Behind
  <2>. QED
    BY <1>0, <2>1, <2>2
<1>27. CASE NoReply
  BY <1>27, <1>0 DEF NoReply
<1>28. CASE setXParams
  BY <1>28, <1>0 DEF setXParams
<1>29. CASE UNCHANGED vars
  BY <1>29 DEF vars
<1>. QED
  BY <1>1, <1>2, <1>3, <1>4, <1>5, <1>6, <1>7, <1>8, <1>9, <1>10, <1>11,
     <1>12, <1>13, <1>14, <1>15, <1>16, <1>17, <1>18, <1>19, <1>20, <1>21,
     <1>22, <1>23, <1>24, <1>25, <1>26, <1>27, <1>28, <1>29, <1>30, <1>31
     DEF Next, AudioThread, TriggerThread, triggerTimeDomain, SettingsThread

-----------------------------------------------------------------------------
(* The signal                                                               *)

(* The samples logged since the last signal, or since the last reset, are   *)
(* counted; one of them is not counted yet when log() has still to come to  *)
(* the test of logCount.                                                    *)
Since(d) == IF d > since THEN d ELSE since
CountInv ==
  /\ due <= logged /\ since <= logged
  /\ logged - Since(due) = logCount + (IF audioPc = "signal" THEN 1 ELSE 0)

(* The count follows every sample, every signal and every reset.            *)
LEMMA CountNext ==
  ASSUME Serialised, TypeOK, QuietInv, CountInv, [Next]_vars
  PROVE  CountInv'
<1>. USE DEF CountInv, Since
<1>0. /\ logged \in Nat /\ since \in Nat /\ due \in Nat /\ logCount \in Nat
      /\ logged' \in Nat
  BY TypeNext, ScopeAssumption DEF TypeOK
<1>a. ASSUME UNCHANGED <<logged, since, due, logCount>>,
             (audioPc = "signal") <=> (audioPc' = "signal")
      PROVE  CountInv'
  BY <1>0, <1>a
<1>1. CASE prelog \/ EnterBuffer \/ log \/ LeaveBuffer
  <2>1. UNCHANGED <<logged, since, due, logCount>>
    BY <1>1 DEF prelog, EnterBuffer, log, LeaveBuffer, settings
  <2>2. audioPc # "signal" /\ audioPc' # "signal"
    BY <1>1 DEF prelog, EnterBuffer, log, LeaveBuffer
  <2>. QED
    BY <1>a, <2>1, <2>2
<1>2. CASE AdvanceWrite
  <2>1. /\ audioPc = "advance" /\ audioPc' = "signal" /\ logged' = logged + 1
        /\ UNCHANGED <<since, due, logCount>>
    BY <1>2 DEF AdvanceWrite, settings
  <2>. QED
    BY <1>0, <2>1
<1>3. CASE postlog
  <2>1. /\ audioPc = "signal" /\ audioPc' = "idle" /\ UNCHANGED <<logged, since>>
        /\ \/ logCount' = 0 /\ due' = logged
           \/ logCount' = logCount + 1 /\ due' = due
    BY <1>3 DEF postlog, settings
  <2>. QED
    BY <1>0, <2>1
<1>4. CASE TriggerThread
  <2>1. UNCHANGED <<logged, since, due, logCount, audioPc>>
    BY <1>4 DEF TriggerThread, triggerTimeDomain, Woken, ClearSignal, ScanDone,
                Triggered, CountSamples, NotTriggered, Collect, Collected, Wait,
                LimitWait, Waited, Claim, CopySample, Release, Send, audio, settings
  <2>. QED
    BY <1>a, <2>1
<1>5. CASE start \/ ConnectionReply
  <2>1. Quiet
    BY <1>5 DEF QuietInv, start, ConnectionReply, Settings, Serialised
  <2>2. /\ logCount' = 0 /\ since' = logged /\ UNCHANGED <<logged, due, audioPc>>
    BY <1>5 DEF start, ConnectionReply, Settings, ResetPointers
  <2>. QED
    BY <1>0, <2>1, <2>2 DEF Quiet
<1>6. CASE stop \/ Disconnect \/ RaiseResizing \/ ThreadsLeft \/ setPlotMode
           \/ NoReply \/ setXParams
  <2>1. UNCHANGED <<logged, since, due, logCount, audioPc>>
    BY <1>6 DEF stop, Disconnect, RaiseResizing, ThreadsLeft, setPlotMode, NoReply,
                setXParams, Settings
  <2>. QED
    BY <1>a, <2>1
<1>7. CASE UNCHANGED vars
  <2>1. UNCHANGED <<logged, since, due, logCount, audioPc>>
    BY <1>7 DEF vars, audio, settings
  <2>. QED
    BY <1>a, <2>1
<1>. QED
  BY <1>1, <1>2, <1>3, <1>4, <1>5, <1>6, <1>7 DEF Next, AudioThread, SettingsThread

(* A sleeping thread is signalled as soon as there is something to scan,    *)
(* and falls asleep only where the pointers meet.                           *)
LEMMA WakeUpNext ==
  ASSUME Serialised, RoomAhead, TypeOK, QuietInv, PointerInv, CountInv, NoWakeUpLost,
         [Next]_vars
  PROVE  NoWakeUpLost'
<1>. USE DEF NoWakeUpLost
<1>0. /\ logged \in Nat /\ scanned \in Nat /\ due \in Nat /\ MaxAhead \in Nat
      /\ scanned <= logged /\ due <= logged
  BY ScopeAssumption DEF TypeOK, PointerInv, Behind, CountInv
<1>1. CASE prelog \/ EnterBuffer \/ log \/ LeaveBuffer \/ AdvanceWrite
  <2>1. UNCHANGED <<scanned, due, triggerSignal, triggerPc>>
    BY <1>1 DEF prelog, EnterBuffer, log, LeaveBuffer, AdvanceWrite, scan
  <2>. QED
    BY <2>1
<1>2. CASE postlog
  <2>1. /\ UNCHANGED <<scanned, triggerPc>>
        /\ due' = due \/ triggerSignal'
        /\ triggerSignal => triggerSignal'
    BY <1>2 DEF postlog, scan
  <2>. QED
    BY <2>1
<1>3. CASE Woken
  BY <1>3 DEF Woken
<1>4. CASE ClearSignal
  BY <1>4 DEF ClearSignal
<1>5. CASE ScanDone
  <2>1. readPointer = writePointer /\ UNCHANGED <<scanned, due>>
    BY <1>5 DEF ScanDone, scan, audio
  <2>2. Behind = 0
    <3>1. /\ writePointer \in 0 .. channelWidth - 1 /\ readPointer \in 0 .. channelWidth - 1
          /\ channelWidth \in Nat \ {0}
      BY Widths DEF TypeOK
    <3>. QED
      BY <1>0, <2>1, <3>1 DEF PointerInv, Behind, RoomAhead
  <2>3. scanned >= due
    BY <1>0, <2>2 DEF Behind
  <2>. QED
    BY <1>0, <2>1, <2>3
<1>6. CASE triggerTimeDomain
  <2>1. triggerPc' # "sleep"
    BY <1>6 DEF triggerTimeDomain, Scanning, Triggered, CountSamples, NotTriggered, Collect,
                Collected, Wait, LimitWait, Waited, Claim, CopySample, Release, Send
  <2>. QED
    BY <2>1
<1>7. CASE start \/ ConnectionReply
  <2>1. scanned' = logged /\ due' = due
    BY <1>7 DEF start, ConnectionReply, Settings, ResetPointers
  <2>. QED
    BY <1>0, <2>1
<1>8. CASE stop \/ Disconnect \/ RaiseResizing \/ ThreadsLeft \/ setPlotMode
           \/ NoReply \/ setXParams
  <2>1. UNCHANGED <<scanned, due, triggerSignal, triggerPc>>
    BY <1>8 DEF stop, Disconnect, RaiseResizing, ThreadsLeft, setPlotMode, NoReply,
                setXParams, Settings, scan
  <2>. QED
    BY <2>1
<1>9. CASE UNCHANGED vars
  <2>1. UNCHANGED <<scanned, due, triggerSignal, triggerPc>>
    BY <1>9 DEF vars, scan, audio
  <2>. QED
    BY <2>1
<1>. QED
  BY <1>1, <1>2, <1>3, <1>4, <1>5, <1>6, <1>7, <1>8, <1>9
     DEF Next, AudioThread, TriggerThread, SettingsThread

-----------------------------------------------------------------------------
(* Theorems                                                                 *)

(* What both theorems build on.                                             *)
IInv ==
  /\ TypeOK /\ QuietInv /\ PointerInv /\ CollectInv

(* It holds of every behaviour.                                             *)
LEMMA IInvInvariant ==
  ASSUME Serialised, RoomAhead
  PROVE  Spec => []IInv
<1>1. Init => IInv
  <2>. SUFFICES ASSUME Init
                PROVE  IInv
    OBVIOUS
  <2>1. QuietInv
    BY Zenon DEF Init, QuietInv, Quiet
  <2>2. MaxAhead \in Nat
    BY ScopeAssumption
  <2>3. PointerInv
    BY <2>2 DEF Init, PointerInv, Behind, Logging, Showing, Holding
  <2>4. CollectInv
    BY DEF Init, CollectInv, Showing
  <2>. QED
    BY <2>1, <2>3, <2>4, TypeInit DEF IInv
<1>2. IInv /\ [Next]_vars => IInv'
  BY TypeNext, QuietNext, PointerNext, CollectNext DEF IInv
<1>. QED
  BY <1>1, <1>2, PTL DEF Spec

(* The frame that is sent, if placed and counted with one offset, is a      *)
(* window of what was logged around its trigger, without a gap and with     *)
(* nothing overwritten, whatever the offset and the hold-off, while the     *)
(* audio thread goes on logging and the server goes on changing both.       *)
THEOREM WindowCorrect ==
  ASSUME Serialised, RoomAhead, FrameFits
  PROVE  Spec => []FrameIsWindow
<1>1. Init => SlotInv /\ RingInv /\ CopyInv
  <2>. SUFFICES ASSUME Init
                PROVE  SlotInv /\ RingInv /\ CopyInv
    OBVIOUS
  <2>1. SlotInv
    BY DEF Init, SlotInv
  <2>2. RingInv
    BY DEF Init, RingInv, Top
  <2>3. CopyInv
    BY DEF Init, CopyInv
  <2>. QED
    BY <2>1, <2>2, <2>3
<1>2. IInv /\ (SlotInv /\ RingInv /\ CopyInv) /\ [Next]_vars
        => (SlotInv /\ RingInv /\ CopyInv)'
  BY SlotNext, RingNext, CopyNext DEF IInv
<1>3. IInv /\ CopyInv => FrameIsWindow
  <2>. SUFFICES ASSUME IInv, CopyInv, triggerPc = "send", frame # Nowhere,
                       Steady(frame), FirstOfFrame > since, NEW i \in 0 .. frameWidth - 1
                PROVE  outBuffer[i] = FirstOfFrame + i
    BY DEF FrameIsWindow
  <2>. QED
    BY Widths DEF CopyInv
<1>. QED
  BY <1>1, <1>2, <1>3, IInvInvariant, PTL DEF Spec

(* No sample is shown in two frames with the same offset, the first of them *)
(* placed and counted with it.                                              *)
THEOREM ApartCorrect ==
  ASSUME Serialised, RoomAhead, TriggerInTime
  PROVE  Spec => []FramesAreApart
<1>1. Init => ApartInv
  BY DEF Init, ApartInv
<1>2. IInv /\ ApartInv /\ [Next]_vars => ApartInv'
  BY ApartNext DEF IInv
<1>3. IInv /\ ApartInv => FramesAreApart
  <2>. SUFFICES ASSUME IInv, ApartInv, triggerPc = "claim", last # Nowhere, Steady(last),
                       frame # Nowhere, FirstOfFrame > since,
                       frame.offset = last.offset
                PROVE  FirstOfFrame > last.at
    BY DEF FramesAreApart
  <2>0. /\ HalfFrame \in Nat \ {0} /\ frameWidth \in Nat
        /\ frame.at \in Int /\ last.at \in Int /\ since \in Nat
        /\ last.offset \in Offsets /\ Offsets \subseteq Int
    BY Widths, ScopeAssumption DEF IInv, TypeOK, Place
  <2>1. last.offset \in Int /\ last.offset <= 2 * HalfFrame + 1 - frameWidth
    BY <2>0 DEF TriggerInTime
  <2>2. settingsPc # "start"
    BY DEF IInv, QuietInv, Quiet
  <2>3. CASE last.at <= since
    BY <2>0, <2>3 DEF FirstOfFrame
  <2>4. CASE TriggerOf > SentAt + HalfFrame
    <3>1. SentAt = last.at + last.offset - (frameWidth - 1 - HalfFrame)
                   + Collecting(last.offset)
          /\ TriggerOf = frame.at + last.offset
      BY DEF SentAt, TriggerOf, Steady
    <3>2. /\ Collecting(last.offset) \in Int
          /\ Collecting(last.offset) >= HalfFrame - last.offset
      BY <2>0, <2>1 DEF Collecting
    <3>. QED
      BY <2>0, <2>1, <2>4, <3>1, <3>2 DEF FirstOfFrame
  <2>. QED
    BY <2>2, <2>3, <2>4 DEF ApartInv, Showing
<1>. QED
  BY <1>1, <1>2, <1>3, IInvInvariant, PTL DEF Spec

(* The trigger thread never sleeps over samples that were signalled.        *)
THEOREM WakeUpCorrect ==
  ASSUME Serialised, RoomAhead
  PROVE  Spec => []NoWakeUpLost
<1>1. Init => CountInv /\ NoWakeUpLost
  BY DEF Init, CountInv, Since, NoWakeUpLost
<1>2. IInv /\ (CountInv /\ NoWakeUpLost) /\ [Next]_vars => (CountInv /\ NoWakeUpLost)'
  BY CountNext, WakeUpNext DEF IInv
<1>. QED
  BY <1>1, <1>2, IInvInvariant, PTL DEF Spec

(* While it sleeps unsignalled it is behind by what is logged between two   *)
(* signals at most, for every TRIGGER_LOG_COUNT.                            *)
THEOREM CaughtUpCorrect ==
  ASSUME Serialised, RoomAhead
  PROVE  Spec => []SleepsCaughtUp
<1>1. Init => CountInv /\ NoWakeUpLost
  BY DEF Init, CountInv, Since, NoWakeUpLost
<1>2. IInv /\ (CountInv /\ NoWakeUpLost) /\ [Next]_vars => (CountInv /\ NoWakeUpLost)'
  BY CountNext, WakeUpNext DEF IInv
<1>3. IInv /\ CountInv /\ NoWakeUpLost => SleepsCaughtUp
  <2>. SUFFICES ASSUME IInv, CountInv, NoWakeUpLost, triggerPc = "sleep", ~triggerSignal
                PROVE  logged - scanned <= TRIGGER_LOG_COUNT + 2
    BY DEF SleepsCaughtUp
  <2>1. /\ logged \in Nat /\ scanned \in Nat /\ since \in Nat /\ due \in Nat
        /\ logCount \in Nat /\ logCount <= TRIGGER_LOG_COUNT + 1
        /\ TRIGGER_LOG_COUNT \in Nat
    BY ScopeAssumption DEF IInv, TypeOK
  <2>2. scanned >= due /\ scanned >= since
    BY <2>1 DEF NoWakeUpLost, IInv, PointerInv
  <2>. QED
    BY <2>1, <2>2 DEF CountInv, Since
<1>. QED
  BY <1>1, <1>2, <1>3, IInvInvariant, PTL DEF Spec
=============================================================================
