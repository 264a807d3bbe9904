-------------------------------- MODULE Scope --------------------------------
(***************************************************************************)
(* The oscilloscope (libraries/Scope/Scope.cpp) in the time domain.  Three *)
(* threads share a ring of samples.  The audio thread logs a sample per    *)
(* frame and signals the trigger thread every TRIGGER_LOG_COUNT samples or *)
(* so; the trigger thread scans what was logged, looks for a trigger,      *)
(* collects the second half of the frame, copies the frame out of the ring *)
(* and sends it to the browser; the thread of the web server changes the   *)
(* settings, which resets everything.  Three volatile flags are all that   *)
(* keeps them apart.                                                       *)
(*                                                                         *)
(* A sample is its number among those logged: one that comes while a flag  *)
(* is up is dropped and has none.  Whether it crosses the trigger level is *)
(* left open.  One channel is logged, every sample of it (downSampling 1,  *)
(* upSampling 1).  Left out: CUSTOM triggers and the frequency domain.     *)
(***************************************************************************)
EXTENDS Integers

CONSTANTS
  frameWidth,        \* samples in a frame
  FRAMES_STORED,     \* frames in the ring (4)
  TRIGGER_LOG_COUNT, \* 16
  TriggerMode,       \* "AUTO" or "NORMAL"
  Offsets,           \* values of xOffsetSamples
  HoldOffs,          \* values of holdOffSamples
  Overlap,           \* may settings change while the other threads work?
  MaxSamples,        \* bound: samples logged
  MaxAhead,          \* bound: samples logged and not yet scanned
  MaxChanges         \* bound: changes of settings

ASSUME ScopeAssumption ==
  /\ frameWidth \in Nat /\ frameWidth >= 2
  /\ FRAMES_STORED \in Nat \ {0}
  /\ TRIGGER_LOG_COUNT \in Nat
  /\ TriggerMode \in {"AUTO", "NORMAL"}
  /\ Offsets \subseteq Int /\ 0 \in Offsets
  /\ HoldOffs \subseteq Nat /\ 0 \in HoldOffs
  /\ Overlap \in BOOLEAN
  /\ MaxSamples \in Nat
  /\ MaxAhead \in Nat
  /\ MaxChanges \in Nat

VARIABLES
  started, isResizing, isUsingBuffer, isUsingOutBuffer,
  buffer, writePointer, logCount,
  triggerSignal,
  readPointer, triggerPhase, triggerPointer, triggerCount, autoTriggerCount,
  outBuffer,
  xOffsetSamples, holdOffSamples,
  audioPc,           \* where the audio thread is in log()
  triggerPc,         \* where the trigger thread is
  copied,            \* samples copied to outBuffer
  settingsPc,        \* where the server's thread is
  changes,           \* how often it changed something
  logged,            \* history: samples logged
  scanned,           \* history: of these, scanned
  since,             \* history: samples logged before the last start()
  due,               \* history: samples logged before the last signal
  frame,             \* history: sample triggerPointer stands for, the offset
                     \* it was computed from, the one triggerCount was
  last               \* history: last sample shown, and with which offsets

flags == <<isUsingBuffer, isUsingOutBuffer>>
audio == <<buffer, writePointer, logCount, audioPc, logged, due>>
search == <<triggerPhase, triggerPointer, triggerCount, autoTriggerCount, frame>>
scan == <<readPointer, scanned>>
copy == <<outBuffer, copied, last>>
settings == <<started, isResizing, xOffsetSamples, holdOffSamples, settingsPc,
              changes, since>>
vars == <<flags, audio, search, scan, copy, settings, triggerSignal, triggerPc>>

channelWidth == frameWidth * FRAMES_STORED

\* (int)(frameWidth/2.0f)
HalfFrame == frameWidth \div 2

\* (int)(frameWidth/2.0f + n): towards zero.
HalfFramePlus(n) ==
  LET twice == frameWidth + 2 * n
  IN  IF twice >= 0 THEN twice \div 2 ELSE -((-twice) \div 2)

\* Nothing is known of where triggerPointer stands, or what was shown.
Nowhere == [at |-> 0, offset |-> 0, counted |-> 0]
Place == [at : Int, offset : Offsets, counted : Offsets]

TypeOK ==
  /\ started \in BOOLEAN /\ isResizing \in BOOLEAN
  /\ isUsingBuffer \in BOOLEAN /\ isUsingOutBuffer \in BOOLEAN
  /\ buffer \in [0 .. channelWidth - 1 -> 0 .. MaxSamples]
  /\ writePointer \in 0 .. channelWidth - 1
  /\ logCount \in 0 .. TRIGGER_LOG_COUNT + 1
  /\ triggerSignal \in BOOLEAN
  /\ readPointer \in 0 .. channelWidth - 1
  /\ triggerPhase \in {"none", "primed", "collecting", "waiting"}
  /\ triggerPointer \in 0 .. channelWidth - 1
  /\ triggerCount \in Int
  /\ autoTriggerCount \in Nat
  /\ outBuffer \in [0 .. frameWidth - 1 -> 0 .. MaxSamples]
  /\ xOffsetSamples \in Offsets /\ holdOffSamples \in HoldOffs
  /\ audioPc \in {"idle", "enter", "write", "leave", "advance", "signal"}
  /\ triggerPc \in {"sleep", "clear", "loop", "count", "limit", "claim", "copy", "send"}
  /\ copied \in 0 .. frameWidth
  /\ settingsPc \in {"idle", "resize", "wait", "reset", "start", "reply"}
  /\ changes \in 0 .. MaxChanges
  /\ logged \in 0 .. MaxSamples
  /\ audioPc \in {"enter", "write", "leave", "advance"} => logged < MaxSamples
  /\ scanned \in Nat /\ since \in 0 .. MaxSamples
  /\ due \in 0 .. MaxSamples
  /\ frame \in Place /\ last \in Place

Init ==
  /\ started = FALSE
  /\ isResizing = TRUE
  /\ isUsingBuffer = FALSE /\ isUsingOutBuffer = FALSE
  /\ buffer = [i \in 0 .. channelWidth - 1 |-> 0]
  /\ writePointer = 0 /\ logCount = 0 /\ triggerSignal = FALSE
  /\ readPointer = 0
  /\ triggerPhase = "none" /\ triggerPointer = 0 /\ triggerCount = 0
  /\ autoTriggerCount = 0
  /\ outBuffer = [i \in 0 .. frameWidth - 1 |-> 0]
  /\ xOffsetSamples = 0 /\ holdOffSamples = 0
  /\ audioPc = "idle" /\ triggerPc = "sleep" /\ settingsPc = "idle"
  /\ copied = 0 /\ changes = 0
  /\ logged = 0 /\ scanned = 0 /\ since = 0 /\ due = 0
  /\ frame = Nowhere /\ last = Nowhere

-----------------------------------------------------------------------------
(* The audio thread: log().  A sample is dropped when the test fails.       *)

prelog ==
  /\ audioPc = "idle"
  /\ logged < MaxSamples /\ logged - scanned < MaxAhead
  /\ started /\ ~isResizing /\ ~isUsingBuffer
  /\ audioPc' = "enter"
  /\ UNCHANGED <<flags, buffer, writePointer, logCount, logged, due, search, scan,
                 copy, settings, triggerSignal, triggerPc>>

\* The flag is raised after it was tested.
EnterBuffer ==
  /\ audioPc = "enter"
  /\ isUsingBuffer' = TRUE
  /\ audioPc' = "write"
  /\ UNCHANGED <<isUsingOutBuffer, buffer, writePointer, logCount, logged, due,
                 search, scan, copy, settings, triggerSignal, triggerPc>>

log ==
  /\ audioPc = "write"
  /\ buffer' = [buffer EXCEPT ![writePointer] = logged + 1]
  /\ audioPc' = "leave"
  /\ UNCHANGED <<flags, writePointer, logCount, logged, due, search, scan, copy,
                 settings, triggerSignal, triggerPc>>

LeaveBuffer ==
  /\ audioPc = "leave"
  /\ isUsingBuffer' = FALSE
  /\ audioPc' = "advance"
  /\ UNCHANGED <<isUsingOutBuffer, buffer, writePointer, logCount, logged, due,
                 search, scan, copy, settings, triggerSignal, triggerPc>>

\* Mutant of AdvanceWrite: the pointer goes round one sample late.
AdvanceWriteLate ==
  /\ audioPc = "advance"
  /\ writePointer' = (writePointer + 1) % (channelWidth + 1)
  /\ logged' = logged + 1
  /\ audioPc' = "signal"
  /\ UNCHANGED <<flags, buffer, logCount, due, search, scan, copy, settings,
                 triggerSignal, triggerPc>>

AdvanceWrite ==
  /\ audioPc = "advance"
  /\ writePointer' = (writePointer + 1) % channelWidth
  /\ logged' = logged + 1
  /\ audioPc' = "signal"
  /\ UNCHANGED <<flags, buffer, logCount, due, search, scan, copy, settings,
                 triggerSignal, triggerPc>>

\* if(logCount++ > TRIGGER_LOG_COUNT)
postlog ==
  /\ audioPc = "signal"
  /\ LET full == logCount > TRIGGER_LOG_COUNT
     IN  /\ logCount' = IF full THEN 0 ELSE logCount + 1
         /\ triggerSignal' = (triggerSignal \/ full)
         /\ due' = IF full THEN logged ELSE due
  /\ audioPc' = "idle"
  /\ UNCHANGED <<flags, buffer, writePointer, logged, search, scan, copy, settings,
                 triggerPc>>

AudioThread ==
  prelog \/ EnterBuffer \/ log \/ LeaveBuffer \/ AdvanceWrite \/ postlog

-----------------------------------------------------------------------------
(* The trigger thread: trigger_func() and triggerTimeDomain()               *)

Woken ==
  /\ triggerPc = "sleep" /\ triggerSignal
  /\ triggerPc' = "clear"
  /\ UNCHANGED <<flags, audio, search, scan, copy, settings, triggerSignal>>

ClearSignal ==
  /\ triggerPc = "clear"
  /\ triggerSignal' = FALSE
  /\ triggerPc' = "loop"
  /\ UNCHANGED <<flags, audio, search, scan, copy, settings>>

ScanDone ==
  /\ triggerPc = "loop" /\ readPointer = writePointer
  /\ triggerPc' = "sleep"
  /\ UNCHANGED <<flags, audio, search, scan, copy, settings, triggerSignal>>

Advance ==
  /\ readPointer' = (readPointer + 1) % channelWidth
  /\ scanned' = scanned + 1

\* The next sample is scanned and passed.
Scanning(phase) ==
  /\ triggerPc = "loop" /\ readPointer # writePointer
  /\ triggerPhase = phase

\* The first of two reads of xOffsetSamples: for triggerPointer.
StartCollecting ==
  /\ triggerPhase' = "collecting"
  /\ triggerPointer' = (readPointer - xOffsetSamples + channelWidth) % channelWidth
  /\ frame' = [at |-> scanned + 1 - xOffsetSamples,
               offset |-> xOffsetSamples, counted |-> xOffsetSamples]

\* Too long without a trigger: autoTriggerCount++ > frameWidth + holdOffSamples.
AutoTriggers ==
  TriggerMode = "AUTO" /\ autoTriggerCount > frameWidth + holdOffSamples

\* A sample crosses the level or, in AUTO mode, it is time.
Triggered ==
  /\ Scanning("primed")
  /\ StartCollecting
  /\ triggerPc' = "count"
  /\ UNCHANGED <<flags, audio, triggerCount, autoTriggerCount, scan, copy, settings,
                 triggerSignal>>

\* Mutant of CountSamples: half a frame, wherever the trigger is shown.
CountHalf ==
  /\ triggerPc = "count"
  /\ triggerCount' = HalfFrame
  /\ autoTriggerCount' = 0
  /\ frame' = IF frame = Nowhere THEN Nowhere
              ELSE [frame EXCEPT !.counted = xOffsetSamples]
  /\ Advance
  /\ triggerPc' = "loop"
  /\ UNCHANGED <<flags, audio, triggerPhase, triggerPointer, copy, settings,
                 triggerSignal>>

\* The second, for triggerCount: the server may have written it since.
CountSamples ==
  /\ triggerPc = "count"
  /\ triggerCount' = HalfFramePlus(-xOffsetSamples)
  /\ autoTriggerCount' = 0
  /\ frame' = IF frame = Nowhere THEN Nowhere
              ELSE [frame EXCEPT !.counted = xOffsetSamples]
  /\ Advance
  /\ triggerPc' = "loop"
  /\ UNCHANGED <<flags, audio, triggerPhase, triggerPointer, copy, settings,
                 triggerSignal>>

NotTriggered ==
  /\ Scanning("primed")
  /\ ~AutoTriggers
  /\ autoTriggerCount' =
       IF TriggerMode = "AUTO" THEN autoTriggerCount + 1 ELSE autoTriggerCount
  /\ Advance
  /\ UNCHANGED <<flags, audio, triggerPhase, triggerPointer, triggerCount, frame,
                 copy, settings, triggerSignal, triggerPc>>

Collect ==
  /\ Scanning("collecting")
  /\ triggerCount > 1
  /\ triggerCount' = triggerCount - 1
  /\ Advance
  /\ UNCHANGED <<flags, audio, triggerPhase, triggerPointer, autoTriggerCount, frame,
                 copy, settings, triggerSignal, triggerPc>>

\* Mutant of Collected: the next trigger is looked for at once.
CollectedRearmed ==
  /\ Scanning("collecting")
  /\ triggerCount <= 1
  /\ triggerPhase' = "primed"
  /\ triggerCount' = HalfFramePlus(holdOffSamples)
  /\ IF isResizing
     THEN Advance /\ UNCHANGED triggerPc
     ELSE UNCHANGED scan /\ triggerPc' = "claim"
  /\ UNCHANGED <<flags, audio, triggerPointer, autoTriggerCount, frame, copy,
                 settings, triggerSignal>>

\* The frame is complete; it is lost when the buffers are being resized.
Collected ==
  /\ Scanning("collecting")
  /\ triggerCount <= 1
  /\ triggerPhase' = "waiting"
  /\ triggerCount' = HalfFramePlus(holdOffSamples)
  /\ IF isResizing
     THEN Advance /\ UNCHANGED triggerPc
     ELSE UNCHANGED scan /\ triggerPc' = "claim"
  /\ UNCHANGED <<flags, audio, triggerPointer, autoTriggerCount, frame, copy,
                 settings, triggerSignal>>

\* More is left than the hold-off, which got shorter meanwhile, asks for.
TooLong == 2 * (triggerCount - 1) > frameWidth + 2 * holdOffSamples

Wait ==
  /\ Scanning("waiting")
  /\ triggerCount > 1
  /\ triggerCount' = triggerCount - 1
  /\ IF TooLong
     THEN UNCHANGED scan /\ triggerPc' = "limit"
     ELSE Advance /\ UNCHANGED triggerPc
  /\ UNCHANGED <<flags, audio, triggerPhase, triggerPointer, autoTriggerCount, frame,
                 copy, settings, triggerSignal>>

\* holdOffSamples is read again.
LimitWait ==
  /\ triggerPc = "limit"
  /\ triggerCount' = HalfFramePlus(holdOffSamples)
  /\ Advance
  /\ triggerPc' = "loop"
  /\ UNCHANGED <<flags, audio, triggerPhase, triggerPointer, autoTriggerCount, frame,
                 copy, settings, triggerSignal>>

Waited ==
  /\ Scanning("waiting")
  /\ triggerCount <= 1
  /\ triggerPhase' = "primed"
  /\ triggerCount' = triggerCount - 1
  /\ Advance
  /\ UNCHANGED <<flags, audio, triggerPointer, autoTriggerCount, frame, copy,
                 settings, triggerSignal, triggerPc>>

Claim ==
  /\ triggerPc = "claim"
  /\ isUsingBuffer' = TRUE
  /\ isUsingOutBuffer' = TRUE
  /\ copied' = 0
  /\ triggerPc' = "copy"
  /\ UNCHANGED <<audio, search, scan, outBuffer, last, settings, triggerSignal>>

\* Both halves of the copy, when the frame goes round the end of the ring.
startptr == (triggerPointer - HalfFrame + channelWidth) % channelWidth

CopySample ==
  /\ triggerPc = "copy" /\ copied < frameWidth
  /\ outBuffer' =
       [outBuffer EXCEPT ![copied] = buffer[(startptr + copied) % channelWidth]]
  /\ copied' = copied + 1
  /\ UNCHANGED <<flags, audio, search, scan, last, settings, triggerSignal, triggerPc>>

Release ==
  /\ triggerPc = "copy" /\ copied = frameWidth
  /\ isUsingBuffer' = FALSE
  /\ triggerPc' = "send"
  /\ UNCHANGED <<isUsingOutBuffer, audio, search, scan, copy, settings,
                 triggerSignal>>

\* Where the frame that triggerPointer stands for begins and ends.
FirstOfFrame == frame.at - HalfFrame
LastOfFrame == FirstOfFrame + frameWidth - 1
Shown ==
  IF frame = Nowhere THEN Nowhere ELSE [frame EXCEPT !.at = LastOfFrame]

\* Mutant of Send: the scan is over when a frame was sent.
SendAndSleep ==
  /\ triggerPc = "send"
  /\ isUsingOutBuffer' = FALSE
  /\ last' = Shown
  /\ Advance
  /\ triggerPc' = "sleep"
  /\ UNCHANGED <<isUsingBuffer, audio, search, outBuffer, copied, settings,
                 triggerSignal>>

Send ==
  /\ triggerPc = "send"
  /\ isUsingOutBuffer' = FALSE
  /\ last' = Shown
  /\ Advance
  /\ triggerPc' = "loop"
  /\ UNCHANGED <<isUsingBuffer, audio, search, outBuffer, copied, settings,
                 triggerSignal>>

triggerTimeDomain ==
  \/ Triggered \/ CountSamples \/ NotTriggered
  \/ Collect \/ Collected \/ Wait \/ LimitWait \/ Waited
  \/ Claim \/ CopySample \/ Release \/ Send

TriggerThread == Woken \/ ClearSignal \/ ScanDone \/ triggerTimeDomain

-----------------------------------------------------------------------------
(* The server's thread: setSetting() of a setting that resizes the buffers, *)
(* of one that does not, a browser that leaves and one that answers.        *)

\* Nobody is at work or about to be.
Quiet == audioPc = "idle" /\ triggerPc = "sleep" /\ ~triggerSignal

Settings(from, to) ==
  /\ settingsPc = from /\ settingsPc' = to
  /\ UNCHANGED <<flags, audioPc, logged, due, triggerPc, triggerSignal, copy, buffer>>

stop ==
  /\ Overlap \/ Quiet
  /\ changes < MaxChanges /\ changes' = changes + 1
  /\ Settings("idle", "resize")
  /\ started' = FALSE
  /\ UNCHANGED <<writePointer, logCount, search, scan, isResizing, xOffsetSamples,
                 holdOffSamples, since>>

\* The browser disconnects: stop() and nothing else.
Disconnect ==
  /\ changes < MaxChanges /\ changes' = changes + 1
  /\ Settings("idle", "idle")
  /\ started' = FALSE
  /\ UNCHANGED <<writePointer, logCount, search, scan, isResizing, xOffsetSamples,
                 holdOffSamples, since>>

RaiseResizing ==
  /\ Settings("resize", "wait")
  /\ isResizing' = TRUE
  /\ UNCHANGED <<started, writePointer, logCount, search, scan, xOffsetSamples,
                 holdOffSamples, since, changes>>

ThreadsLeft ==
  /\ ~isUsingBuffer /\ ~isUsingOutBuffer
  /\ Settings("wait", "reset")
  /\ UNCHANGED <<started, isResizing, writePointer, logCount, search, scan,
                 xOffsetSamples, holdOffSamples, since, changes>>

\* The buffers keep their size and what is in them.
setPlotMode ==
  /\ Settings("reset", "start")
  /\ triggerPhase' = "primed"
  /\ triggerPointer' = 0 /\ triggerCount' = 0 /\ autoTriggerCount' = 0
  /\ frame' = Nowhere
  /\ isResizing' = FALSE
  /\ UNCHANGED <<started, writePointer, logCount, scan, xOffsetSamples, holdOffSamples,
                 since, changes>>

\* Where triggerPointer points is lost with the pointers.
ResetPointers ==
  /\ writePointer' = 0 /\ readPointer' = 0 /\ logCount' = 0
  /\ started' = TRUE
  /\ since' = logged /\ scanned' = logged
  /\ frame' = Nowhere

start ==
  /\ Settings("start", "reply")
  /\ ResetPointers
  /\ UNCHANGED <<isResizing, triggerPhase, triggerPointer, triggerCount,
                 autoTriggerCount, xOffsetSamples, holdOffSamples, changes>>

\* The last of the settings of a "connection-reply": start() once more.
ConnectionReply ==
  /\ Overlap \/ Quiet
  /\ Settings("reply", "idle")
  /\ ResetPointers
  /\ UNCHANGED <<isResizing, triggerPhase, triggerPointer, triggerCount,
                 autoTriggerCount, xOffsetSamples, holdOffSamples, changes>>

\* It was a change of settings only.
NoReply ==
  /\ Settings("reply", "idle")
  /\ UNCHANGED <<started, isResizing, writePointer, logCount, search, scan,
                 xOffsetSamples, holdOffSamples, since, changes>>

setXParams ==
  /\ changes < MaxChanges /\ changes' = changes + 1
  /\ Settings("idle", "idle")
  /\ xOffsetSamples' \in Offsets
  /\ holdOffSamples' \in HoldOffs
  /\ UNCHANGED <<started, isResizing, writePointer, logCount, search, scan, since>>

SettingsThread ==
  \/ stop \/ Disconnect \/ RaiseResizing \/ ThreadsLeft \/ setPlotMode \/ start
  \/ ConnectionReply \/ NoReply \/ setXParams

Next == AudioThread \/ TriggerThread \/ SettingsThread

Spec == Init /\ [][Next]_vars

(* The trigger thread polls the signal for ever; nobody has to log.         *)
FairSpec == Spec /\ WF_vars(TriggerThread)

-----------------------------------------------------------------------------
\* No setXParams() came between the two reads of xOffsetSamples.
Steady(f) == f.counted = f.offset

(* The frame that is sent is one window of what was logged around the       *)
(* trigger: samples logged one after the other, none of them overwritten    *)
(* while the other half was collected or while it was copied, although the  *)
(* audio thread goes on logging whenever its own step has cleared the flag  *)
(* of the copy.  It may be channelWidth - 2 * HalfFrame samples ahead of    *)
(* the scan, and no more.  It is said of a frame that is placed and counted *)
(* with the same offset; see FrameIsAlwaysWindow for the others.            *)
FrameIsWindow ==
  triggerPc = "send" /\ frame # Nowhere /\ Steady(frame) /\ FirstOfFrame > since
    => \A i \in 0 .. frameWidth - 1 : outBuffer[i] = FirstOfFrame + i

(* A sample is shown in one frame only, as long as the offset stays: the    *)
(* half frame collected and the half frame waited after it are enough,      *)
(* rounding and hold-off included, also when the offset moves just after    *)
(* the second frame was placed.  It takes an offset of at most              *)
(* 2 * HalfFrame + 1 - frameWidth: with a larger one the trigger is shown   *)
(* so far to the right that less is collected, and the next frame begins    *)
(* in the one before.                                                       *)
FramesAreApart ==
  triggerPc = "claim" /\ last # Nowhere /\ Steady(last) /\ FirstOfFrame > since
    => frame = Nowhere \/ frame.offset # last.offset \/ FirstOfFrame > last.at

(* What was logged before a signal is scanned: no signal is lost between    *)
(* the flag's test and its clearing, or after the end of a scan.            *)
SignalledIsScanned == []<>(scanned >= due)

(* Its safety half: the trigger thread never sleeps, unsignalled, over      *)
(* samples that were signalled.  triggerSignal is a flag and not a count:   *)
(* it is cleared before the scan and not after it, and the scan ends only   *)
(* where the pointers meet.                                                 *)
NoWakeUpLost == scanned < due => triggerSignal \/ triggerPc # "sleep"

(* And when it sleeps unsignalled it is behind by no more than what is      *)
(* logged between two signals: a sample waits for the scan at most that     *)
(* long, resets of the counter included.                                    *)
SleepsCaughtUp ==
  triggerPc = "sleep" /\ ~triggerSignal
    => logged - scanned <= TRIGGER_LOG_COUNT + 2

-----------------------------------------------------------------------------
(* "waiting for threads" (libraries/Scope/Scope.cpp:324): the buffers are   *)
(* resized when neither thread uses them.                                   *)
NoResizeUnderUse ==
  settingsPc = "reset" => audioPc # "write" /\ triggerPc \notin {"copy", "send"}

(* "copy the previous to next frameWidth/2.0f samples into the outBuffer"   *)
(* (libraries/Scope/Scope.cpp:522).  Not so when setXParams() comes between *)
(* the reads of xOffsetSamples for triggerPointer and for triggerCount: a   *)
(* smaller count than the place asks for ends the frame in slots that are   *)
(* not written yet.                                                         *)
FrameIsAlwaysWindow ==
  triggerPc = "send" /\ frame # Nowhere /\ FirstOfFrame > since
    => \A i \in 0 .. frameWidth - 1 : outBuffer[i] = FirstOfFrame + i
=============================================================================
