----------------------------- MODULE CtrlOutputs -----------------------------
(***************************************************************************)
(* The control outputs of core/ctrlOutputs.cpp: a file of the phone for    *)
(* each light and for the vibration.  render() leaves values in a buffer   *)
(* of floats; once per block writeCtrlOutputs() writes those whose scaled  *)
(* integer differs from the one it remembers (prevVal), so that the file   *)
(* need not be read.  The vibration is a pulse: its value is forgotten at  *)
(* once.  The screen thread puts the brightness of the display into the    *)
(* same buffer, Android writes the same files, and a stream whose write    *)
(* was refused drops all later ones.  At the end the values found at the   *)
(* start are written back.                                                 *)
(*                                                                         *)
(* A float of the buffer is a number of Parts.  Left out: how the files    *)
(* and scales are found, and values outside 0 .. 1, whose conversion to    *)
(* unsigned int is undefined.  LDSP_cleanupCtrlOutputs() up to the loop    *)
(* over the files is in ScreenCtrl.                                        *)
(***************************************************************************)
EXTENDS Integers

CONSTANTS
  Count,         \* chn_cout_count
  lcdBacklight,  \* the output the screen thread sets too
  vibration,     \* the timed output
  ScaleVal,      \* the integer that stands for 1.0, for each output
  Parts,         \* a value in the buffer is a multiple of 1/Parts
  MaxFound,      \* bound: values found in the files
  MaxSets,       \* bound: calls of ctrlOutputWrite
  MaxForeign,    \* bound: changes of the files by Android
  MaxRejects     \* bound: refused opens and writes

Output == 0 .. Count - 1

ASSUME CtrlOutputsAssumption ==
  /\ Count \in Nat
  /\ lcdBacklight \in Output
  /\ vibration \in Output
  /\ lcdBacklight # vibration
  /\ ScaleVal \in [Output -> Nat]
  /\ Parts \in Nat \ {0}
  /\ MaxFound \in Nat
  /\ MaxSets \in Nat
  /\ MaxForeign \in Nat
  /\ MaxRejects \in Nat

VARIABLES
  pc,             \* where the program is, see TypeOK
  out,            \* the loops' index
  outInt,         \* writeCtrlOutputs' local (0 when dead)
  configured,     \* the outputs that have a file
  fileGood,       \* the outputs whose stream has not failed
  prevVal,        \* value written last, for each output
  initialVal,     \* value found at the start
  ctrlOutBuffer,  \* what render() and the screen thread ask for, in Parts
  gShouldStop,
  file,           \* the phone: what each file holds
  asked,          \* history: outputs that were set
  written,        \* history: outputs writeCtrlOutputs has written
  foreign,        \* history: files changed by others since the last write
  due,            \* history: blocks that asked for a vibration
  pulses,         \* history: vibrations writeCtrlOutputs asked the phone for
  sets, foreigns, rejects

loop == <<pc, out, outInt>>
cache == <<configured, fileGood, prevVal, initialVal>>
history == <<asked, written, due, pulses>>
vars == <<loop, cache, ctrlOutBuffer, gShouldStop, file, history, foreign,
          sets, foreigns, rejects>>

Level == 0 .. Parts

\* A level as an integer of the output: value*scaleVal, truncated.
Steps(o, level) == (level * ScaleVal[o]) \div Parts

\* ctrlOutBuffer[out]*scaleVal
Scaled(o) == Steps(o, ctrlOutBuffer[o])

TypeOK ==
  /\ pc \in {"init", "check", "render", "load", "write", "cleanup", "cleaned",
             "undefined"}
  /\ out \in 0 .. Count
  /\ outInt \in Nat
  /\ pc = "write" => out \in configured
  /\ configured \subseteq Output
  /\ fileGood \subseteq configured
  /\ prevVal \in [Output -> Nat]
  /\ initialVal \in [Output -> Nat]
  /\ ctrlOutBuffer \in [Output -> Level]
  /\ gShouldStop \in BOOLEAN
  /\ file \in [Output -> Nat]
  /\ asked \subseteq Output
  /\ written \subseteq configured
  /\ foreign \subseteq Output
  /\ due \in Nat
  /\ pulses \in Nat
  /\ sets \in 0 .. MaxSets
  /\ foreigns \in 0 .. MaxForeign
  /\ rejects \in 0 .. MaxRejects

Init ==
  /\ pc = "init"
  /\ out = 0
  /\ outInt = 0
  /\ configured = {}
  /\ fileGood = {}
  /\ prevVal = [o \in Output |-> 0]
  /\ initialVal = [o \in Output |-> 0]
  /\ ctrlOutBuffer = [o \in Output |-> 0]
  /\ gShouldStop = FALSE
  /\ file \in [Output -> 0 .. MaxFound]
  /\ file[vibration] = 0
  /\ asked = {}
  /\ written = {}
  /\ foreign = {}
  /\ due = 0
  /\ pulses = 0
  /\ sets = 0
  /\ foreigns = 0
  /\ rejects = 0

\* write(): an ofstream that failed once ignores what it is given.
WriteFile(o, value) ==
  \/ /\ o \in fileGood
     /\ file' = [file EXCEPT ![o] = value]
     /\ foreign' = foreign \ {o}
     /\ UNCHANGED <<fileGood, rejects>>
  \/ /\ o \in fileGood
     /\ rejects < MaxRejects
     /\ fileGood' = fileGood \ {o}
     /\ rejects' = rejects + 1
     /\ UNCHANGED <<file, foreign>>
  \/ /\ o \notin fileGood
     /\ UNCHANGED <<file, foreign, fileGood, rejects>>

-----------------------------------------------------------------------------
(* initCtrlOutputs: an output without a file, one whose file does not open  *)
(* (the cleanup called then is undefined, see Lifecycle), one whose file    *)
(* can be read; the test of the stream it is then opened with is missing.   *)

NotConfigured ==
  /\ pc = "init"
  /\ out < Count
  /\ out' = out + 1
  /\ UNCHANGED <<pc, outInt, cache, ctrlOutBuffer, gShouldStop, file, history,
                 foreign, sets, foreigns, rejects>>

CannotOpen ==
  /\ pc = "init"
  /\ out < Count
  /\ pc' = "undefined"
  /\ UNCHANGED <<out, outInt, cache, ctrlOutBuffer, gShouldStop, file, history,
                 foreign, sets, foreigns, rejects>>

Configure ==
  /\ pc = "init"
  /\ out < Count
  /\ configured' = configured \union {out}
  /\ initialVal' = [initialVal EXCEPT ![out] = file[out]]
  /\ prevVal' = [prevVal EXCEPT ![out] = 0]
  /\ \/ fileGood' = fileGood \union {out} /\ UNCHANGED rejects
     \/ rejects < MaxRejects /\ rejects' = rejects + 1 /\ UNCHANGED fileGood
  /\ foreign' = foreign \ {out}
  /\ out' = out + 1
  /\ UNCHANGED <<pc, outInt, ctrlOutBuffer, gShouldStop, file, history, sets,
                 foreigns>>

InitDone ==
  /\ pc = "init"
  /\ out = Count
  /\ pc' = "check"
  /\ UNCHANGED <<out, outInt, cache, ctrlOutBuffer, gShouldStop, file, history,
                 foreign, sets, foreigns, rejects>>

-----------------------------------------------------------------------------
(* A block on the audio thread: audioLoop's test, render(), then            *)
(* writeCtrlOutputs()                                                       *)

Check ==
  /\ pc = "check"
  /\ IF gShouldStop THEN pc' = "cleanup" /\ out' = 0
                    ELSE pc' = "render" /\ UNCHANGED out
  /\ UNCHANGED <<outInt, cache, ctrlOutBuffer, gShouldStop, file, history,
                 foreign, sets, foreigns, rejects>>

\* ctrlOutputWrite(), by render() or by the screen thread
SetOutput(o, level) ==
  /\ sets < MaxSets
  /\ sets' = sets + 1
  /\ ctrlOutBuffer' = [ctrlOutBuffer EXCEPT ![o] = level]
  /\ asked' = asked \union {o}
  /\ UNCHANGED <<loop, cache, gShouldStop, file, written, due, pulses, foreign,
                 foreigns, rejects>>

RenderSets ==
  /\ pc = "render"
  /\ \E o \in Output, level \in Level : SetOutput(o, level)

\* setScreen(): the screen thread lives from the end of the init until it is
\* joined; main() itself calls it once more before the files are restored.
ScreenSets ==
  /\ pc \in {"check", "render", "load", "write"} \/ (pc = "cleanup" /\ out = 0)
  /\ \E level \in Level : SetOutput(lcdBacklight, level)

VibrationWanted == vibration \in configured /\ Scaled(vibration) > 0

\* Mutant of RenderDone: the loop begins at the second output.
RenderDoneFromOne ==
  /\ pc = "render"
  /\ due' = IF VibrationWanted THEN due + 1 ELSE due
  /\ pc' = "load"
  /\ out' = 1
  /\ UNCHANGED <<outInt, cache, ctrlOutBuffer, gShouldStop, file, asked, written,
                 pulses, foreign, sets, foreigns, rejects>>

RenderDone ==
  /\ pc = "render"
  /\ due' = IF VibrationWanted THEN due + 1 ELSE due
  /\ pc' = "load"
  /\ out' = 0
  /\ UNCHANGED <<outInt, cache, ctrlOutBuffer, gShouldStop, file, asked, written,
                 pulses, foreign, sets, foreigns, rejects>>

SkipOutput ==
  /\ pc = "load"
  /\ out < Count
  /\ out \notin configured \/ Scaled(out) = prevVal[out]
  /\ out' = out + 1
  /\ UNCHANGED <<pc, outInt, cache, ctrlOutBuffer, gShouldStop, file, history,
                 foreign, sets, foreigns, rejects>>

LoadOutput ==
  /\ pc = "load"
  /\ out \in configured
  /\ Scaled(out) # prevVal[out]
  /\ outInt' = Scaled(out)
  /\ pc' = "write"
  /\ UNCHANGED <<out, cache, ctrlOutBuffer, gShouldStop, file, history, foreign,
                 sets, foreigns, rejects>>

\* Mutant of Remember: prevVal is taken from the buffer again.
RememberBuffer(o) ==
  /\ prevVal' = [prevVal EXCEPT ![o] = IF o = vibration THEN 0 ELSE Scaled(o)]
  /\ ctrlOutBuffer' = IF o = vibration THEN [ctrlOutBuffer EXCEPT ![o] = 0]
                                       ELSE ctrlOutBuffer

\* Mutant of Remember: a vibration is remembered like a light.
RememberPulse(o) ==
  /\ prevVal' = [prevVal EXCEPT ![o] = outInt]
  /\ ctrlOutBuffer' = IF o = vibration THEN [ctrlOutBuffer EXCEPT ![o] = 0]
                                       ELSE ctrlOutBuffer

\* What is kept of a write: the value, or nothing if it was a vibration.
Remember(o) ==
  /\ prevVal' = [prevVal EXCEPT ![o] = IF o = vibration THEN 0 ELSE outInt]
  /\ ctrlOutBuffer' = IF o = vibration THEN [ctrlOutBuffer EXCEPT ![o] = 0]
                                       ELSE ctrlOutBuffer

\* Mutant of WriteOutput: the index goes on twice.
WriteOutputSkips ==
  /\ pc = "write"
  /\ WriteFile(out, outInt)
  /\ Remember(out)
  /\ written' = written \union {out}
  /\ pulses' = IF out = vibration THEN pulses + 1 ELSE pulses
  /\ pc' = "load"
  /\ out' = out + 2
  /\ outInt' = 0
  /\ UNCHANGED <<configured, initialVal, gShouldStop, asked, due, sets,
                 foreigns>>

WriteOutput ==
  /\ pc = "write"
  /\ WriteFile(out, outInt)
  /\ Remember(out)
  /\ written' = written \union {out}
  /\ pulses' = IF out = vibration THEN pulses + 1 ELSE pulses
  /\ pc' = "load"
  /\ out' = out + 1
  /\ outInt' = 0
  /\ UNCHANGED <<configured, initialVal, gShouldStop, asked, due, sets,
                 foreigns>>

OutputsWritten ==
  /\ pc = "load"
  /\ out = Count
  /\ pc' = "check"
  /\ UNCHANGED <<out, outInt, cache, ctrlOutBuffer, gShouldStop, file, history,
                 foreign, sets, foreigns, rejects>>

writeCtrlOutputs == SkipOutput \/ LoadOutput \/ WriteOutput \/ OutputsWritten

-----------------------------------------------------------------------------
(* cleanupCtrlOutputs, and the world                                        *)

\* Mutant of RestoreOutput: outputs whose last value is 0 are left alone.
RestoreOutputInUse ==
  /\ pc = "cleanup"
  /\ out < Count
  /\ IF out \in configured /\ prevVal[out] # 0
     THEN WriteFile(out, initialVal[out])
     ELSE UNCHANGED <<file, foreign, fileGood, rejects>>
  /\ out' = out + 1
  /\ UNCHANGED <<pc, outInt, configured, prevVal, initialVal, ctrlOutBuffer,
                 gShouldStop, history, sets, foreigns>>

RestoreOutput ==
  /\ pc = "cleanup"
  /\ out < Count
  /\ IF out \in configured
     THEN WriteFile(out, initialVal[out])
     ELSE UNCHANGED <<file, foreign, fileGood, rejects>>
  /\ out' = out + 1
  /\ UNCHANGED <<pc, outInt, configured, prevVal, initialVal, ctrlOutBuffer,
                 gShouldStop, history, sets, foreigns>>

OutputsRestored ==
  /\ pc = "cleanup"
  /\ out = Count
  /\ pc' = "cleaned"
  /\ UNCHANGED <<out, outInt, cache, ctrlOutBuffer, gShouldStop, file, history,
                 foreign, sets, foreigns, rejects>>

Stop ==
  /\ ~gShouldStop
  /\ gShouldStop' = TRUE
  /\ UNCHANGED <<loop, cache, ctrlOutBuffer, file, history, foreign, sets,
                 foreigns, rejects>>

\* The outputs cleanupCtrlOutputs is done with.
Restored == {o \in configured : pc = "cleaned" \/ (pc = "cleanup" /\ o < out)}

\* Android changes a file (automatic brightness, a notification's light).
AndroidWrites ==
  /\ foreigns < MaxForeign
  /\ \E o \in Output \ ({vibration} \union Restored), value \in 0 .. MaxFound :
       file' = [file EXCEPT ![o] = value] /\ foreign' = foreign \union {o}
  /\ foreigns' = foreigns + 1
  /\ UNCHANGED <<loop, cache, ctrlOutBuffer, gShouldStop, history, sets, rejects>>

\* The file of the vibration goes back to zero when the time is over.
VibrationEnds ==
  /\ file[vibration] > 0
  /\ file' = [file EXCEPT ![vibration] = 0]
  /\ UNCHANGED <<loop, cache, ctrlOutBuffer, gShouldStop, history, foreign, sets,
                 foreigns, rejects>>

initCtrlOutputs == NotConfigured \/ CannotOpen \/ Configure \/ InitDone

cleanupCtrlOutputs == RestoreOutput \/ OutputsRestored

\* What goes on by itself; setting outputs is up to the caller.
Program ==
  \/ initCtrlOutputs
  \/ Check \/ RenderDone \/ writeCtrlOutputs
  \/ cleanupCtrlOutputs

Next ==
  \/ Program
  \/ RenderSets \/ ScreenSets
  \/ Stop \/ AndroidWrites \/ VibrationEnds

Spec == Init /\ [][Next]_vars

(* render() returns and writing a control file does not block for ever.     *)
Fairness == WF_vars(Program)

FairSpec == Spec /\ Fairness

-----------------------------------------------------------------------------
Light == Output \ {vibration}

\* The stream of the output works and nobody else wrote the file since.
Ours(o) == o \in fileGood /\ o \notin foreign

(* The remembered value stands for the file, although the file is never     *)
(* read again and the buffer may change at any moment: a light's file holds *)
(* prevVal once it was written and what was found before that ("we keep     *)
(* track of last value set", core/ctrlOutputs.cpp:431; "the initial value   *)
(* is preserved until we explicitly make a change", line 344).              *)
CacheMirrorsFile ==
  \A o \in Light : Ours(o) /\ o \notin Restored =>
    file[o] = IF o \in written THEN prevVal[o] ELSE initialVal[o]

(* A vibration asked for in a block is asked of the phone exactly once, and *)
(* the next block may ask for the same again: "this allows us to set        *)
(* vibration repeatedly regardless of previous value",                      *)
(* core/ctrlOutputs.cpp:454.                                                *)
OnePulsePerRequest ==
  /\ pulses \in due - 1 .. due
  /\ pc \in {"check", "render"} => pulses = due

(* Every light is left with the value it had when the program started,      *)
(* whatever was asked of it and whoever else wrote it, unless its stream    *)
(* has failed.                                                              *)
LightsLeftAsFound ==
  \A o \in Light \cap Restored \cap fileGood : file[o] = initialVal[o]

(* What render() or the screen thread asks of a light reaches its file,     *)
(* unless something else is asked of it, its stream fails, somebody else    *)
(* writes the file or the program ends.  (A 0 counts once a value was       *)
(* written: PersistentAsAsked.)                                             *)
AskedIsWritten ==
  \A o \in Light, level \in Level :
    (/\ pc \in {"check", "render", "load", "write"}
     /\ o \in asked
     /\ ctrlOutBuffer[o] = level
     /\ Steps(o, level) # 0 \/ o \in written)
      ~> (file[o] = Steps(o, level) \/ ctrlOutBuffer[o] # level \/ ~Ours(o) \/ gShouldStop)

(* Once the block is over, what render() asked of a light is in its file,   *)
(* whatever it asked in the blocks before and whichever other outputs fail: *)
(* the half of "always persistent", include/LDSP.h:248, that is so.  It is  *)
(* not so of a 0 over a light that was never written (PersistentAsAsked),   *)
(* and the screen thread may set the backlight in the middle of the block.  *)
PersistentOnceWritten ==
  pc = "check" =>
    \A o \in Light \ {lcdBacklight} :
      Ours(o) /\ (Scaled(o) # 0 \/ o \in written) => file[o] = Scaled(o)

-----------------------------------------------------------------------------
(* "Sets a given ctrl output channel to a value, that is always persistent  *)
(* [except for vibration]", include/LDSP.h:248, of ctrlOutputWrite().  Once *)
(* the block is over, what render() asked of a light is in its file.        *)
PersistentAsAsked ==
  pc = "check" =>
    \A o \in Light \ {lcdBacklight} : o \in asked /\ Ours(o) => file[o] = Scaled(o)
=============================================================================
