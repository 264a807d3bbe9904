--------------------------- MODULE LifecycleProofs ---------------------------
(***************************************************************************)
(* Proofs about Lifecycle, for every set of command lines and every set of *)
(* calls that may fail: no thread outlives what it works on, nothing is    *)
(* released twice, and the phone is restored at exit.                      *)
(***************************************************************************)
EXTENDS Lifecycle, Integers, TLAPS

(* Where the variables live.                                                *)
THEOREM TypeCorrect == Spec => []TypeOK
<1>. Options \subseteq Option /\ Faults \subseteq Fault
  BY LifecycleAssumption
<1>1. Init => TypeOK
  <2>. SUFFICES ASSUME Init
                PROVE  TypeOK
    OBVIOUS
  <2>1. opt \in Option
    BY DEF Init
  <2>2. res \in [Resource -> {"absent", "held", "released"}]
    BY DEF Init
  <2>3. thread \in [Thread -> {"none", "running", "exited"}]
    BY DEF Init
  <2>4. phone \in [paths : {"found", "default", "ldsp"},
                   outputs : {"initial", "written"},
                   governor : {"original", "performance"},
                   audioserver : {"running", "stopped", "stuck"}]
    BY DEF Init, phoneAsFound
  <2>5. QED
    BY <2>1, <2>2, <2>3, <2>4, Zenon DEF Init, TypeOK
<1>2. TypeOK /\ [Next]_vars => TypeOK'
  <2>. SUFFICES ASSUME TypeOK, [Next]_vars
                PROVE  TypeOK'
    OBVIOUS
  <2>. USE DEF TypeOK, process, audioOnly, ReleaseThen, Hold, MayFail, Succeed
  <2>1. CASE ParseArguments
    BY <2>1 DEF ParseArguments
  <2>2. CASE ParseHwConfig
    BY <2>2 DEF ParseHwConfig
  <2>3. CASE SetMixerPaths
    BY <2>3 DEF SetMixerPaths
  <2>4. CASE InitSensors
    BY <2>4 DEF InitSensors
  <2>5. CASE InitCtrlInputs
    BY <2>5 DEF InitCtrlInputs, Thread
  <2>6. CASE InitCtrlOutputs
    BY <2>6 DEF InitCtrlOutputs, Thread
  <2>7. CASE StopAudioserver
    BY <2>7 DEF StopAudioserver
  <2>8. CASE InitParams
    BY <2>8 DEF InitParams
  <2>9. CASE InitPcm
    BY <2>9 DEF InitPcm
  <2>10. CASE InitBuffers
    <3>1. up' \in BOOLEAN
      BY <2>10, Zenon DEF InitBuffers
    <3>2. QED
      BY <2>10, <3>1 DEF InitBuffers
  <2>11. CASE InstallHandlers
    BY <2>11 DEF InstallHandlers
  <2>12. CASE StartAudio
    <3>1. gShouldStop' \in BOOLEAN
      BY <2>12, Zenon DEF StartAudio
    <3>2. QED
      BY <2>12, <3>1 DEF StartAudio, Thread
  <2>13. CASE JoinAudio
    BY <2>13 DEF JoinAudio
  <2>14. CASE CleanupAudio
    <3>1. serverStopped' \in BOOLEAN
      BY <2>14, Zenon DEF CleanupAudio
    <3>2. GovernorsReset \in [paths : {"found", "default", "ldsp"},
                              outputs : {"initial", "written"},
                              governor : {"original", "performance"},
                              audioserver : {"running", "stopped", "stuck"}]
      BY DEF GovernorsReset
    <3>3. phone' \in [paths : {"found", "default", "ldsp"},
                      outputs : {"initial", "written"},
                      governor : {"original", "performance"},
                      audioserver : {"running", "stopped", "stuck"}]
      BY <2>14, <3>2 DEF CleanupAudio
    <3>4. QED
      BY <2>14, <3>1, <3>3 DEF CleanupAudio
  <2>15. CASE CleanupCtrlOutputs
    <3>1. gShouldStop' \in BOOLEAN
      BY <2>15, Zenon DEF CleanupCtrlOutputs
    <3>2. QED
      BY <2>15, <3>1 DEF CleanupCtrlOutputs
  <2>16. CASE JoinScreen
    BY <2>16 DEF JoinScreen
  <2>17. CASE CleanupCtrlInputs
    <3>1. gShouldStop' \in BOOLEAN
      BY <2>17, Zenon DEF CleanupCtrlInputs
    <3>2. QED
      BY <2>17, <3>1 DEF CleanupCtrlInputs
  <2>18. CASE JoinInputs
    BY <2>18 DEF JoinInputs
  <2>19. CASE CleanupSensors
    BY <2>19 DEF CleanupSensors
  <2>20. CASE ResetMixerPaths
    BY <2>20 DEF ResetMixerPaths
  <2>21. CASE FreeHwConfig
    BY <2>21 DEF FreeHwConfig
  <2>22. CASE Audio
    BY <2>22 DEF Audio, AudioCheck, AudioRead, Render, AudioWrite,
       WriteCtrlOutputs, AudioAt, Thread
  <2>23. CASE \E t \in {"inputs", "screen"} : PollerExit(t)
    BY <2>23 DEF PollerExit, Thread
  <2>24. CASE Signal
    <3>1. gShouldStop' \in BOOLEAN /\ shutdownRequested' \in BOOLEAN
      BY <2>24, Zenon DEF Signal
    <3>2. QED
      BY <2>24, <3>1 DEF Signal
  <2>25. CASE UNCHANGED vars
    BY <2>25 DEF vars
  <2>26. QED
    BY <2>1, <2>2, <2>3, <2>4, <2>5, <2>6, <2>7, <2>8, <2>9, <2>10, <2>11,
       <2>12, <2>13, <2>14, <2>15, <2>16, <2>17, <2>18, <2>19, <2>20, <2>21,
       <2>22, <2>23, <2>24, <2>25 DEF Next, Main
<1>3. QED
  BY <1>1, <1>2, PTL DEF Spec
-----------------------------------------------------------------------------
(* The order of main(): where it stands, and from and up to where each      *)
(* resource is held.  Every way out of a failed start jumps forward, past   *)
(* the places whose resources it has not got.                               *)

Place(m) ==
  CASE m = "parse" -> 0
    [] m = "hwconfig" -> 1
    [] m = "mixer" -> 2
    [] m = "sensors" -> 3
    [] m = "inputs" -> 4
    [] m = "outputs" -> 5
    [] m = "audioserver" -> 6
    [] m = "format" -> 7
    [] m = "pcm" -> 8
    [] m = "buffers" -> 9
    [] m = "install" -> 10
    [] m = "setup" -> 11
    [] m = "joinAudio" -> 12
    [] m = "cleanAudio" -> 13
    [] m = "cleanOutputs" -> 14
    [] m = "joinScreen" -> 15
    [] m = "cleanInputs" -> 16
    [] m = "joinInputs" -> 17
    [] m = "cleanSensors" -> 18
    [] m = "resetMixer" -> 19
    [] m = "freeHwConfig" -> 20
    [] OTHER -> 21

\* The place that takes the resource, and the one that gives it up.
Taken(r) ==
  CASE r = "settings" -> -1 [] r = "hwconfig" -> 1 [] r = "mixer" -> 2
    [] r = "sensors" -> 3 [] r \in {"inputDevs", "inputBuffers"} -> 4
    [] r = "outputFiles" -> 5 [] r = "params" -> 7
    [] r \in {"pcmOut", "pcmIn"} -> 8 [] OTHER -> 9

GivenUp(r) ==
  CASE r = "settings" -> 10
    [] r \in {"params", "pcmOut", "pcmIn", "rawBuffers"} -> 13
    [] r = "outputFiles" -> 15 [] r \in {"inputDevs", "inputBuffers"} -> 17
    [] r = "sensors" -> 18 [] r = "mixer" -> 19 [] OTHER -> 20

\* Taken on every command line?  (Input devices only if there are any.)
Needed(r) ==
  CASE r = "mixer" -> ~opt.externalCard
    [] r = "inputDevs" -> FALSE
    [] r = "inputBuffers" -> ~opt.ctrlInputsOff
    [] r = "outputFiles" -> ~opt.ctrlOutputsOff
    [] r = "pcmIn" -> ~opt.captureOff
    [] OTHER -> TRUE

\* What is to be released was not released before.
NotReleased ==
  \A r \in Resource : Place(main) <= GivenUp(r) => res[r] # "released"

\* Between its two places a needed resource is held ...
HeldWhenNeeded ==
  \A r \in Resource :
    Taken(r) < Place(main) /\ Place(main) <= GivenUp(r) /\ Needed(r)
      => res[r] = "held"

\* ... and after a complete start none is held past the second.
AllGivenUp ==
  \A r \in Resource : up /\ GivenUp(r) < Place(main) /\ main \notin {"killed", "undefined"}
    => res[r] # "held"

\* Threads run between the places of main() that create and join them.
ThreadInv ==
  /\ thread["audio"] = "running" => main = "joinAudio"
  /\ thread["inputs"] = "running" /\ Alive =>
       res["inputDevs"] = "held" /\ 4 < Place(main) /\ Place(main) <= 17
  /\ main \in {"setup", "joinAudio"} => handlers

\* Each change of the phone is undone by the place that undoes it.
PhoneInv ==
  /\ phone.governor = "performance" =>
       /\ main \in {"install", "setup", "joinAudio", "cleanAudio", "killed"}
       /\ ~opt.perfModeOff
  /\ phone.outputs = "written" =>
       /\ main \in {"joinAudio", "cleanAudio", "cleanOutputs", "joinScreen"}
       /\ handlers /\ ~opt.ctrlOutputsOff
  /\ phone.paths = "ldsp" =>
       \/ opt.preserveMixer
       \/ /\ ~opt.externalCard
          /\ main \notin {"parse", "hwconfig", "mixer", "freeHwConfig", "exited"}
  /\ up => handlers \/ main \in {"install", "killed"}
  /\ phone.audioserver = "stopped" => serverStopped
  /\ up /\ phone.audioserver = "stopped" =>
       main \in {"install", "setup", "joinAudio", "cleanAudio", "killed"}

\* Nothing else is held.
OnlyNeeded ==
  \A r \in Resource : res[r] = "held" => Needed(r) \/ r = "inputDevs"

UpInv == up => 10 <= Place(main)

ResInv == NotReleased /\ HeldWhenNeeded /\ AllGivenUp /\ OnlyNeeded /\ UpInv

(* The ranges of the three tables.                                          *)
LEMMA Places ==
  /\ \A m : Place(m) \in 0 .. 21
  /\ \A r : Taken(r) \in -1 .. 9 /\ GivenUp(r) \in 10 .. 20
BY DEF Place, Taken, GivenUp

(* The two tables, resource by resource.                                    *)
LEMMA Tables ==
  /\ Taken("settings") = -1 /\ GivenUp("settings") = 10
  /\ Taken("hwconfig") = 1 /\ GivenUp("hwconfig") = 20
  /\ Taken("mixer") = 2 /\ GivenUp("mixer") = 19
  /\ Taken("sensors") = 3 /\ GivenUp("sensors") = 18
  /\ Taken("inputDevs") = 4 /\ GivenUp("inputDevs") = 17
  /\ Taken("inputBuffers") = 4 /\ GivenUp("inputBuffers") = 17
  /\ Taken("outputFiles") = 5 /\ GivenUp("outputFiles") = 15
  /\ Taken("params") = 7 /\ GivenUp("params") = 13
  /\ Taken("pcmOut") = 8 /\ GivenUp("pcmOut") = 13
  /\ Taken("pcmIn") = 8 /\ GivenUp("pcmIn") = 13
  /\ Taken("rawBuffers") = 9 /\ GivenUp("rawBuffers") = 13
  /\ Needed("settings") /\ Needed("hwconfig") /\ Needed("sensors")
  /\ Needed("params") /\ Needed("pcmOut") /\ Needed("rawBuffers")
  /\ Needed("mixer") <=> ~opt.externalCard
  /\ ~Needed("inputDevs")
  /\ Needed("inputBuffers") <=> ~opt.ctrlInputsOff
  /\ Needed("outputFiles") <=> ~opt.ctrlOutputsOff
  /\ Needed("pcmIn") <=> ~opt.captureOff
<1>1. /\ Taken("settings") = -1 /\ GivenUp("settings") = 10
      /\ Taken("hwconfig") = 1 /\ GivenUp("hwconfig") = 20
      /\ Taken("mixer") = 2 /\ GivenUp("mixer") = 19
      /\ Taken("sensors") = 3 /\ GivenUp("sensors") = 18
      /\ Taken("inputDevs") = 4 /\ GivenUp("inputDevs") = 17
      /\ Taken("inputBuffers") = 4 /\ GivenUp("inputBuffers") = 17
      /\ Taken("outputFiles") = 5 /\ GivenUp("outputFiles") = 15
      /\ Taken("params") = 7 /\ GivenUp("params") = 13
      /\ Taken("pcmOut") = 8 /\ GivenUp("pcmOut") = 13
      /\ Taken("pcmIn") = 8 /\ GivenUp("pcmIn") = 13
      /\ Taken("rawBuffers") = 9 /\ GivenUp("rawBuffers") = 13
  BY DEF Taken, GivenUp
<1>2. /\ Needed("settings") /\ Needed("hwconfig") /\ Needed("sensors")
      /\ Needed("params") /\ Needed("pcmOut") /\ Needed("rawBuffers")
      /\ Needed("mixer") <=> ~opt.externalCard
      /\ ~Needed("inputDevs")
      /\ Needed("inputBuffers") <=> ~opt.ctrlInputsOff
      /\ Needed("outputFiles") <=> ~opt.ctrlOutputsOff
      /\ Needed("pcmIn") <=> ~opt.captureOff
  BY DEF Needed
<1>3. QED
  BY <1>1, <1>2

(* Going from place p to place q gives up R, and takes H ...                *)
Covers(p, q, R, H) ==
  /\ p < q
  /\ R \subseteq Resource /\ H \subseteq Resource
  /\ \A r \in R : GivenUp(r) < q
  /\ \A r \in H : q <= GivenUp(r) /\ (Needed(r) \/ r = "inputDevs")
  /\ \A r \in Resource :
       p <= Taken(r) /\ Taken(r) < q /\ q <= GivenUp(r) /\ Needed(r) => r \in H
  /\ \A r \in Resource :
       10 <= p /\ p <= GivenUp(r) /\ GivenUp(r) < q /\ (Needed(r) \/ r = "inputDevs")
         => r \in R

(* ... and a step of main() that does so.                                   *)
Moves(p, q, R, H) ==
  /\ Place(main) = p /\ Place(main') = q
  /\ main \notin {"killed", "undefined"}
  /\ opt' = opt
  /\ up' => up \/ q = 10
  /\ \A r \in R : res'[r] # "held"
  /\ \A r \in H : res'[r] = "held"
  /\ \A r \in Resource \ (R \cup H) : res'[r] = res[r]

(* Such a step keeps ResInv.                                                *)
LEMMA Advance ==
  ASSUME ResInv, NEW p \in 0 .. 20, NEW q \in 0 .. 21, NEW R, NEW H,
         Covers(p, q, R, H), Moves(p, q, R, H)
  PROVE  ResInv'
<1>. /\ \A m : Place(m) \in Int
     /\ \A r : Taken(r) \in Int /\ GivenUp(r) \in Int /\ 10 <= GivenUp(r)
  BY Places
<1>. USE DEF Covers, Moves
<1>1. \A r \in Resource : Needed(r)' = Needed(r)
  BY DEF Needed
<1>2. NotReleased'
  BY DEF ResInv, NotReleased
<1>3. HeldWhenNeeded'
  BY <1>1 DEF ResInv, HeldWhenNeeded
<1>4. OnlyNeeded'
  BY <1>1 DEF ResInv, OnlyNeeded
<1>5. AllGivenUp'
  BY <1>1, <1>4 DEF ResInv, AllGivenUp, OnlyNeeded, UpInv
<1>6. UpInv'
  BY DEF ResInv, UpInv
<1>7. QED
  BY <1>2, <1>3, <1>4, <1>5, <1>6 DEF ResInv

(* A step that only releases, in its place: it never meets a resource that  *)
(* was released before.                                                     *)
LEMMA Release ==
  ASSUME TypeOK, ResInv, UNCHANGED <<opt, up>>,
         NEW p \in 0 .. 20, NEW q \in 0 .. 21, NEW R, NEW next,
         main \notin {"killed", "undefined"},
         Place(main) = p, Place(next) = q, Covers(p, q, R, {}),
         \A r \in R : p <= GivenUp(r),
         ReleaseThen(R, next)
  PROVE  main' = next /\ ResInv'
<1>. R \subseteq Resource
  BY DEF Covers
<1>1. /\ main' = next
      /\ \A r \in R : res'[r] # "held"
      /\ \A r \in Resource \ R : res'[r] = res[r]
  BY DEF ReleaseThen, ResInv, NotReleased, TypeOK
<1>2. Moves(p, q, R, {})
  BY <1>1 DEF Moves
<1>3. QED
  BY <1>1, <1>2, Advance

(* A step of another thread changes nothing that matters here.              *)
LEMMA Aside ==
  ASSUME ResInv, UNCHANGED <<main, res, opt, up>>
  PROVE  ResInv'
BY DEF ResInv, NotReleased, HeldWhenNeeded, AllGivenUp, OnlyNeeded, UpInv, Needed

(* After the end there is nothing to say of the resources.                  *)
LEMMA Ended ==
  ASSUME ResInv, main' \in {"killed", "undefined"}, UNCHANGED <<res, opt>>
  PROVE  ResInv'
<1>. Place(main') = 21 /\ \A r : GivenUp(r) <= 20 /\ GivenUp(r) \in Int
  BY Places DEF Place
<1>1. QED
  BY DEF ResInv, NotReleased, HeldWhenNeeded, AllGivenUp, OnlyNeeded, UpInv, Needed

(* The resources through every step of the program.                         *)
LEMMA ResInvStep ==
  ASSUME TypeOK, ResInv, [Next]_vars
  PROVE  ResInv'
<1>1. CASE ParseArguments
  <2>1. CASE main' = "hwconfig" /\ UNCHANGED res
    <3>1. Covers(0, 1, {}, {})
      BY <1>1, <2>1, Tables DEF Covers, Resource, ParseArguments
    <3>2. Moves(0, 1, {}, {})
      BY <1>1, <2>1 DEF ParseArguments, Moves, Place, Hold, process, Resource, TypeOK
    <3>3. QED
      BY <3>1, <3>2, Advance
  <2>2. CASE ReleaseThen({"settings"}, "exited")
    <3>1. Covers(0, 21, {"settings"}, {}) /\ \A r \in {"settings"} : 0 <= GivenUp(r)
      BY <1>1, <2>2, Tables DEF Covers, Resource
    <3>2. /\ ReleaseThen({"settings"}, "exited") /\ UNCHANGED <<opt, up>>
          /\ main = "parse" /\ Place(main) = 0 /\ Place("exited") = 21
      BY <1>1, <2>2 DEF ParseArguments, process, Place
    <3>3. QED
      BY <3>1, <3>2, Release
  <2>3. QED
    BY <1>1, <2>1, <2>2 DEF ParseArguments
<1>2. CASE ParseHwConfig
  <2>1. CASE main' = "mixer"
    <3>1. Covers(1, 2, {}, {"hwconfig"})
      BY <1>2, <2>1, Tables DEF Covers, Resource, ParseHwConfig
    <3>2. Moves(1, 2, {}, {"hwconfig"})
      BY <1>2, <2>1 DEF ParseHwConfig, Moves, Place, Hold, process, Resource, TypeOK
    <3>3. QED
      BY <3>1, <3>2, Advance
  <2>2. CASE main' = "undefined"
    BY <1>2, <2>2, Ended DEF ParseHwConfig, process
  <2>3. QED
    BY <1>2, <2>1, <2>2 DEF ParseHwConfig
<1>3. CASE SetMixerPaths
  <2>1. CASE main' = "sensors" /\ opt.externalCard /\ UNCHANGED res
    <3>1. Covers(2, 3, {}, {})
      BY <1>3, <2>1, Tables DEF Covers, Resource, SetMixerPaths
    <3>2. Moves(2, 3, {}, {})
      <4>1. /\ main = "mixer" /\ opt' = opt /\ up' = up
            /\ main' = "sensors"
        BY <1>3, <2>1, Zenon DEF SetMixerPaths, process
      <4>2. Place(main) = 2 /\ Place(main') = 3
        BY <4>1 DEF Place
      <4>3. QED
        BY <4>1, <4>2, <2>1 DEF Moves, Hold
    <3>3. QED
      BY <3>1, <3>2, Advance
  <2>2. CASE main' = "sensors" /\ ~opt.externalCard /\ Hold({"mixer"})
    <3>1. Covers(2, 3, {}, {"mixer"})
      BY <1>3, <2>2, Tables DEF Covers, Resource, SetMixerPaths
    <3>2. Moves(2, 3, {}, {"mixer"})
      <4>1. /\ main = "mixer" /\ opt' = opt /\ up' = up
            /\ main' = "sensors"
        BY <1>3, <2>2, Zenon DEF SetMixerPaths, process
      <4>2. Place(main) = 2 /\ Place(main') = 3
        BY <4>1 DEF Place
      <4>3. QED
        BY <4>1, <4>2, <2>2 DEF Moves, Hold, Resource
    <3>3. QED
      BY <3>1, <3>2, Advance
  <2>3. CASE ReleaseThen({"hwconfig", "settings"}, "exited")
    <3>1. Covers(2, 21, {"hwconfig", "settings"}, {}) /\ \A r \in {"hwconfig", "settings"} : 2 <= GivenUp(r)
      BY <1>3, <2>3, Tables DEF Covers, Resource
    <3>2. /\ ReleaseThen({"hwconfig", "settings"}, "exited") /\ UNCHANGED <<opt, up>>
          /\ main = "mixer" /\ Place(main) = 2 /\ Place("exited") = 21
      BY <1>3, <2>3 DEF SetMixerPaths, process, Place
    <3>3. QED
      BY <3>1, <3>2, Release
  <2>4. CASE main' = "exited" /\ res' = [res EXCEPT !["mixer"] = "released", !["hwconfig"] = "released", !["settings"] = "released"]
    <3>1. Covers(2, 21, {"mixer", "hwconfig", "settings"}, {})
      BY <1>3, <2>4, Tables DEF Covers, Resource, SetMixerPaths
    <3>2. Moves(2, 21, {"mixer", "hwconfig", "settings"}, {})
      BY <1>3, <2>4 DEF SetMixerPaths, Moves, Place, Hold, process, Resource, TypeOK
    <3>3. QED
      BY <3>1, <3>2, Advance
  <2>5. QED
    BY <1>3, <2>1, <2>2, <2>3, <2>4, Zenon DEF SetMixerPaths
<1>4. CASE InitSensors
  <2>1. Covers(3, 4, {}, {"sensors"})
    BY <1>4, Tables DEF Covers, Resource, InitSensors
  <2>2. Moves(3, 4, {}, {"sensors"})
    BY <1>4 DEF InitSensors, Moves, Place, Hold, process, Resource, TypeOK
  <2>3. QED
    BY <2>1, <2>2, Advance
<1>5. CASE InitCtrlInputs
  <2>1. CASE opt.ctrlInputsOff
    <3>1. Covers(4, 5, {}, {})
      BY <1>5, <2>1, Tables DEF Covers, Resource, InitCtrlInputs
    <3>2. Moves(4, 5, {}, {})
      BY <1>5, <2>1 DEF InitCtrlInputs, Moves, Place, Hold, process, Resource, TypeOK
    <3>3. QED
      BY <3>1, <3>2, Advance
  <2>2. CASE ~opt.ctrlInputsOff /\ Hold({"inputBuffers"})
    <3>1. Covers(4, 5, {}, {"inputBuffers"})
      BY <1>5, <2>2, Tables DEF Covers, Resource, InitCtrlInputs
    <3>2. Moves(4, 5, {}, {"inputBuffers"})
      BY <1>5, <2>2 DEF InitCtrlInputs, Moves, Place, Hold, process, Resource, TypeOK
    <3>3. QED
      BY <3>1, <3>2, Advance
  <2>3. CASE ~opt.ctrlInputsOff /\ Hold({"inputBuffers", "inputDevs"})
    <3>1. Covers(4, 5, {}, {"inputBuffers", "inputDevs"})
      BY <1>5, <2>3, Tables DEF Covers, Resource, InitCtrlInputs
    <3>2. Moves(4, 5, {}, {"inputBuffers", "inputDevs"})
      BY <1>5, <2>3 DEF InitCtrlInputs, Moves, Place, Hold, process, Resource, TypeOK
    <3>3. QED
      BY <3>1, <3>2, Advance
  <2>4. QED
    BY <1>5, <2>1, <2>2, <2>3 DEF InitCtrlInputs
<1>6. CASE InitCtrlOutputs
  <2>1. CASE main' = "audioserver" /\ opt.ctrlOutputsOff
    <3>1. Covers(5, 6, {}, {})
      BY <1>6, <2>1, Tables DEF Covers, Resource, InitCtrlOutputs
    <3>2. Moves(5, 6, {}, {})
      BY <1>6, <2>1 DEF InitCtrlOutputs, Moves, Place, Hold, process, Resource, TypeOK
    <3>3. QED
      BY <3>1, <3>2, Advance
  <2>2. CASE main' = "audioserver" /\ ~opt.ctrlOutputsOff
    <3>1. Covers(5, 6, {}, {"outputFiles"})
      BY <1>6, <2>2, Tables DEF Covers, Resource, InitCtrlOutputs
    <3>2. Moves(5, 6, {}, {"outputFiles"})
      BY <1>6, <2>2 DEF InitCtrlOutputs, Moves, Place, Hold, process, Resource, TypeOK
    <3>3. QED
      BY <3>1, <3>2, Advance
  <2>3. CASE main' = "undefined"
    BY <1>6, <2>3, Ended DEF InitCtrlOutputs, process
  <2>4. QED
    BY <1>6, <2>1, <2>2, <2>3 DEF InitCtrlOutputs
<1>7. CASE StopAudioserver
  <2>1. Covers(6, 7, {}, {})
    BY <1>7, Tables DEF Covers, Resource, StopAudioserver
  <2>2. Moves(6, 7, {}, {})
    BY <1>7 DEF StopAudioserver, Moves, Place, Hold, process, Resource, TypeOK
  <2>3. QED
    BY <2>1, <2>2, Advance
<1>8. CASE InitParams
  <2>1. CASE main' = "pcm"
    <3>1. Covers(7, 8, {}, {"params"})
      BY <1>8, <2>1, Tables DEF Covers, Resource, InitParams
    <3>2. Moves(7, 8, {}, {"params"})
      BY <1>8, <2>1 DEF InitParams, Moves, Place, Hold, process, Resource, TypeOK
    <3>3. QED
      BY <3>1, <3>2, Advance
  <2>2. CASE main' = "cleanOutputs"
    <3>1. Covers(7, 14, {"params"}, {})
      BY <1>8, <2>2, Tables DEF Covers, Resource, InitParams
    <3>2. Moves(7, 14, {"params"}, {})
      BY <1>8, <2>2 DEF InitParams, Moves, Place, Hold, process, Resource, TypeOK
    <3>3. QED
      BY <3>1, <3>2, Advance
  <2>3. QED
    BY <1>8, <2>1, <2>2 DEF InitParams
<1>9. CASE InitPcm
  <2>1. CASE main' = "buffers" /\ opt.captureOff /\ Hold({"pcmOut"})
    <3>1. Covers(8, 9, {}, {"pcmOut"})
      BY <1>9, <2>1, Tables DEF Covers, Resource, InitPcm
    <3>2. Moves(8, 9, {}, {"pcmOut"})
      BY <1>9, <2>1 DEF InitPcm, Moves, Place, Hold, process, Resource, TypeOK
    <3>3. QED
      BY <3>1, <3>2, Advance
  <2>2. CASE main' = "buffers" /\ ~opt.captureOff /\ Hold({"pcmOut", "pcmIn"})
    <3>1. Covers(8, 9, {}, {"pcmOut", "pcmIn"})
      BY <1>9, <2>2, Tables DEF Covers, Resource, InitPcm
    <3>2. Moves(8, 9, {}, {"pcmOut", "pcmIn"})
      BY <1>9, <2>2 DEF InitPcm, Moves, Place, Hold, process, Resource, TypeOK
    <3>3. QED
      BY <3>1, <3>2, Advance
  <2>3. CASE ReleaseThen({"params"}, "cleanOutputs")
    <3>1. Covers(8, 14, {"params"}, {}) /\ \A r \in {"params"} : 8 <= GivenUp(r)
      BY <1>9, <2>3, Tables DEF Covers, Resource
    <3>2. /\ ReleaseThen({"params"}, "cleanOutputs") /\ UNCHANGED <<opt, up>>
          /\ main = "pcm" /\ Place(main) = 8 /\ Place("cleanOutputs") = 14
      BY <1>9, <2>3 DEF InitPcm, process, Place
    <3>3. QED
      BY <3>1, <3>2, Release
  <2>4. CASE main' = "cleanOutputs" /\ res' = [res EXCEPT !["params"] = "released", !["pcmOut"] = "released"]
    <3>1. Covers(8, 14, {"params", "pcmOut"}, {})
      BY <1>9, <2>4, Tables DEF Covers, Resource, InitPcm
    <3>2. Moves(8, 14, {"params", "pcmOut"}, {})
      BY <1>9, <2>4 DEF InitPcm, Moves, Place, Hold, process, Resource, TypeOK
    <3>3. QED
      BY <3>1, <3>2, Advance
  <2>5. QED
    BY <1>9, <2>1, <2>2, <2>3, <2>4 DEF InitPcm
<1>10. CASE InitBuffers
  <2>1. CASE main' = "install"
    <3>1. Covers(9, 10, {}, {"rawBuffers"})
      BY <1>10, <2>1, Tables DEF Covers, Resource, InitBuffers
    <3>2. Moves(9, 10, {}, {"rawBuffers"})
      BY <1>10, <2>1 DEF InitBuffers, Moves, Place, Hold, process, Resource, TypeOK
    <3>3. QED
      BY <3>1, <3>2, Advance
  <2>2. CASE main' = "cleanOutputs"
    <3>1. Covers(9, 14, {}, {})
      BY <1>10, <2>2, Tables DEF Covers, Resource, InitBuffers
    <3>2. Moves(9, 14, {}, {})
      BY <1>10, <2>2 DEF InitBuffers, Moves, Place, Hold, process, Resource, TypeOK
    <3>3. QED
      BY <3>1, <3>2, Advance
  <2>3. QED
    BY <1>10, <2>1, <2>2 DEF InitBuffers
<1>11. CASE InstallHandlers
  <2>1. Covers(10, 11, {"settings"}, {}) /\ \A r \in {"settings"} : 10 <= GivenUp(r)
    BY <1>11, Tables DEF Covers, Resource
  <2>2. /\ ReleaseThen({"settings"}, "setup") /\ UNCHANGED <<opt, up>>
        /\ main = "install" /\ Place(main) = 10 /\ Place("setup") = 11
    BY <1>11 DEF InstallHandlers, process, Place
  <2>3. QED
    BY <2>1, <2>2, Release
<1>12. CASE StartAudio
  <2>1. CASE main' = "joinAudio"
    <3>1. Covers(11, 12, {}, {})
      BY <1>12, <2>1, Tables DEF Covers, Resource, StartAudio
    <3>2. Moves(11, 12, {}, {})
      BY <1>12, <2>1 DEF StartAudio, Moves, Place, Hold, process, Resource, TypeOK
    <3>3. QED
      BY <3>1, <3>2, Advance
  <2>2. CASE main' = "cleanAudio"
    <3>1. Covers(11, 13, {}, {})
      BY <1>12, <2>2, Tables DEF Covers, Resource, StartAudio
    <3>2. Moves(11, 13, {}, {})
      BY <1>12, <2>2 DEF StartAudio, Moves, Place, Hold, process, Resource, TypeOK
    <3>3. QED
      BY <3>1, <3>2, Advance
  <2>3. QED
    BY <1>12, <2>1, <2>2 DEF StartAudio
<1>13. CASE JoinAudio
  <2>1. Covers(12, 13, {}, {})
    BY <1>13, Tables DEF Covers, Resource, JoinAudio
  <2>2. Moves(12, 13, {}, {})
    BY <1>13 DEF JoinAudio, Moves, Place, Hold, process, Resource, TypeOK
  <2>3. QED
    BY <2>1, <2>2, Advance
<1>14. CASE CleanupAudio
  <2>1. Covers(13, 14, {"rawBuffers", "pcmOut", "pcmIn", "params"}, {}) /\ \A r \in {"rawBuffers", "pcmOut", "pcmIn", "params"} : 13 <= GivenUp(r)
    BY <1>14, Tables DEF Covers, Resource
  <2>2. /\ ReleaseThen({"rawBuffers", "pcmOut", "pcmIn", "params"}, "cleanOutputs") /\ UNCHANGED <<opt, up>>
        /\ main = "cleanAudio" /\ Place(main) = 13 /\ Place("cleanOutputs") = 14
    BY <1>14 DEF CleanupAudio, process, Place
  <2>3. QED
    BY <2>1, <2>2, Release
<1>15. CASE CleanupCtrlOutputs
  <2>1. CASE opt.ctrlOutputsOff
    <3>1. Covers(14, 16, {}, {})
      BY <1>15, <2>1, Tables DEF Covers, Resource, CleanupCtrlOutputs
    <3>2. Moves(14, 16, {}, {})
      BY <1>15, <2>1 DEF CleanupCtrlOutputs, Moves, Place, Hold, process, Resource, TypeOK
    <3>3. QED
      BY <3>1, <3>2, Advance
  <2>2. CASE ~opt.ctrlOutputsOff
    <3>1. Covers(14, 15, {}, {})
      BY <1>15, <2>2, Tables DEF Covers, Resource, CleanupCtrlOutputs
    <3>2. Moves(14, 15, {}, {})
      BY <1>15, <2>2 DEF CleanupCtrlOutputs, Moves, Place, Hold, process, Resource, TypeOK
    <3>3. QED
      BY <3>1, <3>2, Advance
  <2>3. QED
    BY <1>15, <2>1, <2>2 DEF CleanupCtrlOutputs
<1>16. CASE JoinScreen
  <2>1. Covers(15, 16, {"outputFiles"}, {}) /\ \A r \in {"outputFiles"} : 15 <= GivenUp(r)
    BY <1>16, Tables DEF Covers, Resource
  <2>2. /\ ReleaseThen({"outputFiles"}, "cleanInputs") /\ UNCHANGED <<opt, up>>
        /\ main = "joinScreen" /\ Place(main) = 15 /\ Place("cleanInputs") = 16
    BY <1>16 DEF JoinScreen, process, Place
  <2>3. QED
    BY <2>1, <2>2, Release
<1>17. CASE CleanupCtrlInputs
  <2>1. Covers(16, 17, {}, {})
    BY <1>17, Tables DEF Covers, Resource, CleanupCtrlInputs
  <2>2. Moves(16, 17, {}, {})
    BY <1>17 DEF CleanupCtrlInputs, Moves, Place, Hold, process, Resource, TypeOK
  <2>3. QED
    BY <2>1, <2>2, Advance
<1>18. CASE JoinInputs
  <2>1. Covers(17, 18, {"inputDevs", "inputBuffers"}, {}) /\ \A r \in {"inputDevs", "inputBuffers"} : 17 <= GivenUp(r)
    BY <1>18, Tables DEF Covers, Resource
  <2>2. /\ ReleaseThen({"inputDevs", "inputBuffers"}, "cleanSensors") /\ UNCHANGED <<opt, up>>
        /\ main = "joinInputs" /\ Place(main) = 17 /\ Place("cleanSensors") = 18
    BY <1>18 DEF JoinInputs, process, Place
  <2>3. QED
    BY <2>1, <2>2, Release
<1>19. CASE CleanupSensors
  <2>1. Covers(18, 19, {"sensors"}, {}) /\ \A r \in {"sensors"} : 18 <= GivenUp(r)
    BY <1>19, Tables DEF Covers, Resource
  <2>2. /\ ReleaseThen({"sensors"}, "resetMixer") /\ UNCHANGED <<opt, up>>
        /\ main = "cleanSensors" /\ Place(main) = 18 /\ Place("resetMixer") = 19
    BY <1>19 DEF CleanupSensors, process, Place
  <2>3. QED
    BY <2>1, <2>2, Release
<1>20. CASE ResetMixerPaths
  <2>1. Covers(19, 20, {"mixer"}, {}) /\ \A r \in {"mixer"} : 19 <= GivenUp(r)
    BY <1>20, Tables DEF Covers, Resource
  <2>2. /\ ReleaseThen({"mixer"}, "freeHwConfig") /\ UNCHANGED <<opt, up>>
        /\ main = "resetMixer" /\ Place(main) = 19 /\ Place("freeHwConfig") = 20
    BY <1>20 DEF ResetMixerPaths, process, Place
  <2>3. QED
    BY <2>1, <2>2, Release
<1>21. CASE FreeHwConfig
  <2>1. Covers(20, 21, {"hwconfig"}, {}) /\ \A r \in {"hwconfig"} : 20 <= GivenUp(r)
    BY <1>21, Tables DEF Covers, Resource
  <2>2. /\ ReleaseThen({"hwconfig"}, "exited") /\ UNCHANGED <<opt, up>>
        /\ main = "freeHwConfig" /\ Place(main) = 20 /\ Place("exited") = 21
    BY <1>21 DEF FreeHwConfig, process, Place
  <2>3. QED
    BY <2>1, <2>2, Release
<1>22. CASE Audio \/ \E t \in {"inputs", "screen"} : PollerExit(t)
  BY <1>22, Aside DEF Audio, AudioCheck, AudioRead, Render, AudioWrite,
     WriteCtrlOutputs, PollerExit, audioOnly, process
<1>23. CASE Signal
  BY <1>23, Aside, Ended DEF Signal
<1>24. CASE UNCHANGED vars
  BY <1>24, Aside DEF vars
<1>25. QED
  BY <1>1, <1>2, <1>3, <1>4, <1>5, <1>6, <1>7, <1>8, <1>9, <1>10, <1>11, <1>12, <1>13, <1>14, <1>15, <1>16, <1>17, <1>18, <1>19, <1>20, <1>21, <1>22, <1>23, <1>24 DEF Next, Main

(* Every releasing step of main() goes where the code goes: it never meets  *)
(* a pointer that was released before.                                      *)
LEMMA Targets ==
  ASSUME TypeOK, ResInv
  PROVE  /\ ParseArguments => main' \in {"hwconfig", "exited"}
         /\ SetMixerPaths => main' \in {"sensors", "exited"}
         /\ InitPcm => main' \in {"buffers", "cleanOutputs"}
         /\ InstallHandlers => main' = "setup"
         /\ CleanupAudio => main' = "cleanOutputs"
         /\ JoinScreen => main' = "cleanInputs"
         /\ JoinInputs => main' = "cleanSensors"
         /\ CleanupSensors => main' = "resetMixer"
         /\ ResetMixerPaths => main' = "freeHwConfig"
         /\ FreeHwConfig => main' = "exited"
<1>1. ASSUME NEW R \in SUBSET Resource, NEW next, ReleaseThen(R, next),
             main \notin {"killed", "undefined"},
             \A r \in R : Place(main) <= GivenUp(r)
      PROVE  main' = next
  BY <1>1 DEF ReleaseThen, ResInv, NotReleased
<1>2. ASSUME ParseArguments
      PROVE  main' \in {"hwconfig", "exited"}
  <2>1. /\ main = "parse" /\ Place(main) = 0
        /\ {"settings"} \in SUBSET Resource
        /\ \A r \in {"settings"} : Place(main) <= GivenUp(r)
    BY <1>2, Tables DEF ParseArguments, Place, Resource
  <2>2. ReleaseThen({"settings"}, "exited") => main' = "exited"
    BY <2>1, <1>1
  <2>3. QED
    BY <1>2, <2>2, Zenon DEF ParseArguments
<1>3. ASSUME SetMixerPaths
      PROVE  main' \in {"sensors", "exited"}
  <2>1. /\ main = "mixer" /\ Place(main) = 2
        /\ {"hwconfig", "settings"} \in SUBSET Resource
        /\ \A r \in {"hwconfig", "settings"} : Place(main) <= GivenUp(r)
    BY <1>3, Tables DEF SetMixerPaths, Place, Resource
  <2>2. ReleaseThen({"hwconfig", "settings"}, "exited") => main' = "exited"
    BY <2>1, <1>1
  <2>3. QED
    BY <1>3, <2>2, Zenon DEF SetMixerPaths
<1>4. ASSUME InitPcm
      PROVE  main' \in {"buffers", "cleanOutputs"}
  <2>1. /\ main = "pcm" /\ Place(main) = 8
        /\ {"params"} \in SUBSET Resource
        /\ \A r \in {"params"} : Place(main) <= GivenUp(r)
    BY <1>4, Tables DEF InitPcm, Place, Resource
  <2>2. ReleaseThen({"params"}, "cleanOutputs") => main' = "cleanOutputs"
    BY <2>1, <1>1
  <2>3. QED
    BY <1>4, <2>2, Zenon DEF InitPcm
<1>5. ASSUME InstallHandlers
      PROVE  main' = "setup"
  <2>1. /\ main = "install" /\ Place(main) = 10
        /\ {"settings"} \in SUBSET Resource
        /\ \A r \in {"settings"} : Place(main) <= GivenUp(r)
    BY <1>5, Tables DEF InstallHandlers, Place, Resource
  <2>2. ReleaseThen({"settings"}, "setup") => main' = "setup"
    BY <2>1, <1>1
  <2>3. QED
    BY <1>5, <2>2, Zenon DEF InstallHandlers
<1>6. ASSUME CleanupAudio
      PROVE  main' = "cleanOutputs"
  <2>1. /\ main = "cleanAudio" /\ Place(main) = 13
        /\ {"rawBuffers", "pcmOut", "pcmIn", "params"} \in SUBSET Resource
        /\ \A r \in {"rawBuffers", "pcmOut", "pcmIn", "params"} : Place(main) <= GivenUp(r)
    BY <1>6, Tables DEF CleanupAudio, Place, Resource
  <2>2. ReleaseThen({"rawBuffers", "pcmOut", "pcmIn", "params"}, "cleanOutputs") => main' = "cleanOutputs"
    BY <2>1, <1>1
  <2>3. QED
    BY <1>6, <2>2, Zenon DEF CleanupAudio
<1>7. ASSUME JoinScreen
      PROVE  main' = "cleanInputs"
  <2>1. /\ main = "joinScreen" /\ Place(main) = 15
        /\ {"outputFiles"} \in SUBSET Resource
        /\ \A r \in {"outputFiles"} : Place(main) <= GivenUp(r)
    BY <1>7, Tables DEF JoinScreen, Place, Resource
  <2>2. ReleaseThen({"outputFiles"}, "cleanInputs") => main' = "cleanInputs"
    BY <2>1, <1>1
  <2>3. QED
    BY <1>7, <2>2, Zenon DEF JoinScreen
<1>8. ASSUME JoinInputs
      PROVE  main' = "cleanSensors"
  <2>1. /\ main = "joinInputs" /\ Place(main) = 17
        /\ {"inputDevs", "inputBuffers"} \in SUBSET Resource
        /\ \A r \in {"inputDevs", "inputBuffers"} : Place(main) <= GivenUp(r)
    BY <1>8, Tables DEF JoinInputs, Place, Resource
  <2>2. ReleaseThen({"inputDevs", "inputBuffers"}, "cleanSensors") => main' = "cleanSensors"
    BY <2>1, <1>1
  <2>3. QED
    BY <1>8, <2>2, Zenon DEF JoinInputs
<1>9. ASSUME CleanupSensors
      PROVE  main' = "resetMixer"
  <2>1. /\ main = "cleanSensors" /\ Place(main) = 18
        /\ {"sensors"} \in SUBSET Resource
        /\ \A r \in {"sensors"} : Place(main) <= GivenUp(r)
    BY <1>9, Tables DEF CleanupSensors, Place, Resource
  <2>2. ReleaseThen({"sensors"}, "resetMixer") => main' = "resetMixer"
    BY <2>1, <1>1
  <2>3. QED
    BY <1>9, <2>2, Zenon DEF CleanupSensors
<1>10. ASSUME ResetMixerPaths
      PROVE  main' = "freeHwConfig"
  <2>1. /\ main = "resetMixer" /\ Place(main) = 19
        /\ {"mixer"} \in SUBSET Resource
        /\ \A r \in {"mixer"} : Place(main) <= GivenUp(r)
    BY <1>10, Tables DEF ResetMixerPaths, Place, Resource
  <2>2. ReleaseThen({"mixer"}, "freeHwConfig") => main' = "freeHwConfig"
    BY <2>1, <1>1
  <2>3. QED
    BY <1>10, <2>2, Zenon DEF ResetMixerPaths
<1>11. ASSUME FreeHwConfig
      PROVE  main' = "exited"
  <2>1. /\ main = "freeHwConfig" /\ Place(main) = 20
        /\ {"hwconfig"} \in SUBSET Resource
        /\ \A r \in {"hwconfig"} : Place(main) <= GivenUp(r)
    BY <1>11, Tables DEF FreeHwConfig, Place, Resource
  <2>2. ReleaseThen({"hwconfig"}, "exited") => main' = "exited"
    BY <2>1, <1>1
  <2>3. QED
    BY <1>11, <2>2, Zenon DEF FreeHwConfig
<1>12. QED
  BY <1>2, <1>3, <1>4, <1>5, <1>6, <1>7, <1>8, <1>9, <1>10, <1>11

(* The threads through every step of the program.                           *)
LEMMA ThreadInvStep ==
  ASSUME TypeOK, ThreadInv, [Next]_vars
  PROVE  ThreadInv'
<1>. USE DEF ThreadInv, TypeOK, process, Alive, Place, Hold, ReleaseThen, Thread, Resource
<1>1. CASE ParseArguments
  BY <1>1 DEF ParseArguments
<1>2. CASE ParseHwConfig
  BY <1>2 DEF ParseHwConfig
<1>3. CASE SetMixerPaths
  BY <1>3 DEF SetMixerPaths
<1>4. CASE InitSensors
  BY <1>4 DEF InitSensors
<1>5. CASE InitCtrlInputs
  BY <1>5 DEF InitCtrlInputs
<1>6. CASE InitCtrlOutputs
  BY <1>6 DEF InitCtrlOutputs
<1>7. CASE StopAudioserver
  BY <1>7 DEF StopAudioserver
<1>8. CASE InitParams
  BY <1>8 DEF InitParams
<1>9. CASE InitPcm
  BY <1>9 DEF InitPcm
<1>10. CASE InitBuffers
  BY <1>10 DEF InitBuffers
<1>11. CASE InstallHandlers
  BY <1>11 DEF InstallHandlers
<1>12. CASE StartAudio
  BY <1>12 DEF StartAudio
<1>13. CASE JoinAudio
  BY <1>13 DEF JoinAudio
<1>14. CASE CleanupAudio
  BY <1>14 DEF CleanupAudio
<1>15. CASE CleanupCtrlOutputs
  BY <1>15 DEF CleanupCtrlOutputs
<1>16. CASE JoinScreen
  BY <1>16 DEF JoinScreen
<1>17. CASE CleanupCtrlInputs
  BY <1>17 DEF CleanupCtrlInputs
<1>18. CASE JoinInputs
  BY <1>18 DEF JoinInputs
<1>19. CASE CleanupSensors
  BY <1>19 DEF CleanupSensors
<1>20. CASE ResetMixerPaths
  BY <1>20 DEF ResetMixerPaths
<1>21. CASE FreeHwConfig
  BY <1>21 DEF FreeHwConfig
<1>22. CASE Audio
  BY <1>22 DEF Audio, AudioCheck, AudioRead, Render, AudioWrite,
     WriteCtrlOutputs, AudioAt, audioOnly
<1>23. CASE \E t \in {"inputs", "screen"} : PollerExit(t)
  BY <1>23 DEF PollerExit, audioOnly
<1>24. CASE Signal
  BY <1>24 DEF Signal
<1>25. CASE UNCHANGED vars
  BY <1>25 DEF vars
<1>26. QED
  BY <1>1, <1>2, <1>3, <1>4, <1>5, <1>6, <1>7, <1>8, <1>9, <1>10,
     <1>11, <1>12, <1>13, <1>14, <1>15, <1>16, <1>17, <1>18, <1>19, <1>20,
     <1>21, <1>22, <1>23, <1>24, <1>25 DEF Next, Main

(* The phone through every step of the program.                             *)
LEMMA PhoneInvStep ==
  ASSUME TypeOK, ResInv, ThreadInv, PhoneInv, [Next]_vars
  PROVE  PhoneInv'
<1>. up => main \notin {"parse", "hwconfig", "mixer", "sensors", "inputs", "outputs",
                       "audioserver", "format", "pcm", "buffers"}
  BY DEF ResInv, UpInv, Place
<1>. USE DEF PhoneInv, TypeOK, process
<1>1. CASE ParseArguments
  BY <1>1, Targets DEF ParseArguments, Thread, ThreadInv
<1>2. CASE ParseHwConfig
  BY <1>2, Targets DEF ParseHwConfig, Thread, ThreadInv
<1>3. CASE SetMixerPaths
  BY <1>3, Targets DEF SetMixerPaths, Thread, ThreadInv
<1>4. CASE InitSensors
  BY <1>4, Targets DEF InitSensors, Thread, ThreadInv
<1>5. CASE InitCtrlInputs
  BY <1>5, Targets DEF InitCtrlInputs, Thread, ThreadInv
<1>6. CASE InitCtrlOutputs
  BY <1>6, Targets DEF InitCtrlOutputs, Thread, ThreadInv
<1>7. CASE StopAudioserver
  BY <1>7, Targets DEF StopAudioserver, Thread, ThreadInv
<1>8. CASE InitParams
  BY <1>8, Targets DEF InitParams, Thread, ThreadInv
<1>9. CASE InitPcm
  BY <1>9, Targets DEF InitPcm, Thread, ThreadInv
<1>10. CASE InitBuffers
  BY <1>10, Targets DEF InitBuffers, Thread, ThreadInv
<1>11. CASE InstallHandlers
  BY <1>11, Targets DEF InstallHandlers, Thread, ThreadInv
<1>12. CASE StartAudio
  BY <1>12, Targets DEF StartAudio, Thread, ThreadInv
<1>13. CASE JoinAudio
  BY <1>13, Targets DEF JoinAudio, Thread, ThreadInv
<1>14. CASE CleanupAudio
  <2>1. /\ main = "cleanAudio" /\ main' = "cleanOutputs" /\ opt' = opt
        /\ handlers' = handlers /\ up' = up
    BY <1>14, Targets, Zenon DEF CleanupAudio
  <2>2. /\ GovernorsReset.paths = phone.paths
        /\ GovernorsReset.outputs = phone.outputs
        /\ GovernorsReset.governor = "original"
        /\ GovernorsReset.audioserver = phone.audioserver
        /\ GovernorsReset \in [paths : {"found", "default", "ldsp"},
                               outputs : {"initial", "written"},
                               governor : {"original", "performance"},
                               audioserver : {"running", "stopped", "stuck"}]
    BY <2>1 DEF GovernorsReset
  <2>3. /\ phone'.paths = phone.paths
        /\ phone'.outputs = phone.outputs
        /\ phone'.governor = "original"
        /\ phone'.audioserver # "stopped"
    BY <1>14, <2>2, <2>1 DEF CleanupAudio
  <2>4. QED
    BY <2>1, <2>3
<1>15. CASE CleanupCtrlOutputs
  BY <1>15, Targets DEF CleanupCtrlOutputs, Thread, ThreadInv
<1>16. CASE JoinScreen
  BY <1>16, Targets DEF JoinScreen, Thread, ThreadInv
<1>17. CASE CleanupCtrlInputs
  BY <1>17, Targets DEF CleanupCtrlInputs, Thread, ThreadInv
<1>18. CASE JoinInputs
  BY <1>18, Targets DEF JoinInputs, Thread, ThreadInv
<1>19. CASE CleanupSensors
  BY <1>19, Targets DEF CleanupSensors, Thread, ThreadInv
<1>20. CASE ResetMixerPaths
  BY <1>20, Targets DEF ResetMixerPaths, Thread, ThreadInv
<1>21. CASE FreeHwConfig
  BY <1>21, Targets DEF FreeHwConfig, Thread, ThreadInv
<1>22. CASE Audio
  BY <1>22, Targets DEF Audio, AudioCheck, AudioRead, Render, AudioWrite,
     WriteCtrlOutputs, AudioAt, audioOnly, Thread, ThreadInv
<1>23. CASE \E t \in {"inputs", "screen"} : PollerExit(t)
  BY <1>23, Targets DEF PollerExit, audioOnly, Thread, ThreadInv
<1>24. CASE Signal
  BY <1>24, Targets DEF Signal, Thread, ThreadInv
<1>25. CASE UNCHANGED vars
  BY <1>25, Targets DEF vars, Thread, ThreadInv
<1>26. QED
  BY <1>1, <1>2, <1>3, <1>4, <1>5, <1>6, <1>7, <1>8, <1>9, <1>10,
     <1>11, <1>12, <1>13, <1>14, <1>15, <1>16, <1>17, <1>18, <1>19, <1>20,
     <1>21, <1>22, <1>23, <1>24, <1>25 DEF Next, Main

(* ReleasedOnce through every step of the program: only the two calls whose *)
(* error paths are undefined end it there.                                  *)
LEMMA ReleasedOnceStep ==
  ASSUME TypeOK, ResInv, ReleasedOnce, [Next]_vars
  PROVE  ReleasedOnce'
<1>. USE DEF ReleasedOnce, process, MayFail, Succeed
<1>1. CASE ParseArguments
  BY <1>1, Targets DEF ParseArguments
<1>2. CASE ParseHwConfig
  BY <1>2, Targets DEF ParseHwConfig
<1>3. CASE SetMixerPaths
  BY <1>3, Targets DEF SetMixerPaths
<1>4. CASE InitSensors
  BY <1>4, Targets DEF InitSensors
<1>5. CASE InitCtrlInputs
  BY <1>5, Targets DEF InitCtrlInputs
<1>6. CASE InitCtrlOutputs
  BY <1>6, Targets DEF InitCtrlOutputs
<1>7. CASE StopAudioserver
  BY <1>7, Targets DEF StopAudioserver
<1>8. CASE InitParams
  BY <1>8, Targets DEF InitParams
<1>9. CASE InitPcm
  BY <1>9, Targets DEF InitPcm
<1>10. CASE InitBuffers
  BY <1>10, Targets DEF InitBuffers
<1>11. CASE InstallHandlers
  BY <1>11, Targets DEF InstallHandlers
<1>12. CASE StartAudio
  BY <1>12, Targets DEF StartAudio
<1>13. CASE JoinAudio
  BY <1>13, Targets DEF JoinAudio
<1>14. CASE CleanupAudio
  BY <1>14, Targets DEF CleanupAudio
<1>15. CASE CleanupCtrlOutputs
  BY <1>15, Targets DEF CleanupCtrlOutputs
<1>16. CASE JoinScreen
  BY <1>16, Targets DEF JoinScreen
<1>17. CASE CleanupCtrlInputs
  BY <1>17, Targets DEF CleanupCtrlInputs
<1>18. CASE JoinInputs
  BY <1>18, Targets DEF JoinInputs
<1>19. CASE CleanupSensors
  BY <1>19, Targets DEF CleanupSensors
<1>20. CASE ResetMixerPaths
  BY <1>20, Targets DEF ResetMixerPaths
<1>21. CASE FreeHwConfig
  BY <1>21, Targets DEF FreeHwConfig
<1>22. CASE Audio
  BY <1>22, Targets DEF Audio, AudioCheck, AudioRead, Render, AudioWrite,
     WriteCtrlOutputs, AudioAt, audioOnly
<1>23. CASE \E t \in {"inputs", "screen"} : PollerExit(t)
  BY <1>23, Targets DEF PollerExit, audioOnly
<1>24. CASE Signal
  BY <1>24, Targets DEF Signal
<1>25. CASE UNCHANGED vars
  BY <1>25, Targets DEF vars
<1>26. QED
  BY <1>1, <1>2, <1>3, <1>4, <1>5, <1>6, <1>7, <1>8, <1>9, <1>10,
     <1>11, <1>12, <1>13, <1>14, <1>15, <1>16, <1>17, <1>18, <1>19, <1>20,
     <1>21, <1>22, <1>23, <1>24, <1>25 DEF Next, Main

-----------------------------------------------------------------------------
(* The strengthening of the three invariants: the resources and the phone   *)
(* follow the place of main(), and the threads stay between their places.   *)
IInv == TypeOK /\ ResInv /\ ThreadInv /\ PhoneInv /\ ReleasedOnce

(* IInv is inductive, so it holds in every reachable state.                 *)
THEOREM IInvInvariant == Spec => []IInv
<1>1. Init => ResInv /\ ThreadInv /\ PhoneInv /\ ReleasedOnce
  <2>. SUFFICES ASSUME Init
                PROVE  ResInv /\ ThreadInv /\ PhoneInv /\ ReleasedOnce
    OBVIOUS
  <2>1. Place(main) = 0 /\ main = "parse" /\ up = FALSE
    BY DEF Init, Place
  <2>2. \A r \in Resource : res[r] = "held" <=> r = "settings"
    BY DEF Init, Resource
  <2>3. \A r \in Resource : res[r] # "released"
    BY DEF Init
  <2>4. ResInv
    <3>1. \A r \in Resource : Taken(r) < 0 => r = "settings"
      BY Tables DEF Resource
    <3>2. QED
      BY <2>1, <2>2, <2>3, <3>1, Tables
      DEF ResInv, NotReleased, HeldWhenNeeded, AllGivenUp, OnlyNeeded, UpInv, Resource
  <2>5. ThreadInv
    BY <2>1 DEF ThreadInv, Init, Thread
  <2>6. PhoneInv
    BY <2>1 DEF PhoneInv, Init, phoneAsFound
  <2>7. QED
    BY <2>1, <2>4, <2>5, <2>6 DEF ReleasedOnce
<1>2. TypeOK /\ ResInv /\ ThreadInv /\ PhoneInv /\ ReleasedOnce /\ [Next]_vars
        => (ResInv /\ ThreadInv /\ PhoneInv /\ ReleasedOnce)'
  BY ResInvStep, ThreadInvStep, PhoneInvStep, ReleasedOnceStep
<1>3. QED
  BY <1>1, <1>2, TypeCorrect, PTL DEF Spec, IInv

(* No thread outlives what it works on, whatever fails during the start and *)
(* whenever a stop is asked for (the joins inside the cleanup functions).   *)
THEOREM ThreadsCorrect == Spec => []LiveThreadsOwnTheirResources
<1>1. IInv => LiveThreadsOwnTheirResources
  <2>. SUFFICES ASSUME IInv
                PROVE  LiveThreadsOwnTheirResources
    OBVIOUS
  <2>1. ASSUME thread["audio"] = "running" \/ main \in {"setup", "joinAudio"},
               NEW r \in AudioUses
        PROVE  res[r] = "held"
    <3>1. Place(main) \in {11, 12}
      BY <2>1 DEF IInv, ThreadInv, Place
    <3>2. r \in Resource /\ Needed(r) /\ Taken(r) < 11 /\ 12 <= GivenUp(r)
      BY <2>1, Tables DEF AudioUses, Used, Resource
    <3>3. QED
      BY <3>1, <3>2, Places DEF IInv, ResInv, HeldWhenNeeded
  <2>2. QED
    BY <2>1 DEF LiveThreadsOwnTheirResources, IInv, ThreadInv
<1>2. QED
  BY <1>1, IInvInvariant, PTL

(* Nothing is freed or closed twice on any way out of main(), but for the   *)
(* two error paths that are undefined.                                      *)
THEOREM ReleasedOnceCorrect == Spec => []ReleasedOnce
BY IInvInvariant, PTL DEF IInv

(* Whatever way main() returns, the phone is restored; after a complete     *)
(* start nothing is left open (the order and the conditions of the cleanup  *)
(* functions).                                                              *)
THEOREM RestoredCorrect == Spec => []RestoredAtExit
<1>1. IInv => RestoredAtExit
  <2>. SUFFICES ASSUME IInv, main = "exited"
                PROVE  RestoredAtExit
    BY DEF RestoredAtExit
  <2>1. Place(main) = 21
    BY DEF Place
  <2>2. up => \A r \in Resource : res[r] # "held"
    BY <2>1, Places DEF IInv, ResInv, AllGivenUp
  <2>3. phone.governor = "original" /\ phone.outputs = "initial"
    BY DEF IInv, PhoneInv, TypeOK
  <2>4. phone.paths = "ldsp" => opt.preserveMixer
    BY DEF IInv, PhoneInv
  <2>5. up => phone.audioserver # "stopped"
    BY DEF IInv, PhoneInv
  <2>6. QED
    BY <2>2, <2>3, <2>4, <2>5 DEF RestoredAtExit
<1>2. QED
  BY <1>1, IInvInvariant, PTL

-----------------------------------------------------------------------------
(* The joins.                                                               *)

\* A thread exists from the place that creates it, was told to stop before the
\* one that joins it, and is gone after that.
JoinInv ==
  /\ main = "joinAudio" => thread["audio"] # "none"
  /\ Place(main) <= 4 => thread["inputs"] = "none"
  /\ Place(main) <= 5 => thread["screen"] = "none"
  /\ 5 < Place(main) /\ Place(main) < 21 => thread["screen"] # "none"
  /\ main = "joinScreen" => gShouldStop
  /\ main = "joinInputs" /\ thread["inputs"] # "none" => gShouldStop
  /\ \A t \in Thread : thread[t] = "exited" => gShouldStop
  /\ 15 < Place(main) /\ main \notin {"killed", "undefined"} /\ ~opt.ctrlOutputsOff
       => thread["screen"] # "running"
  /\ 17 < Place(main) /\ main \notin {"killed", "undefined"}
       => thread["inputs"] # "running"

(* JoinInv through every step of the program.                               *)
LEMMA JoinInvStep ==
  ASSUME TypeOK, ResInv, JoinInv, [Next]_vars
  PROVE  JoinInv'
<1>. USE DEF JoinInv, TypeOK, process, Thread, Place
<1>1. CASE ParseArguments
  BY <1>1, Targets DEF ParseArguments
<1>2. CASE ParseHwConfig
  BY <1>2, Targets DEF ParseHwConfig
<1>3. CASE SetMixerPaths
  BY <1>3, Targets DEF SetMixerPaths
<1>4. CASE InitSensors
  BY <1>4, Targets DEF InitSensors
<1>5. CASE InitCtrlInputs
  BY <1>5, Targets DEF InitCtrlInputs
<1>6. CASE InitCtrlOutputs
  BY <1>6, Targets DEF InitCtrlOutputs
<1>7. CASE StopAudioserver
  BY <1>7, Targets DEF StopAudioserver
<1>8. CASE InitParams
  BY <1>8, Targets DEF InitParams
<1>9. CASE InitPcm
  BY <1>9, Targets DEF InitPcm
<1>10. CASE InitBuffers
  BY <1>10, Targets DEF InitBuffers
<1>11. CASE InstallHandlers
  BY <1>11, Targets DEF InstallHandlers
<1>12. CASE StartAudio
  BY <1>12, Targets DEF StartAudio
<1>13. CASE JoinAudio
  BY <1>13, Targets DEF JoinAudio
<1>14. CASE CleanupAudio
  <2>1. main = "cleanAudio" /\ main' = "cleanOutputs"
    BY <1>14, Targets DEF CleanupAudio
  <2>2. UNCHANGED <<opt, thread, gShouldStop>>
    BY <1>14, Zenon DEF CleanupAudio, process
  <2>. QED
    BY <2>1, <2>2
<1>15. CASE CleanupCtrlOutputs
  BY <1>15, Targets DEF CleanupCtrlOutputs
<1>16. CASE JoinScreen
  BY <1>16, Targets DEF JoinScreen
<1>17. CASE CleanupCtrlInputs
  BY <1>17, Targets DEF CleanupCtrlInputs
<1>18. CASE JoinInputs
  BY <1>18, Targets DEF JoinInputs
<1>19. CASE CleanupSensors
  BY <1>19, Targets DEF CleanupSensors
<1>20. CASE ResetMixerPaths
  BY <1>20, Targets DEF ResetMixerPaths
<1>21. CASE FreeHwConfig
  BY <1>21, Targets DEF FreeHwConfig
<1>22. CASE Audio
  BY <1>22 DEF Audio, AudioCheck, AudioRead, Render, AudioWrite, WriteCtrlOutputs,
     AudioAt, audioOnly, Alive
<1>23. CASE \E t \in {"inputs", "screen"} : PollerExit(t)
  BY <1>23 DEF PollerExit, audioOnly, Alive
<1>24. CASE Signal
  BY <1>24 DEF Signal, Alive
<1>25. CASE UNCHANGED vars
  BY <1>25 DEF vars
<1>26. QED
  BY <1>1, <1>2, <1>3, <1>4, <1>5, <1>6, <1>7, <1>8, <1>9, <1>10,
     <1>11, <1>12, <1>13, <1>14, <1>15, <1>16, <1>17, <1>18, <1>19, <1>20,
     <1>21, <1>22, <1>23, <1>24, <1>25 DEF Next, Main

(* It holds of every behaviour.                                             *)
LEMMA JoinInvInvariant == Spec => [](IInv /\ JoinInv)
<1>1. Init => JoinInv
  BY DEF Init, JoinInv, Place, Thread
<1>2. IInv /\ JoinInv /\ [Next]_vars => JoinInv'
  BY JoinInvStep DEF IInv
<1>3. QED
  BY <1>1, <1>2, IInvInvariant, PTL DEF Spec

(* Every join of main() is of a thread that exists and was told to stop     *)
(* (LDSP_startAudio, LDSP_cleanupCtrlOutputs, LDSP_cleanupCtrlInputs).      *)
THEOREM JoinsCorrect == Spec => []JoinedThreadsEnd
<1>1. JoinInv => JoinedThreadsEnd
  BY DEF JoinInv, JoinedThreadsEnd, Place
<1>2. QED
  BY <1>1, JoinInvInvariant, PTL

(* main() returns after every thread has ended, the screen thread of a      *)
(* program without control outputs excepted.                                *)
THEOREM LeftCorrect == Spec => []OnlyScreenThreadLeft
<1>1. IInv /\ JoinInv => OnlyScreenThreadLeft
  BY DEF JoinInv, IInv, ThreadInv, OnlyScreenThreadLeft, Place
<1>2. QED
  BY <1>1, JoinInvInvariant, PTL

-----------------------------------------------------------------------------
(* The order of the user's functions.                                       *)

\* The audio thread's history, by the place of main().
UserInv ==
  /\ failed \in {"setup", "thread"} => thread["audio"] = "none" /\ 13 <= Place(main)
  /\ thread["audio"] # "none" => 12 <= Place(main)
  /\ thread["audio"] = "none" => audioPc = "check"

(* UserInv through every step of the program.                               *)
LEMMA UserInvStep ==
  ASSUME TypeOK, ResInv, UserInv, [Next]_vars
  PROVE  UserInv'
<1>. USE DEF UserInv, TypeOK, process, MayFail, Succeed, Thread, Place
<1>1. CASE ParseArguments
  BY <1>1, Targets DEF ParseArguments
<1>2. CASE ParseHwConfig
  BY <1>2, Targets DEF ParseHwConfig
<1>3. CASE SetMixerPaths
  BY <1>3, Targets DEF SetMixerPaths
<1>4. CASE InitSensors
  BY <1>4, Targets DEF InitSensors
<1>5. CASE InitCtrlInputs
  BY <1>5, Targets DEF InitCtrlInputs
<1>6. CASE InitCtrlOutputs
  BY <1>6, Targets DEF InitCtrlOutputs
<1>7. CASE StopAudioserver
  BY <1>7, Targets DEF StopAudioserver
<1>8. CASE InitParams
  BY <1>8, Targets DEF InitParams
<1>9. CASE InitPcm
  BY <1>9, Targets DEF InitPcm
<1>10. CASE InitBuffers
  BY <1>10, Targets DEF InitBuffers
<1>11. CASE InstallHandlers
  BY <1>11, Targets DEF InstallHandlers
<1>12. CASE StartAudio
  BY <1>12, Targets DEF StartAudio
<1>13. CASE JoinAudio
  BY <1>13, Targets DEF JoinAudio
<1>14. CASE CleanupAudio
  <2>1. main = "cleanAudio" /\ main' = "cleanOutputs" /\ UNCHANGED <<thread, audioPc, failed>>
    BY <1>14, Targets, Zenon DEF CleanupAudio
  <2>2. QED
    BY <2>1
<1>15. CASE CleanupCtrlOutputs
  BY <1>15, Targets DEF CleanupCtrlOutputs
<1>16. CASE JoinScreen
  BY <1>16, Targets DEF JoinScreen
<1>17. CASE CleanupCtrlInputs
  BY <1>17, Targets DEF CleanupCtrlInputs
<1>18. CASE JoinInputs
  BY <1>18, Targets DEF JoinInputs
<1>19. CASE CleanupSensors
  BY <1>19, Targets DEF CleanupSensors
<1>20. CASE ResetMixerPaths
  BY <1>20, Targets DEF ResetMixerPaths
<1>21. CASE FreeHwConfig
  BY <1>21, Targets DEF FreeHwConfig
<1>22. CASE Audio
  BY <1>22, Targets DEF Audio, AudioCheck, AudioRead, Render, AudioWrite,
     WriteCtrlOutputs, AudioAt, audioOnly
<1>23. CASE \E t \in {"inputs", "screen"} : PollerExit(t)
  BY <1>23, Targets DEF PollerExit, audioOnly
<1>24. CASE Signal
  BY <1>24, Targets DEF Signal
<1>25. CASE UNCHANGED vars
  BY <1>25, Targets DEF vars
<1>26. QED
  BY <1>1, <1>2, <1>3, <1>4, <1>5, <1>6, <1>7, <1>8, <1>9, <1>10,
     <1>11, <1>12, <1>13, <1>14, <1>15, <1>16, <1>17, <1>18, <1>19, <1>20,
     <1>21, <1>22, <1>23, <1>24, <1>25 DEF Next, Main

(* A step of main() away from the life of the audio thread is not seen, or  *)
(* ends the program.                                                        *)
LEMMA Unseen ==
  ASSUME Alive, ThreadInv, TypeOK,
         main # "joinAudio", main' # "joinAudio",
         thread'["audio"] = thread["audio"],
         failed' = failed \/ (failed # "setup" /\ failed' \notin {"setup", "thread"}
                              /\ failed # "thread")
  PROVE  [User!Next]_phase
BY DEF Alive, ThreadInv, TypeOK, phase, User!Next, User!End

(* Every step of the program is a step of UserProgram, or none.             *)
LEMMA UserStep ==
  ASSUME TypeOK, ResInv, ThreadInv, UserInv, [Next]_vars
  PROVE  [User!Next]_phase
<1>. USE DEF TypeOK, process, MayFail, Succeed, Thread
<1>1. CASE ParseArguments
  <2>1. /\ Alive /\ main # "joinAudio" /\ main' # "joinAudio"
        /\ thread'["audio"] = thread["audio"]
        /\ failed' = failed \/ (failed \notin {"setup", "thread"}
                               /\ failed' \notin {"setup", "thread"})
    BY <1>1, Targets DEF ParseArguments, Alive, UserInv, Place
  <2>2. QED
    BY <2>1, Unseen
<1>2. CASE ParseHwConfig
  <2>1. /\ Alive /\ main # "joinAudio" /\ main' # "joinAudio"
        /\ thread'["audio"] = thread["audio"]
        /\ failed' = failed \/ (failed \notin {"setup", "thread"}
                               /\ failed' \notin {"setup", "thread"})
    BY <1>2, Targets DEF ParseHwConfig, Alive, UserInv, Place
  <2>2. QED
    BY <2>1, Unseen
<1>3. CASE SetMixerPaths
  <2>1. /\ Alive /\ main # "joinAudio" /\ main' # "joinAudio"
        /\ thread'["audio"] = thread["audio"]
        /\ failed' = failed \/ (failed \notin {"setup", "thread"}
                               /\ failed' \notin {"setup", "thread"})
    BY <1>3, Targets DEF SetMixerPaths, Alive, UserInv, Place
  <2>2. QED
    BY <2>1, Unseen
<1>4. CASE InitSensors
  <2>1. /\ Alive /\ main # "joinAudio" /\ main' # "joinAudio"
        /\ thread'["audio"] = thread["audio"]
        /\ failed' = failed \/ (failed \notin {"setup", "thread"}
                               /\ failed' \notin {"setup", "thread"})
    BY <1>4, Targets DEF InitSensors, Alive, UserInv, Place
  <2>2. QED
    BY <2>1, Unseen
<1>5. CASE InitCtrlInputs
  <2>1. /\ Alive /\ main # "joinAudio" /\ main' # "joinAudio"
        /\ thread'["audio"] = thread["audio"]
        /\ failed' = failed \/ (failed \notin {"setup", "thread"}
                               /\ failed' \notin {"setup", "thread"})
    BY <1>5, Targets DEF InitCtrlInputs, Alive, UserInv, Place
  <2>2. QED
    BY <2>1, Unseen
<1>6. CASE InitCtrlOutputs
  <2>1. /\ Alive /\ main # "joinAudio" /\ main' # "joinAudio"
        /\ thread'["audio"] = thread["audio"]
        /\ failed' = failed \/ (failed \notin {"setup", "thread"}
                               /\ failed' \notin {"setup", "thread"})
    BY <1>6, Targets DEF InitCtrlOutputs, Alive, UserInv, Place
  <2>2. QED
    BY <2>1, Unseen
<1>7. CASE StopAudioserver
  <2>1. /\ Alive /\ main # "joinAudio" /\ main' # "joinAudio"
        /\ thread'["audio"] = thread["audio"]
        /\ failed' = failed \/ (failed \notin {"setup", "thread"}
                               /\ failed' \notin {"setup", "thread"})
    BY <1>7, Targets DEF StopAudioserver, Alive, UserInv, Place
  <2>2. QED
    BY <2>1, Unseen
<1>8. CASE InitParams
  <2>1. /\ Alive /\ main # "joinAudio" /\ main' # "joinAudio"
        /\ thread'["audio"] = thread["audio"]
        /\ failed' = failed \/ (failed \notin {"setup", "thread"}
                               /\ failed' \notin {"setup", "thread"})
    BY <1>8, Targets DEF InitParams, Alive, UserInv, Place
  <2>2. QED
    BY <2>1, Unseen
<1>9. CASE InitPcm
  <2>1. /\ Alive /\ main # "joinAudio" /\ main' # "joinAudio"
        /\ thread'["audio"] = thread["audio"]
        /\ failed' = failed \/ (failed \notin {"setup", "thread"}
                               /\ failed' \notin {"setup", "thread"})
    BY <1>9, Targets DEF InitPcm, Alive, UserInv, Place
  <2>2. QED
    BY <2>1, Unseen
<1>10. CASE InitBuffers
  <2>1. /\ Alive /\ main # "joinAudio" /\ main' # "joinAudio"
        /\ thread'["audio"] = thread["audio"]
        /\ failed' = failed \/ (failed \notin {"setup", "thread"}
                               /\ failed' \notin {"setup", "thread"})
    BY <1>10, Targets DEF InitBuffers, Alive, UserInv, Place
  <2>2. QED
    BY <2>1, Unseen
<1>11. CASE InstallHandlers
  <2>1. /\ Alive /\ main # "joinAudio" /\ main' # "joinAudio"
        /\ thread'["audio"] = thread["audio"]
        /\ failed' = failed \/ (failed \notin {"setup", "thread"}
                               /\ failed' \notin {"setup", "thread"})
    BY <1>11, Targets DEF InstallHandlers, Alive, UserInv, Place
  <2>2. QED
    BY <2>1, Unseen
<1>12. CASE StartAudio
  <2>1. phase = "before" /\ main = "setup"
    BY <1>12 DEF StartAudio, UserInv, Place, Alive, phase
  <2>2. CASE failed' = failed /\ main' = "joinAudio"
             /\ thread' = [thread EXCEPT !["audio"] = "running"]
    <3>1. audioPc' = audioPc /\ failed # "setup"
      BY <1>12, <2>1 DEF StartAudio, UserInv, Place
    <3>2. audioPc = "check"
      BY <2>1 DEF UserInv, Place
    <3>3. QED
      BY <2>1, <2>2, <3>1, <3>2 DEF Alive, phase, User!Next, User!Setup
  <2>3. CASE failed' = "setup" /\ main' = "cleanAudio" /\ UNCHANGED thread
    <3>1. thread["audio"] = "none"
      BY <2>1, <2>3, <1>12 DEF UserInv, Place
    <3>2. QED
      BY <2>1, <2>3, <3>1 DEF Alive, phase, User!Next, User!Setup
  <2>4. CASE failed' = "thread" /\ main' = "cleanAudio" /\ UNCHANGED thread
    <3>1. thread["audio"] = "none"
      BY <2>1, <2>4, <1>12 DEF UserInv, Place
    <3>2. QED
      BY <2>1, <2>4, <3>1 DEF Alive, phase, User!Next, User!Setup
  <2>5. QED
    BY <1>12, <2>2, <2>3, <2>4, Zenon DEF StartAudio
<1>13. CASE JoinAudio
  BY <1>13 DEF JoinAudio, UserInv, Place, Alive, phase, User!Next, User!Cleanup
<1>14. CASE CleanupAudio
  <2>1. /\ Alive /\ main # "joinAudio" /\ main' # "joinAudio"
        /\ thread'["audio"] = thread["audio"]
        /\ failed' = failed \/ (failed \notin {"setup", "thread"}
                               /\ failed' \notin {"setup", "thread"})
    BY <1>14, Targets DEF CleanupAudio, Alive, UserInv, Place
  <2>2. QED
    BY <2>1, Unseen
<1>15. CASE CleanupCtrlOutputs
  <2>1. /\ Alive /\ main # "joinAudio" /\ main' # "joinAudio"
        /\ thread'["audio"] = thread["audio"]
        /\ failed' = failed \/ (failed \notin {"setup", "thread"}
                               /\ failed' \notin {"setup", "thread"})
    BY <1>15, Targets DEF CleanupCtrlOutputs, Alive, UserInv, Place
  <2>2. QED
    BY <2>1, Unseen
<1>16. CASE JoinScreen
  <2>1. /\ Alive /\ main # "joinAudio" /\ main' # "joinAudio"
        /\ thread'["audio"] = thread["audio"]
        /\ failed' = failed \/ (failed \notin {"setup", "thread"}
                               /\ failed' \notin {"setup", "thread"})
    BY <1>16, Targets DEF JoinScreen, Alive, UserInv, Place
  <2>2. QED
    BY <2>1, Unseen
<1>17. CASE CleanupCtrlInputs
  <2>1. /\ Alive /\ main # "joinAudio" /\ main' # "joinAudio"
        /\ thread'["audio"] = thread["audio"]
        /\ failed' = failed \/ (failed \notin {"setup", "thread"}
                               /\ failed' \notin {"setup", "thread"})
    BY <1>17, Targets DEF CleanupCtrlInputs, Alive, UserInv, Place
  <2>2. QED
    BY <2>1, Unseen
<1>18. CASE JoinInputs
  <2>1. /\ Alive /\ main # "joinAudio" /\ main' # "joinAudio"
        /\ thread'["audio"] = thread["audio"]
        /\ failed' = failed \/ (failed \notin {"setup", "thread"}
                               /\ failed' \notin {"setup", "thread"})
    BY <1>18, Targets DEF JoinInputs, Alive, UserInv, Place
  <2>2. QED
    BY <2>1, Unseen
<1>19. CASE CleanupSensors
  <2>1. /\ Alive /\ main # "joinAudio" /\ main' # "joinAudio"
        /\ thread'["audio"] = thread["audio"]
        /\ failed' = failed \/ (failed \notin {"setup", "thread"}
                               /\ failed' \notin {"setup", "thread"})
    BY <1>19, Targets DEF CleanupSensors, Alive, UserInv, Place
  <2>2. QED
    BY <2>1, Unseen
<1>20. CASE ResetMixerPaths
  <2>1. /\ Alive /\ main # "joinAudio" /\ main' # "joinAudio"
        /\ thread'["audio"] = thread["audio"]
        /\ failed' = failed \/ (failed \notin {"setup", "thread"}
                               /\ failed' \notin {"setup", "thread"})
    BY <1>20, Targets DEF ResetMixerPaths, Alive, UserInv, Place
  <2>2. QED
    BY <2>1, Unseen
<1>21. CASE FreeHwConfig
  <2>1. /\ Alive /\ main # "joinAudio" /\ main' # "joinAudio"
        /\ thread'["audio"] = thread["audio"]
        /\ failed' = failed \/ (failed \notin {"setup", "thread"}
                               /\ failed' \notin {"setup", "thread"})
    BY <1>21, Targets DEF FreeHwConfig, Alive, UserInv, Place
  <2>2. QED
    BY <2>1, Unseen
<1>22. CASE Audio
  BY <1>22, Targets DEF Audio, AudioCheck, AudioRead, Render, AudioWrite,
     WriteCtrlOutputs, AudioAt, audioOnly, UserInv, ThreadInv, Alive, Place, phase, User!Next,
     User!BeginRender, User!EndRender
<1>23. CASE \E t \in {"inputs", "screen"} : PollerExit(t)
  BY <1>23, Targets DEF PollerExit, audioOnly, Alive, phase
<1>24. CASE Signal
  BY <1>24, Targets DEF Signal, ThreadInv, UserInv, Place, Alive, phase, User!Next, User!End
<1>25. CASE UNCHANGED vars
  BY <1>25, Targets DEF vars, Alive, phase
<1>26. QED
  BY <1>1, <1>2, <1>3, <1>4, <1>5, <1>6, <1>7, <1>8, <1>9, <1>10,
     <1>11, <1>12, <1>13, <1>14, <1>15, <1>16, <1>17, <1>18, <1>19, <1>20,
     <1>21, <1>22, <1>23, <1>24, <1>25 DEF Next, Main

(* setup(), render() and cleanup() are called as UserProgram says (the      *)
(* order of LDSP_startAudio, audioLoop and the join in main()).             *)
THEOREM UserProgramImplemented == Spec => ImplementsUserProgram
<1>1. Init => User!Init /\ UserInv
  BY DEF Init, phase, User!Init, UserInv, Thread, Alive, Place
<1>2. TypeOK /\ ResInv /\ UserInv /\ [Next]_vars => UserInv'
  BY UserInvStep
<1>3. TypeOK /\ ResInv /\ ThreadInv /\ UserInv /\ [Next]_vars => [User!Next]_phase
  BY UserStep
<1>4. IInv => TypeOK /\ ResInv /\ ThreadInv
  BY DEF IInv
<1>5. QED
  BY <1>1, <1>2, <1>3, <1>4, IInvInvariant, PTL DEF Spec, ImplementsUserProgram, User!Spec
=============================================================================
