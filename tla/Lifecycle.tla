------------------------------ MODULE Lifecycle ------------------------------
(***************************************************************************)
(* The life of an LDSP program: main() brings the engine up in a fixed     *)
(* order, waits for the audio thread and takes everything down; three      *)
(* other threads (audio, control inputs, screen) poll gShouldStop; SIGINT  *)
(* and SIGTERM set it once their handler is installed and end the process  *)
(* before that.  What the program borrows from the phone (mixer paths, CPU *)
(* governors, the Android audio server, the control output files) is in    *)
(* "phone"; what it allocates or opens is in "res".                        *)
(*                                                                         *)
(* Data is left out: a resource is absent, held or released, and a pointer *)
(* stays non-null after it is released, as in the code, so that releasing  *)
(* twice is undefined behaviour, which ends the model in "undefined".      *)
(***************************************************************************)
EXTENDS Naturals

CONSTANTS
  Options,   \* command lines considered, a set of records (see Option)
  Faults     \* the calls that may fail in this environment

Option ==
  [captureOff : BOOLEAN, ctrlInputsOff : BOOLEAN, ctrlOutputsOff : BOOLEAN,
   audioserverOff : BOOLEAN, perfModeOff : BOOLEAN, preserveMixer : BOOLEAN,
   externalCard : BOOLEAN]

Fault == {"help", "hwconfig", "mixer", "outputs", "audioserver", "format",
          "pcm", "period", "setup", "thread"}

ASSUME LifecycleAssumption == Options \subseteq Option /\ Faults \subseteq Fault

Resource == {"settings", "hwconfig", "mixer", "sensors", "inputDevs",
             "inputBuffers", "outputFiles", "params", "pcmOut", "pcmIn",
             "rawBuffers"}

Thread == {"audio", "inputs", "screen"}

VARIABLES
  opt,           \* the command line
  main,          \* where main() is
  res,           \* Resource -> "absent", "held" or "released"
  thread,        \* Thread -> "none", "running" or "exited"
  audioPc,       \* where the audio thread is in its loop
  gShouldStop,
  handlers,      \* are interrupt_handler's signals installed?
  shutdownRequested,
  phone,         \* what the program changes on the phone
  serverStopped, \* audioServerStopped
  up,            \* history: LDSP_initAudio returned 0
  failed         \* history: the call that failed, or "none"

process == <<opt, handlers, shutdownRequested>>
vars == <<opt, main, res, thread, audioPc, gShouldStop, handlers,
          shutdownRequested, phone, serverStopped, up, failed>>

TypeOK ==
  /\ opt \in Option
  /\ main \in {"parse", "hwconfig", "mixer", "sensors", "inputs", "outputs",
               "audioserver", "format", "pcm", "buffers", "install", "setup",
               "joinAudio", "cleanAudio", "cleanOutputs", "joinScreen",
               "cleanInputs", "joinInputs", "cleanSensors", "resetMixer",
               "freeHwConfig", "exited", "killed", "undefined"}
  /\ res \in [Resource -> {"absent", "held", "released"}]
  /\ thread \in [Thread -> {"none", "running", "exited"}]
  /\ audioPc \in {"check", "capture", "controls", "render", "playback", "outputs"}
  /\ gShouldStop \in BOOLEAN
  /\ handlers \in BOOLEAN
  /\ shutdownRequested \in BOOLEAN
  /\ phone \in [paths : {"found", "default", "ldsp"},
                outputs : {"initial", "written"},
                governor : {"original", "performance"},
                audioserver : {"running", "stopped", "stuck"}]
  /\ serverStopped \in BOOLEAN
  /\ up \in BOOLEAN
  /\ failed \in Fault \cup {"none"}

phoneAsFound == [paths |-> "found", outputs |-> "initial",
                 governor |-> "original", audioserver |-> "running"]

Init ==
  /\ opt \in Options
  /\ main = "parse"
  /\ res = [r \in Resource |-> IF r = "settings" THEN "held" ELSE "absent"]
  /\ thread = [t \in Thread |-> "none"]
  /\ audioPc = "check"
  /\ gShouldStop = FALSE
  /\ handlers = FALSE
  /\ shutdownRequested = FALSE
  /\ phone = phoneAsFound
  /\ serverStopped = FALSE
  /\ up = FALSE
  /\ failed = "none"

-----------------------------------------------------------------------------
(* Steps of main()                                                          *)

Hold(R) == res' = [r \in Resource |-> IF r \in R THEN "held" ELSE res[r]]

(* Free or close the members of R whose pointer is not null, then go on: a  *)
(* second release is undefined behaviour.                                   *)
ReleaseThen(R, next) ==
  IF \E r \in R : res[r] = "released"
  THEN /\ main' = "undefined"
       /\ UNCHANGED res
  ELSE /\ main' = next
       /\ res' = [r \in Resource |->
                    IF r \in R /\ res[r] = "held" THEN "released" ELSE res[r]]

MayFail(f) == f \in Faults /\ failed' = f
Succeed == UNCHANGED failed

\* LDSP_parseArguments; asking for help ends the program.
ParseArguments ==
  /\ main = "parse"
  /\ \/ /\ Succeed
        /\ main' = "hwconfig"
        /\ UNCHANGED res
     \/ /\ MayFail("help")
        /\ ReleaseThen({"settings"}, "exited")
  /\ UNCHANGED <<process, thread, audioPc, gShouldStop, phone, serverStopped, up>>

(* LDSP_HwConfig_alloc, LDSP_parseHwConfigFile.  The failure branch frees    *)
(* hwconfig and settings and falls through to LDSP_setMixerPaths, which      *)
(* reads both.                                                              *)
ParseHwConfig ==
  /\ main = "hwconfig"
  /\ \/ /\ Succeed
        /\ Hold({"hwconfig"})
        /\ main' = "mixer"
     \/ /\ MayFail("hwconfig")
        /\ main' = "undefined"
        /\ UNCHANGED res
  /\ UNCHANGED <<process, thread, audioPc, gShouldStop, phone, serverStopped, up>>

(* LDSP_setMixerPaths.  It fails before the mixer is opened (device lookup,  *)
(* mixer_open), or later, when it calls LDSP_resetMixerPaths itself; main()  *)
(* then frees hwconfig and settings and returns.                            *)
SetMixerPaths ==
  /\ main = "mixer"
  /\ \/ /\ Succeed
        /\ main' = "sensors"
        /\ IF opt.externalCard
           THEN UNCHANGED <<res, phone>>
           ELSE Hold({"mixer"}) /\ phone' = [phone EXCEPT !.paths = "ldsp"]
     \/ /\ MayFail("mixer")
        /\ ReleaseThen({"hwconfig", "settings"}, "exited")
        /\ UNCHANGED phone
     \/ /\ MayFail("mixer")
        /\ ~opt.externalCard
        /\ \E p \in IF opt.preserveMixer THEN {"found", "ldsp"}
                    ELSE {"found", "default"} :
             phone' = [phone EXCEPT !.paths = p]
        /\ main' = "exited"
        /\ res' = [res EXCEPT !["mixer"] = "released", !["hwconfig"] = "released",
                              !["settings"] = "released"]
  /\ UNCHANGED <<process, thread, audioPc, gShouldStop, serverStopped, up>>

InitSensors ==
  /\ main = "sensors"
  /\ Hold({"sensors"})
  /\ main' = "inputs"
  /\ UNCHANGED <<process, thread, audioPc, gShouldStop, phone, serverStopped, up,
                 failed>>

(* LDSP_initCtrlInputs: nothing when off; the buffers in any case; devices   *)
(* and the thread only when some device raises events of interest.          *)
InitCtrlInputs ==
  /\ main = "inputs"
  /\ \/ /\ opt.ctrlInputsOff
        /\ UNCHANGED <<res, thread>>
     \/ /\ ~opt.ctrlInputsOff
        /\ Hold({"inputBuffers"})
        /\ UNCHANGED thread
     \/ /\ ~opt.ctrlInputsOff
        /\ Hold({"inputBuffers", "inputDevs"})
        /\ thread' = [thread EXCEPT !["inputs"] = "running"]
  /\ main' = "outputs"
  /\ UNCHANGED <<process, audioPc, gShouldStop, phone, serverStopped, up, failed>>

(* LDSP_initCtrlOutputs.  The screen thread is created whether the outputs   *)
(* are on or off.  If a control or scale file cannot be opened, the nested   *)
(* initCtrlOutputs calls LDSP_cleanupCtrlOutputs, whose setScreen() writes   *)
(* through intContext.ctrlOutputs, still null: isScreenOn() says TRUE while  *)
(* no dumpsys command is known, and initialScreenState is still FALSE.       *)
InitCtrlOutputs ==
  /\ main = "outputs"
  /\ \/ /\ Succeed
        /\ IF opt.ctrlOutputsOff THEN UNCHANGED res ELSE Hold({"outputFiles"})
        /\ thread' = [thread EXCEPT !["screen"] = "running"]
        /\ main' = "audioserver"
     \/ /\ ~opt.ctrlOutputsOff
        /\ MayFail("outputs")
        /\ main' = "undefined"
        /\ UNCHANGED <<res, thread>>
  /\ UNCHANGED <<process, audioPc, gShouldStop, phone, serverStopped, up>>

\* LDSP_initAudio: controlAudioserver(0) when asked for.
StopAudioserver ==
  /\ main = "audioserver"
  /\ \/ /\ opt.audioserverOff
        /\ phone' = [phone EXCEPT !.audioserver = "stopped"]
        /\ serverStopped' = TRUE
     \/ /\ opt.audioserverOff => "audioserver" \in Faults
        /\ UNCHANGED <<phone, serverStopped>>
  /\ main' = "format"
  /\ UNCHANGED <<process, res, thread, audioPc, gShouldStop, up, failed>>

\* initAudioParams twice, prepareForFormat (failure: -1)
InitParams ==
  /\ main = "format"
  /\ \/ /\ Succeed
        /\ Hold({"params"})
        /\ main' = "pcm"
     \/ /\ MayFail("format")
        /\ res' = [res EXCEPT !["params"] = "released"]
        /\ main' = "cleanOutputs"
  /\ UNCHANGED <<process, thread, audioPc, gShouldStop, phone, serverStopped, up>>

\* Mutant of InitPcm: the failure branch takes the full cleanup of main().
InitPcmFullCleanup ==
  /\ main = "pcm"
  /\ \/ /\ Succeed
        /\ Hold({"pcmOut"} \cup (IF opt.captureOff THEN {} ELSE {"pcmIn"}))
        /\ main' = "buffers"
     \/ /\ MayFail("pcm")
        /\ ReleaseThen({"params"}, "cleanAudio")
  /\ UNCHANGED <<process, thread, audioPc, gShouldStop, phone, serverStopped, up>>

\* initPcm; on failure cleanupPcm closes what is ready, then cleanupAudioParams.
InitPcm ==
  /\ main = "pcm"
  /\ \/ /\ Succeed
        /\ Hold({"pcmOut"} \cup (IF opt.captureOff THEN {} ELSE {"pcmIn"}))
        /\ main' = "buffers"
     \/ /\ MayFail("pcm")
        /\ ReleaseThen({"params"}, "cleanOutputs")
     \/ /\ MayFail("pcm")
        /\ main' = "cleanOutputs"
        /\ res' = [res EXCEPT !["params"] = "released", !["pcmOut"] = "released"]
  /\ UNCHANGED <<process, thread, audioPc, gShouldStop, phone, serverStopped, up>>

(* updateAudioParams, initLowLevelAudioStruct, the governor, the context.    *)
(* A period mismatch or a failed allocation returns with the pcms open.     *)
InitBuffers ==
  /\ main = "buffers"
  /\ \/ /\ Succeed
        /\ Hold({"rawBuffers"})
        /\ phone' = IF opt.perfModeOff THEN phone
                    ELSE [phone EXCEPT !.governor = "performance"]
        /\ up' = TRUE
        /\ main' = "install"
     \/ /\ MayFail("period")
        /\ main' = "cleanOutputs"
        /\ UNCHANGED <<res, phone, up>>
  /\ UNCHANGED <<process, thread, audioPc, gShouldStop, serverStopped>>

\* LDSP_InitSettings_free, then signal() twice
InstallHandlers ==
  /\ main = "install"
  /\ ReleaseThen({"settings"}, "setup")
  /\ handlers' = TRUE
  /\ UNCHANGED <<opt, shutdownRequested, thread, audioPc, gShouldStop, phone,
                 serverStopped, up, failed>>

\* Mutant of StartAudio: the result of setup() is not looked at.
StartAudioAnyway ==
  /\ main = "setup"
  /\ Succeed \/ MayFail("setup")
  /\ thread' = [thread EXCEPT !["audio"] = "running"]
  /\ main' = "joinAudio"
  /\ UNCHANGED <<process, res, audioPc, gShouldStop, phone, serverStopped, up>>

\* LDSP_startAudio up to pthread_create
StartAudio ==
  /\ main = "setup"
  /\ \/ /\ Succeed
        /\ thread' = [thread EXCEPT !["audio"] = "running"]
        /\ main' = "joinAudio"
        /\ UNCHANGED gShouldStop
     \/ /\ MayFail("setup")
        /\ gShouldStop' = TRUE
        /\ main' = "cleanAudio"
        /\ UNCHANGED thread
     \/ /\ MayFail("thread")
        /\ main' = "cleanAudio"
        /\ UNCHANGED <<gShouldStop, thread>>
  /\ UNCHANGED <<process, res, audioPc, phone, serverStopped, up>>

\* pthread_join(audioThread), cleanup(userContext)
JoinAudio ==
  /\ main = "joinAudio"
  /\ thread["audio"] = "exited"
  /\ main' = "cleanAudio"
  /\ UNCHANGED <<process, res, thread, audioPc, gShouldStop, phone, serverStopped,
                 up, failed>>

-----------------------------------------------------------------------------
(* Cleanup; main() runs it in the same order on its three ways out          *)

\* Mutant of GovernorsReset: what is written back was never saved.
GovernorsResetUnsaved ==
  IF opt.perfModeOff THEN phone ELSE [phone EXCEPT !.governor = "unsaved"]

\* resetGovernorMode, unless the performance mode was off
GovernorsReset ==
  IF opt.perfModeOff THEN phone ELSE [phone EXCEPT !.governor = "original"]

\* Mutant of CleanupAudio: it returns when there is no governor to restore.
CleanupAudioReturnsEarly ==
  /\ main = "cleanAudio"
  /\ ReleaseThen({"rawBuffers", "pcmOut", "pcmIn", "params"}, "cleanOutputs")
  /\ IF opt.perfModeOff
     THEN UNCHANGED <<phone, serverStopped>>
     ELSE /\ phone' = [GovernorsReset EXCEPT !.audioserver = "running"]
          /\ serverStopped' = FALSE
  /\ UNCHANGED <<process, thread, audioPc, gShouldStop, up, failed>>

CleanupAudio ==
  /\ main = "cleanAudio"
  /\ ReleaseThen({"rawBuffers", "pcmOut", "pcmIn", "params"}, "cleanOutputs")
  /\ \/ /\ ~serverStopped
        /\ UNCHANGED serverStopped
        /\ phone' = GovernorsReset
     \/ /\ serverStopped
        /\ serverStopped' = FALSE
        /\ phone' = [GovernorsReset EXCEPT !.audioserver = "running"]
     \/ /\ serverStopped /\ "audioserver" \in Faults
        /\ UNCHANGED serverStopped
        /\ phone' = [GovernorsReset EXCEPT !.audioserver = "stuck"]
  /\ UNCHANGED <<process, thread, audioPc, gShouldStop, up, failed>>

\* Mutant of CleanupCtrlOutputs: it relies on the signal handler to stop.
CleanupCtrlOutputsUnasked ==
  /\ main = "cleanOutputs"
  /\ main' = IF opt.ctrlOutputsOff THEN "cleanInputs" ELSE "joinScreen"
  /\ UNCHANGED <<process, res, thread, audioPc, gShouldStop, phone, serverStopped,
                 up, failed>>

\* LDSP_cleanupCtrlOutputs up to the join; nothing at all when outputs are off.
CleanupCtrlOutputs ==
  /\ main = "cleanOutputs"
  /\ IF opt.ctrlOutputsOff
     THEN main' = "cleanInputs" /\ UNCHANGED gShouldStop
     ELSE main' = "joinScreen" /\ gShouldStop' = TRUE
  /\ UNCHANGED <<process, res, thread, audioPc, phone, serverStopped, up, failed>>

\* The join, then cleanupCtrlOutputs writes the initial values back.
JoinScreen ==
  /\ main = "joinScreen"
  /\ thread["screen"] = "exited"
  /\ ReleaseThen({"outputFiles"}, "cleanInputs")
  /\ phone' = [phone EXCEPT !.outputs = "initial"]
  /\ UNCHANGED <<process, thread, audioPc, gShouldStop, serverStopped, up, failed>>

\* LDSP_cleanupCtrlInputs up to the join
CleanupCtrlInputs ==
  /\ main = "cleanInputs"
  /\ IF thread["inputs"] = "none"
     THEN UNCHANGED gShouldStop
     ELSE gShouldStop' = TRUE
  /\ main' = "joinInputs"
  /\ UNCHANGED <<process, res, thread, audioPc, phone, serverStopped, up, failed>>

\* Mutant of JoinInputs: the devices are closed under the thread.
JoinInputsAtOnce ==
  /\ main = "joinInputs"
  /\ ReleaseThen({"inputDevs", "inputBuffers"}, "cleanSensors")
  /\ UNCHANGED <<process, thread, audioPc, gShouldStop, phone, serverStopped, up,
                 failed>>

\* The join, if there is a thread; closeCtrlInputDevices; the buffers.
JoinInputs ==
  /\ main = "joinInputs"
  /\ thread["inputs"] # "running"
  /\ ReleaseThen({"inputDevs", "inputBuffers"}, "cleanSensors")
  /\ UNCHANGED <<process, thread, audioPc, gShouldStop, phone, serverStopped, up,
                 failed>>

CleanupSensors ==
  /\ main = "cleanSensors"
  /\ ReleaseThen({"sensors"}, "resetMixer")
  /\ UNCHANGED <<process, thread, audioPc, gShouldStop, phone, serverStopped, up,
                 failed>>

ResetMixerPaths ==
  /\ main = "resetMixer"
  /\ ReleaseThen({"mixer"}, "freeHwConfig")
  /\ phone' = IF opt.externalCard \/ opt.preserveMixer THEN phone
              ELSE [phone EXCEPT !.paths = "default"]
  /\ UNCHANGED <<process, thread, audioPc, gShouldStop, serverStopped, up, failed>>

FreeHwConfig ==
  /\ main = "freeHwConfig"
  /\ ReleaseThen({"hwconfig"}, "exited")
  /\ UNCHANGED <<process, thread, audioPc, gShouldStop, phone, serverStopped, up,
                 failed>>

-----------------------------------------------------------------------------
(* The other threads, and signals                                           *)

Alive == main \notin {"exited", "killed", "undefined"}

AudioAt(p) == Alive /\ thread["audio"] = "running" /\ audioPc = p

audioOnly == <<process, main, res, gShouldStop, serverStopped, up, failed>>

\* while(!gShouldStop)
AudioCheck ==
  /\ AudioAt("check")
  /\ IF gShouldStop
     THEN thread' = [thread EXCEPT !["audio"] = "exited"] /\ UNCHANGED audioPc
     ELSE audioPc' = "capture" /\ UNCHANGED thread
  /\ UNCHANGED <<audioOnly, phone>>

\* pcm_read and fromRawToFloat; then readSensors and readCtrlInputs
AudioRead ==
  /\ \/ AudioAt("capture") /\ audioPc' = "controls"
     \/ AudioAt("controls") /\ audioPc' = "render"
  /\ UNCHANGED <<audioOnly, thread, phone>>

Render ==
  /\ AudioAt("render")
  /\ audioPc' = "playback"
  /\ UNCHANGED <<audioOnly, thread, phone>>

\* fromFloatToRaw and pcm_write
AudioWrite ==
  /\ AudioAt("playback")
  /\ audioPc' = "outputs"
  /\ UNCHANGED <<audioOnly, thread, phone>>

\* writeCtrlOutputs, unless the outputs are off
WriteCtrlOutputs ==
  /\ AudioAt("outputs")
  /\ audioPc' = "check"
  /\ phone' = IF opt.ctrlOutputsOff THEN phone
              ELSE [phone EXCEPT !.outputs = "written"]
  /\ UNCHANGED <<audioOnly, thread>>

Audio == AudioCheck \/ AudioRead \/ Render \/ AudioWrite \/ WriteCtrlOutputs

\* The end of ctrlInputs_loop and of screenCtrl_loop.
PollerExit(t) ==
  /\ Alive
  /\ thread[t] = "running"
  /\ gShouldStop
  /\ thread' = [thread EXCEPT ![t] = "exited"]
  /\ UNCHANGED <<audioOnly, audioPc, phone>>

(* SIGINT or SIGTERM: interrupt_handler once it is installed (its second    *)
(* call does nothing), the default action before that.                      *)
Signal ==
  /\ Alive
  /\ IF handlers
     THEN /\ ~shutdownRequested
          /\ shutdownRequested' = TRUE
          /\ gShouldStop' = TRUE
          /\ UNCHANGED main
     ELSE /\ main' = "killed"
          /\ UNCHANGED <<shutdownRequested, gShouldStop>>
  /\ UNCHANGED <<opt, handlers, res, thread, audioPc, phone, serverStopped, up,
                 failed>>

-----------------------------------------------------------------------------
Main ==
  \/ ParseArguments \/ ParseHwConfig \/ SetMixerPaths \/ InitSensors
  \/ InitCtrlInputs \/ InitCtrlOutputs \/ StopAudioserver \/ InitParams
  \/ InitPcm \/ InitBuffers \/ InstallHandlers \/ StartAudio \/ JoinAudio
  \/ CleanupAudio \/ CleanupCtrlOutputs \/ JoinScreen \/ CleanupCtrlInputs
  \/ JoinInputs \/ CleanupSensors \/ ResetMixerPaths \/ FreeHwConfig

Next ==
  \/ Main
  \/ Audio
  \/ \E t \in {"inputs", "screen"} : PollerExit(t)
  \/ Signal

Spec == Init /\ [][Next]_vars

(* Every thread keeps running: render(), setup() and the pcm calls return,  *)
(* poll() has a timeout and the screen thread only sleeps.  Nobody has to   *)
(* send a signal.                                                           *)
Fairness ==
  /\ WF_vars(Main)
  /\ WF_vars(Audio)
  /\ \A t \in {"inputs", "screen"} : WF_vars(PollerExit(t))

FairSpec == Spec /\ Fairness

-----------------------------------------------------------------------------
(* Properties of every run                                                  *)

Used(offSwitch, R) == IF offSwitch THEN {} ELSE R

\* What audioLoop and the user's functions reach through the contexts.
AudioUses ==
  {"params", "pcmOut", "rawBuffers", "sensors"}
  \cup Used(opt.captureOff, {"pcmIn"})
  \cup Used(opt.ctrlInputsOff, {"inputBuffers"})
  \cup Used(opt.ctrlOutputsOff, {"outputFiles"})

(* No thread outlives what it works on: while the audio thread runs, or the *)
(* user's setup() and cleanup() may, every buffer, pcm and control file is  *)
(* open, and while ctrlInputs_loop runs its input devices are.  (The order  *)
(* of the cleanup calls in main() against the joins inside them.)           *)
LiveThreadsOwnTheirResources ==
  /\ thread["audio"] = "running" \/ main \in {"setup", "joinAudio"} =>
       \A r \in AudioUses : res[r] = "held"
  /\ thread["inputs"] = "running" /\ Alive => res["inputDevs"] = "held"
  /\ thread["audio"] = "running" => main = "joinAudio"

(* Whatever way main() returns, the phone's governors and control outputs   *)
(* are as they were found and its mixer is not left on LDSP's paths (unless *)
(* it was asked to preserve paths); after a complete start, nothing is left *)
(* allocated or open and the audio server runs again, or the command that   *)
(* restarts it was tried and failed ("stuck").                              *)
RestoredAtExit ==
  main = "exited" =>
    /\ phone.governor = "original"
    /\ phone.outputs = "initial"
    /\ phone.paths = "ldsp" => opt.preserveMixer
    /\ up => /\ \A r \in Resource : res[r] # "held"
             /\ phone.audioserver # "stopped"

(* Nothing is released twice on any way out, but for the two error paths of *)
(* ParseHwConfig and InitCtrlOutputs, where the code itself is undefined.   *)
ReleasedOnce == main = "undefined" => failed \in {"hwconfig", "outputs"}

(* A stop request, from a signal, from setup() or from a cleanup function,  *)
(* ends in an exit: none of the joins waits for ever, even when it was not  *)
(* a signal that started the cleanup.  ("killed" is a second way to end     *)
(* after a start that failed, when the handlers are not installed.)         *)
StopLeadsToExit ==
  (gShouldStop \/ main \in {"cleanAudio", "cleanOutputs"})
    ~> (main = "exited" \/ (main = "killed" /\ ~handlers))

(* Its safety half: main() waits only for a thread that was created, and,   *)
(* for the control inputs and the screen, that was told to stop before the  *)
(* join; no thread ends by itself, so that the audio thread's join, which   *)
(* tells nobody, returns when a stop was asked for and not before.          *)
JoinedThreadsEnd ==
  /\ main = "joinAudio" => thread["audio"] # "none"
  /\ main = "joinScreen" => thread["screen"] # "none" /\ gShouldStop
  /\ main = "joinInputs" /\ thread["inputs"] # "none" => gShouldStop
  /\ \A t \in Thread : thread[t] = "exited" => gShouldStop

(* No thread runs when main() returns, on any of its ways out, but for the  *)
(* screen thread when the control outputs are off: it was created all the   *)
(* same, and LDSP_cleanupCtrlOutputs returns before it joins.               *)
OnlyScreenThreadLeft ==
  main = "exited" =>
    /\ thread["audio"] # "running" /\ thread["inputs"] # "running"
    /\ thread["screen"] = "running" => opt.ctrlOutputsOff

(* The user's functions are called in the order setup, render*, cleanup,    *)
(* one at a time, and not at all after a setup() that returned false.       *)
phase ==
  IF ~Alive THEN "over"
  ELSE IF thread["audio"] = "running" /\ audioPc = "render" THEN "rendering"
  ELSE IF failed = "setup" THEN "refused"
  ELSE IF thread["audio"] = "exited" /\ main # "joinAudio" THEN "cleaned"
  ELSE IF thread["audio"] # "none" \/ failed = "thread" THEN "ready"
  ELSE "before"

User == INSTANCE UserProgram

ImplementsUserProgram == User!Spec

-----------------------------------------------------------------------------
(* What the documentation says and the code does not do                     *)

(* "Temporarily disables the Android audio server while LDSP is running":   *)
(* core/commandLineArgs.cpp:79, of controlAudioserver.                      *)
ServerRunsAtExit == main = "exited" => phone.audioserver = "running"

(* "LDSP is designed to catch the resulting SIGINT signal, prompting the    *)
(* application to shut down": docs/4_usage.md:195, of interrupt_handler.  A *)
(* signal never ends the program with the phone still changed.              *)
SignalShutsDown == main = "killed" => phone = phoneAsFound

(* A start that fails is reported and ends with an exit code: main.cpp:59   *)
(* and main.cpp:81, of the error branches of main().                        *)
FailureIsReported == main # "undefined"

(* "wait for screen thread to finish": core/ctrlOutputs.cpp:114, of         *)
(* LDSP_cleanupCtrlOutputs.                                                 *)
ScreenThreadFinishes == main = "exited" => thread["screen"] # "running"
=============================================================================
