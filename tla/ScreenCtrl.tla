----------------------------- MODULE ScreenCtrl ------------------------------
(***************************************************************************)
(* The screen control of core/ctrlOutputs.cpp.  render(), on the audio     *)
(* thread, calls screenSetState(), which leaves the request in three plain *)
(* globals; the screen thread polls them, compares the request with what   *)
(* dumpsys says of the screen and presses the power button, which TOGGLES  *)
(* the screen.  At the end LDSP_cleanupCtrlOutputs() joins the thread and  *)
(* restores the screen, by a read and a press that somebody may come       *)
(* between; with the control outputs off it returns at once, although the  *)
(* thread was started, and the thread runs until the process ends.         *)
(* Nothing makes a call wait for the thread to have dealt with the one     *)
(* before, and anybody may press the physical button.                      *)
(*                                                                         *)
(* Left out: the brightness that goes with a request, and the tap that the *)
(* thread makes every two seconds while tapActive.                         *)
(***************************************************************************)
EXTENDS Integers

CONSTANTS
  OutputsOff,   \* the command lines: -R, --ctrl-outputs-off
  MaxRequests,  \* bound: calls of screenSetState
  MaxButtons    \* bound: presses of the physical power button

ASSUME ScreenCtrlAssumption ==
  /\ OutputsOff \subseteq BOOLEAN
  /\ MaxRequests \in Nat
  /\ MaxButtons \in Nat

VARIABLES
  screen,           \* is the screen on?
  foundScreen,      \* history: was it on when the program started?
  readable,         \* does dumpsys tell its state (screenCmds.idx # -1)?
  ctrlOutputsOff,
  nextScreenState,  \* -1: nothing requested; 0: off; 1: on
  nextStayOn,
  asked,            \* history: the arguments of the last call
  setting,          \* is a call between its first and its last assignment?
  requests,         \* calls made
  disturbed,        \* history: a call came before the thread was done with the
                    \* one before, or the physical button was pressed
  threadPc,         \* where screenCtrl_loop is
  screenIsOn,       \* its local copies
  tapActive,
  gShouldStop,
  audio,            \* the audio thread "running" or "exited"; then where
                    \* LDSP_cleanupCtrlOutputs is: "skipped", or "joining",
                    \* "joined", "press" and "cleaned"; the process "over"
  buttons,          \* presses of the physical button
  late              \* history: one came between the reset's read and its press

found == <<foundScreen, readable, ctrlOutputsOff>>
request == <<nextScreenState, nextStayOn>>
caller == <<asked, setting, requests, disturbed>>
thread == <<threadPc, screenIsOn, tapActive>>
ending == <<gShouldStop, audio>>
hands == <<buttons, late>>
vars == <<screen, found, request, caller, thread, ending, hands>>

TypeOK ==
  /\ screen \in BOOLEAN
  /\ foundScreen \in BOOLEAN
  /\ readable \in BOOLEAN
  /\ ctrlOutputsOff \in OutputsOff
  /\ nextScreenState \in -1 .. 1
  /\ nextStayOn \in BOOLEAN
  /\ asked \in [on : BOOLEAN, stay : BOOLEAN]
  /\ setting \in BOOLEAN
  /\ requests \in 0 .. MaxRequests
  /\ disturbed \in BOOLEAN
  /\ threadPc \in {"poll", "read", "compare", "press", "stay", "clear", "exited"}
  /\ screenIsOn \in BOOLEAN
  /\ tapActive \in BOOLEAN
  /\ gShouldStop \in BOOLEAN
  /\ audio \in {"running", "exited", "skipped", "joining", "joined", "press",
                "cleaned", "over"}
  /\ buttons \in 0 .. MaxButtons
  /\ late \in BOOLEAN

\* probeScreenCommands found a command or not; isScreenOn defaults to true.
isScreenOn == IF readable THEN screen ELSE TRUE
initialScreenState == IF readable THEN foundScreen ELSE TRUE

Init ==
  /\ screen \in BOOLEAN
  /\ foundScreen = screen
  /\ readable \in BOOLEAN
  /\ ctrlOutputsOff \in OutputsOff
  /\ nextScreenState = -1
  /\ nextStayOn = FALSE
  /\ asked = [on |-> screen, stay |-> FALSE]
  /\ setting = FALSE
  /\ requests = 0
  /\ disturbed = FALSE
  /\ threadPc = "poll"
  /\ screenIsOn = FALSE
  /\ tapActive = FALSE
  /\ gShouldStop = FALSE
  /\ audio = "running"
  /\ buttons = 0
  /\ late = FALSE

StateOn(on) == IF on THEN 1 ELSE 0

-----------------------------------------------------------------------------
(* screenSetState(stateOn, brightness, stayOn), on the audio thread         *)

SetStayOn ==
  /\ audio = "running"
  /\ ~setting
  /\ requests < MaxRequests
  /\ \E on, stay \in BOOLEAN :
       /\ asked' = [on |-> on, stay |-> on /\ stay]
       /\ nextStayOn' = (on /\ stay)
  /\ setting' = TRUE
  /\ requests' = requests + 1
  /\ disturbed' = (disturbed \/ nextScreenState # -1)
  /\ UNCHANGED <<screen, found, nextScreenState, thread, ending, hands>>

SetState ==
  /\ setting
  /\ nextScreenState' = StateOn(asked.on)
  /\ setting' = FALSE
  /\ UNCHANGED <<screen, found, nextStayOn, asked, requests, disturbed, thread,
                 ending, hands>>

-----------------------------------------------------------------------------
(* screenCtrl_loop                                                          *)

\* Mutant of Poll: only requests are looked for.
PollRequests ==
  /\ threadPc = "poll"
  /\ nextScreenState # -1
  /\ threadPc' = "read"
  /\ UNCHANGED <<screen, found, request, caller, screenIsOn, tapActive,
                 ending, hands>>

\* while(!gShouldStop) and the first test of nextScreenState
Poll ==
  /\ threadPc = "poll"
  /\ \/ gShouldStop /\ threadPc' = "exited"
     \/ ~gShouldStop /\ nextScreenState # -1 /\ threadPc' = "read"
  /\ UNCHANGED <<screen, found, request, caller, screenIsOn, tapActive,
                 ending, hands>>

ReadScreen ==
  /\ threadPc = "read"
  /\ screenIsOn' = isScreenOn
  /\ threadPc' = "compare"
  /\ UNCHANGED <<screen, found, request, caller, tapActive, ending, hands>>

\* Mutant of Compare: the test is inverted.
CompareInverted ==
  /\ threadPc = "compare"
  /\ threadPc' = IF StateOn(screenIsOn) = nextScreenState THEN "press" ELSE "stay"
  /\ UNCHANGED <<screen, found, request, caller, screenIsOn, tapActive,
                 ending, hands>>

\* Mutant of Compare: every request presses the button.
CompareNothing ==
  /\ threadPc = "compare"
  /\ threadPc' = "press"
  /\ UNCHANGED <<screen, found, request, caller, screenIsOn, tapActive,
                 ending, hands>>

\* Does the screen differ from the request?
Compare ==
  /\ threadPc = "compare"
  /\ threadPc' = IF StateOn(screenIsOn) # nextScreenState THEN "press" ELSE "stay"
  /\ UNCHANGED <<screen, found, request, caller, screenIsOn, tapActive,
                 ending, hands>>

\* Mutant of PressPower: turning the screen off leaves the tapping alone.
PressPowerOnly ==
  /\ threadPc = "press"
  /\ screen' = ~screen
  /\ threadPc' = "clear"
  /\ UNCHANGED <<found, request, caller, screenIsOn, tapActive, ending,
                 hands>>

\* setScreen(): the power button; turning the screen off ends the tapping.
PressPower ==
  /\ threadPc = "press"
  /\ screen' = ~screen
  /\ IF nextScreenState = 0
     THEN tapActive' = FALSE /\ nextStayOn' = FALSE
     ELSE UNCHANGED <<tapActive, nextStayOn>>
  /\ threadPc' = "stay"
  /\ UNCHANGED <<found, nextScreenState, caller, screenIsOn, ending, hands>>

SetTap ==
  /\ threadPc = "stay"
  /\ IF tapActive # nextStayOn
     THEN tapActive' = ~tapActive /\ nextStayOn' = ~tapActive
     ELSE UNCHANGED <<tapActive, nextStayOn>>
  /\ threadPc' = "clear"
  /\ UNCHANGED <<screen, found, nextScreenState, caller, screenIsOn, ending,
                 hands>>

\* Mutant of FlagDone: the flag's value is one past the states.
FlagPastStates ==
  /\ threadPc = "clear"
  /\ nextScreenState' = 2
  /\ threadPc' = "poll"
  /\ UNCHANGED <<screen, found, nextStayOn, caller, screenIsOn, tapActive,
                 ending, hands>>

FlagDone ==
  /\ threadPc = "clear"
  /\ nextScreenState' = -1
  /\ threadPc' = "poll"
  /\ UNCHANGED <<screen, found, nextStayOn, caller, screenIsOn, tapActive,
                 ending, hands>>

\* The thread lives until it leaves its loop, or the process ends.
ScreenThread ==
  /\ audio # "over"
  /\ Poll \/ ReadScreen \/ Compare \/ PressPower \/ SetTap \/ FlagDone

-----------------------------------------------------------------------------
(* The end of the program, and the world                                    *)

\* A signal, or whatever else sets gShouldStop; the audio thread then leaves.
Stop ==
  /\ ~gShouldStop
  /\ gShouldStop' = TRUE
  /\ UNCHANGED <<screen, found, request, caller, thread, audio, hands>>

AudioExit ==
  /\ audio = "running"
  /\ gShouldStop
  /\ ~setting
  /\ audio' = "exited"
  /\ UNCHANGED <<screen, found, request, caller, thread, gShouldStop, hands>>

\* LDSP_cleanupCtrlOutputs(): nothing to do with the outputs off.
CleanupCtrlOutputs ==
  /\ audio = "exited"
  /\ IF ctrlOutputsOff
     THEN audio' = "skipped" /\ UNCHANGED gShouldStop
     ELSE audio' = "joining" /\ gShouldStop' = TRUE
  /\ UNCHANGED <<screen, found, request, caller, thread, hands>>

\* Mutant of JoinScreen: no pthread_join.
JoinNothing ==
  /\ audio = "joining"
  /\ audio' = "joined"
  /\ UNCHANGED <<screen, found, request, caller, thread, gShouldStop, hands>>

JoinScreen ==
  /\ audio = "joining"
  /\ threadPc = "exited"
  /\ audio' = "joined"
  /\ UNCHANGED <<screen, found, request, caller, thread, gShouldStop, hands>>

\* if(isScreenOn() != initialScreenState)
ReadForReset ==
  /\ audio = "joined"
  /\ audio' = IF isScreenOn # initialScreenState THEN "press" ELSE "cleaned"
  /\ UNCHANGED <<screen, found, request, caller, thread, gShouldStop, hands>>

\* setScreen(initialScreenState)
PressForReset ==
  /\ audio = "press"
  /\ screen' = ~screen
  /\ audio' = "cleaned"
  /\ UNCHANGED <<found, request, caller, thread, gShouldStop, hands>>

\* main() returns, and with it ends whatever thread is left.
ProcessExit ==
  /\ audio \in {"skipped", "cleaned"}
  /\ audio' = "over"
  /\ UNCHANGED <<screen, found, request, caller, thread, gShouldStop, hands>>

Cleanup ==
  CleanupCtrlOutputs \/ JoinScreen \/ ReadForReset \/ PressForReset \/ ProcessExit

\* Somebody presses the button, or Android turns the screen off.  What they do
\* once the program is through with the screen is their own affair.
Button ==
  /\ audio \notin {"cleaned", "over"}
  /\ buttons < MaxButtons
  /\ screen' = ~screen
  /\ buttons' = buttons + 1
  /\ late' = (late \/ audio = "press")
  /\ disturbed' = TRUE
  /\ UNCHANGED <<found, request, asked, setting, requests, thread, ending>>

Next ==
  \/ SetStayOn \/ SetState
  \/ ScreenThread
  \/ Stop \/ AudioExit
  \/ Cleanup
  \/ Button

Spec == Init /\ [][Next]_vars

(* render() returns, the screen thread only sleeps and runs commands, and   *)
(* main() goes on once its joins return.  Nobody has to ask for the screen, *)
(* to stop the program or to press the button.                              *)
Fairness ==
  /\ WF_vars(SetState)
  /\ WF_vars(ScreenThread)
  /\ WF_vars(AudioExit)
  /\ WF_vars(Cleanup)

FairSpec == Spec /\ Fairness

-----------------------------------------------------------------------------
(* What SettledAsAsked and its like depend on: the state of the screen can  *)
(* be read, and so far no call overlapped the work on another and nobody    *)
(* touched the button.                                                      *)
Undisturbed == readable /\ ~disturbed

\* The thread was joined; the reset has been done.
joined == ~ctrlOutputsOff /\ audio \in {"joined", "press", "cleaned", "over"}
resetDone == ~ctrlOutputsOff /\ audio \in {"cleaned", "over"}

(* Whenever the request is flagged as done, the screen is as the last call  *)
(* asked and the tapping is on exactly if that call asked for it (the       *)
(* power button toggles: one press too many or too few shows here).         *)
SettledAsAsked ==
  Undisturbed /\ nextScreenState = -1 /\ ~setting /\ ~resetDone =>
    screen = asked.on /\ tapActive = asked.stay

(* Why it holds: a call finds the thread at rest, and from the request on   *)
(* each step of the thread knows how the screen stands to what was asked.   *)
WorkInv ==
  Undisturbed =>
    /\ setting => nextScreenState = -1
    /\ nextScreenState = -1 => threadPc \in {"poll", "exited"}
    /\ nextScreenState # -1 => nextScreenState = StateOn(asked.on)
    /\ setting \/ nextScreenState # -1 => nextStayOn = asked.stay
    /\ asked.stay => asked.on
    /\ threadPc = "compare" => screenIsOn = screen
    /\ threadPc = "press" => screen # asked.on
    /\ threadPc \in {"stay", "clear"} => screen = asked.on
    /\ threadPc = "clear" => tapActive = asked.stay
    /\ joined => threadPc = "exited"

(* With the control outputs on, the screen the program found is the screen  *)
(* it leaves, whatever was asked, even if a request came while the thread   *)
(* was working on another and whoever pressed the button before (the reset  *)
(* comes after the ends of both threads), unless its state cannot be read   *)
(* or somebody pressed the button between the reset's read and its press.   *)
InitialScreenRestored == resetDone /\ readable /\ ~late => screen = foundScreen

(* A request is carried out unless another replaces it or the program ends. *)
(* ("the change was made", core/ctrlOutputs.cpp:619.)                       *)
RequestHonoured ==
  \A on \in BOOLEAN :
    (requests > 0 /\ asked.on = on)
      ~> (screen = on \/ asked.on # on \/ gShouldStop \/ ~Undisturbed)

(* With the control outputs on, a stop is always followed by the end of the *)
(* thread and the reset of the screen.                                      *)
StopLeadsToCleanup ==
  gShouldStop /\ ~ctrlOutputsOff ~> resetDone /\ threadPc = "exited"

(* The thread presses the button only to bring the screen to the requested  *)
(* state: "if requested state is different than current state",             *)
(* core/ctrlOutputs.cpp:591.                                                *)
PressesTowardsRequest ==
  [][PressPower /\ Undisturbed => StateOn(screen') = nextScreenState]_vars

-----------------------------------------------------------------------------
(* "then we flag that the change was made": core/ctrlOutputs.cpp:619, of    *)
(* nextScreenState = -1.  When nothing is left to be done, the last change  *)
(* asked for was made (while nobody else touches the screen).               *)
FlagMeansMade ==
  /\ readable /\ buttons = 0 /\ audio = "running"
  /\ nextScreenState = -1 /\ ~setting
  => screen = asked.on

(* "then reset screen to inital state", core/ctrlOutputs.cpp:122, without   *)
(* the conditions of InitialScreenRestored: fails when the button is        *)
(* pressed between the read and the press of the reset, and with the        *)
(* control outputs off.                                                     *)
ScreenAsFound == audio = "over" /\ readable => screen = foundScreen
=============================================================================
