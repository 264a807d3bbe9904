-------------------------- MODULE ScreenCtrlProofs ---------------------------
(***************************************************************************)
(* Proofs about ScreenCtrl, for any number of requests: the screen follows *)
(* requests that do not overlap, and the reset at the end undoes them all, *)
(* overlapping or not, where it is made and nobody comes between its read  *)
(* and its press.                                                          *)
(***************************************************************************)
EXTENDS ScreenCtrl, TLAPS

(* Where the variables live, for every value of the constants.              *)
THEOREM TypeCorrect == Spec => []TypeOK
<1>. MaxRequests \in Nat /\ MaxButtons \in Nat /\ OutputsOff \subseteq BOOLEAN
  BY ScreenCtrlAssumption
<1>1. Init => TypeOK
  <2>. SUFFICES ASSUME Init
                PROVE  TypeOK
    OBVIOUS
  <2>1. asked \in [on : BOOLEAN, stay : BOOLEAN]
    <3>1. asked = [on |-> screen, stay |-> FALSE] /\ screen \in BOOLEAN
      BY DEF Init
    <3>2. QED
      BY <3>1, Zenon
  <2>2. nextScreenState \in -1 .. 1
    BY DEF Init
  <2>3. screen \in BOOLEAN /\ foundScreen \in BOOLEAN /\ readable \in BOOLEAN
      /\ ctrlOutputsOff \in OutputsOff /\ late \in BOOLEAN
    BY DEF Init
  <2>4. requests \in 0 .. MaxRequests /\ buttons \in 0 .. MaxButtons
    BY DEF Init
  <2>5. QED
    BY <2>1, <2>2, <2>3, <2>4, Zenon DEF Init, TypeOK
<1>2. TypeOK /\ [Next]_vars => TypeOK'
  <2>. SUFFICES ASSUME TypeOK, [Next]_vars
                PROVE  TypeOK'
    OBVIOUS
  <2>. USE DEF TypeOK, found, request, caller, thread, ending, hands
  <2>1. CASE SetStayOn
    <3>1. PICK on \in BOOLEAN, stay \in BOOLEAN :
            /\ asked' = [on |-> on, stay |-> on /\ stay]
            /\ nextStayOn' = (on /\ stay)
      BY <2>1 DEF SetStayOn
    <3>2. asked' \in [on : BOOLEAN, stay : BOOLEAN] /\ nextStayOn' \in BOOLEAN
      BY <3>1, Zenon
    <3>3. disturbed' \in BOOLEAN
      BY <2>1, Zenon DEF SetStayOn
    <3>4. QED
      BY <2>1, <3>2, <3>3 DEF SetStayOn
  <2>2. CASE SetState
    <3>1. StateOn(asked.on) \in -1 .. 1
      BY DEF StateOn
    <3>2. nextScreenState' \in -1 .. 1 /\ setting' \in BOOLEAN
      BY <2>2, <3>1, Zenon DEF SetState
    <3>3. UNCHANGED <<screen, foundScreen, readable, ctrlOutputsOff, nextStayOn, asked, requests,
                      disturbed, threadPc, screenIsOn, tapActive, gShouldStop,
                      audio, buttons, late>>
      BY <2>2, Zenon DEF SetState
    <3>4. QED
      BY <3>2, <3>3
  <2>3. CASE Poll
    BY <2>3 DEF Poll
  <2>4. CASE ReadScreen
    <3>1. isScreenOn \in BOOLEAN
      BY Zenon DEF isScreenOn
    <3>2. screenIsOn' \in BOOLEAN
      BY <2>4, <3>1, Zenon DEF ReadScreen
    <3>3. QED
      BY <2>4, <3>2 DEF ReadScreen
  <2>5. CASE Compare
    BY <2>5 DEF Compare
  <2>6. CASE PressPower
    <3>1. screen' \in BOOLEAN /\ tapActive' \in BOOLEAN /\ nextStayOn' \in BOOLEAN
      BY <2>6, Zenon DEF PressPower
    <3>2. threadPc' = "stay" /\ UNCHANGED <<foundScreen, readable, ctrlOutputsOff, nextScreenState,
            asked, setting, requests, disturbed, screenIsOn, gShouldStop, audio, buttons, late>>
      BY <2>6, Zenon DEF PressPower
    <3>3. QED
      BY <3>1, <3>2
  <2>7. CASE SetTap
    <3>1. tapActive' \in BOOLEAN /\ nextStayOn' \in BOOLEAN
      BY <2>7, Zenon DEF SetTap
    <3>2. threadPc' = "clear" /\ UNCHANGED <<screen, foundScreen, readable, ctrlOutputsOff,
            nextScreenState, asked, setting, requests, disturbed, screenIsOn,
            gShouldStop, audio, buttons, late>>
      BY <2>7, Zenon DEF SetTap
    <3>3. QED
      BY <3>1, <3>2
  <2>8. CASE FlagDone
    BY <2>8 DEF FlagDone
  <2>9. CASE Stop
    BY <2>9 DEF Stop
  <2>10. CASE AudioExit
    BY <2>10 DEF AudioExit
  <2>11. CASE CleanupCtrlOutputs
    <3>1. /\ audio' \in {"skipped", "joining"}
          /\ gShouldStop' \in BOOLEAN
      BY <2>11, Zenon DEF CleanupCtrlOutputs
    <3>2. UNCHANGED <<screen, foundScreen, readable, ctrlOutputsOff, nextScreenState,
                      nextStayOn, asked, setting, requests, disturbed, threadPc,
                      screenIsOn, tapActive, buttons, late>>
      BY <2>11, Zenon DEF CleanupCtrlOutputs
    <3>3. QED
      BY <3>1, <3>2
  <2>12. CASE JoinScreen \/ ReadForReset \/ PressForReset \/ ProcessExit
    <3>1. CASE JoinScreen \/ ProcessExit
      BY <3>1 DEF JoinScreen, ProcessExit
    <3>2. CASE ReadForReset
      <4>1. audio' \in {"press", "cleaned"}
        BY <3>2, Zenon DEF ReadForReset
      <4>2. UNCHANGED <<screen, found, request, caller, thread, gShouldStop, hands>>
        BY <3>2 DEF ReadForReset
      <4>3. QED
        BY <4>1, <4>2
    <3>3. CASE PressForReset
      BY <3>3 DEF PressForReset
    <3>4. QED
      BY <2>12, <3>1, <3>2, <3>3
  <2>13. CASE Button
    BY <2>13 DEF Button
  <2>14. CASE UNCHANGED vars
    BY <2>14 DEF vars
  <2>15. QED
    BY <2>1, <2>2, <2>3, <2>4, <2>5, <2>6, <2>7, <2>8, <2>9, <2>10, <2>11,
       <2>12, <2>13, <2>14 DEF Next, ScreenThread, Cleanup
<1>3. QED
  BY <1>1, <1>2, PTL DEF Spec

-----------------------------------------------------------------------------
(* Requests that do not overlap                                             *)

\* Which way the cleanup took.
OffInv ==
  /\ audio = "skipped" => ctrlOutputsOff
  /\ audio \in {"joining", "joined", "press", "cleaned"} => ~ctrlOutputsOff

\* The strengthening of SettledAsAsked.
SettleInv == TypeOK /\ OffInv /\ WorkInv /\ SettledAsAsked

(* Every step of the program, the thread and the button keeps SettleInv.    *)
LEMMA SettleInvStep ==
  ASSUME SettleInv, TypeOK', [Next]_vars
  PROVE  SettleInv'
<1>. USE DEF SettleInv, TypeOK, OffInv, WorkInv, SettledAsAsked, Undisturbed, joined, resetDone,
             found, request, caller, thread, ending, hands
<1>1. CASE SetStayOn
  <2>1. PICK on \in BOOLEAN, stay \in BOOLEAN :
          /\ asked' = [on |-> on, stay |-> on /\ stay]
          /\ nextStayOn' = (on /\ stay)
    BY <1>1 DEF SetStayOn
  <2>2. asked'.stay => asked'.on
    BY <2>1
  <2>3. QED
    BY <1>1, <2>2 DEF SetStayOn
<1>2. CASE SetState
  <2>1. StateOn(asked.on) # -1
    BY DEF StateOn
  <2>2. /\ Undisturbed => /\ nextStayOn = asked.stay /\ nextScreenState = -1
                          /\ threadPc \in {"poll", "exited"}
        /\ nextScreenState' = StateOn(asked.on) /\ setting' = FALSE
    BY <1>2, Zenon DEF SetState
  <2>3. UNCHANGED <<screen, foundScreen, readable, ctrlOutputsOff, nextStayOn, asked, requests,
                    disturbed, threadPc, screenIsOn, tapActive, gShouldStop,
                    audio, buttons, late>>
    BY <1>2, Zenon DEF SetState
  <2>4. QED
    BY <2>1, <2>2, <2>3
<1>3. CASE Poll
  BY <1>3 DEF Poll
<1>4. CASE ReadScreen
  BY <1>4 DEF ReadScreen, isScreenOn
<1>5. CASE Compare
  BY <1>5 DEF Compare, StateOn
<1>6. CASE PressPower
  BY <1>6 DEF PressPower, StateOn
<1>7. CASE SetTap
  BY <1>7 DEF SetTap
<1>8. CASE FlagDone
  BY <1>8 DEF FlagDone
<1>9. CASE Stop
  BY <1>9 DEF Stop
<1>10. CASE AudioExit
  BY <1>10 DEF AudioExit
<1>11. CASE Cleanup
  <2>1. CASE CleanupCtrlOutputs
    BY <2>1 DEF CleanupCtrlOutputs
  <2>2. CASE JoinScreen
    BY <2>2 DEF JoinScreen
  <2>3. CASE ReadForReset
    <3>1. audio = "joined" /\ audio' \in {"press", "cleaned"}
      BY <2>3, Zenon DEF ReadForReset
    <3>2. UNCHANGED <<screen, found, request, caller, thread, gShouldStop, hands>>
      BY <2>3 DEF ReadForReset
    <3>3. QED
      BY <3>1, <3>2
  <2>4. CASE PressForReset
    BY <2>4 DEF PressForReset
  <2>5. CASE ProcessExit
    BY <2>5 DEF ProcessExit
  <2>6. QED
    BY <1>11, <2>1, <2>2, <2>3, <2>4, <2>5 DEF Cleanup
<1>12. CASE Button
  BY <1>12 DEF Button
<1>13. CASE UNCHANGED vars
  BY <1>13 DEF vars
<1>14. QED
  BY <1>1, <1>2, <1>3, <1>4, <1>5, <1>6, <1>7, <1>8, <1>9, <1>10, <1>11, <1>12,
     <1>13 DEF Next, ScreenThread

(* SettleInv is inductive, so it holds in every reachable state.            *)
THEOREM SettleInvariant == Spec => []SettleInv
<1>1. Init /\ TypeOK => SettleInv
  <2>. SUFFICES ASSUME Init, TypeOK
                PROVE  WorkInv /\ SettledAsAsked
    BY DEF SettleInv, OffInv, Init
  <2>1. asked.on = screen /\ asked.stay = FALSE
    BY Zenon DEF Init
  <2>2. /\ nextScreenState = -1 /\ ~setting /\ threadPc = "poll"
        /\ tapActive = FALSE /\ audio = "running"
    BY Zenon DEF Init
  <2>3. QED
    BY <2>1, <2>2 DEF WorkInv, SettledAsAsked, joined, resetDone
<1>2. SettleInv /\ TypeOK' /\ [Next]_vars => SettleInv'
  BY SettleInvStep
<1>3. QED
  BY <1>1, <1>2, TypeCorrect, PTL DEF Spec

(* Whenever the flag says "done", the screen and the tapping are as the     *)
(* last call asked.                                                         *)
THEOREM SettledCorrect == Spec => []SettledAsAsked
<1>1. SettleInv => SettledAsAsked
  BY DEF SettleInv
<1>2. QED
  BY <1>1, SettleInvariant, PTL

(* The button is only ever pressed in the direction of the request.         *)
THEOREM PressesCorrect == Spec => PressesTowardsRequest
<1>1. SettleInv /\ [Next]_vars =>
        [PressPower /\ Undisturbed => StateOn(screen') = nextScreenState]_vars
  <2>. SUFFICES ASSUME SettleInv, PressPower, Undisturbed
                PROVE  StateOn(screen') = nextScreenState
    OBVIOUS
  <2>1. nextScreenState = StateOn(asked.on) /\ screen' = asked.on
    BY DEF SettleInv, TypeOK, WorkInv, PressPower
  <2>2. QED
    BY <2>1
<1>2. QED
  BY <1>1, SettleInvariant, PTL DEF Spec, PressesTowardsRequest

-----------------------------------------------------------------------------
(* The reset, whatever the callers do                                       *)

(* After the join only the reset and the button change the screen: while    *)
(* the reset is about to press, the screen is not as it was found.          *)
ResetInv ==
  /\ joined => threadPc = "exited"
  /\ OffInv
  /\ audio = "press" /\ readable /\ ~late => screen # foundScreen
  /\ resetDone /\ readable /\ ~late => screen = foundScreen

(* With the control outputs on and its state readable, the program leaves   *)
(* the screen as it found it, with overlapping calls and with anybody at    *)
(* the button, unless he presses it between the reset's read and its press. *)
THEOREM RestoreCorrect == Spec => []InitialScreenRestored
<1>. USE DEF joined, resetDone, OffInv
<1>1. Init => ResetInv
  BY DEF Init, ResetInv
<1>2. TypeOK /\ ResetInv /\ [Next]_vars => ResetInv'
  <2>. SUFFICES ASSUME TypeOK, ResetInv, [Next]_vars
                PROVE  ResetInv'
    OBVIOUS
  <2>. USE DEF ResetInv, found, thread, ending, hands
  <2>1. CASE ReadForReset
    <3>1. /\ audio = "joined"
          /\ audio' \in {"press", "cleaned"}
      BY <2>1, Zenon DEF ReadForReset
    <3>2. readable => (audio' = "cleaned" <=> screen = foundScreen)
      <4>1. readable => (isScreenOn = initialScreenState <=> screen = foundScreen)
        BY Zenon DEF isScreenOn, initialScreenState
      <4>2. "press" # "cleaned"
        OBVIOUS
      <4>3. QED
        BY <2>1, <4>1, <4>2, Zenon DEF ReadForReset
    <3>3. UNCHANGED <<screen, found, request, caller, thread, gShouldStop, hands>>
      BY <2>1 DEF ReadForReset
    <3>4. QED
      BY <3>1, <3>2, <3>3 DEF TypeOK
  <2>2. CASE PressForReset
    BY <2>2 DEF PressForReset, TypeOK
  <2>3. CASE CleanupCtrlOutputs \/ JoinScreen \/ ProcessExit
    BY <2>3 DEF CleanupCtrlOutputs, JoinScreen, ProcessExit
  <2>4. CASE SetStayOn \/ SetState \/ Stop \/ AudioExit
    BY <2>4 DEF SetStayOn, SetState, Stop, AudioExit
  <2>5. CASE Button
    BY <2>5 DEF Button, TypeOK
  <2>6. CASE ScreenThread
    BY <2>6 DEF ScreenThread, Poll, ReadScreen, Compare, PressPower, SetTap,
       FlagDone
  <2>7. CASE UNCHANGED vars
    BY <2>7 DEF vars
  <2>8. QED
    BY <2>1, <2>2, <2>3, <2>4, <2>5, <2>6, <2>7 DEF Next, Cleanup
<1>3. ResetInv => InitialScreenRestored
  BY DEF ResetInv, InitialScreenRestored
<1>4. QED
  BY <1>1, <1>2, <1>3, TypeCorrect, PTL DEF Spec
=============================================================================
