---------------------------- MODULE MCCtrlInputs ----------------------------
(* Phones with two input devices, one button and a screen of two fingers    *)
(* and three touch channels (x, hoverX and hoverY).                         *)
EXTENDS CtrlInputs, TLC

KEY_POWER == <<"EV_KEY", 116>>
KEY_V == <<"EV_KEY", 47>>
BTN_TOUCH == <<"EV_KEY", 330>>
ABS_MT_POSITION_X == <<"EV_ABS", 53>>
ABS_MT_DISTANCE == <<"EV_ABS", 59>>
ABS_MT_TOOL_X == <<"EV_ABS", 60>>
ABS_MT_TOOL_Y == <<"EV_ABS", 61>>

\* Rows of LDSPctrlInputsContext's map: both tool axes have chn_mt_hoverX.
TestEventMap ==
  KEY_POWER :> 0 @@ BTN_TOUCH :> 1
  @@ ABS_MT_POSITION_X :> 2 @@ ABS_MT_TOOL_X :> 3 @@ ABS_MT_TOOL_Y :> 3

Buttonry(other) == [keys |-> {KEY_POWER}, abs |-> {}, slots |-> 0, other |-> other]
Screen(abs, slots, other) ==
  [keys |-> {BTN_TOUCH}, abs |-> abs, slots |-> slots, other |-> other]
Sensor == [keys |-> {}, abs |-> {}, slots |-> 0, other |-> "late"]

\* The button and the screen are monitored (no BTN_TOUCH); only the screen is,
\* and has an axis that LDSP does not know; only the button is; the screen does
\* not tell its slots; nothing is monitored.
TestPhones ==
  { <<Buttonry("none"),
      [Screen({ABS_MT_POSITION_X, ABS_MT_TOOL_X}, 2, "none") EXCEPT !.keys = {}]>>,
    <<Buttonry("late"), Screen({ABS_MT_TOOL_Y, ABS_MT_DISTANCE}, 2, "none")>>,
    <<Buttonry("none"), Screen({ABS_MT_POSITION_X, ABS_MT_TOOL_Y}, 2, "late")>>,
    <<Screen({ABS_MT_TOOL_X}, 0, "none"), Buttonry("early")>>,
    <<Buttonry("late"), Sensor>> }

\* A screen that tells both coordinates of the tool above it.
HoverPhones == {<<Buttonry("none"), Screen({ABS_MT_TOOL_X, ABS_MT_TOOL_Y}, 1, "none")>>}

\* A keyboard beside the screen.
KeyboardPhones ==
  {<<[Buttonry("none") EXCEPT !.keys = {KEY_POWER, KEY_V}],
     Screen({ABS_MT_POSITION_X}, 1, "none")>>}

\* A screen of two fingers.
ScreenPhones == {<<Buttonry("none"), Screen({ABS_MT_POSITION_X}, 2, "none")>>}
=============================================================================
