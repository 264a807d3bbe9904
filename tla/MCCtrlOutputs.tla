--------------------------- MODULE MCCtrlOutputs ----------------------------
(* A flashlight (0), the display's backlight (1) and the vibration (2).     *)
EXTENDS CtrlOutputs

\* The flashlight and the vibration are on or off: half a light is none.
Scale == [o \in 0 .. Count - 1 |-> IF o = lcdBacklight THEN 2 ELSE 1]
=============================================================================
