------------------------------- MODULE MCScope -------------------------------
(* The trigger in the middle of the frame, or one sample after it.          *)
EXTENDS Scope

TestOffsets == {-1, 0}
=============================================================================
