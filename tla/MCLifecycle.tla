---------------------------- MODULE MCLifecycle ------------------------------
(* Lifecycle on every command line and every fault, and on the smaller      *)
(* environments in which single statements of the documentation fail.       *)
EXTENDS Lifecycle

AllOptions == Option

NoFault == {}
PcmFault == {"pcm"}
HwConfigFault == {"hwconfig"}
=============================================================================
