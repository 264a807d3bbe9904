---------------------------- MODULE UserProgram ------------------------------
(***************************************************************************)
(* What the engine promises to the three functions a user writes: setup()  *)
(* runs first and once; render() runs only after a setup() that returned   *)
(* true, one call at a time; cleanup() runs at most once, after the last   *)
(* render() has returned.  Lifecycle implements this specification.        *)
(***************************************************************************)

VARIABLE phase

UserPhase == {"before", "ready", "rendering", "refused", "cleaned", "over"}

Init == phase = "before"

Setup == phase = "before" /\ phase' \in {"ready", "refused"}

BeginRender == phase = "ready" /\ phase' = "rendering"

EndRender == phase = "rendering" /\ phase' = "ready"

Cleanup == phase = "ready" /\ phase' = "cleaned"

\* The process ends, but never inside render().
End == phase \notin {"rendering", "over"} /\ phase' = "over"

Next == Setup \/ BeginRender \/ EndRender \/ Cleanup \/ End

Spec == Init /\ [][Next]_phase
=============================================================================
