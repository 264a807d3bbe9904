-------------------------- MODULE CtrlOutputsProofs --------------------------
(***************************************************************************)
(* Proofs about CtrlOutputs, for any number of outputs and any scales: the *)
(* remembered values stand for the files, each vibration asked for is      *)
(* asked of the phone once, and every light is left as it was found.       *)
(***************************************************************************)
EXTENDS CtrlOutputs, TLAPS

(* A level of an output, scaled and truncated, is a natural number, and 0   *)
(* is 0 in every scale.                                                     *)
LEMMA StepsType ==
  ASSUME NEW o \in Output, NEW level \in Level
  PROVE  Steps(o, level) \in Nat
<1>1. ScaleVal[o] \in Nat /\ Parts \in Nat /\ Parts > 0
  BY CtrlOutputsAssumption
<1>2. level \in Nat
  BY <1>1 DEF Level
<1>3. level * ScaleVal[o] \in Nat
  BY <1>1, <1>2
<1>4. (level * ScaleVal[o]) \div Parts \in Nat
  BY <1>1, <1>3
<1>. QED
  BY <1>4 DEF Steps

(* What is in the buffer of an output becomes a natural number.             *)
LEMMA ScaledType ==
  ASSUME TypeOK, NEW o \in Output
  PROVE  Scaled(o) \in Nat
BY StepsType DEF Scaled, TypeOK

(* A write reaches the file, or makes the stream fail, or finds it failed;  *)
(* no other file is touched, and no stream becomes good again.              *)
LEMMA WriteFileEffect ==
  ASSUME TypeOK, NEW o \in Output, NEW value \in Nat, WriteFile(o, value)
  PROVE  /\ file' \in [Output -> Nat]
         /\ fileGood' \subseteq fileGood
         /\ rejects' \in 0 .. MaxRejects
         /\ foreign' \subseteq foreign
         /\ foreign \subseteq foreign' \union {o}
         /\ \A p \in Output \ {o} : file'[p] = file[p]
         /\ o \in fileGood' => file'[o] = value
BY CtrlOutputsAssumption DEF TypeOK, WriteFile

-----------------------------------------------------------------------------
(* The initial state has the right types.                                   *)
LEMMA TypeInit == Init => TypeOK
<1>. Count \in Nat /\ MaxFound \in Nat /\ MaxSets \in Nat /\ MaxForeign \in Nat
     /\ MaxRejects \in Nat /\ Parts \in Nat \ {0}
  BY CtrlOutputsAssumption
<1>. SUFFICES ASSUME Init
              PROVE  TypeOK
  OBVIOUS
<1>1. file \in [Output -> Nat]
  BY DEF Init
<1>2. prevVal \in [Output -> Nat] /\ initialVal \in [Output -> Nat]
  BY DEF Init
<1>3. ctrlOutBuffer \in [Output -> Level]
  BY DEF Init, Level
<1>4. /\ out \in 0 .. Count /\ outInt \in Nat /\ due \in Nat /\ pulses \in Nat
      /\ sets \in 0 .. MaxSets /\ foreigns \in 0 .. MaxForeign
      /\ rejects \in 0 .. MaxRejects
  BY DEF Init
<1>5. /\ configured \subseteq Output /\ fileGood \subseteq configured
      /\ asked \subseteq Output /\ written \subseteq configured
      /\ foreign \subseteq Output
  BY DEF Init
<1>6. gShouldStop \in BOOLEAN /\ pc = "init"
  BY DEF Init
<1>. QED
  BY <1>1, <1>2, <1>3, <1>4, <1>5, <1>6 DEF TypeOK

(* Where the variables live, for every value of the constants.              *)
THEOREM TypeCorrect == Spec => []TypeOK
<1>. Count \in Nat /\ MaxFound \in Nat /\ MaxSets \in Nat /\ MaxForeign \in Nat
     /\ MaxRejects \in Nat /\ Parts \in Nat \ {0} /\ lcdBacklight \in Output
     /\ vibration \in Output
  BY CtrlOutputsAssumption
<1>1. Init => TypeOK
  BY TypeInit
<1>2. TypeOK /\ [Next]_vars => TypeOK'
  <2>. SUFFICES ASSUME TypeOK, [Next]_vars
                PROVE  TypeOK'
    OBVIOUS
  <2>. USE DEF TypeOK, loop, cache, history
  <2>1. CASE NotConfigured
    BY <2>1 DEF NotConfigured
  <2>2. CASE CannotOpen
    BY <2>2 DEF CannotOpen
  <2>3. CASE Configure
    <3>1. out \in Output
      BY <2>3 DEF Configure, Output
    <3>2. configured' \subseteq Output /\ fileGood' \subseteq configured'
      BY <2>3, <3>1 DEF Configure
    <3>3. prevVal' \in [Output -> Nat] /\ initialVal' \in [Output -> Nat]
      BY <2>3, <3>1 DEF Configure
    <3>4. rejects' \in 0 .. MaxRejects
      BY <2>3 DEF Configure
    <3>5. written' \subseteq configured' /\ foreign' \subseteq Output
      BY <2>3 DEF Configure
    <3>. QED
      BY <2>3, <3>1, <3>2, <3>3, <3>4, <3>5 DEF Configure
  <2>4. CASE InitDone
    BY <2>4 DEF InitDone
  <2>5. CASE Check
    BY <2>5 DEF Check
  <2>6. CASE RenderSets \/ ScreenSets
    <3>1. PICK o \in Output, level \in Level : SetOutput(o, level)
      BY <2>6 DEF RenderSets, ScreenSets
    <3>2. ctrlOutBuffer' \in [Output -> Level] /\ asked' \subseteq Output
          /\ sets' \in 0 .. MaxSets
      BY <3>1 DEF SetOutput
    <3>. QED
      BY <3>1, <3>2 DEF SetOutput
  <2>7. CASE RenderDone
    BY <2>7 DEF RenderDone
  <2>8. CASE SkipOutput
    BY <2>8 DEF SkipOutput
  <2>9. CASE LoadOutput
    <3>1. out \in Output
      BY <2>9 DEF LoadOutput
    <3>2. outInt' \in Nat
      BY <2>9, <3>1, ScaledType DEF LoadOutput
    <3>. QED
      BY <2>9, <3>1, <3>2 DEF LoadOutput
  <2>10. CASE WriteOutput
    <3>1. /\ out \in Output /\ out \in configured
          /\ WriteFile(out, outInt) /\ Remember(out)
      BY <2>10 DEF WriteOutput
    <3>2. prevVal' \in [Output -> Nat] /\ ctrlOutBuffer' \in [Output -> Level]
      BY <3>1 DEF Remember, Level
    <3>3. out + 1 \in 0 .. Count
      BY <3>1 DEF Output
    <3>4. written' \subseteq configured /\ pulses' \in Nat
      BY <2>10, <3>1 DEF WriteOutput
    <3>. QED
      BY <2>10, <3>1, <3>2, <3>3, <3>4, WriteFileEffect DEF WriteOutput
  <2>11. CASE OutputsWritten
    BY <2>11 DEF OutputsWritten
  <2>12. CASE RestoreOutput
    <3>1. out \in Output
      BY <2>12 DEF RestoreOutput, Output
    <3>2. /\ file' \in [Output -> Nat] /\ fileGood' \subseteq fileGood
          /\ rejects' \in 0 .. MaxRejects /\ foreign' \subseteq foreign
      BY <2>12, <3>1, WriteFileEffect DEF RestoreOutput
    <3>. QED
      BY <2>12, <3>1, <3>2 DEF RestoreOutput
  <2>13. CASE OutputsRestored
    BY <2>13 DEF OutputsRestored
  <2>14. CASE Stop
    BY <2>14 DEF Stop
  <2>15. CASE AndroidWrites
    BY <2>15 DEF AndroidWrites
  <2>16. CASE VibrationEnds
    BY <2>16 DEF VibrationEnds
  <2>17. CASE UNCHANGED vars
    BY <2>17 DEF vars
  <2>. QED
    BY <2>1, <2>2, <2>3, <2>4, <2>5, <2>6, <2>7, <2>8, <2>9, <2>10, <2>11, <2>12,
       <2>13, <2>14, <2>15, <2>16, <2>17
    DEF Next, Program, initCtrlOutputs, writeCtrlOutputs, cleanupCtrlOutputs
<1>. QED
  BY <1>1, <1>2, PTL DEF Spec
-----------------------------------------------------------------------------
(* The cache                                                                *)

\* The strengthening of CacheMirrorsFile: nothing is written before the loop.
CacheInv ==
  /\ TypeOK
  /\ pc = "init" => written = {}
  /\ CacheMirrorsFile

(* A step that leaves the files, what is remembered and what was written    *)
(* alone, and does not take outputs from Restored, keeps the cache right.   *)
LEMMA CacheUntouched ==
  ASSUME CacheMirrorsFile, fileGood' \subseteq fileGood, foreign \subseteq foreign',
         Restored \subseteq Restored', UNCHANGED <<file, prevVal, initialVal, written>>
  PROVE  CacheMirrorsFile'
BY DEF CacheMirrorsFile, Ours, Light

(* The remembered value stands for the file, whatever Android writes,       *)
(* whoever fills the buffer and whichever streams fail.                     *)
THEOREM CacheCorrect == Spec => []CacheMirrorsFile
<1>1. Init => CacheInv
  BY TypeInit DEF Init, CacheInv, CacheMirrorsFile, Ours, Light
<1>2. CacheInv /\ TypeOK' /\ [Next]_vars => CacheInv'
  <2>. SUFFICES ASSUME CacheInv, TypeOK', [Next]_vars
                PROVE  (pc' = "init" => written' = {}) /\ CacheMirrorsFile'
    BY DEF CacheInv
  <2>. USE DEF CacheInv, loop, cache, history
  <2>1. CASE NotConfigured \/ CannotOpen \/ InitDone \/ Check
    <3>1. Restored = {}
      BY <2>1 DEF NotConfigured, CannotOpen, InitDone, Check, Restored
    <3>2. /\ UNCHANGED <<file, foreign, fileGood, prevVal, initialVal, written>>
          /\ pc' = "init" => pc = "init"
      BY <2>1 DEF NotConfigured, CannotOpen, InitDone, Check
    <3>. QED
      BY <3>1, <3>2, CacheUntouched
  <2>2. CASE Configure
    <3>1. /\ out \in Output /\ pc = "init" /\ written' = written
          /\ initialVal' = [initialVal EXCEPT ![out] = file[out]]
          /\ file' = file /\ fileGood' \subseteq fileGood \union {out}
          /\ foreign' = foreign \ {out} /\ Restored = {}
      BY <2>2 DEF Configure, TypeOK, Output, Restored
    <3>2. ASSUME NEW o \in Light, Ours(o)'
          PROVE  file'[o] = initialVal'[o]
      <4>1. CASE o = out
        BY <3>1, <4>1 DEF TypeOK
      <4>2. CASE o # out
        BY <3>1, <3>2, <4>2 DEF TypeOK, CacheMirrorsFile, Ours, Light
      <4>. QED
        BY <4>1, <4>2
    <3>. QED
      BY <3>1, <3>2 DEF CacheMirrorsFile
  <2>3. CASE RenderSets \/ ScreenSets \/ RenderDone \/ SkipOutput \/ LoadOutput
             \/ OutputsWritten \/ Stop
    <3>1. /\ UNCHANGED <<file, foreign, fileGood, configured, prevVal, initialVal, written>>
          /\ pc' = "init" => pc = "init"
          /\ Restored = Restored'
      BY <2>3 DEF RenderSets, ScreenSets, SetOutput, RenderDone, SkipOutput, LoadOutput,
                  OutputsWritten, Stop, Restored
    <3>. QED
      BY <3>1, CacheUntouched
  <2>4. CASE WriteOutput
    <3>1. /\ out \in Output /\ out \in configured /\ outInt \in Nat
          /\ WriteFile(out, outInt) /\ Remember(out) /\ pc' = "load"
          /\ written' = written \union {out} /\ initialVal' = initialVal
          /\ Restored = {}
      BY <2>4 DEF WriteOutput, TypeOK, Restored
    <3>2. ASSUME NEW o \in Light, Ours(o)'
          PROVE  file'[o] = IF o \in written' THEN prevVal'[o] ELSE initialVal'[o]
      <4>1. CASE o = out
        BY <3>1, <3>2, <4>1, WriteFileEffect DEF TypeOK, Remember, Light, Ours
      <4>2. CASE o # out
        <5>1. Ours(o) /\ file'[o] = file[o]
          BY <3>1, <3>2, <4>2, WriteFileEffect DEF Ours, Light
        <5>2. prevVal'[o] = prevVal[o] /\ (o \in written' <=> o \in written)
          BY <3>1, <4>2 DEF Remember, TypeOK, Light
        <5>. QED
          BY <3>1, <5>1, <5>2 DEF CacheMirrorsFile
      <4>. QED
        BY <4>1, <4>2
    <3>. QED
      BY <3>1, <3>2 DEF CacheMirrorsFile
  <2>5. CASE RestoreOutput
    <3>1. /\ out \in Output /\ pc = "cleanup" /\ pc' = "cleanup" /\ out' = out + 1
          /\ UNCHANGED <<configured, prevVal, initialVal, written>>
      BY <2>5, CtrlOutputsAssumption DEF RestoreOutput, TypeOK, Output
    <3>2. ASSUME NEW o \in Light, Ours(o)', o \notin Restored'
          PROVE  Ours(o) /\ o \notin Restored /\ file'[o] = file[o]
      <4>1. out \in configured => WriteFile(out, initialVal[out]) /\ initialVal[out] \in Nat
        BY <2>5, <3>1 DEF RestoreOutput, TypeOK
      <4>2. out \notin configured => UNCHANGED <<file, foreign, fileGood>>
        BY <2>5, <3>1 DEF RestoreOutput
      <4>3. o \in configured
        BY <3>1, <3>2 DEF Ours, TypeOK
      <4>4. ~(o < out + 1) /\ o # out /\ o \notin Restored
        BY <3>1, <3>2, <4>3 DEF Restored, Light, Output
      <4>. QED
        BY <3>1, <3>2, <4>1, <4>2, <4>4, WriteFileEffect DEF Ours, Light
    <3>. QED
      BY <3>1, <3>2 DEF CacheMirrorsFile
  <2>6. CASE OutputsRestored
    <3>1. /\ UNCHANGED <<file, foreign, fileGood, configured, prevVal, initialVal, written>>
          /\ pc' = "cleaned" /\ Restored \subseteq Restored'
      BY <2>6 DEF OutputsRestored, Restored
    <3>. QED
      BY <3>1, CacheUntouched
  <2>7. CASE AndroidWrites
    <3>1. PICK o \in Output, value \in 0 .. MaxFound :
             /\ file' = [file EXCEPT ![o] = value]
             /\ foreign' = foreign \union {o}
      BY <2>7 DEF AndroidWrites
    <3>2. UNCHANGED <<pc, out, configured, fileGood, prevVal, initialVal, written>>
      BY <2>7 DEF AndroidWrites
    <3>3. Restored' = Restored
      BY <3>2 DEF Restored
    <3>. QED
      BY <3>1, <3>2, <3>3 DEF CacheMirrorsFile, Ours, TypeOK, Light
  <2>8. CASE VibrationEnds
    <3>1. /\ file' = [file EXCEPT ![vibration] = 0]
          /\ UNCHANGED <<pc, out, configured, fileGood, prevVal, initialVal, written, foreign>>
      BY <2>8 DEF VibrationEnds
    <3>2. Restored' = Restored
      BY <3>1 DEF Restored
    <3>. QED
      BY <3>1, <3>2 DEF CacheMirrorsFile, Ours, TypeOK, Light
  <2>9. CASE UNCHANGED vars
    <3>1. Restored' = Restored
      BY <2>9 DEF vars, Restored
    <3>. QED
      BY <2>9, <3>1, CacheUntouched DEF vars
  <2>. QED
    BY <2>1, <2>2, <2>3, <2>4, <2>5, <2>6, <2>7, <2>8, <2>9
    DEF Next, Program, initCtrlOutputs, writeCtrlOutputs, cleanupCtrlOutputs
<1>3. CacheInv => CacheMirrorsFile
  BY DEF CacheInv
<1>. QED
  BY <1>1, <1>2, <1>3, TypeCorrect, PTL DEF Spec

-----------------------------------------------------------------------------
(* The lights after a block                                                 *)

\* The lights that only render() sets.
OwnLight == Light \ {lcdBacklight}

\* What was written last is what is asked: of every light between blocks, of
\* those behind the loop's index inside writeCtrlOutputs.
BlockInv ==
  /\ pc = "init" => \A o \in OwnLight : prevVal[o] = 0 /\ ctrlOutBuffer[o] = 0
  /\ pc = "check" => \A o \in OwnLight \cap configured : prevVal[o] = Scaled(o)
  /\ pc \in {"load", "write"} =>
       \A o \in OwnLight \cap configured : o < out => prevVal[o] = Scaled(o)
  /\ pc = "write" /\ out \in OwnLight => outInt = Scaled(out)
  /\ \A o \in OwnLight \ written : prevVal[o] = 0

\* A step that leaves the values remembered and asked alone, and the place too.
LEMMA BlockUntouched ==
  ASSUME BlockInv, UNCHANGED <<pc, out, outInt, configured, prevVal, written>>,
         \A o \in OwnLight : ctrlOutBuffer'[o] = ctrlOutBuffer[o]
  PROVE  BlockInv'
<1>1. \A o \in OwnLight : Scaled(o)' = Scaled(o)
  BY DEF Scaled
<1>. QED
  BY <1>1 DEF BlockInv

LEMMA BlockNext == TypeOK /\ BlockInv /\ [Next]_vars => BlockInv'
<1>. SUFFICES ASSUME TypeOK, BlockInv, [Next]_vars
              PROVE  BlockInv'
  OBVIOUS
<1>. /\ OwnLight \subseteq Output /\ vibration \notin OwnLight
     /\ lcdBacklight \notin OwnLight /\ Count \in Nat
  BY CtrlOutputsAssumption DEF OwnLight, Light
<1>. USE DEF loop, cache, history
<1>1. CASE NotConfigured \/ CannotOpen
  <2>1. /\ pc = "init" /\ pc' \in {"init", "undefined"}
        /\ UNCHANGED <<prevVal, ctrlOutBuffer, written>>
    BY <1>1 DEF NotConfigured, CannotOpen
  <2>. QED
    BY <2>1 DEF BlockInv
<1>2. CASE Configure
  <2>1. /\ pc = "init" /\ pc' = "init" /\ prevVal' = [prevVal EXCEPT ![out] = 0]
        /\ UNCHANGED <<ctrlOutBuffer, written>>
    BY <1>2 DEF Configure
  <2>2. \A o \in OwnLight : prevVal[o] = 0 => prevVal'[o] = 0
    BY <2>1 DEF TypeOK
  <2>. QED
    BY <2>1, <2>2 DEF BlockInv
<1>3. CASE InitDone
  <2>1. pc = "init" /\ pc' = "check" /\ UNCHANGED <<prevVal, ctrlOutBuffer, written>>
    BY <1>3 DEF InitDone
  <2>2. ASSUME NEW o \in OwnLight
        PROVE  prevVal'[o] = 0 /\ Scaled(o)' = 0
    <3>1. ctrlOutBuffer'[o] = 0 /\ prevVal'[o] = 0
      BY <2>1 DEF BlockInv
    <3>2. ScaleVal[o] \in Nat /\ Parts \in Nat /\ Parts > 0
      BY CtrlOutputsAssumption
    <3>3. 0 * ScaleVal[o] = 0 /\ 0 \div Parts = 0
      BY <3>2
    <3>. QED
      BY <3>1, <3>3 DEF Scaled, Steps
  <2>. QED
    BY <2>1, <2>2 DEF BlockInv
<1>4. CASE Check \/ RenderSets
  <2>1. pc' \in {"render", "cleanup"} /\ UNCHANGED <<prevVal, written>>
    BY <1>4 DEF Check, RenderSets, SetOutput
  <2>. QED
    BY <2>1 DEF BlockInv
<1>5. CASE ScreenSets
  <2>1. PICK level \in Level : SetOutput(lcdBacklight, level)
    BY <1>5 DEF ScreenSets
  <2>2. /\ UNCHANGED <<pc, out, outInt, configured, prevVal, written>>
        /\ \A o \in OwnLight : ctrlOutBuffer'[o] = ctrlOutBuffer[o]
    BY <2>1 DEF SetOutput, TypeOK
  <2>. QED
    BY <2>2, BlockUntouched
<1>6. CASE RenderDone
  <2>1. pc' = "load" /\ out' = 0 /\ UNCHANGED <<prevVal, written>>
    BY <1>6 DEF RenderDone
  <2>2. \A o \in OwnLight : ~(o < 0)
    BY DEF Output
  <2>. QED
    BY <2>1, <2>2 DEF BlockInv
<1>7. CASE SkipOutput
  <2>1. /\ pc = "load" /\ pc' = "load" /\ out' = out + 1 /\ out \in Nat
        /\ out \notin configured \/ Scaled(out) = prevVal[out]
        /\ UNCHANGED <<configured, prevVal, ctrlOutBuffer, written>>
    BY <1>7 DEF SkipOutput, TypeOK
  <2>2. \A o \in OwnLight : Scaled(o)' = Scaled(o)
    BY <2>1 DEF Scaled
  <2>3. \A o \in OwnLight : o < out + 1 => o < out \/ o = out
    BY <2>1 DEF Output
  <2>. QED
    BY <2>1, <2>2, <2>3 DEF BlockInv
<1>8. CASE LoadOutput
  <2>1. /\ pc = "load" /\ pc' = "write" /\ outInt' = Scaled(out)
        /\ UNCHANGED <<out, configured, prevVal, ctrlOutBuffer, written>>
    BY <1>8 DEF LoadOutput
  <2>2. \A o \in OwnLight : Scaled(o)' = Scaled(o)
    BY <2>1 DEF Scaled
  <2>. QED
    BY <2>1, <2>2 DEF BlockInv
<1>9. CASE WriteOutput
  <2>1. /\ pc = "write" /\ pc' = "load" /\ out' = out + 1 /\ out \in Nat
        /\ written' = written \union {out} /\ configured' = configured /\ Remember(out)
    BY <1>9 DEF WriteOutput, TypeOK
  <2>2. \A o \in OwnLight : ctrlOutBuffer'[o] = ctrlOutBuffer[o]
    BY <2>1 DEF Remember, TypeOK
  <2>3. \A o \in OwnLight : Scaled(o)' = Scaled(o)
    BY <2>2 DEF Scaled
  <2>4. \A o \in OwnLight : prevVal'[o] = IF o = out THEN Scaled(o) ELSE prevVal[o]
    BY <2>1 DEF Remember, TypeOK, BlockInv
  <2>5. \A o \in OwnLight : o < out + 1 => o < out \/ o = out
    BY <2>1 DEF Output
  <2>. QED
    BY <2>1, <2>3, <2>4, <2>5 DEF BlockInv
<1>10. CASE OutputsWritten
  <2>1. /\ pc = "load" /\ pc' = "check" /\ out = Count
        /\ UNCHANGED <<configured, prevVal, ctrlOutBuffer, written>>
    BY <1>10 DEF OutputsWritten
  <2>2. \A o \in OwnLight : Scaled(o)' = Scaled(o)
    BY <2>1 DEF Scaled
  <2>3. \A o \in OwnLight : o < out
    BY <2>1 DEF Output
  <2>. QED
    BY <2>1, <2>2, <2>3 DEF BlockInv
<1>11. CASE cleanupCtrlOutputs
  <2>1. pc' \in {"cleanup", "cleaned"} /\ UNCHANGED <<prevVal, written>>
    BY <1>11 DEF cleanupCtrlOutputs, RestoreOutput, OutputsRestored
  <2>. QED
    BY <2>1 DEF BlockInv
<1>12. CASE Stop \/ AndroidWrites \/ VibrationEnds \/ UNCHANGED vars
  <2>1. UNCHANGED <<pc, out, outInt, configured, prevVal, written, ctrlOutBuffer>>
    BY <1>12 DEF Stop, AndroidWrites, VibrationEnds, vars
  <2>. QED
    BY <2>1, BlockUntouched
<1>. QED
  BY <1>1, <1>2, <1>3, <1>4, <1>5, <1>6, <1>7, <1>8, <1>9, <1>10, <1>11, <1>12
  DEF Next, Program, initCtrlOutputs, writeCtrlOutputs

(* After every block, each light that only render() sets has in its file    *)
(* what render() asked of it last, once it was written at all.              *)
THEOREM PersistentCorrect == Spec => []PersistentOnceWritten
<1>1. Init => BlockInv
  BY DEF Init, BlockInv, OwnLight, Light
<1>2. TypeOK /\ BlockInv /\ CacheMirrorsFile => PersistentOnceWritten
  <2>. SUFFICES ASSUME TypeOK, BlockInv, CacheMirrorsFile, pc = "check",
                       NEW o \in Light \ {lcdBacklight}, Ours(o),
                       Scaled(o) # 0 \/ o \in written
                PROVE  file[o] = Scaled(o)
    BY DEF PersistentOnceWritten
  <2>1. o \in OwnLight /\ o \in configured /\ o \notin Restored
    BY DEF OwnLight, Ours, TypeOK, Restored
  <2>2. prevVal[o] = Scaled(o) /\ (o \notin written => prevVal[o] = 0)
    BY <2>1 DEF BlockInv
  <2>3. o \in written
    BY <2>2
  <2>. QED
    BY <2>1, <2>2, <2>3 DEF CacheMirrorsFile
<1>. QED
  BY <1>1, <1>2, BlockNext, TypeCorrect, CacheCorrect, PTL DEF Spec

-----------------------------------------------------------------------------
(* The lights at the end                                                    *)

(* Every light is left as it was found, unless its stream has failed.       *)
THEOREM RestoreCorrect == Spec => []LightsLeftAsFound
<1>1. Init => LightsLeftAsFound
  BY DEF Init, LightsLeftAsFound, Restored
<1>2. TypeOK /\ LightsLeftAsFound /\ [Next]_vars => LightsLeftAsFound'
  <2>. SUFFICES ASSUME TypeOK, LightsLeftAsFound, [Next]_vars
                PROVE  LightsLeftAsFound'
    OBVIOUS
  <2>. USE DEF loop, cache, history
  <2>1. CASE RestoreOutput
    <3>1. /\ out \in Output /\ pc = "cleanup" /\ pc' = "cleanup" /\ out' = out + 1
          /\ UNCHANGED <<configured, initialVal>>
      BY <2>1, CtrlOutputsAssumption DEF RestoreOutput, TypeOK, Output
    <3>2. ASSUME NEW o \in Light, o \in Restored', o \in fileGood'
          PROVE  file'[o] = initialVal[o]
      <4>1. out \in configured => WriteFile(out, initialVal[out]) /\ initialVal[out] \in Nat
        BY <2>1, <3>1 DEF RestoreOutput, TypeOK
      <4>2. out \notin configured => UNCHANGED <<file, fileGood>>
        BY <2>1, <3>1 DEF RestoreOutput
      <4>3. o \in configured /\ o < out + 1
        BY <3>1, <3>2 DEF Restored
      <4>4. CASE o = out
        BY <3>2, <4>1, <4>3, <4>4, WriteFileEffect DEF Light
      <4>5. CASE o # out
        <5>1. o \in Restored
          BY <3>1, <4>3, <4>5 DEF Restored, Light, Output
        <5>2. o \in fileGood /\ file'[o] = file[o]
          BY <3>1, <3>2, <4>1, <4>2, <4>5, WriteFileEffect DEF Light
        <5>. QED
          BY <5>1, <5>2 DEF LightsLeftAsFound
      <4>. QED
        BY <4>4, <4>5
    <3>. QED
      BY <3>1, <3>2 DEF LightsLeftAsFound
  <2>2. CASE OutputsRestored
    <3>1. /\ pc = "cleanup" /\ out = Count
          /\ UNCHANGED <<file, fileGood, configured, initialVal>>
      BY <2>2 DEF OutputsRestored
    <3>2. configured \subseteq Restored
      BY <3>1, CtrlOutputsAssumption DEF Restored, TypeOK, Output
    <3>3. Restored' \subseteq configured
      BY <3>1 DEF Restored
    <3>. QED
      BY <3>1, <3>2, <3>3 DEF LightsLeftAsFound
  <2>3. CASE AndroidWrites
    <3>1. PICK o \in Output \ ({vibration} \union Restored), value \in 0 .. MaxFound :
             file' = [file EXCEPT ![o] = value]
      BY <2>3 DEF AndroidWrites
    <3>2. UNCHANGED <<pc, out, configured, fileGood, initialVal>>
      BY <2>3 DEF AndroidWrites
    <3>3. Restored' = Restored
      BY <3>2 DEF Restored
    <3>. QED
      BY <3>1, <3>2, <3>3 DEF LightsLeftAsFound, TypeOK, Light
  <2>4. CASE VibrationEnds
    <3>1. /\ file' = [file EXCEPT ![vibration] = 0]
          /\ UNCHANGED <<pc, out, configured, fileGood, initialVal>>
      BY <2>4 DEF VibrationEnds
    <3>2. Restored' = Restored
      BY <3>1 DEF Restored
    <3>. QED
      BY <3>1, <3>2 DEF LightsLeftAsFound, TypeOK, Light
  <2>5. CASE pc \notin {"cleanup", "cleaned"}
    <3>1. Restored' = {} \/ RestoreOutput \/ OutputsRestored
      <4>1. CASE Check
        <5>1. /\ configured' = configured
              /\ (pc' = "cleanup" /\ out' = 0) \/ pc' = "render"
          BY <4>1 DEF Check
        <5>2. \A o \in configured : ~(o < 0)
          BY CtrlOutputsAssumption DEF TypeOK, Output
        <5>. QED
          BY <5>1, <5>2 DEF Restored
      <4>2. CASE ~Check
        BY <2>5, <4>2 DEF Next, Program, initCtrlOutputs, writeCtrlOutputs, cleanupCtrlOutputs,
           NotConfigured, CannotOpen, Configure, InitDone, RenderSets, ScreenSets, SetOutput,
           RenderDone, SkipOutput, LoadOutput, WriteOutput, OutputsWritten, Stop,
           AndroidWrites, VibrationEnds, vars, Restored
      <4>. QED
        BY <4>1, <4>2
    <3>. QED
      BY <2>1, <2>2, <3>1 DEF LightsLeftAsFound
  <2>6. CASE /\ pc \in {"cleanup", "cleaned"}
             /\ ~RestoreOutput /\ ~OutputsRestored /\ ~AndroidWrites /\ ~VibrationEnds
    <3>1. ScreenSets \/ Stop \/ UNCHANGED vars
      BY <2>6 DEF Next, Program, initCtrlOutputs, writeCtrlOutputs, cleanupCtrlOutputs,
         NotConfigured, CannotOpen, Configure, InitDone, Check, RenderSets, RenderDone,
         SkipOutput, LoadOutput, WriteOutput, OutputsWritten
    <3>2. UNCHANGED <<pc, out, configured, file, fileGood, initialVal>>
      BY <3>1 DEF ScreenSets, SetOutput, Stop, vars
    <3>. QED
      BY <3>2 DEF LightsLeftAsFound, Restored
  <2>. QED
    BY <2>1, <2>2, <2>3, <2>4, <2>5, <2>6
<1>. QED
  BY <1>1, <1>2, TypeCorrect, PTL DEF Spec

-----------------------------------------------------------------------------
(* The vibration                                                            *)

\* Where the loop has still to come to a vibration that was asked for.
Pending ==
  pc \in {"load", "write"} /\ out <= vibration /\ VibrationWanted

\* The strengthening of OnePulsePerRequest.
PulseInv ==
  /\ prevVal[vibration] = 0
  /\ pulses = IF Pending THEN due - 1 ELSE due
  /\ pc = "write" /\ out = vibration => VibrationWanted

(* Whether a vibration is wanted depends on its place in the buffer only.   *)
LEMMA WantedUntouched ==
  ASSUME UNCHANGED configured, ctrlOutBuffer'[vibration] = ctrlOutBuffer[vibration]
  PROVE  VibrationWanted' = VibrationWanted
BY DEF VibrationWanted, Scaled

(* A vibration asked for in a block is asked of the phone exactly once.     *)
THEOREM PulsesCorrect == Spec => []OnePulsePerRequest
<1>. vibration \in Output /\ lcdBacklight \in Output /\ lcdBacklight # vibration
  BY CtrlOutputsAssumption
<1>1. Init => PulseInv
  BY DEF Init, PulseInv, Pending
<1>2. TypeOK /\ PulseInv /\ [Next]_vars => PulseInv'
  <2>. SUFFICES ASSUME TypeOK, PulseInv, [Next]_vars
                PROVE  PulseInv'
    OBVIOUS
  <2>. USE DEF loop, cache, history
  <2>1. CASE initCtrlOutputs \/ Check
    <3>1. /\ pc \notin {"load", "write"} /\ pc' \notin {"load", "write"}
          /\ UNCHANGED <<pulses, due>>
      BY <2>1 DEF initCtrlOutputs, NotConfigured, CannotOpen, Configure, InitDone, Check
    <3>2. prevVal'[vibration] = 0
      BY <2>1 DEF initCtrlOutputs, NotConfigured, CannotOpen, Configure, InitDone, Check,
                  PulseInv, TypeOK
    <3>. QED
      BY <3>1, <3>2 DEF PulseInv, Pending
  <2>2. CASE RenderSets
    BY <2>2 DEF RenderSets, SetOutput, PulseInv, Pending
  <2>3. CASE ScreenSets
    <3>1. /\ UNCHANGED <<pc, out, configured, prevVal, pulses, due>>
          /\ ctrlOutBuffer'[vibration] = ctrlOutBuffer[vibration]
      BY <2>3 DEF ScreenSets, SetOutput, TypeOK
    <3>. QED
      BY <3>1, WantedUntouched DEF PulseInv, Pending
  <2>4. CASE RenderDone
    <3>1. /\ pc' = "load" /\ out' = 0 /\ pc = "render"
          /\ due' = IF VibrationWanted THEN due + 1 ELSE due
          /\ UNCHANGED <<configured, ctrlOutBuffer, prevVal, pulses>>
      BY <2>4 DEF RenderDone
    <3>2. VibrationWanted' = VibrationWanted /\ out' <= vibration
      BY <3>1, WantedUntouched DEF Output
    <3>. QED
      BY <3>1, <3>2 DEF PulseInv, Pending, TypeOK
  <2>5. CASE SkipOutput
    <3>1. /\ pc = "load" /\ pc' = "load" /\ out' = out + 1 /\ out \in Nat
          /\ UNCHANGED <<configured, ctrlOutBuffer, prevVal, pulses, due>>
      BY <2>5 DEF SkipOutput, TypeOK
    <3>2. VibrationWanted' = VibrationWanted
      BY <3>1, WantedUntouched
    <3>3. out = vibration => ~VibrationWanted
      BY <2>5 DEF SkipOutput, VibrationWanted, PulseInv
    <3>4. Pending' <=> Pending
      BY <3>1, <3>2, <3>3 DEF Pending, Output
    <3>. QED
      BY <3>1, <3>2, <3>4 DEF PulseInv
  <2>6. CASE LoadOutput
    <3>1. /\ pc = "load" /\ pc' = "write"
          /\ UNCHANGED <<out, configured, ctrlOutBuffer, prevVal, pulses, due>>
      BY <2>6 DEF LoadOutput
    <3>2. VibrationWanted' = VibrationWanted
      BY <3>1, WantedUntouched
    <3>3. out = vibration => VibrationWanted
      <4>1. Scaled(vibration) \in Nat
        BY ScaledType
      <4>. QED
        BY <2>6, <4>1 DEF LoadOutput, VibrationWanted, PulseInv
    <3>. QED
      BY <3>1, <3>2, <3>3 DEF PulseInv, Pending
  <2>7. CASE WriteOutput
    <3>1. /\ pc = "write" /\ pc' = "load" /\ out' = out + 1 /\ out \in Output
          /\ UNCHANGED <<configured, due>> /\ Remember(out)
          /\ pulses' = IF out = vibration THEN pulses + 1 ELSE pulses
      BY <2>7 DEF WriteOutput, TypeOK
    <3>2. prevVal'[vibration] = 0
      BY <3>1 DEF Remember, PulseInv, TypeOK
    <3>3. CASE out = vibration
      BY <3>1, <3>2, <3>3 DEF PulseInv, Pending, Output, TypeOK
    <3>4. CASE out # vibration
      <4>1. ctrlOutBuffer'[vibration] = ctrlOutBuffer[vibration]
        BY <3>1, <3>4 DEF Remember, TypeOK
      <4>2. VibrationWanted' = VibrationWanted
        BY <3>1, <4>1, WantedUntouched
      <4>3. Pending' <=> Pending
        BY <3>1, <3>4, <4>2 DEF Pending, Output
      <4>. QED
        BY <3>1, <3>2, <3>4, <4>3 DEF PulseInv
    <3>. QED
      BY <3>3, <3>4
  <2>8. CASE OutputsWritten
    <3>1. /\ out = Count /\ pc = "load" /\ pc' = "check"
          /\ UNCHANGED <<prevVal, pulses, due>>
      BY <2>8 DEF OutputsWritten
    <3>2. ~Pending
      BY <3>1, CtrlOutputsAssumption DEF Pending, Output
    <3>. QED
      BY <3>1, <3>2 DEF PulseInv, Pending
  <2>9. CASE cleanupCtrlOutputs
    BY <2>9 DEF cleanupCtrlOutputs, RestoreOutput, OutputsRestored, PulseInv, Pending
  <2>10. CASE Stop \/ AndroidWrites \/ VibrationEnds \/ UNCHANGED vars
    <3>1. UNCHANGED <<pc, out, configured, ctrlOutBuffer, prevVal, pulses, due>>
      BY <2>10 DEF Stop, AndroidWrites, VibrationEnds, vars
    <3>. QED
      BY <3>1, WantedUntouched DEF PulseInv, Pending
  <2>. QED
    BY <2>1, <2>2, <2>3, <2>4, <2>5, <2>6, <2>7, <2>8, <2>9, <2>10
    DEF Next, Program, writeCtrlOutputs
<1>3. TypeOK /\ PulseInv => OnePulsePerRequest
  BY DEF PulseInv, Pending, OnePulsePerRequest, TypeOK
<1>. QED
  BY <1>1, <1>2, <1>3, TypeCorrect, PTL DEF Spec
=============================================================================
