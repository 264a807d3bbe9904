----------------------------- MODULE CpuGovernor -----------------------------
(***************************************************************************)
(* setGovernorMode() and resetGovernorMode(): the program saves the        *)
(* scaling governor of every cpu, sets them all to "performance", and      *)
(* writes the saved ones back when it ends.  The kernel keeps one governor *)
(* per policy and several cpus may share a policy, so a write through one  *)
(* cpu changes others (which is why the code has two loops).               *)
(*                                                                         *)
(* readdir() lists the directories cpu0 .. cpu9 in any order.  The vector  *)
(* governors has one entry per online cpu, the number returned by          *)
(* std::thread::hardware_concurrency(); an offline cpu has a directory but *)
(* no cpufreq.                                                             *)
(***************************************************************************)
EXTENDS Integers, FiniteSets

CONSTANTS
  Cpu,         \* the cpus with a directory
  Governor,    \* names of governors
  Policies,    \* ways to share policies: a set of functions on Cpu
  Onlines      \* sets of cpus that may be online

Performance == "performance"
NotSaved == ""

ASSUME CpuGovernorAssumption ==
  /\ Cpu \subseteq 0 .. 9
  /\ Performance \in Governor
  /\ NotSaved \notin Governor
  /\ \A f \in Policies : DOMAIN f = Cpu
  /\ \A S \in Onlines : S \subseteq Cpu

VARIABLES
  policy,      \* policy[c]: the policy that governs cpu c
  online,      \* the cpus online, which do not change
  found,       \* found[c]: the governor of c when the program starts
  gov,         \* gov[c]: the governor of c
  governors,   \* the saved governors
  entries,     \* directory entries the running loop has still to read
  i,           \* index of resetGovernorMode's loop
  pc

phone == <<policy, online, found>>
vars == <<policy, online, found, gov, governors, entries, i, pc>>

numCpus == Cardinality(online)

TypeOK ==
  /\ policy \in Policies
  /\ online \in Onlines
  /\ found \in [Cpu -> Governor]
  /\ gov \in [Cpu -> Governor]
  /\ governors \in [0 .. numCpus - 1 -> Governor \cup {NotSaved}]
  /\ entries \subseteq Cpu
  /\ i \in -1 .. numCpus - 1
  /\ pc \in {"save", "set", "run", "reset", "done", "undefined"}

Shares(f) == \A c, d \in Cpu : policy[c] = policy[d] => f[c] = f[d]

Init ==
  /\ policy \in Policies
  /\ online \in Onlines
  /\ found \in [Cpu -> Governor]
  /\ Shares(found)
  /\ gov = found
  /\ governors = [n \in 0 .. numCpus - 1 |-> NotSaved]
  /\ entries = Cpu
  /\ i = -1
  /\ pc = "save"

\* The kernel: writing the scaling_governor of c.
Written(c, g) == [d \in Cpu |-> IF policy[d] = policy[c] THEN g ELSE gov[d]]

\* Mutant of SaveGovernor: one loop saves and sets.
SaveAndSetGovernor ==
  /\ pc = "save"
  /\ \E c \in entries :
       /\ entries' = entries \ {c}
       /\ IF c \notin online THEN UNCHANGED <<governors, gov, pc>>
          ELSE IF c < numCpus
          THEN /\ governors' = [governors EXCEPT ![c] = gov[c]]
               /\ gov' = Written(c, Performance)
               /\ UNCHANGED pc
          ELSE pc' = "undefined" /\ UNCHANGED <<governors, gov>>
  /\ UNCHANGED <<phone, i>>

\* The first loop's body for one directory entry.
SaveGovernor ==
  /\ pc = "save"
  /\ \E c \in entries :
       /\ entries' = entries \ {c}
       /\ IF c \notin online THEN UNCHANGED <<governors, pc>>
          ELSE IF c < numCpus
          THEN governors' = [governors EXCEPT ![c] = gov[c]] /\ UNCHANGED pc
          ELSE pc' = "undefined" /\ UNCHANGED governors
  /\ UNCHANGED <<phone, gov, i>>

\* The directory is read again from its start.
SecondLoop ==
  /\ pc = "save"
  /\ entries = {}
  /\ entries' = Cpu
  /\ pc' = "set"
  /\ UNCHANGED <<phone, gov, governors, i>>

\* Mutant of SetGovernor: a cpu whose governor was not saved is skipped by index.
SetGovernorBelow ==
  /\ pc = "set"
  /\ \E c \in entries :
       /\ entries' = entries \ {c}
       /\ gov' = IF c \in online /\ c < numCpus - 1
                 THEN Written(c, Performance) ELSE gov
  /\ UNCHANGED <<phone, governors, i, pc>>

\* The second loop's body for one directory entry.
SetGovernor ==
  /\ pc = "set"
  /\ \E c \in entries :
       /\ entries' = entries \ {c}
       /\ gov' = IF c \in online THEN Written(c, Performance) ELSE gov
  /\ UNCHANGED <<phone, governors, i, pc>>

\* setGovernorMode returns; the program runs with gov until it cleans up.
GovernorsSet ==
  /\ pc = "set"
  /\ entries = {}
  /\ pc' = "run"
  /\ UNCHANGED <<phone, gov, governors, entries, i>>

\* Mutant of StartReset: i starts at governors.size().
StartResetPastEnd ==
  /\ pc = "run"
  /\ pc' = "reset"
  /\ i' = numCpus
  /\ UNCHANGED <<phone, gov, governors, entries>>

\* resetGovernorMode is called; the loop starts at the last entry.
StartReset ==
  /\ pc = "run"
  /\ pc' = "reset"
  /\ i' = numCpus - 1
  /\ UNCHANGED <<phone, gov, governors, entries>>

\* The body of resetGovernorMode's loop, from the last index down.
ResetGovernor ==
  /\ pc = "reset"
  /\ i >= 0
  /\ gov' = IF governors[i] # NotSaved /\ i \in online
            THEN Written(i, governors[i]) ELSE gov
  /\ i' = i - 1
  /\ UNCHANGED <<phone, governors, entries, pc>>

GovernorsReset ==
  /\ pc = "reset"
  /\ i < 0
  /\ pc' = "done"
  /\ UNCHANGED <<phone, gov, governors, entries, i>>

Next ==
  \/ SaveGovernor \/ SecondLoop \/ SetGovernor \/ GovernorsSet
  \/ StartReset \/ ResetGovernor \/ GovernorsReset

Spec == Init /\ [][Next]_vars

-----------------------------------------------------------------------------
(* While the program runs every cpu that is online has the performance      *)
(* governor (what LDSP_initAudio turns setGovernorMode on for).             *)
PerformanceWhileRunning ==
  pc = "run" => \A c \in online : gov[c] = Performance

(* After resetGovernorMode every cpu, the ones offline or sharing a policy  *)
(* included, has the governor it was found with.                            *)
GovernorsRestored == pc = "done" => gov = found

(* The kernel's side of it: a cpu has its own governor or performance, and  *)
(* cpus of one policy never disagree.                                       *)
GovInv == Shares(gov) /\ \A c \in Cpu : gov[c] \in {found[c], Performance}

(* Where the two loops and the reset stand, which is why the above holds:   *)
(* a cpu's entry of governors is its own governor once it has been read,    *)
(* nothing is written before all are read, and the reset has already dealt  *)
(* with the cpus above i.                                                   *)
LoopInv ==
  /\ \A n \in DOMAIN governors : governors[n] \in {NotSaved, found[n]}
  /\ \A c \in online : governors[c] = found[c] \/ (pc = "save" /\ c \in entries)
  /\ \A c \in Cpu : (\A d \in online : policy[d] # policy[c]) => gov[c] = found[c]
  /\ pc = "save" => gov = found
  /\ pc = "set" => \A c \in online \ entries : gov[c] = Performance
  /\ pc = "reset" => \A c \in online : c > i => gov[c] = found[c]

(* "cpuN, where N is an integer between 0 and 9": core/tinyalsaAudio.cpp    *)
(* :1490.  Every N that is listed can be saved, in governors[N].            *)
EveryCpuHasItsEntry == pc # "undefined"

(* "always use governor of first cpu, because in most cases cpu0 controls   *)
(* all cpus": core/tinyalsaAudio.cpp:1567, beside the write of governors[i].*)
FirstGovernorOnly ==
  [][ResetGovernor => gov' \in {gov, Written(i, governors[0])}]_vars

\* The online cpus are the first ones: then every N indexes governors.
FirstCpusOnline == \A S \in Onlines : S = 0 .. Cardinality(S) - 1
=============================================================================
