-------------------------- MODULE AudioEngineProofs --------------------------
(***************************************************************************)
(* Proofs about the two parts of core/tinyalsaAudio.cpp that share no      *)
(* state: CpuGovernor, for any cpus, any governors and any sharing of      *)
(* policies, when the online cpus are the first ones (without that the     *)
(* code indexes its vector out of range); and SampleFormat, for bytes of   *)
(* any size and any set of formats.                                        *)
(***************************************************************************)
EXTENDS CpuGovernor, SampleFormat, FiniteSetTheorems, TLAPS

-----------------------------------------------------------------------------
(* Governors                                                                *)

(* numCpus is a number and the online cpus are the entries of governors.    *)
LEMMA OnlineIndexes ==
  ASSUME FirstCpusOnline, NEW S \in Onlines
  PROVE  /\ Cardinality(S) \in Nat
         /\ S = 0 .. Cardinality(S) - 1
         /\ S \subseteq Cpu
<1>1. S \subseteq Cpu /\ Cpu \subseteq 0 .. 9
  BY CpuGovernorAssumption
<1>2. IsFiniteSet(0 .. 9)
  <2>1. 0 \in Int /\ 9 \in Int
    OBVIOUS
  <2>2. QED
    BY <2>1, FS_Interval, Zenon
<1>3. IsFiniteSet(S)
  BY <1>1, <1>2, FS_Subset
<1>4. QED
  BY <1>1, <1>3, FS_CardinalityType DEF FirstCpusOnline

(* The inductive invariant: what the runs check, and that found agrees      *)
(* within every policy.                                                     *)
IInv ==
  /\ TypeOK
  /\ Shares(found)
  /\ GovInv
  /\ LoopInv
  /\ PerformanceWhileRunning
  /\ GovernorsRestored
  /\ EveryCpuHasItsEntry

(* When main() calls setGovernorMode nothing has been saved or written.     *)
LEMMA IInvInit ==
  ASSUME FirstCpusOnline, Init
  PROVE  IInv
<1>1. /\ numCpus \in Nat
      /\ online = 0 .. numCpus - 1
      /\ online \subseteq Cpu
  BY OnlineIndexes DEF Init, numCpus
<1>2. TypeOK
  BY <1>1 DEF Init, TypeOK
<1>3. GovInv
  BY DEF Init, GovInv, Shares
<1>4. LoopInv
  <2>1. \A n \in DOMAIN governors : governors[n] = NotSaved
    BY DEF Init
  <2>2. QED
    BY <1>1, <2>1 DEF Init, LoopInv
<1>5. QED
  BY <1>2, <1>3, <1>4
     DEF Init, IInv, PerformanceWhileRunning, GovernorsRestored,
         EveryCpuHasItsEntry

(* Writing a governor through a cpu keeps the cpus of a policy in agreement *)
(* and changes the cpus of that policy only.                                *)
LEMMA WrittenShares ==
  ASSUME TypeOK, Shares(gov), NEW c \in Cpu, NEW g \in Governor
  PROVE  /\ Written(c, g) \in [Cpu -> Governor]
         /\ Shares(Written(c, g))
         /\ \A d \in Cpu : Written(c, g)[d] = IF policy[d] = policy[c]
                                              THEN g ELSE gov[d]
BY DEF TypeOK, Shares, Written

(* One turn of the first loop keeps IInv: it saves a governor as found.     *)
LEMMA SaveKeepsIInv ==
  ASSUME FirstCpusOnline, IInv, SaveGovernor
  PROVE  IInv'
<1>1. /\ numCpus \in Nat
      /\ online = 0 .. numCpus - 1
      /\ online \subseteq Cpu
  BY OnlineIndexes DEF IInv, TypeOK, numCpus
<1>2. PICK c \in entries :
        /\ entries' = entries \ {c}
        /\ IF c \notin online THEN UNCHANGED <<governors, pc>>
           ELSE IF c < numCpus
           THEN governors' = [governors EXCEPT ![c] = gov[c]] /\ UNCHANGED pc
           ELSE pc' = "undefined" /\ UNCHANGED governors
  BY DEF SaveGovernor
<1>3. pc = "save" /\ pc' = "save" /\ gov = found
  BY <1>1, <1>2 DEF SaveGovernor, IInv, LoopInv
<1>4. /\ UNCHANGED <<policy, online, found, gov, i, numCpus>>
      /\ c \in Cpu
  BY <1>2 DEF SaveGovernor, phone, numCpus, IInv, TypeOK
<1>5. /\ c \in online => governors' = [governors EXCEPT ![c] = found[c]]
      /\ c \notin online => governors' = governors
  BY <1>1, <1>2, <1>3
<1>6. TypeOK'
  BY <1>1, <1>2, <1>3, <1>4, <1>5 DEF IInv, TypeOK
<1>7. LoopInv'
  <2>1. DOMAIN governors = online /\ DOMAIN governors' = online
    BY <1>1, <1>5 DEF IInv, TypeOK
  <2>2. \A n \in online : governors'[n] = IF n = c THEN found[n] ELSE governors[n]
    BY <1>5, <2>1
  <2>3. QED
    BY <1>2, <1>3, <1>4, <2>1, <2>2 DEF IInv, LoopInv
<1>8. QED
  BY <1>3, <1>4, <1>6, <1>7
     DEF IInv, GovInv, Shares, PerformanceWhileRunning,
         GovernorsRestored, EveryCpuHasItsEntry

(* One turn of the second loop keeps IInv: it writes only performance.      *)
LEMMA SetKeepsIInv ==
  ASSUME FirstCpusOnline, IInv, SetGovernor
  PROVE  IInv'
<1>1. online \subseteq Cpu /\ Performance \in Governor
  BY CpuGovernorAssumption, OnlineIndexes DEF IInv, TypeOK
<1>2. PICK c \in entries :
        /\ entries' = entries \ {c}
        /\ gov' = IF c \in online THEN Written(c, Performance) ELSE gov
  BY DEF SetGovernor
<1>3. /\ pc = "set" /\ pc' = "set" /\ c \in Cpu
      /\ UNCHANGED <<policy, online, found, governors, i, numCpus>>
  BY <1>2 DEF SetGovernor, phone, numCpus, IInv, TypeOK
<1>4. CASE c \notin online
  <2>1. gov' = gov
    BY <1>2, <1>4
  <2>2. QED
    BY <1>2, <1>3, <1>4, <2>1
       DEF IInv, TypeOK, GovInv, Shares, LoopInv,
           PerformanceWhileRunning, GovernorsRestored, EveryCpuHasItsEntry
<1>5. CASE c \in online
  <2>1. /\ gov' \in [Cpu -> Governor]
        /\ Shares(gov')
        /\ \A d \in Cpu : gov'[d] = IF policy[d] = policy[c]
                                    THEN Performance ELSE gov[d]
    BY <1>1, <1>2, <1>3, <1>5, WrittenShares DEF IInv, GovInv
  <2>2. TypeOK'
    BY <1>2, <1>3, <2>1 DEF IInv, TypeOK
  <2>3. GovInv'
    BY <1>3, <2>1 DEF IInv, GovInv, Shares
  <2>4. LoopInv'
    <3>1. \A d \in Cpu : (\A e \in online : policy[e] # policy[d]) => gov'[d] = found[d]
      BY <1>5, <2>1 DEF IInv, LoopInv
    <3>2. \A d \in online \ entries' : gov'[d] = Performance
      BY <1>1, <1>2, <1>3, <2>1 DEF IInv, LoopInv
    <3>3. QED
      BY <1>3, <3>1, <3>2 DEF IInv, LoopInv
  <2>5. QED
    BY <1>3, <2>2, <2>3, <2>4
       DEF IInv, Shares, PerformanceWhileRunning, GovernorsRestored,
           EveryCpuHasItsEntry
<1>6. QED
  BY <1>4, <1>5

(* One turn of the reset keeps IInv: it writes the governor as found.       *)
LEMMA ResetKeepsIInv ==
  ASSUME FirstCpusOnline, IInv, ResetGovernor
  PROVE  IInv'
<1>1. /\ numCpus \in Nat
      /\ online = 0 .. numCpus - 1
      /\ online \subseteq Cpu
  BY OnlineIndexes DEF IInv, TypeOK, numCpus
<1>2. /\ pc = "reset" /\ pc' = "reset" /\ i >= 0 /\ i' = i - 1
      /\ UNCHANGED <<policy, online, found, governors, entries, numCpus>>
  BY DEF ResetGovernor, phone, numCpus
<1>3. i \in online /\ i \in Cpu /\ i \in Int
  BY <1>1, <1>2 DEF IInv, TypeOK
<1>4. governors[i] = found[i] /\ found[i] \in Governor /\ found[i] # NotSaved
  BY <1>2, <1>3, CpuGovernorAssumption DEF IInv, LoopInv, TypeOK
<1>5. gov' = Written(i, found[i])
  BY <1>3, <1>4 DEF ResetGovernor
<1>6. /\ gov' \in [Cpu -> Governor]
      /\ Shares(gov')
      /\ \A d \in Cpu : gov'[d] = IF policy[d] = policy[i] THEN found[i] ELSE gov[d]
  BY <1>3, <1>4, <1>5, WrittenShares DEF IInv, GovInv
<1>7. \A d \in Cpu : gov'[d] = IF policy[d] = policy[i] THEN found[d] ELSE gov[d]
  BY <1>3, <1>6 DEF IInv, Shares
<1>8. TypeOK'
  BY <1>1, <1>2, <1>3, <1>6 DEF IInv, TypeOK
<1>9. GovInv'
  BY <1>2, <1>6, <1>7 DEF IInv, GovInv, Shares
<1>10. LoopInv'
  <2>1. \A d \in online : d > i' => gov'[d] = found[d]
    <3>1. \A d \in online : d > i' => d = i \/ d > i
      BY <1>1, <1>2, <1>3
    <3>2. QED
      BY <1>1, <1>2, <1>7, <3>1 DEF IInv, LoopInv
  <2>2. \A d \in Cpu : (\A e \in online : policy[e] # policy[d]) => gov'[d] = found[d]
    BY <1>7 DEF IInv, LoopInv
  <2>3. QED
    BY <1>2, <2>1, <2>2 DEF IInv, LoopInv
<1>11. QED
  BY <1>2, <1>8, <1>9, <1>10
     DEF IInv, Shares, PerformanceWhileRunning, GovernorsRestored,
         EveryCpuHasItsEntry

(* When the loop has gone below index 0 every online cpu is restored, and   *)
(* with it the cpus of its policy; the others were never written.           *)
LEMMA AllRestored ==
  ASSUME FirstCpusOnline, IInv, pc = "reset", i < 0
  PROVE  gov = found
<1>1. /\ numCpus \in Nat
      /\ online = 0 .. numCpus - 1
      /\ online \subseteq Cpu
  BY OnlineIndexes DEF IInv, TypeOK, numCpus
<1>2. \A d \in online : gov[d] = found[d]
  BY <1>1 DEF IInv, TypeOK, LoopInv
<1>3. ASSUME NEW c \in Cpu
      PROVE  gov[c] = found[c]
  <2>1. CASE \E d \in online : policy[d] = policy[c]
    BY <1>1, <1>2, <2>1 DEF IInv, GovInv, Shares
  <2>2. CASE \A d \in online : policy[d] # policy[c]
    BY <2>2 DEF IInv, LoopInv
  <2>3. QED
    BY <2>1, <2>2
<1>4. QED
  BY <1>3 DEF IInv, TypeOK

(* IInv is inductive, so it holds in every reachable state.                 *)
THEOREM IInvInvariant ==
  ASSUME FirstCpusOnline
  PROVE  Spec => []IInv
<1>1. Init => IInv
  BY IInvInit
<1>2. IInv /\ [Next]_vars => IInv'
  <2>. SUFFICES ASSUME IInv, [Next]_vars
                PROVE  IInv'
    OBVIOUS
  <2>0. /\ numCpus \in Nat
        /\ online = 0 .. numCpus - 1
        /\ online \subseteq Cpu
    BY OnlineIndexes DEF IInv, TypeOK, numCpus
  <2>1. CASE SaveGovernor
    BY <2>1, SaveKeepsIInv
  <2>2. CASE SecondLoop
    BY <2>2, <2>0 DEF SecondLoop, phone, IInv, TypeOK, numCpus, Shares,
       GovInv, LoopInv, PerformanceWhileRunning,
       GovernorsRestored, EveryCpuHasItsEntry
  <2>3. CASE SetGovernor
    BY <2>3, SetKeepsIInv
  <2>4. CASE GovernorsSet
    BY <2>4, <2>0 DEF GovernorsSet, phone, IInv, TypeOK, numCpus, Shares,
       GovInv, LoopInv, PerformanceWhileRunning,
       GovernorsRestored, EveryCpuHasItsEntry
  <2>5. CASE StartReset
    BY <2>5, <2>0 DEF StartReset, phone, IInv, TypeOK, numCpus, Shares,
       GovInv, LoopInv, PerformanceWhileRunning,
       GovernorsRestored, EveryCpuHasItsEntry
  <2>6. CASE ResetGovernor
    BY <2>6, ResetKeepsIInv
  <2>7. CASE GovernorsReset
    <3>1. gov = found
      BY <2>7, AllRestored DEF GovernorsReset
    <3>2. QED
      BY <2>7, <3>1, <2>0 DEF GovernorsReset, phone, IInv, TypeOK, numCpus,
         Shares, GovInv, LoopInv, PerformanceWhileRunning,
         GovernorsRestored, EveryCpuHasItsEntry
  <2>8. CASE UNCHANGED vars
    BY <2>8, <2>0 DEF vars, IInv, TypeOK, numCpus, Shares,
       GovInv, LoopInv, PerformanceWhileRunning,
       GovernorsRestored, EveryCpuHasItsEntry
  <2>9. QED
    BY <2>1, <2>2, <2>3, <2>4, <2>5, <2>6, <2>7, <2>8 DEF Next
<1>3. QED
  BY <1>1, <1>2, PTL DEF Spec

(* The variables keep their types, governors its one entry per online cpu.  *)
THEOREM TypeCorrect ==
  ASSUME FirstCpusOnline
  PROVE  Spec => []TypeOK
<1>1. IInv => TypeOK
  BY DEF IInv
<1>2. QED
  BY <1>1, IInvInvariant, PTL

(* After the reset every cpu has the governor it was found with, however    *)
(* the cpus share policies and in whatever order the directory is read.     *)
THEOREM RestoredCorrect ==
  ASSUME FirstCpusOnline
  PROVE  Spec => []GovernorsRestored
<1>1. IInv => GovernorsRestored
  BY DEF IInv
<1>2. QED
  BY <1>1, IInvInvariant, PTL

(* Every online cpu runs under performance while the program runs, and the  *)
(* code never indexes governors outside its size.                           *)
THEOREM PerformanceCorrect ==
  ASSUME FirstCpusOnline
  PROVE  Spec => [](PerformanceWhileRunning /\ EveryCpuHasItsEntry)
<1>1. IInv => PerformanceWhileRunning /\ EveryCpuHasItsEntry
  BY DEF IInv
<1>2. QED
  BY <1>1, IInvInvariant, PTL

-----------------------------------------------------------------------------
(* Samples: quotients and remainders                                        *)

(* A product grows with its second factor.                                  *)
LEMMA TimesGrows ==
  ASSUME NEW w \in Nat, NEW a \in Int, NEW b \in Int, a <= b
  PROVE  w * a <= w * b
<1>1. w * (b - a) >= 0
  OBVIOUS
<1>2. w * (b - a) = w * b - w * a
  OBVIOUS
<1>3. w * a \in Int /\ w * b \in Int
  OBVIOUS
<1>4. QED
  BY <1>1, <1>2, <1>3

(* Quotient and remainder are what the division makes of a number.          *)
LEMMA Division ==
  ASSUME NEW v \in Int, NEW b \in Nat, b > 0
  PROVE  /\ v \div b \in Int /\ v % b \in 0 .. b - 1
         /\ v = b * (v \div b) + (v % b)
OBVIOUS

(* ... and no other two numbers are.                                        *)
LEMMA OneQuotient ==
  ASSUME NEW b \in Nat, b > 0,
         NEW p \in Int, NEW r \in 0 .. b - 1,
         NEW q \in Int, NEW s \in 0 .. b - 1,
         b * p + r = b * q + s
  PROVE  p = q /\ r = s
<1>1. b * p \in Int /\ b * q \in Int
  OBVIOUS
<1>2. ~(p < q)
  <2>1. SUFFICES ASSUME p + 1 <= q PROVE FALSE
    OBVIOUS
  <2>2. b * (p + 1) <= b * q
    BY <2>1, TimesGrows
  <2>3. b * (p + 1) = b * p + b
    OBVIOUS
  <2>4. QED
    BY <1>1, <2>2, <2>3
<1>3. ~(q < p)
  <2>1. SUFFICES ASSUME q + 1 <= p PROVE FALSE
    OBVIOUS
  <2>2. b * (q + 1) <= b * p
    BY <2>1, TimesGrows
  <2>3. b * (q + 1) = b * q + b
    OBVIOUS
  <2>4. QED
    BY <1>1, <2>2, <2>3
<1>4. p = q
  BY <1>2, <1>3
<1>5. QED
  BY <1>1, <1>4

(* The remainder by a larger power is the smaller one's and one byte more.  *)
LEMMA NextRemainder ==
  ASSUME NEW v \in Int, NEW w \in Nat, w > 0, NEW b \in Nat, b > 0
  PROVE  v % (b * w) = (v % w) + ((v \div w) % b) * w
<1>1. PICK q \in Int, r \in 0 .. w - 1 : q = v \div w /\ r = v % w
  BY Division
<1>2. PICK p \in Int, d \in 0 .. b - 1 : p = q \div b /\ d = q % b
  BY Division
<1>3. v = w * q + r /\ q = b * p + d
  BY <1>1, <1>2, Division
<1>4. PICK m \in Nat : m = b * w
  OBVIOUS
<1>5. m > 0
  <2>1. w * 1 <= w * b
    BY TimesGrows
  <2>2. QED
    BY <1>4, <2>1
<1>6. v = m * p + (r + d * w)
  <2>1. w * (b * p + d) = (b * w) * p + d * w
    OBVIOUS
  <2>2. QED
    BY <1>3, <1>4, <2>1
<1>7. r + d * w \in 0 .. m - 1
  <2>1. w * d <= w * (b - 1) /\ w * 0 <= w * d
    BY TimesGrows
  <2>2. w * (b - 1) = b * w - w /\ w * d = d * w /\ w * 0 = 0 /\ d * w \in Int
    OBVIOUS
  <2>3. QED
    BY <1>4, <2>1, <2>2
<1>8. PICK p2 \in Int, r2 \in 0 .. m - 1 : r2 = v % m /\ v = m * p2 + r2
  BY <1>5, Division
<1>9. PICK r3 \in 0 .. m - 1 : r3 = r + d * w
  BY <1>7
<1>10. m * p + r3 = m * p2 + r2
  BY <1>6, <1>8, <1>9
<1>11. r2 = r3
  BY <1>5, <1>10, OneQuotient
<1>12. QED
  BY <1>1, <1>2, <1>4, <1>8, <1>9, <1>11

(* What a byte is worth, and that a byte has at least two values.           *)
LEMMA Weights ==
  /\ Weight(0) = 1
  /\ \A n \in 0 .. 4 : Weight(n) \in Nat /\ Weight(n) > 0
  /\ \A n \in 0 .. 3 : Weight(n + 1) = Base * Weight(n)
  /\ \A n \in 0 .. 3 : 2 * Weight(n) <= Weight(n + 1)
<1> USE SampleFormatAssumption
<1>1. Weight(0) = 1 /\ Weight(1) = Base /\ Weight(2) = Base * Base
      /\ Weight(3) = Base * (Base * Base) /\ Weight(4) = Base * (Base * (Base * Base))
  BY DEF Weight
<1>2. \A w \in Nat : w > 0 =>
        Base * w \in Nat /\ Base * w > 0 /\ 2 * w <= Base * w
  <2>1. TAKE w \in Nat
  <2>2. HAVE w > 0
  <2>3. w * 2 <= w * Base
    BY TimesGrows
  <2>4. w * 2 = 2 * w /\ w * Base = Base * w /\ Base * w \in Nat
    OBVIOUS
  <2>5. QED
    BY <2>2, <2>3, <2>4
<1>3. Weight(1) = Base * Weight(0) /\ Weight(2) = Base * Weight(1)
      /\ Weight(3) = Base * Weight(2) /\ Weight(4) = Base * Weight(3)
  BY <1>1
<1>4. Weight(0) \in Nat /\ Weight(0) > 0
  BY <1>1
<1>5. Weight(1) \in Nat /\ Weight(1) > 0 /\ 2 * Weight(0) <= Weight(1)
  BY <1>2, <1>3, <1>4
<1>6. Weight(2) \in Nat /\ Weight(2) > 0 /\ 2 * Weight(1) <= Weight(2)
  BY <1>2, <1>3, <1>5
<1>7. Weight(3) \in Nat /\ Weight(3) > 0 /\ 2 * Weight(2) <= Weight(3)
  BY <1>2, <1>3, <1>6
<1>8. Weight(4) \in Nat /\ Weight(4) > 0 /\ 2 * Weight(3) <= Weight(4)
  BY <1>2, <1>3, <1>7
<1>9. \A n \in 0 .. 4 : Weight(n) \in Nat /\ Weight(n) > 0
  <2>1. TAKE n \in 0 .. 4
  <2>2. n = 0 \/ n = 1 \/ n = 2 \/ n = 3 \/ n = 4
    OBVIOUS
  <2>3. QED
    BY <2>2, <1>4, <1>5, <1>6, <1>7, <1>8
<1>10. \A n \in 0 .. 3 : Weight(n + 1) = Base * Weight(n) /\ 2 * Weight(n) <= Weight(n + 1)
  <2>1. TAKE n \in 0 .. 3
  <2>2. n = 0 \/ n = 1 \/ n = 2 \/ n = 3
    OBVIOUS
  <2>3. 0 + 1 = 1 /\ 1 + 1 = 2 /\ 2 + 1 = 3 /\ 3 + 1 = 4
    OBVIOUS
  <2>4. QED
    BY <2>2, <2>3, <1>3, <1>5, <1>6, <1>7, <1>8
<1>11. QED
  BY <1>1, <1>9, <1>10

LEMMA WeightsGrow ==
  ASSUME NEW m \in 0 .. 4, NEW n \in 0 .. 4, m <= n
  PROVE  Weight(m) <= Weight(n)
<1>1. /\ Weight(0) \in Nat /\ Weight(1) \in Nat /\ Weight(2) \in Nat
      /\ Weight(3) \in Nat /\ Weight(4) \in Nat
  BY Weights
<1>2. /\ 2 * Weight(0) <= Weight(0 + 1) /\ 2 * Weight(1) <= Weight(1 + 1)
      /\ 2 * Weight(2) <= Weight(2 + 1) /\ 2 * Weight(3) <= Weight(3 + 1)
  BY Weights
<1>3. 0 + 1 = 1 /\ 1 + 1 = 2 /\ 2 + 1 = 3 /\ 3 + 1 = 4
  OBVIOUS
<1>4. /\ Weight(0) <= Weight(1) /\ Weight(1) <= Weight(2)
      /\ Weight(2) <= Weight(3) /\ Weight(3) <= Weight(4)
  BY <1>1, <1>2, <1>3
<1>5. (m = 0 \/ m = 1 \/ m = 2 \/ m = 3 \/ m = 4) /\ (n = 0 \/ n = 1 \/ n = 2 \/ n = 3 \/ n = 4)
  OBVIOUS
<1>6. QED
  BY <1>1, <1>4, <1>5

(* A number below the divisor is its own remainder, one less than zero by   *)
(* at most the divisor is one division away.                                *)
LEMMA OwnRemainder ==
  ASSUME NEW b \in Nat, b > 0, NEW v \in -b .. b - 1
  PROVE  v % b = IF v >= 0 THEN v ELSE v + b
<1>1. PICK q \in Int, r \in 0 .. b - 1 : r = v % b /\ v = b * q + r
  <2>1. v \in Int
    OBVIOUS
  <2>2. v \div b \in Int /\ v % b \in 0 .. b - 1 /\ v = b * (v \div b) + (v % b)
    BY <2>1, Division
  <2>3. QED
    BY <2>2
<1>2. CASE v >= 0
  <2>1. b * 0 + v = b * q + r /\ v \in 0 .. b - 1
    BY <1>1, <1>2
  <2>2. v = r
    BY <2>1, OneQuotient
  <2>3. QED
    BY <1>1, <1>2, <2>2
<1>3. CASE v < 0
  <2>1. v + b \in 0 .. b - 1
    BY <1>3
  <2>2. PICK s \in 0 .. b - 1 : s = v + b
    BY <2>1
  <2>3. b * (-1) + s = b * q + r
    BY <1>1, <2>2
  <2>4. s = r
    BY <2>3, OneQuotient
  <2>5. QED
    BY <1>1, <1>3, <2>2, <2>4
<1>4. QED
  BY <1>2, <1>3

-----------------------------------------------------------------------------
(* The formats                                                              *)

(* Both sizes are those of an int at most.                                  *)
LEMMA BytesPerSample ==
  ASSUME format \in Format
  PROVE  bps \in 1 .. 4 /\ physBps \in 1 .. 4
BY SampleFormatAssumption DEF bps, physBps

(* The values of a format lie on both sides of 0 and fill its bytes.        *)
LEMMA ValueRange ==
  ASSUME format \in Format
  PROVE  /\ Weight(bps) \in Nat /\ Weight(bps) > 0
         /\ maxVal \in Nat /\ minVal \in Int
         /\ minVal = -maxVal - 1
         /\ 2 * maxVal + 2 <= Weight(bps) /\ Weight(bps) <= 2 * maxVal + 3
         /\ bps = 4 => maxVal = (IntRange \div 2) - 1 /\ Weight(bps) = IntRange
<1>1. bps \in 1 .. 4
  BY BytesPerSample
<1>2. Weight(bps) \in Nat /\ Weight(bps) > 0
  BY <1>1, Weights
<1>3. Weight(bps) >= 2
  <2>1. bps - 1 \in 0 .. 3 /\ bps - 1 \in 0 .. 4 /\ (bps - 1) + 1 = bps
    BY <1>1
  <2>2. Weight(bps - 1) \in Nat /\ Weight(bps - 1) > 0
    BY <2>1, Weights
  <2>3. 2 * Weight(bps - 1) <= Weight(bps)
    BY <2>1, Weights
  <2>4. QED
    BY <1>2, <2>2, <2>3
<1>4. PICK w \in Nat : w = Weight(bps)
  BY <1>2
<1>5. maxVal = (w \div 2) - 1 /\ minVal = -(maxVal + 1)
  BY <1>4 DEF maxVal, minVal
<1>6. bps = 4 => Weight(bps) = IntRange
  BY DEF IntRange
<1>7. QED
  BY <1>2, <1>3, <1>4, <1>5, <1>6

(* A remainder of three bytes is not changed by being put into an int, and  *)
(* of four it becomes the int it is the remainder of.                       *)
LEMMA IntOfRemainder ==
  /\ IntRange \in Nat /\ IntRange > 0
  /\ \A x \in 0 .. Weight(3) - 1 : Int32(x) = x
  /\ \A x \in -(IntRange \div 2) .. (IntRange \div 2) - 1 : Int32(x % IntRange) = x
<1>1. /\ IntRange \in Nat /\ IntRange > 0
      /\ Weight(3) \in Nat /\ 2 * Weight(3) <= IntRange
  BY Weights DEF IntRange
<1>2. PICK m \in Nat : m = IntRange
  BY <1>1
<1>3. PICK h \in Nat : h = m \div 2 /\ 2 * h <= m /\ m <= 2 * h + 1
  BY <1>2
<1>4. \A x \in 0 .. m - 1 : Int32(x) = IF x >= h THEN x - m ELSE x
  <2>1. TAKE x \in 0 .. m - 1
  <2>2. x % m = x
    <3>1. x \in -m .. m - 1 /\ m > 0 /\ x >= 0
      BY <1>1, <1>2
    <3>2. QED
      BY <3>1, OwnRemainder
  <2>3. QED
    BY <1>2, <1>3, <2>2 DEF Int32
<1>5. \A x \in 0 .. Weight(3) - 1 : Int32(x) = x
  BY <1>1, <1>2, <1>3, <1>4
<1>6. ASSUME NEW x \in -h .. h - 1
      PROVE  Int32(x % m) = x
  <2>1. x \in -m .. m - 1 /\ m > 0
    BY <1>1, <1>2, <1>3
  <2>2. x % m = IF x >= 0 THEN x ELSE x + m
    BY <2>1, OwnRemainder
  <2>3. PICK y \in 0 .. m - 1 : y = x % m
    BY <2>1, Division
  <2>4. Int32(y) = IF y >= h THEN y - m ELSE y
    BY <1>4
  <2>5. QED
    BY <1>3, <2>2, <2>3, <2>4
<1>7. QED
  BY <1>1, <1>2, <1>3, <1>5, <1>6

(* Whatever is put into an int is an int; so is a masked one.               *)
LEMMA IntsAreInts ==
  /\ IntRange \div 2 \in Nat /\ 2 * (IntRange \div 2) = IntRange
  /\ \A x \in Int : Int32(x) \in -(IntRange \div 2) .. (IntRange \div 2) - 1
<1>1. /\ IntRange \in Nat /\ IntRange > 0 /\ Weight(3) \in Nat
      /\ IntRange = Base * Weight(3) /\ Base \in Nat
  <2>1. 3 \in 0 .. 3 /\ 3 + 1 = 4
    OBVIOUS
  <2>2. QED
    BY <2>1, Weights, IntOfRemainder, SampleFormatAssumption DEF IntRange
<1>2. PICK b \in Nat : Base = 2 * b
  <2>1. Base \in Nat /\ Base % 2 = 0
    BY SampleFormatAssumption
  <2>2. Base = 2 * (Base \div 2) /\ Base \div 2 \in Nat
    BY <2>1
  <2>3. QED
    BY <2>2
<1>3. PICK w \in Nat : w = Weight(3)
  BY <1>1
<1>4. PICK h \in Nat : h = b * w
  <2>1. b * w \in Nat
    OBVIOUS
  <2>2. QED
    BY <2>1
<1>5. IntRange = 2 * h
  <2>1. (2 * b) * w = 2 * (b * w)
    OBVIOUS
  <2>2. QED
    BY <1>1, <1>2, <1>3, <1>4, <2>1
<1>6. IntRange \div 2 = h
  BY <1>5
<1>7. ASSUME NEW x \in Int
      PROVE  Int32(x) \in -h .. h - 1
  <2>1. PICK low \in 0 .. IntRange - 1 : low = x % IntRange
    BY <1>1, Division
  <2>2. Int32(x) = IF low >= h THEN low - IntRange ELSE low
    BY <1>6, <2>1 DEF Int32
  <2>3. QED
    BY <1>5, <2>1, <2>2
<1>8. QED
  BY <1>5, <1>6, <1>7

LEMMA MaskedIsInt ==
  ASSUME format \in Format, NEW v \in -(IntRange \div 2) .. (IntRange \div 2) - 1
  PROVE  Masked(v) \in -(IntRange \div 2) .. (IntRange \div 2) - 1
<1>1. PICK h \in Nat : h = IntRange \div 2 /\ IntRange = 2 * h
  BY IntsAreInts
<1>2. CASE bps < 4
  <2>1. PICK w \in Nat : w = Weight(bps) /\ w > 0 /\ 2 * w <= IntRange
    <3>1. bps \in 0 .. 4 /\ bps <= 3 /\ 3 \in 0 .. 4 /\ 3 \in 0 .. 3 /\ 3 + 1 = 4
      BY <1>2, BytesPerSample
    <3>2. Weight(bps) <= Weight(3)
      BY <3>1, WeightsGrow
    <3>3. Weight(bps) \in Nat /\ Weight(bps) > 0
      BY <3>1, Weights
    <3>4. Weight(3) \in Nat /\ 2 * Weight(3) <= IntRange
      BY <3>1, Weights DEF IntRange
    <3>5. QED
      BY <1>1, <3>2, <3>3, <3>4
  <2>2. PICK x \in 0 .. w - 1 : x = v % w
    BY <1>1, <2>1, Division
  <2>3. Masked(v) = x - w
    BY <1>2, <2>1, <2>2 DEF Masked
  <2>4. QED
    BY <1>1, <2>1, <2>2, <2>3
<1>3. CASE ~(bps < 4)
  BY <1>3 DEF Masked
<1>4. QED
  BY <1>2, <1>3

(* When the sizes agree every byte of every sample has a place in the       *)
(* buffer, and no two bytes have the same; the code that reads it looks     *)
(* there, with NEON or without.                                             *)
LEMMA PlacesApart ==
  ASSUME format \in Format, SizesAgree, NEW j \in Lane, NEW m \in 0 .. bps - 1
  PROVE  /\ SplitPlace(j, m) \in 0 .. 4 * physBps - 1
         /\ CombinePlace(j, m) = SplitPlace(j, m)
         /\ \A k \in Lane, n \in 0 .. bps - 1 :
              SplitPlace(j, m) = SplitPlace(k, n) => j = k /\ m = n
<1>1. PICK b \in 1 .. 4 : b = bps /\ b = physBps
  BY BytesPerSample DEF SizesAgree
<1>2. (b = 1 \/ b = 2 \/ b = 3 \/ b = 4) /\ m \in 0 .. b - 1 /\ j \in 0 .. 3
  BY <1>1 DEF Lane
<1>3. CombinePlace(j, m) = SplitPlace(j, m)
  BY <1>1, <1>2 DEF CombinePlace, SplitPlace
<1>4. SplitPlace(j, m) \in 0 .. 4 * physBps - 1
  BY <1>1, <1>2 DEF SplitPlace
<1>5. ASSUME NEW k \in Lane, NEW n \in 0 .. bps - 1,
             SplitPlace(j, m) = SplitPlace(k, n)
      PROVE  j = k /\ m = n
  <2>1. n \in 0 .. b - 1 /\ k \in 0 .. 3
    BY <1>1 DEF Lane
  <2>2. \/ (b - 1 + j * b) - m = (b - 1 + k * b) - n
        \/ j * b + m = k * b + n
    BY <1>1, <1>2, <1>5, <2>1 DEF SplitPlace
  <2>3. QED
    BY <1>2, <2>1, <2>2
<1>6. QED
  BY <1>3, <1>4, <1>5

-----------------------------------------------------------------------------
(* The conversions                                                          *)

(* What a scaled sample is converted to lies in the format, and is the      *)
(* clipped sample wherever the conversion is defined.                       *)
LEMMA ConvertedFits ==
  ASSUME format \in Format, NEW halves \in Int, NEW v \in Converted(halves)
  PROVE  /\ v \in minVal .. maxVal
         /\ ~Undefined(halves) => v = Clipped(halves)
<1>1. maxVal \in Nat /\ minVal \in Int /\ minVal = -maxVal - 1
  BY ValueRange
<1>2. PICK t \in Int : t = Truncated(halves)
  BY DEF Truncated
<1>3. /\ halves >= 0 => 2 * t <= halves /\ halves <= 2 * t + 1
      /\ halves < 0 => 2 * t >= halves /\ halves >= 2 * t - 1
  BY <1>2 DEF Truncated
<1>4. PICK f \in Nat : f = maxValFloat /\ (f = maxVal \/ f = maxVal + 1)
  BY <1>1 DEF maxValFloat
<1>5. \/ halves > 2 * f /\ v = maxVal
      \/ halves <= 2 * f /\ halves < 2 * minVal /\ v = minVal
      \/ halves <= 2 * f /\ ~(halves < 2 * minVal) /\ t <= maxVal /\ v = t
      \/ halves <= 2 * f /\ t > maxVal /\ (IF neon THEN v = maxVal ELSE v = maxVal \/ v = minVal)
  BY <1>1, <1>2, <1>4 DEF Converted
<1>6. v \in minVal .. maxVal
  BY <1>1, <1>3, <1>4, <1>5
<1>7. ASSUME ~Undefined(halves)
      PROVE  v = Clipped(halves)
  <2>1. neon \/ ~(t > maxVal) \/ ~(halves <= 2 * f)
    BY <1>2, <1>4, <1>7 DEF Undefined
  <2>2. \/ v = t
        \/ t > maxVal /\ v = maxVal
        \/ t < minVal /\ v = minVal
    BY <1>1, <1>3, <1>4, <1>5, <2>1
  <2>3. \A u \in minVal .. maxVal :
          (\/ u = t
           \/ t > maxVal /\ u = maxVal
           \/ t < minVal /\ u = minVal) => u = v
    BY <1>1, <1>6, <2>2
  <2>4. QED
    BY <1>2, <1>6, <2>2, <2>3 DEF Clipped
<1>8. QED
  BY <1>6, <1>7

(* Putting a byte on top of the remainder gives the next remainder.         *)
LEMMA ByteOnTop ==
  ASSUME format \in Format, NEW v \in Int, NEW n \in 0 .. bps - 1
  PROVE  Int32(Int32(v % Weight(n)) + ByteOf(v, n) * Weight(n)) = Int32(v % Weight(n + 1))
<1>1. n \in 0 .. 3 /\ n \in 0 .. 4
  BY BytesPerSample
<1>2. PICK w \in Nat : w = Weight(n) /\ w > 0 /\ w <= Weight(3)
  <2>1. Weight(n) \in Nat /\ Weight(n) > 0
    BY <1>1, Weights
  <2>2. Weight(n) <= Weight(3)
    BY <1>1, WeightsGrow
  <2>3. QED
    BY <2>1, <2>2
<1>3. Weight(n + 1) = Base * w /\ Base \in Nat /\ Base > 0
  BY <1>1, <1>2, Weights, SampleFormatAssumption
<1>4. v % w \in 0 .. w - 1
  BY <1>2, Division
<1>5. Int32(v % w) = v % w
  <2>1. Weight(3) \in Nat
    BY Weights
  <2>2. v % w \in 0 .. Weight(3) - 1
    BY <1>2, <1>4, <2>1
  <2>3. QED
    BY <2>2, IntOfRemainder
<1>6. v % (Base * w) = (v % w) + ((v \div w) % Base) * w
  BY <1>2, <1>3, NextRemainder
<1>7. QED
  BY <1>2, <1>3, <1>5, <1>6 DEF ByteOf

(* Extending the sign gives back a value of the format from its remainder.  *)
LEMMA SignExtended ==
  ASSUME format \in Format, NEW v \in minVal .. maxVal, NEW c,
         c = Int32(v % Weight(bps))
  PROVE  (IF Negative(c) THEN Masked(c) ELSE c) = v
<1>1. /\ bps \in 1 .. 4
      /\ maxVal \in Nat /\ minVal \in Int /\ minVal = -maxVal - 1
      /\ Weight(bps) \in Nat /\ Weight(bps) > 0
      /\ 2 * maxVal + 2 <= Weight(bps)
      /\ v \in Int
  BY BytesPerSample, ValueRange
<1>2. CASE bps = 4
  <2>1. maxVal = (IntRange \div 2) - 1 /\ Weight(bps) = IntRange
    BY <1>2, ValueRange
  <2>2. IntRange \div 2 \in Int
    BY IntOfRemainder
  <2>3. PICK h \in Int : h = IntRange \div 2
    BY <2>2
  <2>4. v \in -h .. h - 1
    BY <1>1, <2>1, <2>3
  <2>5. Int32(v % IntRange) = v
    BY <2>3, <2>4, IntOfRemainder
  <2>6. QED
    BY <1>2, <2>1, <2>5 DEF Masked
<1>3. CASE bps < 4
  <2>1. PICK w \in Nat : w = Weight(bps) /\ w > 0 /\ 2 * maxVal + 2 <= w
    BY <1>1
  <2>2. w <= Weight(3) /\ Weight(3) \in Nat /\ 2 * Weight(3) <= IntRange
    <3>1. bps \in 0 .. 4 /\ bps <= 3 /\ 3 + 1 = 4
      BY <1>1, <1>3
    <3>2. Weight(bps) <= Weight(3)
      BY <3>1, WeightsGrow
    <3>3. Weight(3) \in Nat /\ 2 * Weight(3) <= Weight(3 + 1)
      BY Weights
    <3>4. QED
      BY <2>1, <3>1, <3>2, <3>3 DEF IntRange
  <2>3. v \in -w .. w - 1
    BY <1>1, <2>1
  <2>4. v % w = IF v >= 0 THEN v ELSE v + w
    BY <2>1, <2>3, OwnRemainder
  <2>5. PICK x \in 0 .. w - 1 : x = v % w
    BY <2>1, <2>3, Division
  <2>6. c = x
    <3>1. x \in 0 .. Weight(3) - 1
      BY <2>2, <2>5
    <3>2. Int32(x) = x
      BY <3>1, IntOfRemainder
    <3>3. QED
      BY <2>1, <2>5, <3>2
  <2>7. x % IntRange = x
    <3>1. IntRange \in Nat /\ IntRange > 0
      BY IntOfRemainder
    <3>2. x \in -IntRange .. IntRange - 1 /\ x >= 0
      BY <2>2, <2>5, <3>1
    <3>3. QED
      BY <3>1, <3>2, OwnRemainder
  <2>8. Negative(c) <=> x > maxVal
    <3>1. CASE neon
      BY <2>6, <2>7, <3>1 DEF Negative
    <3>2. CASE ~neon
      BY <2>6, <3>2 DEF Negative
    <3>3. QED
      BY <3>1, <3>2
  <2>9. IF x > maxVal THEN x - w = v ELSE x = v
    BY <1>1, <2>1, <2>4, <2>5
  <2>10. Masked(c) = x - w
    <3>1. x \in -w .. w - 1 /\ x >= 0
      BY <2>1, <2>5
    <3>2. x % w = x
      BY <2>1, <3>1, OwnRemainder
    <3>3. QED
      BY <1>3, <2>1, <2>6, <3>2 DEF Masked
  <2>11. QED
    BY <2>6, <2>8, <2>9, <2>10
<1>4. QED
  BY <1>1, <1>2, <1>3

-----------------------------------------------------------------------------
(* The inductive invariant: the types and sizes, whatever the library says  *)
(* of the formats, and what is where on the way when the two sizes agree.   *)
BytesIInv == SampleTypeOK /\ SizesInv /\ BytesInv

LEMMA BytesInit == SampleInit => BytesIInv
<1> SUFFICES ASSUME SampleInit PROVE BytesIInv
  OBVIOUS
<1>1. format \in Format /\ neon \in Neon
  BY DEF SampleInit
<1>2. /\ bps \in 1 .. 4 /\ physBps \in 1 .. 4
      /\ maxVal \in Nat /\ minVal \in Int /\ minVal = -maxVal - 1
      /\ Base \in Nat /\ Base >= 2
  BY <1>1, BytesPerSample, ValueRange, SampleFormatAssumption
<1>3. scaled \in [Lane -> Int]
  <2>1. PICK k \in Lane, one \in 2 * minVal - 4 .. 2 * maxVal + 4, other \in Others :
          scaled = [j \in Lane |-> IF j = k THEN one ELSE other]
    BY DEF SampleInit
  <2>2. one \in Int /\ other \in Int
    BY <1>2, SampleFormatAssumption
  <2>3. QED
    BY <2>1, <2>2
<1>4. value \in [Lane -> minVal .. maxVal]
  BY <1>2 DEF SampleInit
<1>5. rawBuffer \in [0 .. 4 * physBps - 1 -> 0 .. Base - 1]
  BY <1>2 DEF SampleInit
<1>6. captured \in [Lane -> -(IntRange \div 2) .. (IntRange \div 2) - 1]
  <2>1. IntRange \div 2 \in Nat /\ 2 * (IntRange \div 2) = IntRange /\ IntRange > 0
    BY IntsAreInts, IntOfRemainder
  <2>2. 0 \in -(IntRange \div 2) .. (IntRange \div 2) - 1
    BY <2>1
  <2>3. QED
    BY <2>2 DEF SampleInit
<1>7. SampleTypeOK
  BY <1>1, <1>3, <1>4, <1>5, <1>6 DEF SampleInit, SampleTypeOK
<1>8. SizesInv /\ OnTheWay
  BY DEF SampleInit, SizesInv, OnTheWay
<1>9. QED
  BY <1>7, <1>8 DEF BytesIInv, BytesInv

(* The format is chosen once: its sizes are not changed by a step.          *)
LEMMA SameFormat ==
  ASSUME UNCHANGED <<format, neon>>
  PROVE  /\ bps' = bps /\ physBps' = physBps /\ maxVal' = maxVal /\ minVal' = minVal
         /\ ReadBytes' = ReadBytes /\ SizesAgree' = SizesAgree
         /\ \A k, m : SplitPlace(k, m)' = SplitPlace(k, m)
         /\ \A k, m : ByteOf(k, m)' = ByteOf(k, m)
         /\ \A h : Converted(h)' = Converted(h)
         /\ \A v : Int32(v)' = Int32(v)
         /\ \A n : Weight(n)' = Weight(n)
         /\ IntRange' = IntRange
<1>1. /\ bps' = bps /\ physBps' = physBps
      /\ ReadBytes' = ReadBytes /\ SizesAgree' = SizesAgree
  BY DEF bps, physBps, ReadBytes, SizesAgree
<1>2. \A n : Weight(n)' = Weight(n)
  BY DEF Weight
<1>3. maxVal' = maxVal
  BY <1>1 DEF maxVal, Weight
<1>4. minVal' = minVal /\ maxValFloat' = maxValFloat
  BY <1>3 DEF minVal, maxValFloat, FloatExact, Weight
<1>5. \A h : Truncated(h)' = Truncated(h)
  BY DEF Truncated
<1>6. \A h : Converted(h)' = Converted(h)
  BY <1>3, <1>4, <1>5 DEF Converted
<1>7. \A k, m : SplitPlace(k, m)' = SplitPlace(k, m)
  BY <1>1 DEF SplitPlace
<1>8. \A k, m : ByteOf(k, m)' = ByteOf(k, m)
  BY DEF ByteOf, Weight
<1>9. \A v : Int32(v)' = Int32(v)
  BY DEF Int32, IntRange, Weight
<1>10. IntRange' = IntRange
  BY DEF IntRange, Weight
<1>11. QED
  BY <1>1, <1>2, <1>3, <1>4, <1>6, <1>7, <1>8, <1>9, <1>10

-----------------------------------------------------------------------------
(* Types and sizes                                                          *)

(* The byte of an int is a byte.                                            *)
LEMMA ByteOfIsByte ==
  ASSUME NEW v \in Int, NEW n \in 0 .. 4
  PROVE  ByteOf(v, n) \in 0 .. Base - 1
<1>1. Base \in Nat /\ Base > 0 /\ Weight(n) \in Nat /\ Weight(n) > 0
  BY Weights, SampleFormatAssumption
<1>2. v \div Weight(n) \in Int
  BY <1>1, Division
<1>3. QED
  BY <1>1, <1>2, Division DEF ByteOf

(* When more bytes are written than there is room for, the last one of the  *)
(* first or of the fourth sample falls outside.                             *)
LEMMA NoRoom ==
  ASSUME SampleTypeOK, bps > physBps, byte = bps - 1
  PROVE  ~InBuffer
<1>1. /\ bps \in 1 .. 4 /\ physBps \in 1 .. 4 /\ 0 \in Lane /\ 3 \in Lane
      /\ DOMAIN rawBuffer = 0 .. 4 * physBps - 1
  BY BytesPerSample DEF SampleTypeOK, Lane
<1>2. CASE format \in BigEndian
  <2>1. SplitPlace(0, byte) = physBps - bps
    BY <1>1, <1>2 DEF SplitPlace
  <2>2. SplitPlace(0, byte) \notin DOMAIN rawBuffer
    BY <1>1, <2>1
  <2>3. QED
    BY <1>1, <2>2 DEF InBuffer
<1>3. CASE format \notin BigEndian
  <2>1. SplitPlace(3, byte) = 4 * bps - 1
    BY <1>1, <1>3 DEF SplitPlace
  <2>2. SplitPlace(3, byte) \notin DOMAIN rawBuffer
    BY <1>1, <2>1
  <2>3. QED
    BY <1>1, <2>2 DEF InBuffer
<1>4. QED
  BY <1>2, <1>3

(* Where there is room, what is read of a sample is in the buffer.          *)
LEMMA ReadsInBuffer ==
  ASSUME SampleTypeOK, bps <= physBps, byte < ReadBytes, NEW k \in Lane
  PROVE  CombinePlace(k, byte) \in 0 .. 4 * physBps - 1
<1>1. PICK b \in 1 .. 4, p \in 1 .. 4 : b = bps /\ p = physBps /\ b <= p
  BY BytesPerSample DEF SampleTypeOK
<1>2. byte \in 0 .. 4 /\ (k = 0 \/ k = 1 \/ k = 2 \/ k = 3)
  BY DEF SampleTypeOK, Lane
<1>3. CASE neon /\ format \in BigEndian
  <2>1. byte < b /\ CombinePlace(k, byte) = k * p + p - 1 - byte
    BY <1>1, <1>3 DEF ReadBytes, CombinePlace
  <2>2. QED
    BY <1>1, <1>2, <2>1
<1>4. CASE neon /\ format \notin BigEndian
  <2>1. byte < p /\ CombinePlace(k, byte) = k * p + byte
    BY <1>1, <1>4 DEF ReadBytes, CombinePlace
  <2>2. QED
    BY <1>1, <1>2, <2>1
<1>5. CASE ~neon /\ format \in BigEndian
  <2>1. byte < b /\ CombinePlace(k, byte) = k * b + p - 1 - byte
    BY <1>1, <1>5 DEF ReadBytes, CombinePlace
  <2>2. QED
    BY <1>1, <1>2, <2>1
<1>6. CASE ~neon /\ format \notin BigEndian
  <2>1. byte < b /\ CombinePlace(k, byte) = k * b + byte
    BY <1>1, <1>6 DEF ReadBytes, CombinePlace
  <2>2. QED
    BY <1>1, <1>2, <2>1
<1>7. QED
  BY <1>3, <1>4, <1>5, <1>6

(* No step disturbs the types or the sizes.                                 *)
LEMMA TypesStep ==
  ASSUME SampleTypeOK, SizesInv, SampleNext
  PROVE  SampleTypeOK' /\ SizesInv'
<1>1. UNCHANGED <<format, neon, scaled>>
  BY DEF SampleNext, Convert, Split, SplitOutside, Played, Combine, Combined, ExtendSign
<1>2. /\ format \in Format /\ bps \in 1 .. 4 /\ physBps \in 1 .. 4
      /\ scaled \in [Lane -> Int] /\ value \in [Lane -> minVal .. maxVal]
      /\ minVal \in Int /\ maxVal \in Int /\ byte \in 0 .. 4
      /\ rawBuffer \in [0 .. 4 * physBps - 1 -> 0 .. Base - 1]
      /\ ReadBytes \in 1 .. 4 /\ Base \in Nat
      /\ captured \in [Lane -> -(IntRange \div 2) .. (IntRange \div 2) - 1]
  BY BytesPerSample, ValueRange, SampleFormatAssumption DEF SampleTypeOK, ReadBytes
<1>3. CASE Convert
  <2>1. /\ value' \in [Lane -> UNION {Converted(scaled[k]) : k \in Lane}]
        /\ \A k \in Lane : value'[k] \in Converted(scaled[k])
        /\ conversion' = "split" /\ byte' = byte /\ UNCHANGED <<rawBuffer, captured>>
        /\ byte = 0
    BY <1>3 DEF Convert, SizesInv
  <2>2. \A k \in Lane : value'[k] \in minVal .. maxVal
    BY <1>2, <2>1, ConvertedFits
  <2>3. value' \in [Lane -> minVal .. maxVal]
    BY <2>1, <2>2
  <2>4. SampleTypeOK'
    BY <1>1, <2>1, <2>3, SameFormat DEF SampleTypeOK
  <2>5. SizesInv'
    BY <1>1, <1>2, <2>1, SameFormat DEF SizesInv
  <2>6. QED
    BY <2>4, <2>5
<1>4. CASE Split
  <2>1. /\ conversion = "split" /\ conversion' = "split" /\ byte < bps /\ InBuffer
        /\ byte' = byte + 1 /\ UNCHANGED <<value, captured>>
    BY <1>4 DEF Split
  <2>2. rawBuffer' \in [0 .. 4 * physBps - 1 -> 0 .. Base - 1]
    <3>1. ASSUME NEW p \in 0 .. 4 * physBps - 1
          PROVE  rawBuffer'[p] \in 0 .. Base - 1
      <4>1. CASE \E k \in Lane : p = SplitPlace(k, byte)
        <5>1. PICK j \in Lane : j = CHOOSE k \in Lane : p = SplitPlace(k, byte)
          BY <4>1
        <5>2. rawBuffer'[p] = ByteOf(value[j], byte)
          BY <1>2, <1>4, <4>1, <5>1 DEF Split
        <5>3. value[j] \in Int
          BY <1>2
        <5>4. QED
          BY <1>2, <5>2, <5>3, ByteOfIsByte
      <4>2. CASE ~ \E k \in Lane : p = SplitPlace(k, byte)
        <5>1. rawBuffer'[p] = rawBuffer[p]
          BY <1>2, <1>4, <4>2 DEF Split
        <5>2. QED
          BY <1>2, <5>1
      <4>3. QED
        BY <4>1, <4>2
    <3>2. rawBuffer' = [p \in 0 .. 4 * physBps - 1 |-> rawBuffer'[p]]
      BY <1>2, <1>4 DEF Split
    <3>3. QED
      BY <3>1, <3>2
  <2>3. byte' \in 0 .. 4
    BY <1>2, <2>1
  <2>4. SampleTypeOK'
    BY <1>1, <2>1, <2>2, <2>3, SameFormat DEF SampleTypeOK
  <2>5. bps > physBps => byte + 1 < bps
    <3>1. SUFFICES ASSUME bps > physBps, ~(byte + 1 < bps)
                   PROVE  FALSE
      OBVIOUS
    <3>2. byte = bps - 1
      BY <1>2, <2>1, <3>1
    <3>3. QED
      BY <2>1, <3>1, <3>2, NoRoom
  <2>6. SizesInv'
    BY <1>1, <1>2, <2>1, <2>5, SameFormat DEF SizesInv
  <2>7. QED
    BY <2>4, <2>6
<1>5. CASE SplitOutside
  <2>1. conversion' = "undefined" /\ UNCHANGED <<value, rawBuffer, byte, captured>>
    BY <1>5 DEF SplitOutside
  <2>2. QED
    BY <1>1, <2>1, SameFormat DEF SampleTypeOK, SizesInv
<1>6. CASE Played
  <2>1. /\ conversion = "split" /\ conversion' = "combine" /\ byte = bps /\ byte' = 0
        /\ UNCHANGED <<value, rawBuffer, captured>>
    BY <1>6 DEF Played
  <2>2. SampleTypeOK'
    BY <1>1, <2>1, SameFormat DEF SampleTypeOK
  <2>3. SizesInv'
    BY <1>1, <1>2, <2>1, SameFormat DEF SizesInv
  <2>4. QED
    BY <2>2, <2>3
<1>7. CASE Combine
  <2>1. /\ conversion = "combine" /\ conversion' = "combine" /\ byte < ReadBytes
        /\ byte' = byte + 1 /\ UNCHANGED <<value, rawBuffer>>
        /\ bps <= physBps
    BY <1>7 DEF Combine, SizesInv
  <2>2. captured' \in [Lane -> -(IntRange \div 2) .. (IntRange \div 2) - 1]
    <3>1. ASSUME NEW k \in Lane
          PROVE  captured'[k] \in -(IntRange \div 2) .. (IntRange \div 2) - 1
      <4>1. rawBuffer[CombinePlace(k, byte)] \in Int
        BY <1>2, <2>1, ReadsInBuffer
      <4>2. Weight(byte) \in Int /\ captured[k] \in Int
        <5>1. PICK h \in Nat : h = IntRange \div 2
          BY IntsAreInts
        <5>2. captured[k] \in Int
          <6>1. captured[k] \in -h .. h - 1
            BY <1>2, <5>1
          <6>2. QED
            BY <6>1
        <5>3. Weight(byte) \in Int
          <6>1. byte \in 0 .. 4
            BY <1>2
          <6>2. Weight(byte) \in Nat
            BY <6>1, Weights
          <6>3. QED
            BY <6>2
        <5>4. QED
          BY <5>2, <5>3
      <4>3. captured[k] + rawBuffer[CombinePlace(k, byte)] * Weight(byte) \in Int
        BY <4>1, <4>2
      <4>4. captured'[k] =
              Int32(captured[k] + rawBuffer[CombinePlace(k, byte)] * Weight(byte))
        BY <1>7 DEF Combine
      <4>5. QED
        BY <4>3, <4>4, IntsAreInts
    <3>2. captured' = [k \in Lane |-> captured'[k]]
      BY <1>7 DEF Combine
    <3>3. QED
      BY <3>1, <3>2
  <2>3. byte' \in 0 .. 4
    BY <1>2, <2>1
  <2>4. SampleTypeOK'
    BY <1>1, <2>1, <2>2, <2>3, SameFormat DEF SampleTypeOK
  <2>5. SizesInv'
    BY <1>1, <1>2, <2>1, SameFormat DEF SizesInv
  <2>6. QED
    BY <2>4, <2>5
<1>8. CASE Combined
  <2>1. conversion' = "extend" /\ UNCHANGED <<value, rawBuffer, byte, captured>>
    BY <1>8 DEF Combined
  <2>2. QED
    BY <1>1, <2>1, SameFormat DEF SampleTypeOK, SizesInv
<1>9. CASE ExtendSign
  <2>1. conversion' = "done" /\ UNCHANGED <<value, rawBuffer, byte>>
    BY <1>9 DEF ExtendSign
  <2>2. captured' \in [Lane -> -(IntRange \div 2) .. (IntRange \div 2) - 1]
    <3>1. ASSUME NEW k \in Lane
          PROVE  captured'[k] \in -(IntRange \div 2) .. (IntRange \div 2) - 1
      <4>1. captured[k] \in -(IntRange \div 2) .. (IntRange \div 2) - 1
        BY <1>2
      <4>2. captured'[k] \in {captured[k], Masked(captured[k])}
        BY <1>9 DEF ExtendSign
      <4>3. QED
        BY <1>2, <4>1, <4>2, MaskedIsInt
    <3>2. captured' = [k \in Lane |-> captured'[k]]
      BY <1>9 DEF ExtendSign
    <3>3. QED
      BY <3>1, <3>2
  <2>3. SampleTypeOK'
    BY <1>1, <2>1, <2>2, SameFormat DEF SampleTypeOK
  <2>4. SizesInv'
    BY <1>1, <2>1, SameFormat DEF SizesInv
  <2>5. QED
    BY <2>3, <2>4
<1>10. QED
  BY <1>3, <1>4, <1>5, <1>6, <1>7, <1>8, <1>9 DEF SampleNext

-----------------------------------------------------------------------------
(* The bytes of a format whose two sizes agree                              *)

(* Clipped and truncated, a sample is in the format.                        *)
LEMMA ConvertStep ==
  ASSUME SizesInv, OnTheWay, Convert
  PROVE  OnTheWay'
<1>1. /\ UNCHANGED <<format, neon, scaled, rawBuffer, byte, captured>>
      /\ conversion = "convert" /\ conversion' = "split" /\ byte = 0
      /\ \A k \in Lane : value'[k] \in Converted(scaled[k])
  BY DEF Convert, SizesInv
<1>2. \A k \in Lane : (value[k] \in Converted(scaled[k]))'
  BY <1>1, SameFormat
<1>3. Laid(byte)'
  BY <1>1 DEF Laid
<1>4. captured' = [k \in Lane |-> 0]
  BY <1>1 DEF OnTheWay
<1>5. QED
  BY <1>1, <1>2, <1>3, <1>4 DEF OnTheWay

(* Splitting off a byte leaves the earlier bytes where they are.            *)
LEMMA SplitStep ==
  ASSUME SampleTypeOK, SizesAgree, OnTheWay, Split
  PROVE  OnTheWay'
<1>1. UNCHANGED <<format, neon, scaled, value, conversion, captured>>
      /\ conversion = "split" /\ byte' = byte + 1
  BY DEF Split
<1>2. format \in Format /\ bps \in 1 .. 4 /\ byte \in 0 .. bps - 1
      /\ DOMAIN rawBuffer = 0 .. 4 * physBps - 1
  BY BytesPerSample DEF SampleTypeOK, Split
<1>3. ASSUME NEW k \in Lane
      PROVE  rawBuffer'[SplitPlace(k, byte)] = ByteOf(value[k], byte)
  <2>1. SplitPlace(k, byte) \in DOMAIN rawBuffer
    BY <1>2, PlacesApart
  <2>2. \A j \in Lane : SplitPlace(k, byte) = SplitPlace(j, byte) => j = k
    BY <1>2, PlacesApart
  <2>3. (CHOOSE j \in Lane : SplitPlace(k, byte) = SplitPlace(j, byte)) = k
    BY <2>2
  <2>4. QED
    BY <2>1, <2>3 DEF Split
<1>4. ASSUME NEW k \in Lane, NEW m \in 0 .. byte - 1
      PROVE  rawBuffer'[SplitPlace(k, m)] = ByteOf(value[k], m)
  <2>1. m \in 0 .. bps - 1
    BY <1>2
  <2>2. SplitPlace(k, m) \in DOMAIN rawBuffer
    BY <1>2, <2>1, PlacesApart
  <2>3. ~ \E j \in Lane : SplitPlace(k, m) = SplitPlace(j, byte)
    <3>1. m # byte
      BY <1>2
    <3>2. QED
      BY <1>2, <2>1, <3>1, PlacesApart
  <2>4. rawBuffer[SplitPlace(k, m)] = ByteOf(value[k], m)
    BY <1>1 DEF OnTheWay, Laid
  <2>5. QED
    BY <2>2, <2>3, <2>4 DEF Split
<1>5. Laid(byte)'
  <2>1. ASSUME NEW k \in Lane, NEW m \in 0 .. (byte + 1) - 1
        PROVE  rawBuffer'[SplitPlace(k, m)] = ByteOf(value[k], m)
    <3>1. m = byte \/ m \in 0 .. byte - 1
      BY <1>2
    <3>2. QED
      BY <1>3, <1>4, <3>1
  <2>2. QED
    BY <1>1, <2>1, SameFormat DEF Laid
<1>6. \A k \in Lane : (value[k] \in Converted(scaled[k]))'
  BY <1>1, SameFormat DEF OnTheWay
<1>7. QED
  BY <1>1, <1>5, <1>6 DEF OnTheWay

(* No byte falls outside the buffer.                                        *)
LEMMA NotOutside ==
  ASSUME SampleTypeOK, SizesAgree, SplitOutside
  PROVE  FALSE
<1>1. format \in Format /\ bps \in 1 .. 4 /\ byte \in 0 .. bps - 1
      /\ DOMAIN rawBuffer = 0 .. 4 * physBps - 1
  BY BytesPerSample DEF SampleTypeOK, SplitOutside
<1>2. \A k \in Lane : SplitPlace(k, byte) \in DOMAIN rawBuffer
  BY <1>1, PlacesApart
<1>3. QED
  BY <1>2 DEF SplitOutside, InBuffer

(* When the last byte is laid out, nothing is put together yet.             *)
LEMMA PlayedStep ==
  ASSUME SampleTypeOK, OnTheWay, Played
  PROVE  OnTheWay'
<1>1. UNCHANGED <<format, neon, scaled, value, rawBuffer, captured>>
      /\ conversion = "split" /\ conversion' = "combine" /\ byte = bps /\ byte' = 0
  BY DEF Played
<1>2. value \in [Lane -> minVal .. maxVal] /\ minVal \in Int /\ maxVal \in Int
  BY ValueRange DEF SampleTypeOK
<1>3. Laid(bps)'
  BY <1>1, SameFormat DEF OnTheWay, Laid
<1>4. Gathered(0)
  <2> SUFFICES ASSUME NEW k \in Lane
               PROVE  captured[k] = Int32(value[k] % Weight(0))
    BY DEF Gathered
  <2>1. value[k] \in Int
    BY <1>2
  <2>2. value[k] % Weight(0) = 0
    <3>1. value[k] % 1 \in 0 .. 1 - 1
      BY <2>1, Division
    <3>2. QED
      BY <3>1, Weights
  <2>3. Int32(0) = 0
    <3>1. Weight(3) \in Nat /\ Weight(3) > 0
      BY Weights
    <3>2. 0 \in 0 .. Weight(3) - 1
      BY <3>1
    <3>3. QED
      BY <3>2, IntOfRemainder
  <2>4. captured[k] = 0
    BY <1>1 DEF OnTheWay
  <2>5. QED
    BY <2>2, <2>3, <2>4
<1>5. Gathered(byte)'
  BY <1>1, <1>4, SameFormat DEF Gathered
<1>6. \A k \in Lane : (value[k] \in Converted(scaled[k]))'
  BY <1>1, SameFormat DEF OnTheWay
<1>7. QED
  BY <1>1, <1>3, <1>5, <1>6 DEF OnTheWay

(* Each byte that is read makes the remainder one byte longer.              *)
LEMMA CombineStep ==
  ASSUME SampleTypeOK, SizesAgree, OnTheWay, Combine
  PROVE  OnTheWay'
<1>1. UNCHANGED <<format, neon, scaled, value, rawBuffer, conversion>>
      /\ conversion = "combine" /\ byte' = byte + 1
  BY DEF Combine
<1>2. /\ format \in Format /\ bps \in 1 .. 4 /\ byte \in 0 .. bps - 1
      /\ value \in [Lane -> minVal .. maxVal]
      /\ minVal \in Int /\ maxVal \in Int
  BY BytesPerSample, ValueRange DEF SampleTypeOK, SizesAgree, Combine, ReadBytes
<1>3. ASSUME NEW k \in Lane
      PROVE  captured'[k] = Int32(value[k] % Weight(byte + 1))
  <2>1. captured'[k] = Int32(captured[k] + rawBuffer[CombinePlace(k, byte)] * Weight(byte))
    BY DEF Combine
  <2>2. rawBuffer[CombinePlace(k, byte)] = ByteOf(value[k], byte)
    BY <1>1, <1>2, PlacesApart DEF OnTheWay, Laid
  <2>3. captured[k] = Int32(value[k] % Weight(byte))
    BY <1>1 DEF OnTheWay, Gathered
  <2>4. value[k] \in Int
    BY <1>2
  <2>5. QED
    BY <1>2, <2>1, <2>2, <2>3, <2>4, ByteOnTop
<1>4. Gathered(byte)'
  BY <1>1, <1>3, SameFormat DEF Gathered
<1>5. Laid(bps)'
  BY <1>1, SameFormat DEF OnTheWay, Laid
<1>6. \A k \in Lane : (value[k] \in Converted(scaled[k]))'
  BY <1>1, SameFormat DEF OnTheWay
<1>7. QED
  BY <1>1, <1>4, <1>5, <1>6 DEF OnTheWay

(* All of a sample has been read.                                           *)
LEMMA CombinedStep ==
  ASSUME SizesAgree, OnTheWay, Combined
  PROVE  OnTheWay'
<1>1. UNCHANGED <<format, neon, scaled, value, rawBuffer, byte, captured>>
      /\ conversion = "combine" /\ conversion' = "extend" /\ byte = bps
  BY DEF Combined, ReadBytes, SizesAgree
<1>2. Gathered(bps)'
  BY <1>1, SameFormat DEF OnTheWay, Gathered
<1>3. \A k \in Lane : (value[k] \in Converted(scaled[k]))'
  BY <1>1, SameFormat DEF OnTheWay
<1>4. QED
  BY <1>1, <1>2, <1>3 DEF OnTheWay

(* The sign's extension gives back every sample.                            *)
LEMMA ExtendSignStep ==
  ASSUME SampleTypeOK, OnTheWay, ExtendSign
  PROVE  OnTheWay'
<1>1. UNCHANGED <<format, neon, scaled, value, rawBuffer, byte>>
      /\ conversion = "extend" /\ conversion' = "done"
  BY DEF ExtendSign
<1>2. format \in Format /\ value \in [Lane -> minVal .. maxVal]
  BY DEF SampleTypeOK
<1>3. captured' = value
  <2>1. ASSUME NEW k \in Lane
        PROVE  captured'[k] = value[k]
    <3>1. value[k] \in minVal .. maxVal
      BY <1>2
    <3>2. captured[k] = Int32(value[k] % Weight(bps))
      BY <1>1 DEF OnTheWay, Gathered
    <3>3. captured'[k] = IF Negative(captured[k]) THEN Masked(captured[k]) ELSE captured[k]
      BY DEF ExtendSign
    <3>4. QED
      BY <1>2, <3>1, <3>2, <3>3, SignExtended
  <2>2. captured' = [k \in Lane |-> captured'[k]] /\ value = [k \in Lane |-> value[k]]
    BY <1>2 DEF ExtendSign
  <2>3. QED
    BY <2>1, <2>2
<1>4. \A k \in Lane : (value[k] \in Converted(scaled[k]))'
  BY <1>1, SameFormat DEF OnTheWay
<1>5. QED
  BY <1>1, <1>3, <1>4 DEF OnTheWay

LEMMA BytesNext == BytesIInv /\ [SampleNext]_sampleVars => BytesIInv'
<1> SUFFICES ASSUME BytesIInv, [SampleNext]_sampleVars
             PROVE  BytesIInv'
  OBVIOUS
<1>1. CASE UNCHANGED sampleVars
  <2>1. UNCHANGED <<format, neon, scaled, value, rawBuffer, conversion, byte, captured>>
    BY <1>1 DEF sampleVars
  <2>2. SampleTypeOK' /\ SizesInv'
    BY <2>1, SameFormat DEF BytesIInv, SampleTypeOK, SizesInv
  <2>3. BytesInv'
    <3>1. SizesAgree' = SizesAgree
      BY <2>1, SameFormat
    <3>2. Laid(byte)' = Laid(byte) /\ Laid(bps)' = Laid(bps)
      BY <2>1, SameFormat DEF Laid
    <3>3. Gathered(byte)' = Gathered(byte) /\ Gathered(bps)' = Gathered(bps)
      BY <2>1, SameFormat DEF Gathered
    <3>4. OnTheWay => OnTheWay'
      BY <2>1, <3>2, <3>3, SameFormat DEF OnTheWay
    <3>5. QED
      BY <3>1, <3>4 DEF BytesIInv, BytesInv
  <2>4. QED
    BY <2>2, <2>3 DEF BytesIInv
<1>2. CASE SampleNext
  <2>1. SampleTypeOK' /\ SizesInv'
    BY <1>2, TypesStep DEF BytesIInv
  <2>2. SizesAgree' = SizesAgree
    <3>1. UNCHANGED <<format, neon>>
      BY <1>2 DEF SampleNext, Convert, Split, SplitOutside, Played, Combine, Combined,
                  ExtendSign
    <3>2. QED
      BY <3>1, SameFormat
  <2>3. ASSUME SizesAgree
        PROVE  OnTheWay'
    <3>1. SampleTypeOK /\ SizesInv /\ OnTheWay
      BY <2>3 DEF BytesIInv, BytesInv
    <3>2. QED
      BY <1>2, <2>3, <3>1, ConvertStep, SplitStep, NotOutside, PlayedStep, CombineStep,
         CombinedStep, ExtendSignStep DEF SampleNext
  <2>4. QED
    BY <2>1, <2>2, <2>3 DEF BytesIInv, BytesInv
<1>3. QED
  BY <1>1, <1>2

(* Whatever sizes the library gives the formats, the values of a format are *)
(* ints, and a conversion that stays in the buffer while it writes stays in *)
(* it while it reads.                                                       *)
THEOREM SampleTypes == SampleSpec => []SampleTypeOK
<1>1. BytesIInv => SampleTypeOK
  BY DEF BytesIInv
<1>2. QED
  BY <1>1, BytesInit, BytesNext, PTL DEF SampleSpec

(* In a format whose two sizes agree no byte falls outside the buffer, and  *)
(* what is captured is what was played, clipped, for bytes of any even size *)
(* and samples of one to four of them.                                      *)
THEOREM RoundTrip == SampleSpec => []PlayedIsCaptured
<1>1. BytesIInv => PlayedIsCaptured
  <2> SUFFICES ASSUME BytesIInv, SizesAgree
               PROVE  /\ conversion # "undefined"
                      /\ conversion = "done" =>
                           \A k \in Lane :
                             Undefined(scaled[k]) \/ captured[k] = Clipped(scaled[k])
    BY DEF PlayedIsCaptured
  <2>1. conversion # "undefined"
    BY DEF BytesIInv, BytesInv, OnTheWay
  <2>2. ASSUME conversion = "done", NEW k \in Lane, ~Undefined(scaled[k])
        PROVE  captured[k] = Clipped(scaled[k])
    <3>1. format \in Format /\ scaled[k] \in Int /\ value[k] \in Converted(scaled[k])
          /\ captured = value
      BY <2>2 DEF BytesIInv, SampleTypeOK, BytesInv, OnTheWay
    <3>2. QED
      BY <2>2, <3>1, ConvertedFits
  <2>3. QED
    BY <2>1, <2>2
<1>2. QED
  BY <1>1, BytesInit, BytesNext, PTL DEF SampleSpec
=============================================================================
