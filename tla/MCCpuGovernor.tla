--------------------------- MODULE MCCpuGovernor -----------------------------
EXTENDS CpuGovernor

FourCpus == 0 .. 3

Governors == {"performance", "schedutil", "powersave"}

(* Every way to share policies: each cpu's policy is named by a cpu of it   *)
(* with no higher number, as the kernel names them.                         *)
AllPolicies ==
  {f \in [FourCpus -> FourCpus] : \A c \in FourCpus : f[c] <= c /\ f[f[c]] = f[c]}

\* The online cpus are the first ones.
Prefixes == {0 .. n : n \in 0 .. 3}

\* Some lower cpu may be offline.
AnyOnline == SUBSET FourCpus \ {{}}
=============================================================================
