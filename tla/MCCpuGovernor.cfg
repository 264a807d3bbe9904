\* Four cpus, every sharing of policies, the first one to four cpus online.
SPECIFICATION Spec
CONSTANTS
  Cpu <- FourCpus
  Governor <- Governors
  Policies <- AllPolicies
  Onlines <- Prefixes
INVARIANTS
  TypeOK
  PerformanceWhileRunning
  GovernorsRestored
\* resetGovernorMode() returns.
CHECK_DEADLOCK FALSE
