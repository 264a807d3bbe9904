\* Every command line, every fault, signals at any time.
SPECIFICATION FairSpec
CONSTANTS
  Options <- AllOptions
  Faults <- Fault
INVARIANTS
  TypeOK
  LiveThreadsOwnTheirResources
  RestoredAtExit
  ReleasedOnce
PROPERTIES
  StopLeadsToExit
  ImplementsUserProgram
\* main() returns.
CHECK_DEADLOCK FALSE
