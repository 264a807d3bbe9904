SPECIFICATION FairSpec
CONSTANTS
  OutputsOff = {TRUE, FALSE}
  MaxRequests = 3
  MaxButtons = 1
INVARIANTS
  TypeOK
  SettledAsAsked
  InitialScreenRestored
PROPERTIES
  RequestHonoured
  PressesTowardsRequest
  StopLeadsToCleanup
\* The program ends.
CHECK_DEADLOCK FALSE
