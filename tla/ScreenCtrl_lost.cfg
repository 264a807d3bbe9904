SPECIFICATION Spec
CONSTANTS
  OutputsOff = {TRUE, FALSE}
  MaxRequests = 2
  MaxButtons = 0
INVARIANT FlagMeansMade
\* The program ends.
CHECK_DEADLOCK FALSE
