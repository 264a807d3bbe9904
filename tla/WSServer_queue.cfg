SPECIFICATION FairSpec

CONSTANTS
  audio = audio
  serve = serve
  Sender = {audio, serve}
  Size = 3
  MaxSends = 4
  Overlap = FALSE
  MaxAhead = 2
  Unwritten = Unwritten

INVARIANTS
  TypeOK
  RingInv
  NothingLeftBehind

PROPERTIES
  ImplementsQueue
  EveryOutputHandedOver

\* senders stop after MaxSends and the client thread exits
CHECK_DEADLOCK FALSE
