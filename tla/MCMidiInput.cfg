SPECIFICATION FairSpec
CONSTANTS
  Type = {"kmmNoteOff", "kmmProgramChange"}
  kmmNoteOff = "kmmNoteOff"
  NumDataBytes <- DataBytes
  OtherStatus = {}
  Size = 7
  Slots = 4
  IntRange = 22
  SizeRange = 22
  MaxMessages = 5
  Burst = 5
  MaxUnread = 3
INVARIANTS
  TypeOK
  AvailableIsUnread
PROPERTIES
  ImplementsQueue
  EveryMessageHandedOver
\* The device may stop sending.
CHECK_DEADLOCK FALSE
