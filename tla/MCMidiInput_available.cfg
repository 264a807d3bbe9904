SPECIFICATION FairSpec
CONSTANTS
  Type = {"kmmNoteOff", "kmmProgramChange"}
  kmmNoteOff = "kmmNoteOff"
  NumDataBytes <- DataBytes
  OtherStatus = {}
  Size = 7
  Slots = 4
  IntRange = 22
  SizeRange = 256
  MaxMessages = 5
  Burst = 5
  MaxUnread = 3
INVARIANTS
  AvailableIsUnread
CHECK_DEADLOCK FALSE
