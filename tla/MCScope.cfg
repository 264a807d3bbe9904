SPECIFICATION FairSpec
CONSTANTS
  frameWidth = 3
  FRAMES_STORED = 2
  TRIGGER_LOG_COUNT = 0
  TriggerMode = "AUTO"
  Offsets <- TestOffsets
  HoldOffs = {0, 2}
  Overlap = FALSE
  MaxSamples = 8
  MaxAhead = 4
  MaxChanges = 3
INVARIANTS
  TypeOK
  FrameIsWindow
  FramesAreApart
PROPERTIES
  SignalledIsScanned
\* The number of samples is bounded.
CHECK_DEADLOCK FALSE
