SPECIFICATION FairSpec
CONSTANTS
  Buttons = 1
  Touches = 3
  KeyCodes = {47, 116, 330}
  AbsCodes = {53, 59, 60, 61}
  event_map <- TestEventMap
  Devices = 2
  Phones <- TestPhones
  MaxFingers = 2
  Values = {0, 1}
  MaxReports = 3
  MaxQueue = 3
INVARIANTS
  TypeOK
  PlacesExist
  StoredAsReported
PROPERTIES
  RenderSeesReports
\* An unusable phone ends in undefined behaviour.
CHECK_DEADLOCK FALSE
