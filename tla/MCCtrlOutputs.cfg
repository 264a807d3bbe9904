SPECIFICATION FairSpec
CONSTANTS
  Count = 3
  lcdBacklight = 1
  vibration = 2
  ScaleVal <- Scale
  Parts = 2
  MaxFound = 1
  MaxSets = 2
  MaxForeign = 1
  MaxRejects = 1
INVARIANTS
  TypeOK
  CacheMirrorsFile
  OnePulsePerRequest
  LightsLeftAsFound
PROPERTIES
  AskedIsWritten
\* The program ends.
CHECK_DEADLOCK FALSE
