SPECIFICATION SampleSpec
CONSTANTS
  Base = 4
  Format <- TestFormats
  BigEndian = {"S16_BE", "S24_BE", "S24_3BE", "S32_BE"}
  Packed24 = {"S24_3LE", "S24_3BE"}
  Padded24 = {"S24_LE", "S24_BE"}
  StorageBytes <- TestStorageBytes
  Neon = {TRUE, FALSE}
  Others <- TestOthers
INVARIANTS
  SampleTypeOK
  
\* A conversion ends.
CHECK_DEADLOCK FALSE
