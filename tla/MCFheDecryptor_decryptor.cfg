\* Two decryptions at once, before and after a restart; signatures lapse.
SPECIFICATION FheSpec
CONSTANTS
  d1 = d1
  d2 = d2
  Decryption = {d1, d2}
  Validity = 2
  MaxStarts = 2
  MaxDays = 3
INVARIANTS
  FheTypeOK
  OneKeyPair
PROPERTIES
  ReusedIsValid
  FileIsHarmless
CHECK_DEADLOCK FALSE
