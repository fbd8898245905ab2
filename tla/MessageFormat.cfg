SPECIFICATION Spec
CONSTANTS
  UINT32 = 512
  SIZE_T = 1024
  KEY_LENGTH = 2
  MAC_LENGTH = 1
  SIGNATURE_LENGTH = 1
  Contents <- MCContents
  Unknown <- MCUnknown
  Strange <- MCStrange
CHECK_DEADLOCK FALSE
INVARIANTS
  StringsLieInside
  EncodedIsDecoded
  CutIsRefused
PROPERTY DecodingEnds
