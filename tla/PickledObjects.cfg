SPECIFICATION Spec
CONSTANTS
  IntLength = 2
  KeyLength = 2
  MaxSenderChains = 1
  MaxReceiverChains = 2
  MaxSkippedKeys = 1
  MaxOneTimeKeys = 3
  BlockLength = 16
  Objects <- AllObjects
  Cuts <- CutSizes
  Additions = {1, 2}
INVARIANTS Restored OnlyWholePickles FailuresAreReported LengthIsExact
