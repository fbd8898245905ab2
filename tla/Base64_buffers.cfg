SPECIFICATION Spec
CONSTANTS
  Uses <- Overlapping
  Inputs <- AllInputs
INVARIANTS UnreadIntact ResultIsBase64
CHECK_DEADLOCK FALSE
