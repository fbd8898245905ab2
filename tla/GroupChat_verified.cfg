SPECIFICATION Spec
CONSTANTS
  Radix = 2
  Receiver = {r1}
  Start = 11
  MaxMessages = 2
VIEW IgnoringLastError
INVARIANT VerifiedHasEvidence
