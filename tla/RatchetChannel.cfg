SPECIFICATION Spec
CONSTANTS
  Alice = alice
  Bob = bob
  MAX_RECEIVER_CHAINS = 2
  MAX_SKIPPED_MESSAGE_KEYS = 2
  MAX_MESSAGE_GAP = 3
  Bounds <- ChainsOrMessages
VIEW IgnoringLastError
INVARIANTS TypeOK ReplayInv NoReplay Authentic UniqueKeys UsedKeysAreGone RootsInStep NeverWedged
PROPERTIES KeptUntilDiscarded ImplementsSecureChannel
