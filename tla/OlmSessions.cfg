SPECIFICATION Spec
CONSTANTS
  alice = alice
  bob = bob
  Party <- Both
  Bounds <- AllBounds
  MAX_ONE_TIME_KEYS = 2
  MAX_RECEIVER_CHAINS = 2
  MAX_SKIPPED_MESSAGE_KEYS = 2
  MAX_MESSAGE_GAP = 2
VIEW IgnoringLastError
INVARIANTS
  TypeOK
  PublishedKeysWork
  DeliveredInItsSession
  NoReplayInAnySession
  MessagesFindTheirSession
  FirstContactWorks
  SessionsWork
