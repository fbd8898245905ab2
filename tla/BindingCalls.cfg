SPECIFICATION Spec
CONSTANTS
  Bindings <- MCBindings
  KnownKept <- MCKnownKept
  KnownUnsaid <- MCKnownUnsaid
  KnownUnwiped <- MCKnownUnwiped
  KnownLost <- MCKnownLost
INVARIANTS
  NothingKept
  SuccessIsReal
  SecretsWiped
  NothingLost
