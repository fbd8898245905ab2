SPECIFICATION CatchUpSpec
CONSTANTS
  Radix = 3
  Starts <- NearTurns
  MaxSteps = 84
INVARIANTS CatchUpTypeOK JumpsAgree
PROPERTY OneWay
