SPECIFICATION Spec
CONSTANTS
  Radix = 2
  Receiver = {r1}
  Start = 11
  MaxMessages = 10
VIEW IgnoringLastError
INVARIANTS TypeOK ReadsFromFirst NoHistory
