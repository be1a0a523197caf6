CONSTANTS
  j1 = j1
  Jobs = {j1}
  Events <- Published
  RingCapacity = 2
  BusCapacity = 1
  Remembered = 2
  MaxProgress = 0
  MaxOther = 0
  PollFirst = TRUE
  StreamBuffer = 0
  MaxRestarts = 1
  MaxTurns = 1
SPECIFICATION EarlySpec
CHECK_DEADLOCK FALSE
INVARIANTS NothingIsLost NeverAbandoned
PROPERTIES AppliedInOrder
