CONSTANTS
  j1 = j1  j2 = j2
  Jobs = {j1, j2}
  Events <- Published
  RingCapacity = 2
  BusCapacity = 1
  Remembered = 2
  MaxProgress = 2
  MaxOther = 1
  PollFirst = TRUE
SPECIFICATION FeedSpec
CHECK_DEADLOCK FALSE
SYMMETRY Symmetry
INVARIANTS RingIsContiguous EventsAreInOrder
