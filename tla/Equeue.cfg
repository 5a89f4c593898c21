\* Eight kinds of queue with up to three events and three waiters.
SPECIFICATION EqueueSpec
CONSTANTS
  Waiters = {w1, w2, w3}
  Ids = {a, b, c}
  a = a
  b = b
  c = c
  Setups <- SetupsOf
  MaxRoom = 2
  MaxFired = 2
INVARIANTS
  NoMissedTrigger
  NothingLost
  LastingEventsRotate
  CloseEndsWaits
SYMMETRY
  Symmetry
CHECK_DEADLOCK FALSE
