\* One caller with room for one report, and a descriptor that stays ready.
SPECIFICATION EqueueSpec
CONSTANTS
  Waiters = {w1}
  Ids = {a, b, c}
  a = a
  b = b
  c = c
  Setups <- DescriptorFirst
  MaxRoom = 1
  MaxFired = 1
INVARIANT
  LevelEventsRotate
CHECK_DEADLOCK FALSE
