\* The first thread and two it may create, a semaphore, one cancel call.
SPECIFICATION FairSpec
CONSTANTS
  Threads = {main, a, b}
  Main = main
  Sem = sem
  Nothing = nothing
  MaxCount = 1
  MaxHandlers = 1
  MaxCancels = 1
  Calls <- CallsOf
  main = main
  a = a
  b = b
INVARIANTS
  NoMissedWakeup
  CleanupUninterrupted
  NeverFreedInUse
PROPERTY
  WaitsEnd
CHECK_DEADLOCK FALSE
