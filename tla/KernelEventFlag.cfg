\* Three threads, waits that take all bits, either bit or keep them; no symmetry.
SPECIFICATION FairSpec
CONSTANTS
  Threads = {t1, t2, t3}
  a = a
  b = b
  Bits = {a, b}
  Patterns <- AllPatterns
  Requests <- MixedRequests
  MaxCancels = 1
INVARIANTS
  FreedByTheLast
  NoMissedWakeup
  TakenOnce
PROPERTIES
  EndedWaitReturns
  SatisfiedReturns
