\* Three threads; no symmetry, which the liveness properties forbid.
SPECIFICATION FairSpec
CONSTANTS
  Threads = {t1, t2, t3}
  MaxCount = 2
  Needs = {1, 2}
  MaxCancels = 2
INVARIANTS
  CancelReportsExact
  NoMissedWakeup
  NeverFreedInUse
PROPERTIES
  DeleteReturns
  EndedWaitReturns
