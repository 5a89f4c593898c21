\* A reader and two writers that may read too; recursive reads, timed and untimed waits,
\* the lock destroyed while held.  No symmetry, which the liveness property forbids.
CONSTANTS
  Threads = {r1, w1, w2}
  Writers = {w1, w2}
  Locks = {l1}
  MaxDepth = 2
  MaxHeld = 2
  DestroysHeld = TRUE
  NoThread = NoThread
SPECIFICATION FairSpec
INVARIANTS
  WritersExclude
  RelockingReaderEnters
  NoMissedWakeup
PROPERTY
  WriterGetsIn
