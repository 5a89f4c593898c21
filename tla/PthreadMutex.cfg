\* Two mutexes of one bucket, three threads, untimed and timed locks; no symmetry.
CONSTANTS
  t1 = t1
  t2 = t2
  t3 = t3
  plain = plain
  recursive = recursive
  b1 = b1
  Threads <- MCThreads
  Mutexes <- MCMutexes
  Buckets = {b1}
  BucketOf <- MCBucketOf
  Recursive = {recursive}
  MaxDepth = 2
  NoThread = NoThread
SPECIFICATION FairSpec
INVARIANTS
  OwnerIsHolder
  NoStaleEvent
  NoLostWakeup
PROPERTY
  FreeMutexIsTaken
