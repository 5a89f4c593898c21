SPECIFICATION FairSpec
CONSTANTS
  Threads = {t1, t2}
  f = f
  l = l
  Files = {f}
  Labels = {l}
  Values = {0, 1}
  NoFile = NoFile
  Buffers <- WaitAndToggle
  MaxSubmits = 3
INVARIANTS
  ExecutedInOrder
  CompletedWereExecuted
  NoMissedWakeup
PROPERTIES
  SubmitReturnsOrTakenBack
  SubmittedCompletes
