SPECIFICATION FairDriverSpec
CONSTANTS
  g1 = g1
  g2 = g2
  c1 = c1
  c2 = c2
  L = L
  M = M
  NoLabel = NoLabel
  Guests = {g1, g2}
  Queues = {Queue0, c1, c2}
  Queue0 = Queue0
  Labels = {L, M}
  Depth = 2
  Programs <- AllPrograms
INVARIANTS
  CompletedMeansFinished
PROPERTIES
  QueueZeroGoesFirst
  CallsReturn
CHECK_DEADLOCK FALSE
