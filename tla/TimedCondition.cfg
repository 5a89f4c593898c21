\* Two threads whose waits nest once.
SPECIFICATION FairConditionSpec
CONSTANTS
  HostThreads = {t1, t2}
  Conditions = {c1}
  MaxNesting = 2
INVARIANT
  EventsAreOwed
PROPERTIES
  ImplementsCondition
  NotifiedReturns
