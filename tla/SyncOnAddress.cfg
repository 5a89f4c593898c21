\* Three threads; no symmetry, which the fairness of AddressWait forbids.
SPECIFICATION FairSpec
CONSTANTS
  Threads = {t1, t2, t3}
  Addresses = {a1}
  Values = {0, 1}
  Counts = {0, 1, 2}
INVARIANTS
  StaleWaitersAreWoken
PROPERTIES
  FirstComeFirstServed
  ImplementsAddressWait
