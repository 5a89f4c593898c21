SPECIFICATION Spec
CONSTANTS
  Threads = {t1, t2}
  f = f
  l = l
  Files = {f}
  Labels = {l}
  Values = {0, 1}
  NoFile = NoFile
  Buffers <- ReleaseOnly
  MaxSubmits = 2
INVARIANT ReturnedIdsAreKnown
