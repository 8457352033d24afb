\* One batch of three files that go to one directory.
CONSTANTS
  b1 = b1
  b2 = b2
  d1 = d1
  None = None
  Batches = {b1}
  Dirs = {d1}
  MaxParts = 3
  Threads = 2
  Files <- OneBatch
SPECIFICATION FairSpec
INVARIANT TypeOK
PROPERTY DoneMeansConverted
INVARIANT EveryCountShown
PROPERTY BatchEnds
\* The batch ends.
CHECK_DEADLOCK FALSE
