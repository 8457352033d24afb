\* Convert clicked twice.
CONSTANTS
  b1 = b1
  b2 = b2
  d1 = d1
  None = None
  Batches = {b1, b2}
  Dirs = {d1}
  MaxParts = 1
  Threads = 2
  Files <- TwoClicks
SPECIFICATION Spec
PROPERTY DoneMeansConverted
CHECK_DEADLOCK FALSE
