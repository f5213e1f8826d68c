SPECIFICATION Spec

CONSTANTS
  j1 = j1
  j2 = j2
  j3 = j3
  b1 = b1
  b2 = b2
  x = x
  y = y
  z = z
  Jobs = {j1, j2, j3}
  Documents = {x, y, z}
  Lists <- MCLists
  Limit = 2
  NoRun = NoRun
  Batches = {b1, b2}
  JobsOf <- MCJobsOf
  MaxWorkers = 2
  NoBatch = NoBatch

INVARIANT NothingDropped
