SPECIFICATION StoreSpec
CONSTANTS
  Procs = {p1, p2}
  ByHand = {p1}
  Slugs = {s1, s2}
  Kinds = {"satellite", "none"}
  ImageKinds = {"satellite"}
  CheckpointEvery = 2
  MaxFaults = 2
  MaxEdits = 1
  MaxPartial = 1
  NotListed = NotListed
  NoEntry = NoEntry
  NoLock = NoLock
  Nobody = Nobody
INVARIANT
  SingleWriter
