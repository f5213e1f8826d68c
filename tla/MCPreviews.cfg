SPECIFICATION PreviewsSpec
CONSTANTS
  Procs = {p1, p2}
  ByHand = {p1}
  Slugs = {s1, s2}
  Kinds = {"satellite", "none"}
  ImageKinds = {"satellite"}
  CheckpointEvery = 2
  MaxFaults = 1
  MaxEdits = 1
  MaxPartial = 1
  NotListed = NotListed
  NoEntry = NoEntry
  NoLock = NoLock
  Nobody = Nobody
  Callers = {c1, c2}
  Keys = {k1, k2}
  CodedInBody = {k1}
  Place = Place
  Nothing = Nothing
  MaxRetries = 1
  MinInterval = 1
  MaxRetryAfter = 1
  RetryAfters = {1, 2}
  MaxRequests = 2
  TotalTime = 2
  ClientFaultBound = 1
  MaxLookups = 2
  NotCached = NotCached
  NoKey = NoKey
  MaxAddress = 4
  MaxHint = 3
  MaxSite = 4
  MaxRoad = 3
  Wrapped <- MCWrapped
  Variants <- MCVariants
  Stripped <- MCStripped
  HouseNumber <- MCHouseNumber
  NoiseWords = {"Via"}
  HanWords = {"park"}
  MaxRedirects = 1
  MaxPdfs = 2
  MaxRelated = 1
  Opportunities <- MCOpportunities
  Traffic <- MCTraffic
  JsonValues <- MCJsonValues
  Answers <- MCAnswers
  CachedPlaces <- MCCached
  ProviderKeys = {"baidu", "amap"}
  RecordRequests = 12
  ImageSize = 2
  TileSize = 2
  MinTiles = 3
  TileConcurrency = 2
  PageBytes = 1
  PdfBytes = 1
  ImageBytes = 1
  Fetchers = {t1, t2}
  Sites = {h1, h2}
  IntervalOf <- MCIntervalOf
  MaxAttempts = 2
  MaxHops = 1
  BackoffBase = 1
  BackoffMax = 1
  SiteHints = {1}
  SiteClock = 2
  MaxFetches = 2
  NoHint = NoHint
  NoSlot = NoSlot
SYMMETRY SlugSymmetry
CHECK_DEADLOCK FALSE
INVARIANTS
  PreviewTypeOK
  QuietDirectory
  FullRunHeals
  NegativeMeansAnswered
  LocatorExplained
  NothingTwice
  SitesPaced
PROPERTIES
  TakeTurns
  Polite
  FlushedMeansSaved
