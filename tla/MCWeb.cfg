SPECIFICATION WebSpec
CONSTANTS
  QueueIds = {"q1", "q2", "q3"}
  QueueRank <- MCQueueRank
  StatusRank <- MCStatusRank
  DeskLimit = 2
  ReasonOf <- MCReasonOf
  DeskStatuses = {"pending", "accepted"}
  SearchNames = {"n1"}
  SearchFilters = {"f1", "f2"}
  DeskBound = 2
  OthersBound = 2
  SaveBound = 2
  Browsers = {b1, b2}
  SessionLifetime = 2
  RenewBelow = 2
  ThrottleWindow = 2
  FailureLimit = 1
  RegisterLimit = 1
  ScryptCost = 1
  MaxScryptCost = 2
  StoredHashes <- MCStoredHashes
  LastHour = 2
  Agenda <- MCAgenda
  MaxPages = 1
  Locales = {"zh", "en"}
  DefaultLocale = "zh"
  RegionOf <- MCRegionOf
  LocaleLike = {"en-GB", "fr"}
  StaticFiles = {"logo.png"}
  Entered <- MCEntered
  AcceptLanguages <- MCAccept
  ReturnPaths <- MCReturn
  ApiRequests <- MCApi
  MaxHops = 3
  DayLength = 2
  Vocabulary <- MCVocabulary
  AliasGroups <- MCAliasGroups
  Suppressed = {"n/a"}
  MarkupValues = {}
  TermVariants <- MCTermVariants
  MaxLimit = 2
  MaxOffset = 50
  DefaultLimit = 2
  MaxWithin = 2
  MaxValue = 9
  MaxScore = 5
  MaxMulti = 3
  Rows <- MCRows
  EditedRows <- MCEditedRows
  ClockStart = 9
  MaxChanges = 1
  Addresses <- MCAddresses
  SavedQueries <- MCSaved
  DockEdits <- MCDockEdits
  PageSize = 2
  RecencyOptions = {2}
  MaxLoaded = 5
  MaxLoads = 2
  KeysOf <- MCKeys
  Facts = {0, 1, 2, 3}
  LocalTables <- MCLocal
  SizeOf <- MCSize
  IdSize <- MCIdSize
  Printable <- MCPrintable
  QueueStatuses = {"accepted"}
  MaxStatementsPerFile = 5
  MaxFileBytes = 5
  MaxStatementBytes = 12
  MaxDataFiles = 9
  IdsPerStatement = 2
  MaxExports = 2
  MaxVisitorSteps = 2
  MaxReruns = 1
  NoRow = NoRow
SYMMETRY MCSymmetry
CHECK_DEADLOCK FALSE
INVARIANTS
  WebTypeOK
  DeskShowsLatest
  ToggleSettles
  SignedOutStaysOut
  FewFailures
  RedirectOnce
  FeedComplete
  D1Mirror
