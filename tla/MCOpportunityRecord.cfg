CHECK_DEADLOCK FALSE
CONSTANTS
  f1 = f1
  f2 = f2
  u1 = u1
  u2 = u2
  u3 = u3
  a1 = a1
  a2 = a2
  c1 = c1
  Ids = {c1}
  Facts = {f1, f2}
  Urls = {u1, u2, u3}
  Addresses = {a1, a2}
  MaxLevel = 1
  None = None
  NoRow = NoRow
  NoAdvice = NoAdvice
  Rulings = {"shortlisted", "discarded"}
  Retention = 0
  MaxLines = 1
  MaxRevision = 5
  MaxDay = 2
  Documents <- MCDocuments
SPECIFICATION Spec
INVARIANTS
  TypeOK
  WatchedExist
  AdviceIsCurrent
  RulingStands
  LatestReportKept
PROPERTY EvidenceNeverWeakens
