CONSTANTS
  conflict = conflict
  cluster = cluster
  f1 = f1
  f2 = f2
  Absent = Absent
  NoItem = NoItem
  None = None
  p1 = p1
  p2 = p2
  Items = {conflict, cluster}
  Facts = {f1}
  Clusters = {cluster}
  Refreshers = {p1}
  Decisions = {"pending", "accepted", "rejected", "needs_follow_up"}
  KindOf <- MCKindOf
SPECIFICATION Spec
PROPERTY ReopenedOnlyByChange
