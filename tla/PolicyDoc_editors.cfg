SPECIFICATION FairSpec
CONSTANTS
  Pages = {p1, p2}
  VisualPages = {p2}
  Requests = {r1, r2}
  MaxSeqNo = 2
  MaxEdits = 2
  Null = Null
  NoPage = NoPage
  p1 = p1
  p2 = p2
  r1 = r1
  r2 = r2
INVARIANTS
  TypeOK
  WroteOnce
  VersionInv
PROPERTIES
  NoLostUpdate
  NoRevival
  Settles
CHECK_DEADLOCK FALSE
