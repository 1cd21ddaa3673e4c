SPECIFICATION Spec
CONSTANTS
  Tabs = {t1}
  Jobs = {j1, j2}
  Slots = {s1, s2, s3, s4}
  FirstRun = {j1}
  OpenJobs = {j2}
  Remote = {}
  EarlyJobs = {j2}
  Lossy = FALSE
  MaxLoads = 2
  MaxOutcomes = 3
  t1 = t1
  j1 = j1
  j2 = j2
  s1 = s1
  s2 = s2
  s3 = s3
  s4 = s4
  NoTab = NoTab
  NoJob = NoJob
SYMMETRY SlotSymmetry
INVARIANTS
  TypeOK
  OnePoll
  NoStaledAtRest
  StoredIsWatched
  OneTabInv
PROPERTIES
  Promise
CHECK_DEADLOCK FALSE
