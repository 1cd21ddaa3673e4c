SPECIFICATION Spec
CONSTANTS
  Tabs = {t1}
  Jobs = {j1}
  Slots = {s1, s2, s3}
  FirstRun = {}
  OpenJobs = {}
  Remote = {j1}
  EarlyJobs = {}
  Lossy = FALSE
  MaxLoads = 1
  MaxOutcomes = 3
  t1 = t1
  j1 = j1
  s1 = s1
  s2 = s2
  s3 = s3
  NoTab = NoTab
  NoJob = NoJob
SYMMETRY SlotSymmetry
INVARIANTS
  HonestTimeout
CHECK_DEADLOCK FALSE
