SPECIFICATION Spec
CONSTANTS
  Tabs = {t1, t2}
  Jobs = {j1, j2}
  Slots = {s1, s2}
  FirstRun = {}
  OpenJobs = {}
  Remote = {}
  EarlyJobs = {}
  Lossy = FALSE
  MaxLoads = 1
  MaxOutcomes = 1
  t1 = t1
  t2 = t2
  j1 = j1
  j2 = j2
  s1 = s1
  s2 = s2
  NoTab = NoTab
  NoJob = NoJob
SYMMETRY AllSymmetry
INVARIANTS
  ArmedTracked
  HonestTimeout
CHECK_DEADLOCK FALSE
