SPECIFICATION FairSpec
CONSTANTS
  Tabs = {t1}
  Jobs = {j1, j2}
  Slots = {s1, s2}
  FirstRun = {}
  OpenJobs = {}
  Remote = {j2}
  EarlyJobs = {}
  Lossy = TRUE
  MaxLoads = 1
  MaxOutcomes = 3
  t1 = t1
  j1 = j1
  j2 = j2
  s1 = s1
  s2 = s2
  NoTab = NoTab
  NoJob = NoJob
PROPERTIES
  JobsEnd
CHECK_DEADLOCK FALSE
