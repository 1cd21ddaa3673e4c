SPECIFICATION FairSpec
CONSTANTS
  Tabs = {t1}
  Jobs = {j1}
  Slots = {s1}
  FirstRun = {}
  OpenJobs = {}
  Remote = {}
  EarlyJobs = {}
  Lossy = TRUE
  MaxLoads = 2
  MaxOutcomes = 3
  t1 = t1
  j1 = j1
  s1 = s1
  NoTab = NoTab
  NoJob = NoJob
PROPERTIES
  JobsEnd
CHECK_DEADLOCK FALSE
