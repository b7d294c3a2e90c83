CONSTANTS
  None = None
  Profile = Profile
  t1 = t1
  t2 = t2
  s1 = s1
  s2 = s2
  Server = server
  Processes = {server}
  Traces = {t1, t2}
  MaxTime = 1
  Schedules = {s1}
  Judges = {}
  Requests <- MCNone
  CorpusLimit = 2
  MaxQueue = 1
  MaxTrouble = 1
SPECIFICATION MCFairSpec
PROPERTY
  TraceIsAnalyzed
CHECK_DEADLOCK FALSE
