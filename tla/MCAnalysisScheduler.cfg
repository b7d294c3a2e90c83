CONSTANTS
  None = None
  Profile = Profile
  t1 = t1
  t2 = t2
  s1 = s1
  s2 = s2
  Server = server
  Processes = {server, c1, c2}
  Traces = {t1, t2}
  MaxTime = 2
  Schedules = {s1}
  Judges = {}
  Requests <- MCRequests
  CorpusLimit = 2
  MaxQueue = 0
  MaxTrouble = 2
SPECIFICATION MCSpec
INVARIANTS
  LossIsExplained
  CancelStopsTheOperator
SYMMETRY BothAlike
CHECK_DEADLOCK FALSE
