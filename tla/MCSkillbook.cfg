CONSTANTS
  None = None
  issue1 = issue1
  skill1 = skill1
  rule1 = rule1
  p1 = p1
  p2 = p2
  t0 = t0
  t1 = t1
  Skills = {issue1, skill1}
  Rules = {rule1}
  Proposals = {p1, p2}
  Callers = {c1, c2}
  Text = {t0, t1}
  InitialEntries <- MCInitialEntries
  Changes <- MCChanges
  Origin <- MCOrigin
  MaxRevisions = 4
  Skill = {"s1", "s2"}
  AceText = {"a", "b", "blank"}
  Written = "a"
  Blank = "blank"
  Section = {"context", "other"}
  Trace = {"t1", "t2"}
  Cited = {"t1"}
  Fallback = {}
  MaxRuns = 2
  MaxEdits = 2
  MaxOthers = 1
SPECIFICATION MCSpec
INVARIANTS
  LogExplainsEntries
  AppliedWholeOrNotAtAll
  StateAgreesWithLog
  BeforeContinuesLog
  RolledBackWasUndone
  EditsComeBack
SYMMETRY CallersAlike
PROPERTIES
  ApplyRespectsLocks
  LifecycleRefined
