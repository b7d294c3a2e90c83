CONSTANTS
  None = None
  s1 = s1
  base = base
  good = good
  bad = bad
  Run = {base, good, bad}
  Callers = {c1, c2}
  Specs = {s1}
  Definitions <- MCDefinitions
  Modes = {"none"}
  BaseRuns = {base, bad}
  RunData <- MCRunData
  Answers <- MCAnswers
  MaxRows = 2
  MaxLocks = 1
  run1 = run1
  run2 = run2
  span1 = span1
  span2 = span2
  span3 = span3
  handoff = handoff
  attempt = attempt
  task = task
  since = since
  p1 = p1
  p2 = p2
  MaxWrites = 2
SPECIFICATION MCSpec
INVARIANTS
  NumbersIdentify
  ViewsAreRight
PROPERTIES
  RegressionIsProven
  TrustIsKept
SYMMETRY Alike
CHECK_DEADLOCK FALSE
