CONSTANTS
  None = None
  p1 = p1
  p2 = p2
  w1 = w1
  w2 = w2
  Issues <- MCOneIssue
  Proposals = {p1, p2}
  Workers = {w1}
  Monitors = {m1}
  Signatures = {s1}
  Traces = {t1}
  Section <- MCContext
  RecurrenceThreshold = 2
  RegressionThreshold = 1
  MaxAttempts = 1
  HandStatuses = {"dismissed"}
  Severities = {TRUE}
  MaxObserved = 3
SPECIFICATION Spec
INVARIANTS
  WatermarkFollowsApply
  NeverAcceptedOnASingleOccurrence
  RegressionIsConfirmed
PROPERTIES
  RetriesAreBounded
  LifecycleRefined
SYMMETRY FixesAlike
