CONSTANTS
  None = None
  Callers = {dashboard, cli}
  Web = {dashboard}
  Pid = {p1, p2}
  MaxForeign = 1
  MaxTrouble = 1
  Caller = {0}
  Proposal = {1, 2}
  Section = {"context", "harness"}
  RunStatus = {"failed"}
  Answers <- MCOutputs
  Turn = {1, 2}
  Span = {1, 2}
  FailedSpan = {2}
  Signature = {1, 2}
  Entries = {1, 2, 3}
  MaxRetries = 1
  Blob = {b1, b2}
  Client = {put, other}
  MaxCrashes = 1
SPECIFICATION MCSpec
INVARIANTS
  StateFileKnowsTheServer
  TurnsAreAccountedFor
  RowsHaveFiles
PROPERTY
  StopReturns
  ReviewIsNotReplaced
