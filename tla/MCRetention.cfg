CONSTANTS
  r1 = r1
  r2 = r2
  s1 = s1
  s2 = s2
  a1 = a1
  p1 = p1
  c1 = c1
  h1 = h1
  None = None
  Run <- MCRun
  Span <- MCSpan
  RunOf <- MCRunOf
  ReplayOf <- MCReplayOf
  Earlier <- MCEarlier
  Graphs <- MCGraphs
  MaxCites = 1
  Attempt = {a1}
  Replay = {p1}
  Check = {c1}
  Handoff = {h1}
  Board = {"b1"}
  BoardTask = {1, 2}
  Agent = {"ann"}
  Outcome = {"completed", "reclaimed"}
  MaxRows = 3
  MaxImports = 2
  Session = {"s"}
  Id = {"a", "A", "b"}
  MaxRecords = 3
  Base = 16
  MaxBytes = 2
  Fixed = 2
  Limit = 256
  Server = {"s1", "s2"}
  Failure = {"f"}
  MaxLines = 1
  MaxFaults = 1
  Caller = {put, other}
  Profile = {p, q}
  Installed = {"codex"}
  Adapter = {"x", "y"}
  Url = {u, v}
  Dir = {d}
  MaxEdits = 1
  MaxCalls = 2
  MaxRegistrations = 3
SPECIFICATION MCSpec
INVARIANTS
  ImportsAreWhole
  AgentsAreAccountedFor
PROPERTY CitedEvidenceSurvives
CHECK_DEADLOCK FALSE
