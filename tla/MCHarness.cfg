CONSTANTS
  None = None
  Absent = Absent
  AnyContent = AnyContent
  p1 = p1
  t1 = t1
  t2 = t2
  c1 = c1
  c2 = c2
  a = a
  b = b
  Callers = {c1, c2}
  Proposals = {p1}
  Patches = {t1, t2}
  Plan <- MCPlan
  Files <- MCFiles
  Paths = {a, b}
  Contents = {"old", "new", "newer", "mine"}
  InitialTrees <- MCTrees
  DirtyPolicy = "allow_touched_only"
  Repository = TRUE
  Ignored = {a}
  Lockable = {b}
  Foreign = {"mine"}
  MaxEdits = 1
  Text = {x, d}
  Dashed = {d}
  MaxFile = 3
  MaxStart = 3
  MaxBody = 2
  MaxHunks = 2
  Refused = Refused
  Operator = {"codex", "claude"}
  LiveDir = {"live"}
  FailureDir = {f1, f2}
  Result = {"pass", "fail"}
  MaxSmokes = 2
SPECIFICATION MCSpec
INVARIANTS
  AppliedLeavesNothingReady
  DiffIsAppliedAsMeant
  EvidenceIsEarned
PROPERTIES
  RecordedIsOnDisk
  OverwritesCommittedOnly
SYMMETRY Alike
