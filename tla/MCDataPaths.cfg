CONSTANTS
  r1 = r1
  r2 = r2
  here = here
  there = there
  agent = agent
  stranger = stranger
  home = home
  other = other
  k = k
  None = None
  Skill = {1, 2, 3}
  Home <- MCHome
  Tagged <- MCTagged
  Rule = {r1, r2}
  Target = {here, there, stranger}
  Body <- MCBodies
  Agent = {agent}
  MaxWrites = 1
  Intervals = {5, 6, 24, 36, 48}
  AtTimes = {0, 9, 23, None}
  MaxHour = 96
  LastSpan = 3
  Agents = {a}
  Service = svc
  Batches = {b1, b2}
  MaxPosts = 3
  Run = {1, 2}
  Handle = {11, 12}
  MaxSends = 1
  Profile = {p, q}
  Unit = {1, 2, 3}
  Limit = 2
  Top = 2
  Threshold = 1
  Worst = 1
  Call = {1, 2}
SPECIFICATION MCSpec
INVARIANTS PromptIsRight TraceIsKept
PROPERTY NextRunIsOnTime
CHECK_DEADLOCK FALSE
