CONSTANTS
  Server = server
  Process = {cli, server}
  Row = {k1, k2}
  First = {k1}
  Versions = {0, 14, 30, 31, 33, 34}
  MaxCrashes = 2
  NoStream = NoStream
  Writers = {w1, w2}
  Remote = {}
  Streams = {s1}
  Times = {1}
  QueueMax = 1
  MaxEvents = 3
  MaxMounts = 1
  MaxBreaks = 0
SPECIFICATION MCSpec
INVARIANT RowsAreAccountedFor
PROPERTIES
  UpgradeCompletes
  IngestReturns
