CONSTANTS
  NoStream = NoStream
  Writers = {w1, w2, cli}
  Remote = {cli}
  Streams = {s1}
  Times = {1, 2}
  QueueMax = 1
  MaxEvents = 3
  MaxMounts = 1
  MaxBreaks = 1
SPECIFICATION LiveSafeSpec
INVARIANT TailTellsTheRun
SYMMETRY WritersAlike
