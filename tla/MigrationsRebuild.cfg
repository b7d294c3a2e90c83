CONSTANTS
  Server = server
  Process = {server}
  Row = {k1, k2}
  First = {k1}
  Versions = {0, 14, 30, 31, 33, 34}
  MaxCrashes = 1
SPECIFICATION Spec
INVARIANT RebuildPreservesRows
