CONSTANTS
  Sessions = {"c1"}
  MinChunk = 4
  Script <- MCScriptSetGet
  Pipelined = FALSE
  CloseModes = {"abrupt"}
  Keys <- MCKeys
  Values <- MCValues
  MaxTxnLen = 1
  Hash <- MCHash
SPECIFICATION Spec
CHECK_DEADLOCK FALSE
INVARIANT WellFormedAccepted
