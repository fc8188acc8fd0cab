CONSTANTS
  Sessions = {"c1"}
  MinChunk = 256
  Script <- MCScriptSetGet
  Pipelined = FALSE
  CloseModes = {"clean"}
  Keys <- MCKeys
  Values <- MCValues
  MaxTxnLen = 1
  Hash <- MCHash
SPECIFICATION Spec
CHECK_DEADLOCK FALSE
INVARIANT WellFormedAccepted
