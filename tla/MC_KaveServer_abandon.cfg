CONSTANTS
  Sessions = {"c1"}
  MinChunk = 1
  Script <- MCScriptSetGet
  Pipelined = FALSE
  CloseModes = {"abandon"}
  Keys <- MCKeys
  Values <- MCValues
  MaxTxnLen = 1
  Hash <- MCHash
SPECIFICATION FairSpec
CHECK_DEADLOCK FALSE
PROPERTY ClosedSessionsEnd
