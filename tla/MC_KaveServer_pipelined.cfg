CONSTANTS
  Sessions = {"c1"}
  MinChunk = 1
  Script <- MCScriptSetGet
  Pipelined = TRUE
  CloseModes = {"abrupt"}
  Keys <- MCKeys
  Values <- MCValues
  MaxTxnLen = 1
  Hash <- MCHash
SPECIFICATION Spec
CHECK_DEADLOCK FALSE
INVARIANT ReaderFaithful
