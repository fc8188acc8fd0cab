CONSTANTS
  Sessions = {"c1"}
  MinChunk = 256
  Script <- MCScriptNewlineKey
  Pipelined = FALSE
  CloseModes = {"abrupt"}
  Keys <- MCKeysNewline
  Values <- MCValues
  MaxTxnLen = 1
  Hash <- MCHash
SPECIFICATION Spec
CHECK_DEADLOCK FALSE
INVARIANT WellFormedAccepted
