CONSTANTS
  Sessions = {"c1", "c2"}
  MinChunk = 4
  Script <- MCScriptLive
  Pipelined = FALSE
  CloseModes = {"abrupt"}
  Keys <- MCKeys
  Values <- MCValues
  MaxTxnLen = 1
  Hash <- MCHash
SPECIFICATION FairSpec
CHECK_DEADLOCK FALSE
PROPERTY EveryRequestAnswered
PROPERTY ClosedSessionsEnd
PROPERTY ShutdownDrains
