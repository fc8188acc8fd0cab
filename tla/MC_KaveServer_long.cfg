CONSTANTS
  Sessions = {"c1"}
  MinChunk = 1
  Script <- MCScriptLong
  Pipelined = FALSE
  CloseModes = {"clean", "abrupt", "abandon", "flood"}
  Keys <- MCKeys
  Values <- MCValuesLong
  MaxTxnLen = 1
  Hash <- MCHash
SPECIFICATION FairSpec
CHECK_DEADLOCK FALSE
INVARIANT ReaderFaithful
PROPERTY ImplementsService
PROPERTY ShutdownDrains
