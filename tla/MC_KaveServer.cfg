CONSTANTS
  Sessions = {"c1", "c2"}
  MinChunk = 1
  Script <- MCScript
  Pipelined = FALSE
  CloseModes = {"clean", "abrupt"}
  Keys <- MCKeys
  Values <- MCValues
  MaxTxnLen = 1
  Hash <- MCHash
SPECIFICATION Spec
CHECK_DEADLOCK FALSE
INVARIANT TypeOK
INVARIANT ReaderFaithful
PROPERTY ImplementsService
