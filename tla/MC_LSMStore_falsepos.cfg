CONSTANTS
  Keys = {"k1", "k2", "k3"}
  Values = {"v1"}
  MaxTxnLen = 2
  Hash <- MCHashOverlap
INIT StoreInit
NEXT StoreNext
INVARIANT GetNeverPanics
