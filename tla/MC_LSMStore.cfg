CONSTANTS
  Keys = {"k1", "k2", "k3"}
  Values = {"v1", "v2"}
  MaxTxnLen = 2
  Hash <- MCHashDistinct
INIT StoreInit
NEXT StoreNext

PROPERTY StoreRefinesKV
