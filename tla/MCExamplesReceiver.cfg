CONSTANTS
  Programs <- BothPrograms
  NoKey = NoKey
  Empty = Empty
  MaxKeys = 2
  MaxTx = 2

SPECIFICATION Spec

INVARIANTS
  PaysBob
