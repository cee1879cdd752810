CONSTANTS
  EventsCount = 16
  Bufid <- Bufs4
  PendingTxCount = 4
  MaxTx = 8
  Handler = "unix"
  HandlerSubmits = TRUE
  IoFailures = FALSE
  ParamsResults <- Loads
  PostResults <- AllPosts
  ApplParams <- KvOnly

SPECIFICATION Spec

INVARIANTS
  TxTypeOK
  OneEventPerTx
  EventTellsProgress
  EventsFit
  NoMemMeansFull

PROPERTIES
  ErrorLeavesNoTx
  ImplementsOutbox
