CONSTANTS
  EventsCount = 8
  Bufid <- Bufs3
  PendingTxCount = 3
  MaxTx = 4
  Handler = "esp32"
  HandlerSubmits = TRUE
  IoFailures = FALSE
  ParamsResults <- LoadsOrNot
  PostResults <- NothingLost
  ApplParams <- KvOnly

SPECIFICATION FairSpec

PROPERTIES
  ImplementsOutbox
  EveryEventProcessed
  EveryTxRetired
