CONSTANTS
  EventsCount = 4
  Bufid <- Bufs2
  PendingTxCount = 2
  MaxTx = 1
  Handler = "unix"
  HandlerSubmits = FALSE
  IoFailures = TRUE
  ParamsResults <- Loads
  PostResults <- PostsWork
  ApplParams <- KvOnly

SPECIFICATION FairSpec

PROPERTIES
  EveryEventProcessed
