CONSTANTS
  EventsCount = 4
  Bufid <- Bufs4
  PendingTxCount = 4
  MaxTx = 6
  Handler = "unix"
  HandlerSubmits = FALSE
  IoFailures = TRUE
  ParamsResults <- LoadsOrNot
  PostResults <- AllPosts
  ApplParams <- KvOrNull

SPECIFICATION Spec

INVARIANTS
  NoMemExactlyAtCapacity
  PostedIsSigned
  PostedIsTracked

PROPERTY ImplementsFifo

CHECK_DEADLOCK FALSE
