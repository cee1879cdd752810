CONSTANTS
  EventsCount = 4
  Bufid <- Bufs2
  PendingTxCount = 2
  MaxTx = 4
  Handler = "unix"
  HandlerSubmits = FALSE
  IoFailures = FALSE
  ParamsResults <- LoadsOrNot
  PostResults <- PostsWork
  ApplParams <- KvOnly

SPECIFICATION Spec

INVARIANTS
  BodyLengthMeansPending
