CONSTANTS
  testnet = testnet
  mainnet = mainnet
  None = None
  NoJson = NoJson
  Long = Long
  Nets <- OneNet
  MaxRound = 1
  MaxPosts = 1
  Ports <- CurlPort
  Chunked = FALSE

SPECIFICATION Spec

INVARIANTS
  OfflineParamsUsable
