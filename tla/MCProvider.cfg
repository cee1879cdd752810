CONSTANTS
  testnet = testnet
  mainnet = mainnet
  None = None
  NoJson = NoJson
  Long = Long
  Nets <- TwoNets
  MaxRound = 1
  MaxPosts = 1
  Ports <- BothPorts
  Chunked = TRUE

SPECIFICATION Spec

SYMMETRY NetSymmetry

INVARIANTS
  ProviderTypeOK
  IdIsOwn
  SuccessMeansFetched
  HashIsNotAnothers
  HashOnceVersioned
  ReusedAreOfNet

PROPERTIES
  WindowMovesForward
