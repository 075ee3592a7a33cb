SPECIFICATION FeedSpec
CONSTANTS
  Names <- MCTwoNames
  Canon <- MCTwoCanon
  VerifyNames = {}
  RenameNames = {}
  ChallengeNames = {}
  ReservedNames = {}
  Addresses = {"adm", "ann"}
  ZeroAddress = "zero"
  Admin = "adm"
  AccessStates <- MCSecondAdmin
  BotFlags = {}
  OracleKeys = {}
  Statements = {}
  Proofs = {}
  OracleLists = {}
  RotationTargets = {}
  Batches <- MCTwoBatches
  Proposals <- MCPair
  MaxBatch = 2
  MaxReserved = 2
  ChunkSize = 3
  GenModulus = 3
  U32Max = 2
  MaxPages = 1
  Cooldowns = {}
  RotationDelays = {}
  ExpiryWindows = {1}
  Thresholds = {1}
  ChallengeDelay = 1
  ProposalTTL = 1
  MaxTime = 2
  None = None
INVARIANTS
  CountersMatchRecords
  EverCoversVerified
  EventsTellRecords
PROPERTIES
  BulkRemovalNeedsProposal
