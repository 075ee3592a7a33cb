SPECIFICATION FeedSpec
CONSTANTS
  Names = {"ana", "bo"}
  Canon <- MCTwoPlain
  VerifyNames = {"ana", "bo"}
  RenameNames = {"ana", "bo"}
  ChallengeNames = {"ana"}
  ReservedNames = {}
  Addresses = {"adm", "ann", "zero"}
  ZeroAddress = "zero"
  Admin = "adm"
  AccessStates <- MCAccess
  BotFlags = {TRUE}
  OracleKeys = {}
  Statements = {}
  Proofs = {}
  OracleLists = {}
  RotationTargets = {"ann"}
  Batches = {}
  Proposals = {}
  MaxBatch = 1
  MaxReserved = 2
  ChunkSize = 3
  GenModulus = 2
  U32Max = 2
  MaxPages = 1
  Cooldowns = {}
  RotationDelays = {}
  ExpiryWindows = {}
  Thresholds = {}
  ChallengeDelay = 0
  ProposalTTL = 1
  MaxTime = 1
  None = None
INVARIANTS
  ReverifyFlagsAreLive
  EventsTellRecords
PROPERTIES
  VerificationBoundToHolder
  RemovalSparesOthers
  ImplementsAbstract
