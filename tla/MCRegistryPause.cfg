SPECIFICATION FeedSpec
CONSTANTS
  Names = {"ana"}
  Canon <- MCOneCanon
  VerifyNames = {"ana"}
  RenameNames = {}
  ChallengeNames = {"ana"}
  ReservedNames = {"ana"}
  Addresses = {"adm", "ann", "zero"}
  ZeroAddress = "zero"
  Admin = "adm"
  AccessStates <- MCAccess
  BotFlags = {}
  OracleKeys = {"k1", "k2"}
  Statements <- MCStatements
  Proofs <- MCProofs
  OracleLists = {{"k1"}}
  RotationTargets = {"ann", "zero"}
  Batches <- MCOneBatches
  Proposals <- MCOneBatches
  MaxBatch = 1
  MaxReserved = 2
  ChunkSize = 2
  GenModulus = 2
  U32Max = 1
  MaxPages = 1
  Cooldowns = {1}
  RotationDelays = {1}
  ExpiryWindows = {1}
  Thresholds = {}
  ChallengeDelay = 1
  ProposalTTL = 1
  MaxTime = 2
  None = None
INVARIANTS
  NoBurnHolder
PROPERTIES
  PauseFreezesRecords
  ProofGrantsAreBacked
