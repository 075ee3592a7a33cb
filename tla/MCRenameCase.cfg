SPECIFICATION Spec
CONSTANTS
  Names = {"ana", "Ana"}
  Canon <- MCSpellings
  VerifyNames = {}
  RenameNames = {"Ana"}
  ChallengeNames = {}
  ReservedNames = {}
  Addresses = {"adm", "ann", "zero"}
  ZeroAddress = "zero"
  Admin = "adm"
  AccessStates <- MCOpen
  BotFlags = {}
  OracleKeys = {}
  Statements = {}
  Proofs = {}
  OracleLists = {}
  RotationTargets = {}
  Batches = {}
  Proposals = {}
  MaxBatch = 1
  MaxReserved = 2
  ChunkSize = 2
  GenModulus = 2
  U32Max = 2
  MaxPages = 1
  Cooldowns = {}
  RotationDelays = {}
  ExpiryWindows = {}
  Thresholds = {}
  ChallengeDelay = 1
  ProposalTTL = 1
  MaxTime = 2
  None = None
INVARIANTS
  CountersMatchRecords
