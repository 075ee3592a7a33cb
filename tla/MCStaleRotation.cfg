SPECIFICATION Spec
CONSTANTS
  Names = {"ana"}
  Canon <- MCOneCanon
  VerifyNames = {}
  RenameNames = {}
  ChallengeNames = {}
  ReservedNames = {}
  Addresses = {"adm", "ann", "zero"}
  ZeroAddress = "zero"
  Admin = "adm"
  AccessStates <- MCOpen
  BotFlags = {}
  OracleKeys = {}
  Statements = {}
  Proofs = {}
  OracleLists = {}
  RotationTargets = {"ann"}
  Batches = {}
  Proposals = {}
  MaxBatch = 1
  MaxReserved = 2
  ChunkSize = 2
  GenModulus = 2
  U32Max = 2
  MaxPages = 1
  Cooldowns = {}
  RotationDelays = {1}
  ExpiryWindows = {}
  Thresholds = {}
  ChallengeDelay = 1
  ProposalTTL = 1
  MaxTime = 2
  None = None
INVARIANTS
  RotationSignedByHolder
