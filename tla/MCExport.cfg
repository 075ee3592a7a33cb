SPECIFICATION ExportSpec
CONSTANTS
  Names = {"ana", "bo", "cy"}
  Canon <- MCPlainCanon
  VerifyNames = {"ana"}
  RenameNames = {"cy"}
  ChallengeNames = {}
  ReservedNames = {}
  Addresses = {"adm", "zero"}
  ZeroAddress = "zero"
  Admin = "adm"
  AccessStates <- MCAlwaysOpen
  BotFlags = {}
  OracleKeys = {}
  Statements = {}
  Proofs = {}
  OracleLists = {}
  RotationTargets = {}
  Batches <- MCPair
  Proposals = {}
  MaxBatch = 2
  MaxReserved = 2
  ChunkSize = 2
  GenModulus = 3
  U32Max = 3
  MaxPages = 3
  Cooldowns = {}
  RotationDelays = {}
  ExpiryWindows = {}
  Thresholds = {}
  ChallengeDelay = 1
  ProposalTTL = 1
  MaxTime = 1
  None = None
  PageLimits = {0, 4}
  DefaultLimit = 1
  MaxLimit = 3
INVARIANTS
  TypeOK
  IndexMatchesRecords
  PagesMatchIndex
  AcceptedCursorMarksPrefix
  ExportsAgree
  ReadsAgree
  RootsProveEntries
PROPERTIES
  CursorsStayValid
  FinishedExportIsComplete
  ExportFinishes
