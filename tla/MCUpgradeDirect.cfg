SPECIFICATION Spec
CONSTANTS
  Addresses = {"adm", "ugo"}
  Admin = "adm"
  Hashes = {"w0", "w1"}
  Genesis = "w0"
  AccessStates <- MCAdminAlone
  Cooldowns = {1}
  Expiries = {1, 2}
  Delays = {0}
  Thresholds = {0}
  Versions = {1}
  MaxSigners = 2
  MaxInstalls = 3
  MaxProposals = 1
  MaxAttests = 2
  MaxTime = 2
  None = None
INVARIANTS
  TypeOK
  ProvenanceFollowsCode
  AttestationsSpentOnce
