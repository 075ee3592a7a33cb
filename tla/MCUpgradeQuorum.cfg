SPECIFICATION Spec
CONSTANTS
  Addresses = {"adm", "ugo", "uma"}
  Admin = "adm"
  Hashes = {"w0", "w1"}
  Genesis = "w0"
  AccessStates <- MCTwoUpgraders
  Cooldowns = {}
  Expiries = {}
  Delays = {1}
  Thresholds = {0, 2}
  Versions = {}
  MaxSigners = 2
  MaxInstalls = 1
  MaxProposals = 2
  MaxAttests = 1
  MaxTime = 1
  None = None
INVARIANTS
  ApprovalsMeantThisHash
  IdsNameOneHash
PROPERTIES
  QuorumMeantThisHash
