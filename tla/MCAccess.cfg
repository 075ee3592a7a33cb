SPECIFICATION Spec
CONSTANTS
  ann = ann
  bob = bob
  Addresses = {Admin, ann, bob}
  Admin = Admin
  Guardians = {ann}
  Targets = {ann}
  GrantedRoles = {"Verifier", "Revoker"}
  Expiries = {0, 1}
  RoleDelays = {0, 1}
  Limits = {0, 1}
  DefaultLimit = 2
  CallSizes = {1, 2}
  MaxVerifiers = 1
  MaxRolePage = 2
  MaxTime = 1
  None = None
  Listees = {ann, bob}
INVARIANTS
  TypeOK
  RoleStoreConsistent
  AllowlistBounded
PROPERTIES
  RateLimited
  AuthorityNeedsGrant
  PrivilegedGrantsWait
