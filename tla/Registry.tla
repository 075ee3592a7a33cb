------------------------------ MODULE Registry ------------------------------
(***************************************************************************)
(* The contributor registry of the TrustBridge contract: the records that  *)
(* bind a GitHub username to a Stellar address, the counters and the two   *)
(* username indexes kept beside them, and every entry point that writes    *)
(* them (registration, verification, rename, removal, address rotation,    *)
(* challenges, dual-controlled batch removal, compaction and repair).      *)
(*                                                                         *)
(* One action is one contract invocation.  The Soroban host applies an     *)
(* invocation atomically and discards every write of one that returns an   *)
(* error, so a call that fails any check is no step at all: the checks are *)
(* the guards of the action.  What interleaves is the invocations of       *)
(* different callers, the passing of ledger time, and changes of the       *)
(* pause switches and roles, which this module sees only through `access'. *)
(*                                                                         *)
(* Usernames arrive as spellings.  Storage folds most keys to lower case   *)
(* (storage.rs, canon) but not all of them; Canon is that fold, and an     *)
(* operator that indexes by a spelling does so because the code does.      *)
(***************************************************************************)
EXTENDS Listing, Oracle

CONSTANTS
  Names,           \* spellings of valid usernames that callers submit
  Canon,           \* Canon[n]: the lower-case fold of the spelling n
  VerifyNames,     \* spellings passed to the verification entry points
  RenameNames,     \* spellings passed to rename as the new name
  ChallengeNames,  \* spellings passed to the challenge entry points
  ReservedNames,   \* spellings passed to add_reserved / remove_reserved
  Addresses,       \* Stellar addresses, the admin and the burn address included
  ZeroAddress,     \* the burn address
  Admin,           \* the contract admin, fixed by initialize
  AccessStates,    \* the pause/role situations the access layer can be in
  BotFlags,        \* values passed to set_bot_status
  OracleLists,     \* key sets passed to set_oracle_allowlist
  RotationTargets, \* new addresses passed to request_address_rotation
  Batches,         \* username lists passed to batch_verify and batch_remove
  Proposals,       \* username lists passed to propose_batch_remove
  MaxBatch,        \* MAX_WRITE_BATCH
  MaxReserved,     \* MAX_RESERVED
  ChunkSize,       \* CHUNK_SIZE, entries per page of the chunked index
  GenModulus,      \* 2^32, where the index generation wraps
  U32Max,          \* 2^32 - 1, where the counters saturate
  MaxPages,        \* 2^32 - 1, past which chunk_cnt + 1 would trap
  Cooldowns,       \* values passed to set_cooldown
  RotationDelays,  \* values passed to set_rotation_delay
  ExpiryWindows,   \* values passed to config_verification as expires_in
  Thresholds,      \* values passed to set_batch_remove_threshold
  ChallengeDelay,  \* DEFAULT_CHALLENGE_DELAY_SECS
  ProposalTTL,     \* BATCH_REMOVE_PROPOSAL_TTL_SECS
  MaxTime,         \* bound on ledger time
  None             \* an absent storage entry

(* The storage keys: the folded usernames. *)
Keys == {Canon[n] : n \in Names}

Access == [open : BOOLEAN, verifiers : SUBSET Addresses,
           revokers : SUBSET Addresses, admins : SUBSET Addresses]

ASSUME NamesAssumption ==
  /\ IsFiniteSet(Names)
  /\ Canon \in [Names -> Names]
  /\ \A n \in Names : Canon[Canon[n]] = Canon[n]
  /\ VerifyNames \cup RenameNames \cup ChallengeNames \cup ReservedNames
       \subseteq Names

ASSUME CallersAssumption ==
  /\ Admin \in Addresses
  /\ AccessStates \subseteq Access
  /\ BotFlags \subseteq BOOLEAN
  /\ OracleLists \subseteq SUBSET OracleKeys
  /\ RotationTargets \subseteq Addresses
  /\ Batches \cup Proposals \subseteq Seq(Names)
  /\ MaxBatch \in Nat
  /\ \A b \in Batches \cup Proposals : Len(b) \in 1 .. MaxBatch

ASSUME NumbersAssumption ==
  /\ ChunkSize \in Nat \ {0}
  /\ GenModulus \in Nat /\ GenModulus > MaxBatch /\ GenModulus > 1
  /\ U32Max \in Nat /\ Cardinality(Keys) <= U32Max
  /\ MaxPages \in Nat /\ MaxReserved \in Nat
  /\ Cooldowns \subseteq Nat /\ RotationDelays \subseteq Nat
  /\ ExpiryWindows \subseteq Nat /\ Thresholds \subseteq Nat
  /\ ChallengeDelay \in Nat /\ ProposalTTL \in Nat /\ MaxTime \in Nat

Record == [addr : Addresses, payout : Addresses, verified : BOOLEAN, bot : BOOLEAN]

Rotation == [to : Addresses, at : Nat, holder : Addresses]

Proposal == [names : Proposals, by : Addresses, at : Nat]

ASSUME NoneAssumption ==
  None \notin Record \cup Rotation \cup Proposal \cup Nat \cup Addresses

VARIABLES
  rec,         \* REG_KEY: the record of each key, or None
  count,       \* COUNT_KEY: live registrations
  vcount,      \* VCOUNT_KEY: verified registrations
  ever,        \* EVER_VCOUNT_KEY: verifications ever granted
  index,       \* INDEX_KEY: the flat username index
  chunks,      \* CHUNK_KEY pages, in page order
  gen,         \* INDEX_GEN_KEY: generation of the flat index
  reverify,    \* PENDING_REVERIFY_KEY: keys flagged for re-verification
  verifiedAt,  \* VERIFIED_AT_KEY: grant time, stored per SPELLING
  lastAct,     \* LAST_ACT_KEY: last registration time of a key, 0 if none
  challenge,   \* CHALLENGE_KEY: resolve_after of an open challenge, or None
  rotation,    \* PENDING_ROT_KEY: the queued address rotation, or None
  reserved,    \* RESERVED_KEY: the reserved keys
  proposal,    \* PENDING_BATCH_REMOVE_KEY: the proposed batch removal, or None
  oracles,     \* ORACLE_ALLOWLIST_KEY: the keys whose proofs count
  cfg,         \* cooldown, rotation delay, expiry window, batch threshold
  access,      \* pause state and role holders, owned by the access layer
  now          \* ledger time

registry == <<rec, count, vcount, ever, index, chunks, gen, reverify>>
timers   == <<verifiedAt, lastAct, challenge, rotation>>
control  == <<reserved, proposal, oracles, cfg, access, now>>
vars     == <<registry, timers, control>>

Config == [cooldown : Nat, rotDelay : Nat, expiresIn : Nat \cup {None}, threshold : Nat]

TypeOK ==
  /\ rec \in [Keys -> Record \cup {None}]
  /\ count \in Nat /\ vcount \in Nat /\ ever \in Nat
  /\ index \in Seq(Keys)
  /\ chunks \in Seq(Seq(Keys))
  /\ gen \in Nat /\ gen < GenModulus
  /\ reverify \subseteq Keys
  /\ verifiedAt \in [Names -> Nat \cup {None}]
  /\ lastAct \in [Keys -> Nat]
  /\ challenge \in [Keys -> Nat \cup {None}]
  /\ rotation \in [Keys -> Rotation \cup {None}]
  /\ reserved \subseteq Keys
  /\ proposal \in Proposal \cup {None}
  /\ oracles \subseteq OracleKeys
  /\ cfg \in Config
  /\ access \in AccessStates
  /\ now \in Nat

Init ==
  /\ rec = [k \in Keys |-> None]
  /\ count = 0 /\ vcount = 0 /\ ever = 0
  /\ index = <<>> /\ chunks = <<>> /\ gen = 0
  /\ reverify = {}
  /\ verifiedAt = [n \in Names |-> None]
  /\ lastAct = [k \in Keys |-> 0]
  /\ challenge = [k \in Keys |-> None]
  /\ rotation = [k \in Keys |-> None]
  /\ reserved = {} /\ proposal = None /\ oracles = {}
  /\ cfg = [cooldown |-> 0, rotDelay |-> 0, expiresIn |-> None, threshold |-> 0]
  /\ access \in AccessStates
  /\ now = 1

-----------------------------------------------------------------------------
(* Helpers of storage.rs. *)

Live == {k \in Keys : rec[k] # None}

VerifiedKeys == {k \in Keys : rec[k] # None /\ rec[k].verified}

NeverTaken(n) == FALSE  \* mutant: rename without the taken-name check

(* The storage probe of has_record uses the spelling itself as the key. *)
HasRecord(n) == n \in Keys /\ rec[n] # None

SatAdd(a, b) == IF a + b <= U32Max THEN a + b ELSE U32Max

SatSub(a, b) == IF b <= a THEN a - b ELSE 0

AddToChunks(ch, k) ==
  IF ch = <<>> \/ Len(ch[Len(ch)]) >= ChunkSize
    THEN Append(ch, <<k>>)
    ELSE [ch EXCEPT ![Len(ch)] = Append(ch[Len(ch)], k)]

(* add_to_index traps, and the call fails, when the page counter overflows. *)
CanAddPage(k) == Len(AddToChunks(chunks, k)) <= MaxPages

LastPage(ch, c, k) == c = Len(ch)  \* mutant: only the last page is searched

(* Each key leaves only the first page that lists it; empty pages stay. *)
FirstPage(ch, c, k) == \A b \in 1 .. c - 1 : k \notin Entries(ch[b])

DropFromChunks(ch, X) ==
  [c \in DOMAIN ch |-> Without(ch[c], {k \in X : FirstPage(ch, c, k)})]

NoWrap(r) == gen + r  \* mutant: the generation does not wrap

NoBump(r) == gen  \* mutant: removal keeps the generation

BumpGen(r) == (gen + r) % GenModulus

InCooldown(k) ==
  /\ cfg.cooldown # 0
  /\ lastAct[k] # 0
  /\ now < lastAct[k] + cfg.cooldown

(* is_verification_expired reads the grant time under the spelling given. *)
Expired(n) ==
  /\ cfg.expiresIn \notin {None, 0}
  /\ verifiedAt[n] # None
  /\ now >= verifiedAt[n] + cfg.expiresIn

VerificationActive(n) == Canon[n] \in VerifiedKeys /\ ~Expired(n)

HolderOrAdmin(c, k) == rec[k] # None /\ c \in {Admin, rec[k].addr}

DualControl(len) == cfg.threshold > 0 /\ len > cfg.threshold

ProposalExpired == proposal # None /\ now >= proposal.at + ProposalTTL

-----------------------------------------------------------------------------
(* Registration.  stellar_address, the fallbacks and, when the address     *)
(* changes, the previous holder must sign: any of them can, so the         *)
(* signatures restrict no step.                                            *)

AnyAddress(a) == TRUE  \* mutant: no burn-address check

Bindable(a) == a # ZeroAddress

KeepsAlways(k, a) == rec[k] # None /\ rec[k].verified  \* mutant: holder not compared

(* Verification carries over only to the same address. *)
KeepsVerification(k, a) == rec[k] # None /\ rec[k].addr = a /\ rec[k].verified

(* The record and bookkeeping register and register_sponsored both write. *)
WriteRegistration(k, a) ==
  LET fresh == rec[k] = None
      lost  == ~fresh /\ rec[k].addr # a /\ rec[k].verified
  IN /\ fresh => CanAddPage(k)
     /\ rec' = [rec EXCEPT ![k] =
                  [addr     |-> a,
                   payout   |-> IF fresh THEN a ELSE rec[k].payout,
                   verified |-> KeepsVerification(k, a),
                   bot      |-> ~fresh /\ rec[k].bot]]
     /\ count'  = IF fresh THEN SatAdd(count, 1) ELSE count
     /\ index'  = IF fresh THEN Append(index, k) ELSE index
     /\ chunks' = IF fresh THEN AddToChunks(chunks, k) ELSE chunks
     /\ vcount' = IF lost THEN SatSub(vcount, 1) ELSE vcount
     /\ reverify' = IF lost THEN reverify \cup {k} ELSE reverify
     /\ lastAct' = [lastAct EXCEPT ![k] = now]
     /\ UNCHANGED <<ever, gen, verifiedAt, challenge, rotation, control>>

Register(n, a) ==
  LET k == Canon[n] IN
  /\ access.open
  /\ Bindable(a)
  /\ k \notin reserved
  /\ challenge[k] = None
  /\ ~InCooldown(k)
  /\ rec[k] # None /\ rec[k].addr # a => cfg.rotDelay = 0
  /\ WriteRegistration(k, a)

(* register_sponsored checks neither the reserved list nor the delay. *)
RegisterSponsored(n, a) ==
  LET k == Canon[n] IN
  /\ access.open
  /\ Bindable(a)
  /\ challenge[k] = None
  /\ ~InCooldown(k)
  /\ WriteRegistration(k, a)

-----------------------------------------------------------------------------
(* Verification. *)

MayVerify(c) == c = Admin \/ c \in access.verifiers

MayRevoke(c) == c = Admin \/ c \in access.revokers

(* mutant: every listed spelling is counted *)
FlipsPerName(N) == Cardinality({n \in N : Canon[n] \notin VerifiedKeys})

(* Records that the grant takes from unverified to verified: each one      *)
(* once, however many of its spellings are listed.                         *)
Flips(N) == Cardinality({Canon[n] : n \in N} \ VerifiedKeys)

BumpOnce(r) == SatAdd(ever, IF r > 0 THEN 1 ELSE 0)  \* mutant: once per batch

BumpEver(r) == SatAdd(ever, r)

(* Grants verification to the spellings in N and stamps the grant times.   *)
(* Only a false-to-true flip of a record moves the counters.               *)
GrantVerification(N) ==
  LET granted == {Canon[n] : n \in N} IN
  /\ rec' = [k \in Keys |->
               IF k \in granted THEN [rec[k] EXCEPT !.verified = TRUE] ELSE rec[k]]
  /\ verifiedAt' = [n \in Names |-> IF n \in N THEN now ELSE verifiedAt[n]]
  /\ vcount' = SatAdd(vcount, Flips(N))
  /\ ever' = BumpEver(Flips(N))
  /\ reverify' = reverify \ granted
  /\ UNCHANGED <<count, index, chunks, gen, lastAct, challenge, rotation, control>>

Verifiable(n) ==
  /\ rec[Canon[n]] # None
  /\ rec[Canon[n]].addr # ZeroAddress
  /\ ~VerificationActive(n)

VerifyUngated(c, n) ==  \* mutant: no pause check
  MayVerify(c) /\ Verifiable(n) /\ GrantVerification({n})

Verify(c, n) ==
  /\ access.open
  /\ MayVerify(c)
  /\ Verifiable(n)
  /\ GrantVerification({n})

(* The holder submits an oracle's proof.  There is no nonce: a proof is    *)
(* good for as long as its statement holds and is in time.                 *)
VerifyWithOracleProof(n, p) ==
  /\ access.open
  /\ Verifiable(n)
  /\ VerifyOwnershipProof(p, n, rec[Canon[n]].addr, oracles, now)
  /\ GrantVerification({n})

BatchVerify(c, b) ==
  /\ access.open
  /\ MayVerify(c)
  /\ GrantVerification({n \in Entries(b) : Verifiable(n)})

RevokeVerification(c, n) ==
  LET k == Canon[n] IN
  /\ access.open
  /\ MayRevoke(c)
  /\ k \in VerifiedKeys
  /\ rec' = [rec EXCEPT ![k].verified = FALSE]
  /\ vcount' = SatSub(vcount, 1)
  /\ verifiedAt' = [verifiedAt EXCEPT ![n] = None]
  /\ UNCHANGED <<count, ever, index, chunks, gen, reverify,
                 lastAct, challenge, rotation, control>>

ConfigVerification(w) ==
  /\ access.open
  /\ cfg.expiresIn = None
  /\ cfg' = [cfg EXCEPT !.expiresIn = w]
  /\ UNCHANGED <<registry, timers, reserved, proposal, oracles, access, now>>

SetBotStatus(c, n, b) ==
  LET k == Canon[n] IN
  /\ access.open
  /\ HolderOrAdmin(c, k)
  /\ rec' = [rec EXCEPT ![k].bot = b]
  /\ UNCHANGED <<count, vcount, ever, index, chunks, gen, reverify, timers, control>>

-----------------------------------------------------------------------------
(* Removal and rename. *)

FlagsKept(X) == reverify  \* mutant: the re-verify flag outlives the record

FlagsWithout(X) == reverify \ X

(* Drops the records of the live keys X: remove_record and                 *)
(* remove_from_index for each, the counters once.                          *)
DropRecords(X) ==
  /\ rec' = [k \in Keys |-> IF k \in X THEN None ELSE rec[k]]
  /\ reverify' = FlagsWithout(X)
  /\ index' = Without(index, X)
  /\ chunks' = DropFromChunks(chunks, X)
  /\ gen' = BumpGen(Cardinality(X))
  /\ count' = SatSub(count, Cardinality(X))
  /\ vcount' = SatSub(vcount, Cardinality(X \cap VerifiedKeys))
  /\ UNCHANGED ever

Remove(c, n) ==
  LET k == Canon[n] IN
  /\ access.open
  /\ HolderOrAdmin(c, k)
  /\ DropRecords({k})
  /\ challenge' = [challenge EXCEPT ![k] = None]
  /\ UNCHANGED <<verifiedAt, lastAct, rotation, control>>

(* The taken-name check goes through HasRecord and so sees the new         *)
(* spelling as it was typed.                                               *)
Rename(c, old, new) ==
  LET k == Canon[old]
      m == Canon[new]
  IN /\ access.open
     /\ HolderOrAdmin(c, k)
     /\ new # old
     /\ m \notin reserved
     /\ ~HasRecord(new)
     /\ challenge[k] = None /\ challenge[m] = None
     /\ rotation[k] = None
     /\ ~InCooldown(k)
     /\ CanAddPage(m)
     /\ rec' = [[rec EXCEPT ![m] = [rec[k] EXCEPT !.verified = FALSE]]
                    EXCEPT ![k] = None]
     /\ vcount' = IF rec[k].verified THEN SatSub(vcount, 1) ELSE vcount
     /\ index' = Without(Append(index, m), {k})
     /\ chunks' = DropFromChunks(AddToChunks(chunks, m), {k})
     /\ gen' = BumpGen(1)
     /\ reverify' = FlagsWithout({k})
                       \cup (IF rec[k].verified \/ k \in reverify THEN {m} ELSE {})
     /\ lastAct' = [lastAct EXCEPT ![m] = now]
     /\ UNCHANGED <<count, ever, verifiedAt, challenge, rotation, control>>

(* apply_batch_remove: unregistered names are skipped, and no challenge of *)
(* a removed name is cleared.                                              *)
ApplyBatchRemove(b) ==
  /\ DropRecords({Canon[n] : n \in Entries(b)} \cap Live)
  /\ UNCHANGED <<timers, reserved, oracles, cfg, access, now>>

BatchRemove(b) ==
  /\ access.open
  /\ ~DualControl(Len(b))
  /\ ApplyBatchRemove(b)
  /\ UNCHANGED proposal

ProposeBatchRemove(b) ==
  /\ access.open
  /\ proposal = None \/ ProposalExpired
  /\ proposal' = [names |-> b, by |-> Admin, at |-> now]
  /\ UNCHANGED <<registry, timers, reserved, oracles, cfg, access, now>>

AnyAdminMayExecute(c) == c = Admin \/ c \in access.admins  \* mutant: the proposer too

MayExecute(c) == (c = Admin \/ c \in access.admins) /\ c # proposal.by

ExecuteBatchRemove(c) ==
  /\ access.open
  /\ proposal # None /\ ~ProposalExpired
  /\ MayExecute(c)
  /\ proposal' = None
  /\ ApplyBatchRemove(proposal.names)

CancelBatchRemove ==
  /\ proposal # None
  /\ proposal' = None
  /\ UNCHANGED <<registry, timers, reserved, oracles, cfg, access, now>>

-----------------------------------------------------------------------------
(* Address rotation. *)

(* The holder signs the request; `holder' remembers who that was. *)
RequestRotation(n, a) ==
  LET k == Canon[n] IN
  /\ access.open
  /\ rec[k] # None
  /\ Bindable(a)
  /\ challenge[k] = None
  /\ rotation[k] = None
  /\ rotation' = [rotation EXCEPT ![k] =
                    [to |-> a, at |-> now + cfg.rotDelay, holder |-> rec[k].addr]]
  /\ UNCHANGED <<registry, verifiedAt, lastAct, challenge, control>>

ExecuteRotation(n) ==
  LET k == Canon[n] IN
  /\ access.open
  /\ rec[k] # None /\ rotation[k] # None
  /\ now >= rotation[k].at
  /\ rec' = [rec EXCEPT ![k].addr = rotation[k].to, ![k].verified = FALSE]
  /\ vcount' = IF rec[k].verified THEN SatSub(vcount, 1) ELSE vcount
  /\ reverify' = IF rec[k].verified THEN reverify \cup {k} ELSE reverify
  /\ lastAct' = [lastAct EXCEPT ![k] = now]
  /\ rotation' = [rotation EXCEPT ![k] = None]
  /\ UNCHANGED <<count, ever, index, chunks, gen, verifiedAt, challenge, control>>

CancelRotation(c, n) ==
  LET k == Canon[n] IN
  /\ HolderOrAdmin(c, k)
  /\ rotation[k] # None
  /\ rotation' = [rotation EXCEPT ![k] = None]
  /\ UNCHANGED <<registry, verifiedAt, lastAct, challenge, control>>

-----------------------------------------------------------------------------
(* Challenges, all by the admin. *)

StartChallenge(n) ==
  /\ access.open
  /\ HasRecord(n)
  /\ challenge[Canon[n]] = None
  /\ challenge' = [challenge EXCEPT ![Canon[n]] = now + ChallengeDelay]
  /\ UNCHANGED <<registry, verifiedAt, lastAct, rotation, control>>

CancelChallenge(n) ==
  /\ access.open
  /\ challenge[Canon[n]] # None
  /\ challenge' = [challenge EXCEPT ![Canon[n]] = None]
  /\ UNCHANGED <<registry, verifiedAt, lastAct, rotation, control>>

CompleteChallenge(n) ==
  LET k == Canon[n] IN
  /\ access.open
  /\ challenge[k] # None /\ now >= challenge[k]
  /\ rec[k] # None
  /\ DropRecords({k})
  /\ challenge' = [challenge EXCEPT ![k] = None]
  /\ UNCHANGED <<verifiedAt, lastAct, rotation, control>>

-----------------------------------------------------------------------------
(* Administration; none of these entry points is pause-gated. *)

AddReserved(n) ==
  /\ Canon[n] \notin reserved
  /\ Cardinality(reserved) < MaxReserved
  /\ reserved' = reserved \cup {Canon[n]}
  /\ UNCHANGED <<registry, timers, proposal, oracles, cfg, access, now>>

RemoveReserved(n) ==
  /\ Canon[n] \in reserved
  /\ reserved' = reserved \ {Canon[n]}
  /\ UNCHANGED <<registry, timers, proposal, oracles, cfg, access, now>>

SetCooldown(s) ==
  /\ cfg' = [cfg EXCEPT !.cooldown = s]
  /\ UNCHANGED <<registry, timers, reserved, proposal, oracles, access, now>>

SetRotationDelay(s) ==
  /\ cfg' = [cfg EXCEPT !.rotDelay = s]
  /\ UNCHANGED <<registry, timers, reserved, proposal, oracles, access, now>>

SetBatchRemoveThreshold(t) ==
  /\ cfg' = [cfg EXCEPT !.threshold = t]
  /\ UNCHANGED <<registry, timers, reserved, proposal, oracles, access, now>>

SetOracleAllowlist(S) ==
  /\ oracles' = S
  /\ UNCHANGED <<registry, timers, reserved, proposal, cfg, access, now>>

CompactIndex ==
  /\ chunks' = Cut(index, ChunkSize)
  /\ UNCHANGED <<rec, count, vcount, ever, index, gen, reverify, timers, control>>

(* repair_index with apply set: the counters as the flat index sees them. *)
RepairIndex ==
  /\ count'  = Cardinality({i \in DOMAIN index : index[i] \in Live})
  /\ vcount' = Cardinality({i \in DOMAIN index : index[i] \in VerifiedKeys})
  /\ UNCHANGED <<rec, ever, index, chunks, gen, reverify, timers, control>>

-----------------------------------------------------------------------------
(* The environment: the access layer and the ledger clock. *)

ChangeAccess ==
  /\ access' \in AccessStates
  /\ UNCHANGED <<registry, timers, reserved, proposal, oracles, cfg, now>>

Tick ==
  /\ now < MaxTime
  /\ now' = now + 1
  /\ UNCHANGED <<registry, timers, reserved, proposal, oracles, cfg, access>>

Next ==
  \/ \E n \in Names, a \in Addresses : Register(n, a) \/ RegisterSponsored(n, a)
  \/ \E c \in Addresses, n \in VerifyNames : Verify(c, n) \/ RevokeVerification(c, n)
  \/ \E n \in VerifyNames, p \in Proofs : VerifyWithOracleProof(n, p)
  \/ \E S \in OracleLists : SetOracleAllowlist(S)
  \/ \E c \in Addresses, b \in Batches : BatchVerify(c, b)
  \/ \E c \in Addresses, n \in Names :
       \/ Remove(c, n)
       \/ CancelRotation(c, n)
       \/ \E b \in BotFlags : SetBotStatus(c, n, b)
       \/ \E m \in RenameNames : Rename(c, n, m)
  \/ \E n \in Names, a \in RotationTargets : RequestRotation(n, a)
  \/ \E n \in Names : ExecuteRotation(n)
  \/ \E n \in ChallengeNames :
       StartChallenge(n) \/ CancelChallenge(n) \/ CompleteChallenge(n)
  \/ \E b \in Batches : BatchRemove(b)
  \/ \E b \in Proposals : ProposeBatchRemove(b)
  \/ \E c \in Addresses : ExecuteBatchRemove(c)
  \/ CancelBatchRemove
  \/ \E n \in ReservedNames : AddReserved(n) \/ RemoveReserved(n)
  \/ \E s \in Cooldowns : SetCooldown(s)
  \/ \E s \in RotationDelays : SetRotationDelay(s)
  \/ \E w \in ExpiryWindows : ConfigVerification(w)
  \/ \E t \in Thresholds : SetBatchRemoveThreshold(t)
  \/ CompactIndex
  \/ RepairIndex
  \/ ChangeAccess
  \/ Tick

Spec == Init /\ [][Next]_vars

-----------------------------------------------------------------------------
(* Safety properties. *)

(* I1 and I2 of docs/REGISTRY_INVARIANTS.md: the stored total and verified *)
(* counters, each moved by its own arithmetic in a dozen handlers, equal   *)
(* the number of live and of verified records.                             *)
CountersMatchRecords ==
  /\ count = Cardinality(Live)
  /\ vcount = Cardinality(VerifiedKeys)

(* I5: the flat index lists every live username exactly once and nothing   *)
(* else, whatever was registered, renamed and removed before.              *)
IndexMatchesRecords ==
  /\ Entries(index) = Live
  /\ \A i, j \in DOMAIN index : index[i] = index[j] => i = j

(* The pages of the chunked index, read in page order, are the flat index: *)
(* the admin export reads the one and the public export the other, with    *)
(* the same offsets.                                                       *)
PagesMatchIndex ==
  /\ \A c \in DOMAIN chunks : Len(chunks[c]) <= ChunkSize
  /\ Flatten(chunks) = index

(* A username flagged for re-verification is registered and not verified:  *)
(* no flag survives a removal, a rename or a fresh grant to be inherited   *)
(* by the next registrant of the name.                                     *)
ReverifyFlagsAreLive == reverify \subseteq Live \ VerifiedKeys

(* get_ever_verified_count never falls behind the verifications in force,  *)
(* even once it saturates.                                                 *)
EverCoversVerified == ever >= vcount

(* No operation binds a username to the burn address. *)
NoBurnHolder == \A k \in Live : rec[k].addr # ZeroAddress

(* Verification vouches for one holder of one name: a record that is       *)
(* verified before and after an invocation has the same holder, whichever  *)
(* of re-registration, sponsorship, rotation or rename ran.                *)
VerificationBoundToHolder ==
  [][\A k \in VerifiedKeys \cap VerifiedKeys' : rec'[k].addr = rec[k].addr]_vars

(* The username that leaves in this step is renamed onto the registered k, *)
(* typed in another spelling than k.  It takes its record along without    *)
(* the verification.  Reservation, an open challenge of either name and a  *)
(* queued rotation of the old one still stand in its way.                  *)
TakenOver(k) ==
  \E j \in Live, n \in RenameNames \ Keys :
    /\ Canon[n] = k
    /\ Live \ Live' = {j}
    /\ rec'[k] = [rec[j] EXCEPT !.verified = FALSE]
    /\ \A i \in Keys \ {j, k} : rec'[i] = rec[i]
    /\ k \notin reserved
    /\ challenge[j] = None /\ challenge[k] = None /\ rotation[j] = None

(* Dropping or moving a registration spares the others: when a username    *)
(* leaves the registry, by removal, batch, challenge or rename, the record *)
(* of every name registered before and after the step stands as it was.    *)
(* The one exception is a rename onto a taken name that is typed in        *)
(* another spelling, which the taken-name check does not see.              *)
RemovalSparesOthers ==
  [][Live \ Live' # {}
       => \A k \in Live \cap Live' : rec'[k] = rec[k] \/ TakenOver(k)]_vars

(* A pagination cursor is an offset into the flat index and is accepted as *)
(* long as the generation is unchanged: while it is, the index only grows  *)
(* at its end, so the offset still points where it did.                    *)
CursorsStayValid ==
  [][gen' = gen => /\ Len(index) <= Len(index')
                   /\ \A i \in DOMAIN index : index'[i] = index[i]]_vars

(* While the contract is paused no record, counter or flat index changes,  *)
(* by any entry point.                                                     *)
PauseFreezesRecords ==
  [][~access.open => UNCHANGED <<rec, count, vcount, ever, index, gen, reverify>>]_vars

(* Those who may execute a proposal: the admin and the holders of the      *)
(* Admin role, its proposer excluded.                                      *)
SecondKeys == ({Admin} \cup access.admins) \ {proposal.by}

(* The proposed removal of X is confirmed. *)
Confirmed(X) ==
  /\ proposal # None /\ ~ProposalExpired
  /\ proposal' = None
  /\ X \subseteq {Canon[n] : n \in Entries(proposal.names)}
  /\ SecondKeys # {}

(* With a removal threshold in force, records disappear in larger numbers  *)
(* only by dual control: what goes in one invocation was listed in a live  *)
(* proposal, which the invocation uses up, and somebody other than the     *)
(* proposer was there to execute it.  An admin who is alone removes no     *)
(* more than the threshold at a time, in whatever order the threshold is   *)
(* set, proposals expire and roles come and go.                            *)
BulkRemovalNeedsProposal ==
  [][cfg.threshold > 0 /\ Cardinality(Live \ Live') > cfg.threshold
       => Confirmed(Live \ Live')]_vars

(* A grant by proof is backed by an oracle: a key that is allowlisted now  *)
(* signed, for this username and the record's holder after the step, a     *)
(* statement whose own expiry has not passed.  The submitter chooses the   *)
(* proof, its expiry field included, and can stretch nothing.              *)
ProofGrantsAreBacked ==
  [][\A n \in VerifyNames, p \in Proofs :
       VerifyWithOracleProof(n, p) =>
         \E s \in Statements :
           /\ s[1] \in oracles
           /\ s[2].name = n /\ s[2].addr = rec'[Canon[n]].addr
           /\ s[2].expires = 0 \/ now <= s[2].expires]_vars

(* The registry implements AbstractRegistry: through every entry point a   *)
(* holder, and the vouching for it, changes only the ways listed there,    *)
(* and not at all while the contract is paused.                            *)
Holder == [k \in Keys |-> IF rec[k] = None THEN None ELSE rec[k].addr]

Abstract ==
  INSTANCE AbstractRegistry
    WITH Usernames <- Keys,
         Holders   <- Addresses \ {ZeroAddress},
         Nobody    <- None,
         holder    <- Holder,
         vouched   <- VerifiedKeys,
         open      <- access.open

ImplementsAbstract == Abstract!Spec

(* What the documentation says and the code does not do; see README.       *)

(* lib.rs, rename: refused if the new name is already registered. *)
TakenNamesRefused ==
  [][Live \ Live' # {}
       => \A k \in Live \cap Live' : rec'[k].addr = rec[k].addr]_vars

(* lib.rs, register: with a rotation delay configured an address change    *)
(* must go through request and execute.                                    *)
RotationDelayEnforced ==
  [][\A k \in Live \cap Live' :
       cfg.rotDelay > 0 /\ rec'[k].addr # rec[k].addr
         => /\ rotation[k] # None
            /\ rotation[k].at <= now /\ rotation[k].to = rec'[k].addr]_vars

(* request_address_rotation: both the current address and the new one must *)
(* sign, so a queued rotation was signed by the holder it will replace.    *)
RotationSignedByHolder ==
  \A k \in Live : rotation[k] # None => rotation[k].holder = rec[k].addr

(* A challenge is an open question about who owns the name: the holder     *)
(* does not change while it is open.                                       *)
ChallengeFreezesHolder ==
  [][\A k \in Live \cap Live' :
       challenge[k] # None => rec'[k].addr = rec[k].addr]_vars

(* Reserved names are held back: nobody registers one. *)
ReservedNamesHeldBack ==
  [][\A k \in reserved \ Live : k \notin Live']_vars

(* Spellings of one username resolve to the same entry, its expiry too. *)
ExpiryIgnoresSpelling ==
  \A n, m \in Names : Canon[n] = Canon[m]
                        => VerificationActive(n) = VerificationActive(m)

=============================================================================
