------------------------------ MODULE Upgrade ------------------------------
(***************************************************************************)
(* Upgrade governance of the TrustBridge contract: the direct upgrade path *)
(* with its cooldown and its time-bounded attestation, the staged hash,    *)
(* the propose / approve / execute path with its threshold and delay, and  *)
(* the provenance record both paths write.                                 *)
(*                                                                         *)
(* One action is one invocation; one that fails a check is rolled back and *)
(* is no step.  Approvals are signed off chain and land later: SignApproval*)
(* records the proposal a signer looked at, and the approve_upgrade call it*)
(* signed carries only the proposal id.  Every installed binary is taken   *)
(* to be a build of this contract, so the same rules govern the next one.  *)
(***************************************************************************)
EXTENDS Integers, Sequences, FiniteSets

CONSTANTS
  Addresses,      \* Stellar addresses
  Admin,          \* the contract admin
  Hashes,         \* hashes of installable binaries
  Genesis,        \* the binary the contract was deployed with
  AccessStates,   \* pause/role situations the access layer can be in
  Cooldowns,      \* values passed to set_cooldown
  Expiries,       \* expiry times passed to attest_upgrade
  Delays,         \* delay_secs passed to propose_multisig_upgrade
  Thresholds,     \* values passed to set_upgrade_threshold
  Versions,       \* versions passed to migrate, by rank
  MaxSigners,     \* MAX_UPGRADE_SIGNERS
  MaxInstalls,    \* bound on installed upgrades
  MaxProposals,   \* bound on proposals made, far below 2^32 where ids saturate
  MaxAttests,     \* bound on attestations published
  MaxTime,        \* bound on ledger time
  None            \* an absent storage entry

Access == [open : BOOLEAN, upgraders : SUBSET Addresses]

ASSUME PartiesAssumption ==
  /\ IsFiniteSet(Addresses) /\ Admin \in Addresses
  /\ Genesis \in Hashes
  /\ AccessStates \subseteq Access

ASSUME SettingsAssumption ==
  /\ Cooldowns \subseteq Nat /\ Expiries \subseteq Nat /\ Delays \subseteq Nat
  /\ Thresholds \subseteq Nat /\ Versions \subseteq Nat
  /\ MaxSigners \in Nat \ {0}
  /\ MaxInstalls \in Nat /\ MaxProposals \in Nat
  /\ MaxAttests \in Nat /\ MaxTime \in Nat

Digests == {"sbom", "source"}

Attestation == [hash : Hashes, expires : Nat]

Provenance == [hash : Hashes, prev : Hashes \cup {None}, version : Nat,
               attested : BOOLEAN, digests : [Digests -> Hashes \cup {None}]]

Proposal == [id : Nat, hash : Hashes, at : Nat, approvers : Seq(Addresses)]

(* What a signer approved: the hash it saw under the id it signed. *)
Approval == [by : Addresses, id : Nat, hash : Hashes]

ASSUME AbsentAssumption ==
  None \notin Hashes \cup Nat \cup Attestation \cup Provenance \cup Proposal

VARIABLES
  wasm,         \* the executable the host runs
  prov,         \* PROV_KEY: provenance of the last upgrade
  version,      \* VERSION_KEY
  lastUpgrade,  \* LAST_UPG_KEY
  cooldown,     \* COOLDOWN_KEY
  attestation,  \* ATTEST_KEY
  required,     \* ATTEST_REQUIRED_KEY
  staged,       \* STAGED_WASM_KEY: the staged hash
  threshold,    \* UPGRADE_THRESHOLD_KEY
  nextId,       \* UPGRADE_PROPOSAL_CNT_KEY
  proposal,     \* UPGRADE_PROPOSAL_KEY
  signed,       \* approvals signers put their key to, proposers included
  installs,     \* history: upgrades installed
  attests,      \* history: attestations published
  attestedUps,  \* history: upgrades installed as attested
  access,       \* pause state and Upgrader holders, owned by the access layer
  now           \* ledger time

code    == <<wasm, prov, lastUpgrade, installs>>
gate    == <<attestation, required, attests, attestedUps>>
quorum  == <<threshold, nextId, proposal, signed>>
setting == <<version, cooldown, staged, access, now>>
vars    == <<code, gate, quorum, setting>>

TypeOK ==
  /\ wasm \in Hashes
  /\ prov \in Provenance \cup {None}
  /\ version \in Nat
  /\ lastUpgrade \in Nat \cup {None}
  /\ cooldown \in Nat
  /\ attestation \in Attestation \cup {None}
  /\ required \in BOOLEAN
  /\ staged \in Hashes \cup {None}
  /\ threshold \in Nat \ {0}
  /\ nextId \in Nat
  /\ proposal \in Proposal \cup {None}
  /\ signed \subseteq Approval
  /\ installs \in Nat /\ attests \in Nat /\ attestedUps \in Nat
  /\ access \in AccessStates
  /\ now \in Nat

Init ==
  /\ wasm = Genesis /\ prov = None /\ version = 0
  /\ lastUpgrade = None /\ cooldown = 0
  /\ attestation = None /\ required = FALSE
  /\ staged = None
  /\ threshold = 1 /\ nextId = 0 /\ proposal = None /\ signed = {}
  /\ installs = 0 /\ attests = 0 /\ attestedUps = 0
  /\ access \in AccessStates
  /\ now = 0

----------------------------------------------------------------------------
(* Checks. *)

(* The admin, or a holder of an unexpired Upgrader role. *)
Governs(a) == a = Admin \/ a \in access.upgraders

(* require_cooldown_elapsed: the first upgrade never waits. *)
CooldownElapsed ==
  cooldown # 0 /\ lastUpgrade # None => now >= lastUpgrade + cooldown

(* consume_attestation lets an unattested upgrade pass only while none is  *)
(* published and none is required; it accepts the expiry instant itself.   *)
Unattested == attestation = None /\ ~required

AttestedFor(h) ==
  /\ attestation # None
  /\ now <= attestation.expires
  /\ attestation.hash = h

(* require_staged_wasm_consistent with require_attestation_if_required:    *)
(* any stored attestation will do.                                         *)
StagedConsistent(h) ==
  /\ staged \in {None, h}
  /\ required => attestation # None

Approved(a) == \E i \in DOMAIN proposal.approvers : proposal.approvers[i] = a

(* require_proposal_executable *)
Executable(id) ==
  /\ proposal # None
  /\ proposal.id = id
  /\ now >= proposal.at
  /\ Len(proposal.approvers) >= threshold

NoDigests == [d \in Digests |-> None]

(* Mutant of Install: digests are carried over from the last record. *)
InstallKeeping(h, attested) ==
  /\ installs < MaxInstalls
  /\ prov' = [hash |-> h, prev |-> IF prov = None THEN None ELSE prov.hash,
              version |-> version, attested |-> attested,
              digests |-> IF prov = None THEN NoDigests ELSE prov.digests]
  /\ wasm' = h
  /\ lastUpgrade' = now
  /\ installs' = installs + 1

(* What both paths do: record provenance, swap the executable, stamp the   *)
(* time.  The previous hash comes from the old record, so the first        *)
(* upgrade names none.                                                     *)
Install(h, attested) ==
  /\ installs < MaxInstalls
  /\ prov' = [hash |-> h, prev |-> IF prov = None THEN None ELSE prov.hash,
              version |-> version, attested |-> attested, digests |-> NoDigests]
  /\ wasm' = h
  /\ lastUpgrade' = now
  /\ installs' = installs + 1

----------------------------------------------------------------------------
(* Direct path. *)

AttestUpgrade(h, e) ==
  /\ e > now
  /\ attests < MaxAttests
  /\ attestation' = [hash |-> h, expires |-> e]
  /\ attests' = attests + 1
  /\ UNCHANGED <<code, required, attestedUps, quorum, setting>>

ClearAttestation ==
  /\ attestation # None
  /\ attestation' = None
  /\ UNCHANGED <<code, required, attests, attestedUps, quorum, setting>>

SetAttestationRequired(b) ==
  /\ required' = b
  /\ UNCHANGED <<code, attestation, attests, attestedUps, quorum, setting>>

SetCooldown(c) ==
  /\ cooldown' = c
  /\ UNCHANGED <<code, gate, quorum, version, staged, access, now>>

(* Mutant of ConsumeAttestation: the attestation stays usable. *)
KeepAttestation ==
  /\ attestedUps' = attestedUps + 1
  /\ UNCHANGED attestation

(* An attestation authorises one upgrade. *)
ConsumeAttestation ==
  /\ attestation' = None
  /\ attestedUps' = attestedUps + 1

(* upgrade; it does not look at the staged hash or at the threshold. *)
DirectUpgrade(h) ==
  /\ access.open
  /\ CooldownElapsed
  /\ \/ /\ Unattested
        /\ Install(h, FALSE)
        /\ UNCHANGED <<attestation, attestedUps>>
     \/ /\ AttestedFor(h)
        /\ Install(h, TRUE)
        /\ ConsumeAttestation
  /\ UNCHANGED <<required, attests, quorum, setting>>

(* set_provenance_digests: the operator records digests of the binary that *)
(* runs; a digest not passed keeps its value.                              *)
SetProvenanceDigests(D) ==
  /\ prov # None
  /\ prov' = [prov EXCEPT !.digests = [d \in Digests |-> IF d \in D THEN wasm ELSE @[d]]]
  /\ UNCHANGED <<wasm, lastUpgrade, installs, gate, quorum, setting>>

(* migrate: only to a greater version. *)
Migrate(v) ==
  /\ access.open
  /\ v > version
  /\ version' = v
  /\ UNCHANGED <<code, gate, quorum, cooldown, staged, access, now>>

(* Staged hash. *)

StageWasm(a, h) ==
  /\ access.open
  /\ Governs(a)
  /\ staged' = h
  /\ UNCHANGED <<code, gate, quorum, version, cooldown, access, now>>

ClearStaged ==
  /\ staged' = None
  /\ UNCHANGED <<code, gate, quorum, version, cooldown, access, now>>

(* Propose, approve, execute. *)

(* Mutant of Clamped: a threshold of zero is stored as it is. *)
Unclamped(t) == t

(* set_upgrade_threshold stores at least one. *)
Clamped(t) == IF t = 0 THEN 1 ELSE t

SetUpgradeThreshold(t) ==
  /\ threshold' = Clamped(t)
  /\ UNCHANGED <<code, gate, nextId, proposal, signed, setting>>

(* create_upgrade_proposal: the proposer is the first approver. *)
NewProposal(a, h, d) == [id |-> nextId, hash |-> h, at |-> now + d, approvers |-> <<a>>]

(* Mutant of AdvancedId: the counter is not advanced. *)
StaleId == nextId

(* alloc_proposal_id *)
AdvancedId == nextId + 1

(* propose_multisig_upgrade is not gated by the pause. *)
Propose(a, h, d) ==
  /\ Governs(a)
  /\ proposal = None
  /\ nextId < MaxProposals
  /\ proposal' = NewProposal(a, h, d)
  /\ nextId' = AdvancedId
  /\ signed' = signed \cup {[by |-> a, id |-> nextId, hash |-> h]}
  /\ UNCHANGED <<code, gate, threshold, setting>>

(* A signer reads the live proposal and signs approve_upgrade(id). *)
SignApproval(a) ==
  /\ proposal # None
  /\ signed' = signed \cup {[by |-> a, id |-> proposal.id, hash |-> proposal.hash]}
  /\ UNCHANGED <<code, gate, threshold, nextId, proposal, setting>>

(* Mutant of Addressed: an approval counts for whatever is pending. *)
AnyPending(id) == proposal # None

(* The live proposal is the one the caller named. *)
Addressed(id) == proposal # None /\ proposal.id = id

(* Mutant of Countable: repeated approvals by one signer count again. *)
Repeatable(a) == TRUE

(* record_approval refuses a second approval of the same signer... *)
Countable(a) == ~Approved(a)

(* ...and past MAX_UPGRADE_SIGNERS succeeds without recording anything. *)
WithApproval(a) ==
  IF Len(proposal.approvers) < MaxSigners
    THEN [proposal EXCEPT !.approvers = Append(@, a)]
    ELSE proposal

(* The call was signed at some point and lands when the signer governs. *)
ApproveUpgrade(s) ==
  /\ s \in signed
  /\ Governs(s.by)
  /\ Addressed(s.id)
  /\ Countable(s.by)
  /\ proposal' = WithApproval(s.by)
  /\ UNCHANGED <<code, gate, threshold, nextId, signed, setting>>

ExecuteUpgrade(a, id) ==
  /\ access.open
  /\ Governs(a)
  /\ Executable(id)
  /\ StagedConsistent(proposal.hash)
  /\ Install(proposal.hash, FALSE)
  /\ proposal' = None
  /\ staged' = None
  /\ UNCHANGED <<gate, threshold, nextId, signed, version, cooldown, access, now>>

CancelUpgradeProposal(id) ==
  /\ Addressed(id)
  /\ proposal' = None
  /\ UNCHANGED <<code, gate, threshold, nextId, signed, setting>>

----------------------------------------------------------------------------
AccessChange(x) ==
  /\ access' = x
  /\ UNCHANGED <<code, gate, quorum, version, cooldown, staged, now>>

Tick ==
  /\ now < MaxTime
  /\ now' = now + 1
  /\ UNCHANGED <<code, gate, quorum, version, cooldown, staged, access>>

Direct ==
  \/ \E h \in Hashes, e \in Expiries : AttestUpgrade(h, e)
  \/ ClearAttestation
  \/ \E b \in BOOLEAN : SetAttestationRequired(b)
  \/ \E c \in Cooldowns : SetCooldown(c)
  \/ \E h \in Hashes : DirectUpgrade(h)
  \/ \E D \in SUBSET Digests : SetProvenanceDigests(D)
  \/ \E v \in Versions : Migrate(v)

Governed ==
  \/ \E a \in Addresses, h \in Hashes : StageWasm(a, h)
  \/ ClearStaged
  \/ \E t \in Thresholds : SetUpgradeThreshold(t)
  \/ \E a \in Addresses, h \in Hashes, d \in Delays : Propose(a, h, d)
  \/ \E a \in Addresses : SignApproval(a)
  \/ \E s \in signed : ApproveUpgrade(s)
  \/ \E a \in Addresses, id \in 0 .. MaxProposals : ExecuteUpgrade(a, id)
  \/ \E id \in 0 .. MaxProposals : CancelUpgradeProposal(id)

Next == Direct \/ Governed \/ (\E x \in AccessStates : AccessChange(x)) \/ Tick

Spec == Init /\ [][Next]_vars

----------------------------------------------------------------------------
(* Properties that hold. *)

(* get_provenance and assert_build tell the truth about the running code:  *)
(* the recorded hash is the running binary's, the recorded digests are     *)
(* digests of that binary and not of one it replaced, and the recorded     *)
(* version is never ahead of the contract's.                               *)
ProvenanceFollowsCode ==
  /\ prov = None <=> lastUpgrade = None
  /\ prov # None =>
       /\ prov.hash = wasm
       /\ \A d \in Digests : prov.digests[d] \in {None, wasm}
       /\ prov.version <= version

(* Every approver the live proposal counts signed for this very proposal   *)
(* and hash, and is counted once, although approvals land late, after      *)
(* cancellations and new proposals.                                        *)
ApprovalsMeantThisHash ==
  proposal # None =>
    /\ \A i \in DOMAIN proposal.approvers :
         [by |-> proposal.approvers[i], id |-> proposal.id, hash |-> proposal.hash] \in signed
    /\ \A i, j \in DOMAIN proposal.approvers :
         proposal.approvers[i] = proposal.approvers[j] => i = j

(* Ids are never reused, so whatever was signed under the id of the live   *)
(* proposal was signed for its hash.                                       *)
IdsNameOneHash ==
  /\ \A s \in signed : s.id < nextId
  /\ proposal # None =>
       /\ proposal.id < nextId
       /\ \A s \in signed : s.id = proposal.id => s.hash = proposal.hash

(* The keys that signed for hash h under some proposal id. *)
SignersOf(id, h) == {a \in Addresses : [by |-> a, id |-> id, hash |-> h] \in signed}

(* execute_upgrade installs a hash only if at least threshold different    *)
(* keys signed for that hash under the executed proposal.                  *)
QuorumMeantThisHash ==
  [][installs' > installs /\ proposal' # proposal =>
       Cardinality(SignersOf(proposal.id, wasm')) >= threshold]_vars

(* An attestation authorises at most one upgrade: upgrades recorded as     *)
(* attested never outnumber the attestations published, and a pending one  *)
(* has not been used yet.                                                  *)
AttestationsSpentOnce ==
  attestedUps + (IF attestation = None THEN 0 ELSE 1) <= attests

----------------------------------------------------------------------------
(* What the documents say and the code does not do. *)

(* When a hash is staged, upgrade and execute_upgrade both reject another. *)
StagedHashBinds ==
  [][installs' > installs => staged \in {None, wasm'}]_vars

(* The cooldown must elapse between any two upgrades. *)
CooldownBetweenUpgrades ==
  [][installs' > installs => CooldownElapsed]_vars

(* With attestation_required set, an upgrade needs an unexpired            *)
(* attestation.                                                            *)
AttestationGate ==
  [][installs' > installs /\ required =>
       attestation # None /\ now <= attestation.expires]_vars

(* With a threshold of two or more one key cannot install an upgrade.      *)
OneKeyCannotUpgrade ==
  [][installs' > installs /\ threshold >= 2 =>
       \E id \in 0 .. MaxProposals : Cardinality(SignersOf(id, wasm')) >= 2]_vars

============================================================================
