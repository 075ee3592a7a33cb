---------------------------- MODULE UpgradeProofs ----------------------------
(***************************************************************************)
(* Proofs about Upgrade, for every set of addresses, hashes and settings.  *)
(***************************************************************************)
EXTENDS Upgrade, Versions, FiniteSetTheorems, TLAPS

(* The provenance record an installation writes is a provenance record. *)
LEMMA InstallType ==
  ASSUME TypeOK, NEW h \in Hashes, NEW b \in BOOLEAN, Install(h, b)
  PROVE  /\ prov' \in Provenance
         /\ wasm' = h /\ lastUpgrade' = now /\ installs' \in Nat
         /\ prov'.hash = h /\ prov'.version = version
         /\ \A d \in Digests : prov'.digests[d] = None
<1>1. NoDigests \in [Digests -> Hashes \cup {None}]
  BY DEF NoDigests
<1>2. (IF prov = None THEN None ELSE prov.hash) \in Hashes \cup {None}
  BY DEF TypeOK, Provenance
<1>3. prov' = [hash |-> h, prev |-> IF prov = None THEN None ELSE prov.hash,
               version |-> version, attested |-> b, digests |-> NoDigests]
  BY DEF Install
<1>4. prov' \in Provenance
  BY <1>1, <1>2, <1>3 DEF Provenance, TypeOK
<1>5. \A d \in Digests : prov'.digests[d] = None
  BY <1>3 DEF NoDigests
<1> QED
  BY <1>3, <1>4, <1>5 DEF Install, TypeOK

(* A proposal being made, and one gaining an approval, stay proposals. *)
LEMMA ProposalType ==
  ASSUME TypeOK
  PROVE  /\ \A a \in Addresses, h \in Hashes, d \in Delays : NewProposal(a, h, d) \in Proposal
         /\ proposal # None => \A a \in Addresses : WithApproval(a) \in Proposal
<1>1. ASSUME NEW a \in Addresses, NEW h \in Hashes, NEW d \in Delays
      PROVE  NewProposal(a, h, d) \in Proposal
  <2>1. now + d \in Nat /\ nextId \in Nat
    BY SettingsAssumption DEF TypeOK
  <2>2. <<a>> \in Seq(Addresses)
    OBVIOUS
  <2> QED
    BY <2>1, <2>2 DEF NewProposal, Proposal
<1>2. ASSUME proposal # None, NEW a \in Addresses
      PROVE  WithApproval(a) \in Proposal
  <2>1. proposal \in Proposal
    BY <1>2 DEF TypeOK
  <2>2. Append(proposal.approvers, a) \in Seq(Addresses)
    BY <2>1 DEF Proposal
  <2> QED
    BY <2>1, <2>2 DEF WithApproval, Proposal
<1> QED
  BY <1>1, <1>2

(* No call and no change around the contract leaves the types. *)
LEMMA TypeOKStep ==
  ASSUME TypeOK, [Next]_vars
  PROVE  TypeOK'
<1> USE PartiesAssumption, SettingsAssumption
<1>1. ASSUME NEW h \in Hashes, NEW e \in Expiries, AttestUpgrade(h, e)
      PROVE  TypeOK'
  <2>1. [hash |-> h, expires |-> e] \in Attestation
    BY DEF Attestation
  <2>2. attestation' \in Attestation
    BY <1>1, <2>1 DEF AttestUpgrade
  <2> QED
    BY <1>1, <2>2 DEF AttestUpgrade, TypeOK, code, quorum, setting
<1>2. CASE ClearAttestation
  BY <1>2 DEF ClearAttestation, TypeOK, code, quorum, setting
<1>3. ASSUME NEW b \in BOOLEAN, SetAttestationRequired(b)
      PROVE  TypeOK'
  BY <1>3 DEF SetAttestationRequired, TypeOK, code, quorum, setting
<1>4. ASSUME NEW c \in Cooldowns, SetCooldown(c)
      PROVE  TypeOK'
  BY <1>4 DEF SetCooldown, TypeOK, code, gate, quorum
<1>5. ASSUME NEW h \in Hashes, DirectUpgrade(h)
      PROVE  TypeOK'
  <2>1. CASE Unattested /\ Install(h, FALSE) /\ UNCHANGED <<attestation, attestedUps>>
    <3>1. prov' \in Provenance /\ wasm' = h /\ lastUpgrade' = now /\ installs' \in Nat
      BY <2>1, InstallType
    <3> QED
      BY <1>5, <2>1, <3>1 DEF DirectUpgrade, TypeOK, quorum, setting
  <2>2. CASE AttestedFor(h) /\ Install(h, TRUE) /\ ConsumeAttestation
    <3>1. prov' \in Provenance /\ wasm' = h /\ lastUpgrade' = now /\ installs' \in Nat
      BY <2>2, InstallType
    <3> QED
      BY <1>5, <2>2, <3>1 DEF DirectUpgrade, ConsumeAttestation, TypeOK, quorum, setting
  <2> QED
    BY <1>5, <2>1, <2>2 DEF DirectUpgrade
<1>6. ASSUME NEW D \in SUBSET Digests, SetProvenanceDigests(D)
      PROVE  TypeOK'
  <2>1. prov \in Provenance
    BY <1>6 DEF SetProvenanceDigests, TypeOK
  <2>2. prov' \in Provenance
    BY <1>6, <2>1 DEF SetProvenanceDigests, Provenance, TypeOK
  <2> QED
    BY <1>6, <2>2 DEF SetProvenanceDigests, TypeOK, gate, quorum, setting
<1>7. ASSUME NEW v \in Versions, Migrate(v)
      PROVE  TypeOK'
  BY <1>7 DEF Migrate, TypeOK, code, gate, quorum
<1>8. ASSUME NEW a \in Addresses, NEW h \in Hashes, StageWasm(a, h)
      PROVE  TypeOK'
  BY <1>8 DEF StageWasm, TypeOK, code, gate, quorum
<1>9. CASE ClearStaged
  BY <1>9 DEF ClearStaged, TypeOK, code, gate, quorum
<1>10. ASSUME NEW t \in Thresholds, SetUpgradeThreshold(t)
       PROVE  TypeOK'
  BY <1>10 DEF SetUpgradeThreshold, Clamped, TypeOK, code, gate, setting
<1>11. ASSUME NEW a \in Addresses, NEW h \in Hashes, NEW d \in Delays, Propose(a, h, d)
       PROVE  TypeOK'
  <2>1. NewProposal(a, h, d) \in Proposal
    BY ProposalType
  <2>2. [by |-> a, id |-> nextId, hash |-> h] \in Approval
    BY DEF Approval, TypeOK
  <2> QED
    BY <1>11, <2>1, <2>2 DEF Propose, AdvancedId, TypeOK, code, gate, setting
<1>12. ASSUME NEW a \in Addresses, SignApproval(a)
       PROVE  TypeOK'
  <2>1. [by |-> a, id |-> proposal.id, hash |-> proposal.hash] \in Approval
    BY <1>12 DEF SignApproval, Approval, Proposal, TypeOK
  <2> QED
    BY <1>12, <2>1 DEF SignApproval, TypeOK, code, gate, setting
<1>13. ASSUME NEW s \in signed, ApproveUpgrade(s)
       PROVE  TypeOK'
  <2>1. s.by \in Addresses
    BY DEF TypeOK, Approval
  <2>2. WithApproval(s.by) \in Proposal
    BY <1>13, <2>1, ProposalType DEF ApproveUpgrade, Addressed
  <2> QED
    BY <1>13, <2>2 DEF ApproveUpgrade, TypeOK, code, gate, setting
<1>14. ASSUME NEW a \in Addresses, NEW id \in 0 .. MaxProposals, ExecuteUpgrade(a, id)
       PROVE  TypeOK'
  <2>1. proposal.hash \in Hashes
    BY <1>14 DEF ExecuteUpgrade, Executable, Proposal, TypeOK
  <2>2. prov' \in Provenance /\ wasm' = proposal.hash /\ lastUpgrade' = now /\ installs' \in Nat
    BY <1>14, <2>1, InstallType DEF ExecuteUpgrade
  <2> QED
    BY <1>14, <2>1, <2>2 DEF ExecuteUpgrade, TypeOK, gate
<1>15. ASSUME NEW id \in 0 .. MaxProposals, CancelUpgradeProposal(id)
       PROVE  TypeOK'
  BY <1>15 DEF CancelUpgradeProposal, TypeOK, code, gate, setting
<1>16. ASSUME NEW x \in AccessStates, AccessChange(x)
       PROVE  TypeOK'
  BY <1>16 DEF AccessChange, TypeOK, code, gate, quorum
<1>17. CASE Tick
  BY <1>17 DEF Tick, TypeOK, code, gate, quorum
<1>18. CASE UNCHANGED vars
  BY <1>18 DEF TypeOK, vars, code, gate, quorum, setting
<1> QED
  BY <1>1, <1>2, <1>3, <1>4, <1>5, <1>6, <1>7, <1>8, <1>9, <1>10, <1>11, <1>12,
     <1>13, <1>14, <1>15, <1>16, <1>17, <1>18 DEF Next, Direct, Governed

(* The state of upgrade governance is always well typed; in particular the *)
(* approval threshold is never zero.                                       *)
THEOREM UpgradeTypeCorrect == Spec => []TypeOK
<1>1. Init => TypeOK
  <2> SUFFICES ASSUME Init PROVE TypeOK
    OBVIOUS
  <2>1. wasm \in Hashes /\ prov \in Provenance \cup {None} /\ version \in Nat
    BY PartiesAssumption DEF Init
  <2>2. lastUpgrade \in Nat \cup {None} /\ cooldown \in Nat /\ required \in BOOLEAN
    BY DEF Init
  <2>3. attestation \in Attestation \cup {None} /\ staged \in Hashes \cup {None}
    BY DEF Init
  <2>4. threshold \in Nat \ {0} /\ nextId \in Nat /\ proposal \in Proposal \cup {None}
    BY DEF Init
  <2>5. signed \subseteq Approval /\ installs \in Nat /\ attests \in Nat
          /\ attestedUps \in Nat /\ access \in AccessStates /\ now \in Nat
    BY DEF Init
  <2> QED
    BY <2>1, <2>2, <2>3, <2>4, <2>5 DEF TypeOK
<1>2. TypeOK /\ [Next]_vars => TypeOK'
  BY TypeOKStep
<1> QED
  BY <1>1, <1>2, PTL DEF Spec

(* Only installations, set_provenance_digests and migrate touch what       *)
(* ProvenanceFollowsCode reads.                                            *)
LEMMA ProvenanceStep ==
  ASSUME TypeOK, ProvenanceFollowsCode, [Next]_vars
  PROVE  ProvenanceFollowsCode'
<1>1. ASSUME NEW h \in Hashes, NEW b \in BOOLEAN, Install(h, b), UNCHANGED version
      PROVE  ProvenanceFollowsCode'
  <2>1. /\ prov' \in Provenance /\ wasm' = h /\ lastUpgrade' = now
        /\ prov'.hash = h /\ prov'.version = version
        /\ \A d \in Digests : prov'.digests[d] = None
    BY <1>1, InstallType
  <2>2. prov' # None /\ lastUpgrade' # None
    BY <2>1, AbsentAssumption DEF TypeOK
  <2>3. prov'.version <= version'
    BY <1>1, <2>1 DEF TypeOK
  <2> QED
    BY <2>1, <2>2, <2>3 DEF ProvenanceFollowsCode
<1>2. ASSUME NEW h \in Hashes, DirectUpgrade(h)
      PROVE  ProvenanceFollowsCode'
  BY <1>1, <1>2 DEF DirectUpgrade, setting
<1>3. ASSUME NEW a \in Addresses, NEW id \in 0 .. MaxProposals, ExecuteUpgrade(a, id)
      PROVE  ProvenanceFollowsCode'
  <2>1. proposal.hash \in Hashes
    BY <1>3 DEF ExecuteUpgrade, Executable, Proposal, TypeOK
  <2> QED
    BY <1>1, <1>3, <2>1 DEF ExecuteUpgrade
<1>4. ASSUME NEW D \in SUBSET Digests, SetProvenanceDigests(D)
      PROVE  ProvenanceFollowsCode'
  <2>1. prov \in Provenance /\ prov # None
    BY <1>4 DEF SetProvenanceDigests, TypeOK
  <2>2. prov' = [prov EXCEPT !.digests = [d \in Digests |-> IF d \in D THEN wasm ELSE @[d]]]
    BY <1>4 DEF SetProvenanceDigests
  <2>3. prov'.hash = prov.hash /\ prov'.version = prov.version
    BY <2>1, <2>2 DEF Provenance
  <2>4. \A d \in Digests : prov'.digests[d] \in {prov.digests[d], wasm}
    BY <2>1, <2>2 DEF Provenance
  <2>5. prov' \in Provenance
    BY <2>1, <2>2 DEF Provenance, TypeOK
  <2>6. prov' # None
    BY <2>5, AbsentAssumption
  <2> QED
    BY <1>4, <2>1, <2>3, <2>4, <2>6
    DEF SetProvenanceDigests, ProvenanceFollowsCode, setting
<1>5. ASSUME NEW v \in Versions, Migrate(v)
      PROVE  ProvenanceFollowsCode'
  <2>1. v \in Nat /\ version \in Nat /\ v > version /\ version' = v
    BY <1>5, SettingsAssumption DEF Migrate, TypeOK
  <2>2. prov # None => prov.version \in Nat
    BY DEF TypeOK, Provenance
  <2> QED
    BY <1>5, <2>1, <2>2 DEF Migrate, ProvenanceFollowsCode, code
<1>6. CASE UNCHANGED <<code, version>>
  BY <1>6 DEF ProvenanceFollowsCode, code
<1>7. (\E h \in Hashes, e \in Expiries : AttestUpgrade(h, e)) \/ ClearAttestation
        \/ (\E b \in BOOLEAN : SetAttestationRequired(b))
        \/ (\E c \in Cooldowns : SetCooldown(c))
      => UNCHANGED <<code, version>>
  BY DEF AttestUpgrade, ClearAttestation, SetAttestationRequired, SetCooldown, setting
<1>8. (\E a \in Addresses, h \in Hashes : StageWasm(a, h)) \/ ClearStaged
        \/ (\E t \in Thresholds : SetUpgradeThreshold(t))
        \/ (\E a \in Addresses, h \in Hashes, d \in Delays : Propose(a, h, d))
        \/ (\E a \in Addresses : SignApproval(a)) \/ (\E s \in signed : ApproveUpgrade(s))
        \/ (\E id \in 0 .. MaxProposals : CancelUpgradeProposal(id))
      => UNCHANGED <<code, version>>
  BY DEF StageWasm, ClearStaged, SetUpgradeThreshold, Propose, SignApproval,
         ApproveUpgrade, CancelUpgradeProposal, setting
<1>9. (\E x \in AccessStates : AccessChange(x)) \/ Tick \/ UNCHANGED vars
      => UNCHANGED <<code, version>>
  BY DEF AccessChange, Tick, vars, setting
<1> QED
  BY <1>2, <1>3, <1>4, <1>5, <1>6, <1>7, <1>8, <1>9 DEF Next, Direct, Governed

(* get_provenance and assert_build always speak of the running binary: for *)
(* every schedule of upgrades on both paths, digests and migrations.       *)
THEOREM ProvenanceTruthful == Spec => []ProvenanceFollowsCode
<1>1. Init => ProvenanceFollowsCode
  BY DEF Init, ProvenanceFollowsCode
<1>2. TypeOK /\ ProvenanceFollowsCode /\ [Next]_vars => ProvenanceFollowsCode'
  BY ProvenanceStep
<1> QED
  BY <1>1, <1>2, UpgradeTypeCorrect, PTL DEF Spec

(* Publishing adds one attestation to the books, and the only step that    *)
(* counts an attested upgrade takes the pending attestation away.          *)
LEMMA AttestationStep ==
  ASSUME TypeOK, AttestationsSpentOnce, [Next]_vars
  PROVE  AttestationsSpentOnce'
<1> DEFINE held(x) == IF x = None THEN 0 ELSE 1
<1>1. ASSUME NEW h \in Hashes, NEW e \in Expiries, AttestUpgrade(h, e)
      PROVE  AttestationsSpentOnce'
  <2>1. attests' = attests + 1 /\ attestedUps' = attestedUps
    BY <1>1 DEF AttestUpgrade
  <2>2. attests \in Nat /\ attestedUps \in Nat /\ attestedUps <= attests
    BY DEF TypeOK, AttestationsSpentOnce
  <2> QED
    BY <2>1, <2>2 DEF AttestationsSpentOnce
<1>2. CASE ClearAttestation
  BY <1>2 DEF ClearAttestation, AttestationsSpentOnce, TypeOK
<1>3. ASSUME NEW h \in Hashes, DirectUpgrade(h)
      PROVE  AttestationsSpentOnce'
  <2>1. CASE UNCHANGED <<attestation, attestedUps>>
    BY <1>3, <2>1 DEF DirectUpgrade, AttestationsSpentOnce
  <2>2. CASE AttestedFor(h) /\ ConsumeAttestation
    <3>1. attestation # None /\ attestation' = None /\ attestedUps' = attestedUps + 1
            /\ attests' = attests
      BY <1>3, <2>2 DEF DirectUpgrade, AttestedFor, ConsumeAttestation
    <3>2. attestedUps + 1 <= attests
      BY <3>1 DEF AttestationsSpentOnce
    <3> QED
      BY <3>1, <3>2 DEF AttestationsSpentOnce, TypeOK
  <2> QED
    BY <1>3, <2>1, <2>2 DEF DirectUpgrade
<1>4. CASE UNCHANGED <<attestation, attests, attestedUps>>
  BY <1>4 DEF AttestationsSpentOnce
<1>5. (\E b \in BOOLEAN : SetAttestationRequired(b)) \/ (\E c \in Cooldowns : SetCooldown(c))
        \/ (\E D \in SUBSET Digests : SetProvenanceDigests(D))
        \/ (\E v \in Versions : Migrate(v))
      => UNCHANGED <<attestation, attests, attestedUps>>
  BY DEF SetAttestationRequired, SetCooldown, SetProvenanceDigests, Migrate, gate
<1>6. Governed => UNCHANGED <<attestation, attests, attestedUps>>
  BY DEF Governed, StageWasm, ClearStaged, SetUpgradeThreshold, Propose, SignApproval,
         ApproveUpgrade, ExecuteUpgrade, CancelUpgradeProposal, gate
<1>7. (\E x \in AccessStates : AccessChange(x)) \/ Tick \/ UNCHANGED vars
      => UNCHANGED <<attestation, attests, attestedUps>>
  BY DEF AccessChange, Tick, vars, gate
<1> QED
  BY <1>1, <1>2, <1>3, <1>4, <1>5, <1>6, <1>7 DEF Next, Direct

(* However attestations are published, replaced, cleared and left to       *)
(* expire, none authorises two upgrades.                                   *)
THEOREM AttestationsNeverReused == Spec => []AttestationsSpentOnce
<1>1. Init => AttestationsSpentOnce
  BY DEF Init, AttestationsSpentOnce
<1>2. TypeOK /\ AttestationsSpentOnce /\ [Next]_vars => AttestationsSpentOnce'
  BY AttestationStep
<1> QED
  BY <1>1, <1>2, UpgradeTypeCorrect, PTL DEF Spec

(* What approvals rest on: ApprovalsMeantThisHash alone is not inductive,  *)
(* since a late approval names an id only; that the id of the live         *)
(* proposal was never used for another hash makes up the difference.       *)
Genuine == IdsNameOneHash /\ ApprovalsMeantThisHash

(* A step that leaves the proposal, the counter and the signed approvals   *)
(* alone keeps Genuine, and so does one that clears the proposal.          *)
LEMMA GenuineKept ==
  ASSUME Genuine, UNCHANGED <<nextId, signed>>, proposal' = proposal \/ proposal' = None
  PROVE  Genuine'
BY DEF Genuine, IdsNameOneHash, ApprovalsMeantThisHash

(* A new proposal takes an id nobody signed under. *)
LEMMA ProposeGenuine ==
  ASSUME TypeOK, Genuine, NEW a \in Addresses, NEW h \in Hashes, NEW d \in Delays,
         Propose(a, h, d)
  PROVE  Genuine'
<1> DEFINE s0 == [by |-> a, id |-> nextId, hash |-> h]
<1>1. /\ proposal' = [id |-> nextId, hash |-> h, at |-> now + d, approvers |-> <<a>>]
      /\ nextId' = nextId + 1
      /\ signed' = signed \cup {s0}
  BY DEF Propose, NewProposal, AdvancedId
<1>2. /\ proposal'.id = nextId /\ proposal'.hash = h /\ proposal'.approvers = <<a>>
      /\ s0.id = nextId /\ s0.hash = h
  BY <1>1
<1>3. nextId \in Nat /\ \A s \in signed : s.id \in Nat /\ s.id < nextId
  BY DEF TypeOK, Approval, Genuine, IdsNameOneHash
<1>4. IdsNameOneHash'
  <2>1. \A s \in signed' : s.id < nextId'
    BY <1>1, <1>2, <1>3
  <2>2. proposal'.id < nextId'
    BY <1>1, <1>2, <1>3
  <2>3. \A s \in signed' : s.id = proposal'.id => s.hash = proposal'.hash
    BY <1>1, <1>2, <1>3
  <2> QED
    BY <2>1, <2>2, <2>3 DEF IdsNameOneHash
<1>5. ApprovalsMeantThisHash'
  BY <1>1, <1>2 DEF ApprovalsMeantThisHash
<1> QED
  BY <1>4, <1>5 DEF Genuine

(* Signing adds an approval of what is pending. *)
LEMMA SignGenuine ==
  ASSUME TypeOK, Genuine, NEW a \in Addresses, SignApproval(a)
  PROVE  Genuine'
<1> DEFINE s0 == [by |-> a, id |-> proposal.id, hash |-> proposal.hash]
<1>1. /\ proposal # None /\ proposal' = proposal /\ nextId' = nextId
      /\ signed' = signed \cup {s0}
  BY DEF SignApproval
<1>2. s0.id = proposal.id /\ s0.hash = proposal.hash
  OBVIOUS
<1> HIDE DEF s0
<1>3. IdsNameOneHash'
  BY <1>1, <1>2 DEF Genuine, IdsNameOneHash
<1>4. ApprovalsMeantThisHash'
  BY <1>1 DEF Genuine, ApprovalsMeantThisHash
<1> QED
  BY <1>3, <1>4 DEF Genuine

(* An approval that lands was signed for the hash that is pending. *)
LEMMA ApproveGenuine ==
  ASSUME TypeOK, Genuine, NEW s \in signed, ApproveUpgrade(s)
  PROVE  Genuine'
<1>1. /\ proposal \in Proposal /\ proposal # None /\ proposal.id = s.id
      /\ UNCHANGED <<nextId, signed>>
  BY DEF ApproveUpgrade, Addressed, TypeOK
<1>2. s = [by |-> s.by, id |-> proposal.id, hash |-> proposal.hash]
  <2>1. s \in Approval
    BY DEF TypeOK
  <2>2. s.hash = proposal.hash
    BY <1>1 DEF Genuine, IdsNameOneHash
  <2> QED
    BY <1>1, <2>1, <2>2 DEF Approval
<1>3. CASE proposal' = proposal
  BY <1>1, <1>3, GenuineKept
<1>4. CASE proposal' = [proposal EXCEPT !.approvers = Append(@, s.by)]
  <2> DEFINE q == proposal.approvers
  <2>1. q \in Seq(Addresses) /\ s.by \in Addresses
    BY <1>1 DEF Proposal, TypeOK, Approval
  <2>2. /\ proposal'.id = proposal.id /\ proposal'.hash = proposal.hash
        /\ proposal'.approvers = Append(q, s.by)
    BY <1>1, <1>4 DEF Proposal
  <2>3. \A i \in DOMAIN q : q[i] # s.by
    BY DEF ApproveUpgrade, Countable, Approved
  <2>4. IdsNameOneHash'
    BY <1>1, <2>2 DEF Genuine, IdsNameOneHash
  <2>5. \A i \in DOMAIN q :
           [by |-> q[i], id |-> proposal.id, hash |-> proposal.hash] \in signed
    BY <1>1 DEF Genuine, ApprovalsMeantThisHash
  <2>6. \A i, j \in DOMAIN q : q[i] = q[j] => i = j
    BY <1>1 DEF Genuine, ApprovalsMeantThisHash
  <2> HIDE DEF q
  <2> DEFINE t == Append(q, s.by)
  <2>7. /\ DOMAIN q = 1 .. Len(q) /\ Len(q) \in Nat
        /\ DOMAIN t = 1 .. Len(q) + 1
        /\ t[Len(q) + 1] = s.by
        /\ \A i \in DOMAIN q : t[i] = q[i]
    BY <2>1
  <2> HIDE DEF t
  <2>8. \A i \in DOMAIN t :
           [by |-> t[i], id |-> proposal.id, hash |-> proposal.hash] \in signed
    <3> SUFFICES ASSUME NEW i \in DOMAIN t
                 PROVE  [by |-> t[i], id |-> proposal.id, hash |-> proposal.hash] \in signed
      OBVIOUS
    <3>1. i \in DOMAIN q \/ i = Len(q) + 1
      BY <2>7
    <3>2. CASE i \in DOMAIN q
      BY <3>2, <2>5, <2>7
    <3>3. CASE i = Len(q) + 1
      BY <3>3, <2>7, <1>2
    <3> QED
      BY <3>1, <3>2, <3>3
  <2>9. \A i, j \in DOMAIN t : t[i] = t[j] => i = j
    BY <2>3, <2>6, <2>7
  <2>10. ApprovalsMeantThisHash'
    BY <1>1, <2>2, <2>8, <2>9 DEF ApprovalsMeantThisHash, t
  <2> QED
    BY <2>4, <2>10 DEF Genuine
<1> QED
  BY <1>3, <1>4 DEF ApproveUpgrade, WithApproval

(* No step adds an approval that was not signed for the live proposal. *)
LEMMA GenuineStep ==
  ASSUME TypeOK, Genuine, [Next]_vars
  PROVE  Genuine'
<1>1. Direct => UNCHANGED <<nextId, signed, proposal>>
  BY DEF Direct, AttestUpgrade, ClearAttestation, SetAttestationRequired, SetCooldown,
         DirectUpgrade, SetProvenanceDigests, Migrate, quorum
<1>2. (\E a \in Addresses, h \in Hashes : StageWasm(a, h)) \/ ClearStaged
        \/ (\E t \in Thresholds : SetUpgradeThreshold(t))
      => UNCHANGED <<nextId, signed, proposal>>
  BY DEF StageWasm, ClearStaged, SetUpgradeThreshold, quorum
<1>3. (\E a \in Addresses, id \in 0 .. MaxProposals : ExecuteUpgrade(a, id))
        \/ (\E id \in 0 .. MaxProposals : CancelUpgradeProposal(id))
      => UNCHANGED <<nextId, signed>> /\ proposal' = None
  BY DEF ExecuteUpgrade, CancelUpgradeProposal
<1>4. (\E x \in AccessStates : AccessChange(x)) \/ Tick \/ UNCHANGED vars
      => UNCHANGED <<nextId, signed, proposal>>
  BY DEF AccessChange, Tick, vars, quorum
<1>5. UNCHANGED <<nextId, signed>> /\ (proposal' = proposal \/ proposal' = None) => Genuine'
  BY GenuineKept
<1> QED
  BY <1>1, <1>2, <1>3, <1>4, <1>5, ProposeGenuine, SignGenuine, ApproveGenuine
  DEF Next, Governed

(* Every counted approval was given to the pending proposal and hash,      *)
(* however late it lands and whatever was proposed and cancelled before.   *)
THEOREM ApprovalsGenuine == Spec => [](IdsNameOneHash /\ ApprovalsMeantThisHash)
<1>1. Init => Genuine
  BY DEF Init, Genuine, IdsNameOneHash, ApprovalsMeantThisHash
<1>2. TypeOK /\ Genuine /\ [Next]_vars => Genuine'
  BY GenuineStep
<1> QED
  BY <1>1, <1>2, UpgradeTypeCorrect, PTL DEF Spec, Genuine

(* As many different keys signed for the pending hash as are counted. *)
LEMMA ApproversCounted ==
  ASSUME TypeOK, ApprovalsMeantThisHash, proposal # None
  PROVE  Len(proposal.approvers) <= Cardinality(SignersOf(proposal.id, proposal.hash))
<1> DEFINE q == proposal.approvers
           S == SignersOf(proposal.id, proposal.hash)
<1>1. q \in Seq(Addresses)
  BY DEF TypeOK, Proposal
<1>2. IsFiniteSet(S)
  <2>1. S \subseteq Addresses
    BY DEF SignersOf
  <2> QED
    BY <2>1, FS_Subset, PartiesAssumption
<1>3. \A i \in 1 .. Len(q) : q[i] \in S
  BY <1>1 DEF SignersOf, ApprovalsMeantThisHash
<1>4. \A i, j \in 1 .. Len(q) : q[i] = q[j] => i = j
  BY <1>1 DEF ApprovalsMeantThisHash
<1>5. q \in Injection(1 .. Len(q), S)
  BY <1>1, <1>3, <1>4 DEF Injection, IsInjective
<1>6. IsFiniteSet(1 .. Len(q)) /\ Cardinality(1 .. Len(q)) = Len(q)
  BY <1>1, FS_Interval
<1>7. Cardinality(1 .. Len(q)) <= Cardinality(S)
  BY <1>2, <1>5, <1>6, FS_Injection
<1> QED
  BY <1>6, <1>7

(* execute_upgrade never installs a hash that fewer than threshold         *)
(* different keys signed for.                                              *)
THEOREM QuorumGenuine == Spec => QuorumMeantThisHash
<1> DEFINE A == installs' > installs /\ proposal' # proposal =>
                  Cardinality(SignersOf(proposal.id, wasm')) >= threshold
<1>1. ASSUME TypeOK, Genuine, Next PROVE A
  <2>1. ASSUME NEW a \in Addresses, NEW id \in 0 .. MaxProposals, ExecuteUpgrade(a, id)
        PROVE  A
    <3>1. /\ proposal # None
          /\ Len(proposal.approvers) >= threshold
          /\ wasm' = proposal.hash
      BY <2>1 DEF ExecuteUpgrade, Executable, Install
    <3>2. Len(proposal.approvers) <= Cardinality(SignersOf(proposal.id, proposal.hash))
      BY <1>1, <3>1, ApproversCounted DEF Genuine
    <3>3. IsFiniteSet(SignersOf(proposal.id, proposal.hash))
      <4>1. SignersOf(proposal.id, proposal.hash) \subseteq Addresses
        BY DEF SignersOf
      <4> QED
        BY <4>1, FS_Subset, PartiesAssumption
    <3>4. Cardinality(SignersOf(proposal.id, proposal.hash)) \in Nat
      BY <3>3, FS_CardinalityType
    <3>5. threshold \in Nat /\ Len(proposal.approvers) \in Nat
      BY <1>1, <3>1 DEF TypeOK, Proposal
    <3> QED
      BY <3>1, <3>2, <3>4, <3>5
  <2>2. CASE Direct
    BY <2>2 DEF Direct, AttestUpgrade, ClearAttestation, SetAttestationRequired, SetCooldown,
                DirectUpgrade, SetProvenanceDigests, Migrate, quorum
  <2>3. CASE /\ Governed
             /\ ~ \E a \in Addresses, id \in 0 .. MaxProposals : ExecuteUpgrade(a, id)
    <3>1. installs' = installs
      BY <2>3 DEF Governed, StageWasm, ClearStaged, SetUpgradeThreshold, Propose,
                  SignApproval, ApproveUpgrade, CancelUpgradeProposal, code
    <3> QED
      BY <1>1, <3>1 DEF TypeOK
  <2>4. CASE (\E x \in AccessStates : AccessChange(x)) \/ Tick
    BY <2>4 DEF AccessChange, Tick, quorum
  <2> QED
    BY <1>1, <2>1, <2>2, <2>3, <2>4 DEF Next
<1> QED
  BY <1>1, UpgradeTypeCorrect, ApprovalsGenuine, PTL DEF Spec, QuorumMeantThisHash, Genuine

-----------------------------------------------------------------------------
(* Versions and migrations. *)

(* Versions are ordered by their fields, and the order is total. *)
LEMMA VersionsAreOrdered ==
  ASSUME NEW u \in Version, NEW v \in Version, NEW w \in Version
  PROVE  /\ ~Less(u, u)
         /\ Less(u, v) /\ Less(v, w) => Less(u, w)
         /\ Less(u, v) \/ u = v \/ Less(v, u)
<1>1. /\ u.major \in Nat /\ u.minor \in Nat /\ u.patch \in Nat
      /\ v.major \in Nat /\ v.minor \in Nat /\ v.patch \in Nat
      /\ w.major \in Nat /\ w.minor \in Nat /\ w.patch \in Nat
  BY DEF Version
<1>2. u.major = v.major /\ u.minor = v.minor /\ u.patch = v.patch => u = v
  BY DEF Version
<1> QED BY <1>1, <1>2 DEF Less

(* The early returns of is_compatible_with decide the order that migrate   *)
(* uses, whatever the versions: one satisfies a minimum unless it comes    *)
(* before it, and every bump comes after, so that migrate accepts it, a    *)
(* migration is due, and the old binary does not pass for the new one.     *)
THEOREM CompatibilityDecidesOrder ==
  ASSUME NEW v \in Version
  PROVE  /\ \A w \in Version : IsCompatibleWith(v, w) <=> ~Less(v, w)
         /\ \A w \in {BumpPatch(v), BumpMinor(v), BumpMajor(v)} :
              /\ w \in Version /\ Migratable(v, w) /\ NeedsMigration(v, w)
              /\ IsCompatibleWith(w, v) /\ ~IsCompatibleWith(v, w)
<1>1. v.major \in Nat /\ v.minor \in Nat /\ v.patch \in Nat
  BY DEF Version
<1>2. \A w \in Version : IsCompatibleWith(v, w) <=> ~Less(v, w)
  BY <1>1 DEF Version, IsCompatibleWith, Less
<1>3. ASSUME NEW w \in {BumpPatch(v), BumpMinor(v), BumpMajor(v)}
      PROVE  /\ w \in Version /\ Migratable(v, w) /\ NeedsMigration(v, w)
             /\ IsCompatibleWith(w, v) /\ ~IsCompatibleWith(v, w)
  <2>1. /\ w \in Version /\ w.major >= v.major
        /\ \/ w.major > v.major
           \/ w.major = v.major /\ w.minor > v.minor
           \/ w.major = v.major /\ w.minor = v.minor /\ w.patch > v.patch
    BY <1>1, <1>3 DEF Version, BumpPatch, BumpMinor, BumpMajor, Ver
  <2>2. w.major \in Nat /\ w.minor \in Nat /\ w.patch \in Nat
    BY <2>1 DEF Version
  <2>3. Less(v, w) /\ v # w
    BY <1>1, <2>1, <2>2 DEF Less
  <2>4. IsCompatibleWith(w, v)
    BY <1>1, <2>1, <2>2 DEF IsCompatibleWith
  <2> QED BY <1>1, <1>2, <2>1, <2>2, <2>3, <2>4 DEF Migratable, NeedsMigration
<1> QED BY <1>2, <1>3

(* However many steps are registered and however a deployment is taken     *)
(* from one version to a later one, in one call of migrate or through a    *)
(* version between, the same steps run and none of them runs twice.        *)
THEOREM MigrationsSplit ==
  ASSUME NEW steps \in SUBSET Version,
         NEW u \in Version, NEW v \in Version, NEW w \in Version,
         Migratable(u, v), Migratable(v, w)
  PROVE  /\ StepsApplied(steps, u, w) = StepsApplied(steps, u, v) \cup StepsApplied(steps, v, w)
         /\ StepsApplied(steps, u, v) \cap StepsApplied(steps, v, w) = {}
<1>1. ASSUME NEW f \in steps
      PROVE  /\ ~Less(f, u) /\ Less(f, w) <=>
                   (~Less(f, u) /\ Less(f, v)) \/ (~Less(f, v) /\ Less(f, w))
  <2>1. f \in Version
    OBVIOUS
  <2>2. Less(f, v) => Less(f, w)
    BY <2>1, VersionsAreOrdered DEF Migratable
  <2>3. Less(f, u) => Less(f, v)
    BY <2>1, VersionsAreOrdered DEF Migratable
  <2> QED BY <2>2, <2>3
<1> QED BY <1>1 DEF StepsApplied

==============================================================================
