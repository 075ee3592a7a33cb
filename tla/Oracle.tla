------------------------------- MODULE Oracle -------------------------------
(***************************************************************************)
(* Oracle-signed ownership proofs (src/oracle_proof.rs).                   *)
(*                                                                         *)
(* An oracle checks off-chain that a GitHub user owns an address and signs *)
(* the statement "username:address:expires_at".  The holder later submits  *)
(* it as a proof.  A proof is whatever the submitter puts together: it may *)
(* carry someone else's statement, another expiry field than the one that  *)
(* was signed, or a signature that is none.  Signatures are modelled by    *)
(* what they show: Statements holds every pair of a key and a message that *)
(* an oracle signed, and nobody else can produce such a signature.         *)
(***************************************************************************)
EXTENDS Integers

CONSTANTS
  OracleKeys,  \* Ed25519 public keys
  Statements,  \* pairs <<key, message>> that oracles have signed
  Proofs       \* proofs submitted to verify_with_oracle_proof

Signature == {"signed", "zero", "noncanonical", "forged"}

(* The fields of an OracleProof; the message may be any bytes. *)
OracleProof(p) ==
  /\ p.key \in OracleKeys
  /\ p.expires \in Nat
  /\ p.signature \in Signature

ASSUME OracleAssumption == \A p \in Proofs : OracleProof(p)

(* The canonical message: the username as typed, the address, the expiry. *)
OwnershipMessage(n, a, e) == [name |-> n, addr |-> a, expires |-> e]

EmptyMessage == [name |-> "", addr |-> "", expires |-> 0]

WellFormed(p) == p.message # EmptyMessage /\ p.signature # "zero"

InTime(p, t) == p.expires = 0 \/ t <= p.expires

(* ed25519_verify of the host; it aborts the call when it fails. *)
SignatureVerifies(p) ==
  /\ p.signature \notin {"noncanonical", "forged"}
  /\ <<p.key, p.message>> \in Statements

VerifyWithProof(p, allowlist, t) ==
  /\ WellFormed(p)
  /\ p.key \in allowlist
  /\ InTime(p, t)
  /\ SignatureVerifies(p)

(* mutant: the expiry field is not compared with the signed one *)
BindsPairOnly(p, n, a) == p.message.name = n /\ p.message.addr = a

Binds(p, n, a) == p.message = OwnershipMessage(n, a, p.expires)

VerifyOwnershipProof(p, n, a, allowlist, t) ==
  Binds(p, n, a) /\ VerifyWithProof(p, allowlist, t)

=============================================================================
