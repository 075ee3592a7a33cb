----------------------------- MODULE MCRegistry -----------------------------
(* Instances of Registry for TLC.  "Ana" and "ana" are spellings of one    *)
(* username; "ann" stands for every contributor and role holder.           *)
EXTENDS Registry, Usernames

MCTwoNames == {"ana", "Ana", "bo"}

MCTwoCanon == [n \in MCTwoNames |-> IF n = "Ana" THEN "ana" ELSE n]

MCPlainCanon == [n \in {"ana", "bo", "cy"} |-> n]

MCTwoPlain == [n \in {"ana", "bo"} |-> n]

MCOneCanon == [n \in {"ana"} |-> n]

MCSpellings == [n \in {"ana", "Ana"} |-> "ana"]

MCAccess == [open : BOOLEAN, verifiers : {{"ann"}}, revokers : {{"ann"}}, admins : {{"ann"}}]

MCOpen == {a \in MCAccess : a.open}

(* The admin alone, and with a second holder of the Admin role. *)
MCSecondAdmin ==
  [open : {TRUE}, verifiers : {{"ann"}}, revokers : {{"ann"}}, admins : {{}, {"ann"}}]

MCAlwaysOpen == {[open |-> TRUE, verifiers |-> {}, revokers |-> {}, admins |-> {}]}

(* An oracle signed for ann with an expiry and, with the key "k2", for the  *)
(* admin.  The proofs: good ones, one with the expiry field cleared and    *)
(* one for each way a proof can be malformed.                              *)
MCStatements ==
  {<<"k1", OwnershipMessage("ana", "ann", 1)>>, <<"k2", OwnershipMessage("ana", "adm", 0)>>}

MCProof(k, a, e, signed, sig) ==
  [key |-> k, message |-> OwnershipMessage("ana", a, signed), expires |-> e, signature |-> sig]

MCProofs ==
  {MCProof("k1", "ann", 1, 1, "signed"), MCProof("k1", "ann", 0, 1, "signed"),
   MCProof("k2", "adm", 0, 0, "signed"), MCProof("k1", "adm", 0, 0, "forged"),
   MCProof("k1", "ann", 1, 1, "zero"), MCProof("k1", "ann", 1, 1, "noncanonical")}

MCPair == {<<"ana", "bo">>}

MCOneBatches == {<<"ana">>}

MCTwoBatches == {<<"ana", "bo">>, <<"Ana", "ana">>}

-----------------------------------------------------------------------------
(* The username rules, on every string of up to three bytes and on longer  *)
(* runs of the bytes that matter to the walk.                              *)

MCBytes == Alphanumeric \cup {"-", "_", ".", "utf8"}

MCStrings == UNION {[1 .. n -> MCBytes] : n \in 0 .. 3}

MCLongStrings == MCStrings \cup [1 .. 5 -> {"a", "-", "_"}]

(* is_valid_github_username accepts exactly what its documentation lists,  *)
(* at every length around the limit.                                       *)
ASSUME ValidAsDocumented ==
  \A max \in 2 .. 4 : \A s \in MCLongStrings :
    IsValidGithubUsername(s, max, 5) <=> DocumentedlyValid(s, max)

(* For names that can be registered the fold is what Registry assumes of   *)
(* Canon: idempotent, it keeps a name valid, and two names share a key     *)
(* exactly if they differ in case only.                                    *)
ASSUME FoldIsCanon ==
  LET valid == {s \in MCStrings : IsValidGithubUsername(s, 2, 3)}
      Fold(s) == CanonicalizeUsername(s, 3)
  IN \A s \in valid :
       /\ Fold(s) \in valid
       /\ Fold(Fold(s)) = Fold(s)
       /\ \A t \in valid : EqIgnoreAsciiCase(s, t, 3) <=> Fold(s) = Fold(t)

=============================================================================
