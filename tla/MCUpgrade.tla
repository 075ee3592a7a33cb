----------------------------- MODULE MCUpgrade -----------------------------
(* Small instances of Upgrade for TLC: the admin, and keys that hold the   *)
(* Upgrader role, lose it and get it back.                                 *)
EXTENDS Upgrade, Versions

MCTwoUpgraders == [open : BOOLEAN, upgraders : {{"uma"}, {"ugo", "uma"}}]

MCAdminAlone == [open : {TRUE}, upgraders : {{}}]

----------------------------------------------------------------------------
(* Versions with fields up to 2, each with a migration step. *)

MCVersions == {Ver(a, b, c) : a, b, c \in 0 .. 2}

(* The early returns of is_compatible_with decide the order that migrate   *)
(* uses: a version satisfies a minimum unless it comes before it, and      *)
(* every bump comes after.                                                 *)
ASSUME CompatibilityIsOrder ==
  /\ \A v, w \in MCVersions : IsCompatibleWith(v, w) <=> ~Less(v, w)
  /\ \A v \in MCVersions : \A w \in {BumpPatch(v), BumpMinor(v), BumpMajor(v)} :
       /\ Migratable(v, w) /\ NeedsMigration(v, w)
       /\ IsCompatibleWith(w, v) /\ ~IsCompatibleWith(v, w)

(* However a deployment is taken from one version to a later one, in one   *)
(* call of migrate or in several, the same steps run and each runs once.   *)
ASSUME MigrationsCompose ==
  \A u, v, w \in MCVersions : Migratable(u, v) /\ Migratable(v, w) =>
    /\ StepsApplied(MCVersions, u, w) =
         StepsApplied(MCVersions, u, v) \cup StepsApplied(MCVersions, v, w)
    /\ StepsApplied(MCVersions, u, v) \cap StepsApplied(MCVersions, v, w) = {}

============================================================================
