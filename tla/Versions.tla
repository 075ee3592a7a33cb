------------------------------ MODULE Versions ------------------------------
(***************************************************************************)
(* Contract versions (version.rs) and the choice of data migrations that   *)
(* migrate runs between two of them (storage.rs, run_migration_steps).  A  *)
(* version is a triple, compared field by field.  Upgrade orders versions  *)
(* by rank; this is the order behind the rank.                             *)
(***************************************************************************)
EXTENDS Integers

Version == [major : Nat, minor : Nat, patch : Nat]

Ver(a, b, c) == [major |-> a, minor |-> b, patch |-> c]

(* The derived Ord of tuples, which migrate compares with. *)
Less(v, w) ==
  \/ v.major < w.major
  \/ v.major = w.major /\ v.minor < w.minor
  \/ v.major = w.major /\ v.minor = w.minor /\ v.patch < w.patch

(* is_compatible_with: early returns on the first field that differs. *)
IsCompatibleWith(v, minimum) ==
  IF v.major # minimum.major THEN v.major > minimum.major
  ELSE IF v.minor # minimum.minor THEN v.minor > minimum.minor
  ELSE v.patch >= minimum.patch

NeedsMigration(v, target) == v # target /\ v.major <= target.major

BumpPatch(v) == [v EXCEPT !.patch = @ + 1]
BumpMinor(v) == Ver(v.major, v.minor + 1, 0)
BumpMajor(v) == Ver(v.major + 1, 0, 0)

(* The steps, among those with the from_versions in steps, that            *)
(* run_migration_steps applies when migrate goes from current to target.   *)
StepsApplied(steps, current, target) ==
  {f \in steps : ~Less(f, current) /\ Less(f, target)}

(* migrate accepts only a later version. *)
Migratable(current, target) == Less(current, target)

=============================================================================
