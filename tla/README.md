# TrustBridge registry contract: TLA+ models and proofs

TrustBridge is a Soroban (Stellar) contract that binds GitHub usernames to
Stellar addresses, records which bindings have been verified, and exports the
result to payout tooling. This directory holds TLA+ models of the contract's
state-changing entry points, of its reads and of the two long-running scripts
beside it, TLC configurations, proofs checked by TLAPS, and `PROJECT.json`,
which ties every definition to the source lines it models.

Paths below are relative to the repository root; the implementation is
`src/*.rs`.

## How the contract executes, and what that means for the models

* **One action is one invocation.** The host runs an invocation atomically and
  discards every write of one that returns an error or traps. A call that fails
  any check is therefore not a step; the checks are the action's guards, in the
  code's order only where order can be observed. What the code writes before
  returning an error (the "clear the stale attestation" and "clear the expired
  proposal" writes, the unauthorized-attempt audit entries) is rolled back and
  does not appear.
* **What interleaves** is invocations of different callers, the ledger clock,
  calls that were signed earlier and land later, and the steps of off-chain
  processes: a client that pages, the TTL keeper, the event indexer. There are
  no threads inside the contract.
* **The admin is fixed** by `initialize`. The storage helpers for an admin
  transfer are not reachable from an entry point.
* **Time** is a bounded counter; every comparison with a deadline uses the
  code's strictness (`now >= at`, `now > expires`).
* **Usernames** are spellings with a fold `Canon` to storage keys. Most storage
  keys are folded, `VERIFIED_AT_KEY` and the probe of `has_record` are not, and
  the models index by the spelling exactly where the code does.

## Inventory

| Component | State | Operations | Module |
|---|---|---|---|
| Registry | records, total / verified / ever-verified counters, flat index, chunked pages, index generation, re-verify flags, grant times, last activity | register, register_sponsored, verify, verify_with_oracle_proof, batch_verify, revoke_verification, config_verification, set_bot_status, remove, rename, batch_remove, compact_index, repair_index | `Registry` |
| Rotation, challenge, reservation, dual control | queued rotations, open challenges, reserved names, proposed batch removal, their settings | request / execute / cancel rotation, start / cancel / complete challenge, add / remove reserved, propose / execute / cancel batch removal, setters | `Registry` |
| Access | two pause switches, guardian, roles with expiry and index, queued grants and their delay, verifier allowlist, per-ledger spend | pause, unpause, set_paused, emergency_pause, clear_emergency_pause, guardian setters, set_role, set_role_with_expiry, activate_role, cancel_role_grant, remove_role, add / remove verifier, prune_expired_verifiers, set_verify_limit, metered verify / revoke | `Access` |
| Upgrade governance | running binary, provenance, version, cooldown, attestation and its required flag, staged hash, threshold, proposal counter, live proposal | upgrade, attest_upgrade, clear_attestation, set_attestation_required, set_cooldown, set_provenance_digests, migrate, stage_wasm, clear_staged, set_upgrade_threshold, propose / approve / execute / cancel | `Upgrade` |
| Paginated export | cursors (offset + generation) held by clients | get_registered_paginated, get_public_paginated, a client's pages and restarts | `Export` |
| Reads | none | get_registered_page, get_all_registered, get_pending_reverify, get_record_proof, get_address_if_verified, get_stats, get_role_holders | `Export`, `Access` |
| Merkle roots | none | leaf_hash, node_hash, root_of, root_of_records | `Merkle`, used by `Export` |
| Events | none in the contract; a follower's table | what each registry entry point publishes | `Feed` |
| Oracle proofs | allowlist of oracle keys | set_oracle_allowlist, verify_with_oracle_proof | `Oracle`, state in `Registry` |
| Versioning, migration | stored version | migrate, is_compatible_with, needs_migration, bumps, step selection | `Versions`; the stored version in `Upgrade` |
| Input validation | none | is_valid_github_username, canonicalize_username, eq_ignore_ascii_case, is_zero_address | `Usernames`; burn address in `Registry` |
| TTL keeping | expiry ledger of every record and index page; the keeper's cursor and failed batches | extend_registry_ttl, bumps in storage helpers, the pass of `scripts/ttl_keeper.sh` | `Keeper` |
| Event indexer | log, dedup and cursor files, retries | the loop of `scripts/event_indexer.sh` | `Indexer` |
| Audit log | ring of entries | pushed by every handler, never read back by one | not modelled |
| Errors, domain tags, health snapshot | none | | not modelled |
| Other scripts, TypeScript fixtures, fuzz targets | | | not modelled |

Interactions: the registry and the upgrade path consult the access layer at the
start of every call (pause, admin, role, allowlist). `Registry` and `Upgrade`
see it through one variable, `access`, which may change to any member of
`AccessStates` between invocations; that over-approximates what `Access` lets
happen. `verify` and `revoke_verification` appear twice: in `Access` with the
authorisation and the metering, in `Registry` with what they do to records.
`Export` and `Feed` extend `Registry`: their steps are its invocations
interleaved with a client's requests, or paired with published events. `Keeper`
and `Indexer` are processes outside the contract; each has its own reduction of
the contract to what the process can notice (lifetimes and pages; numbered
events and a retention window).

What is hard here: no concurrency inside a call, but long sequences of legal
calls by different parties over a dozen storage entries that each handler keeps
consistent by hand; entries that outlive the record they belong to; values read
at one time and used at another (cursors, queued rotations, queued grants,
signed approvals, attestations, proposals that expire); counters at their
limits; several spellings of one name; two paths to the same effect that check
different things; scripts that are killed between two writes, whose requests
fail, and that walk a registry which changes under them. `PROJECT.json` lists these hazards line by line with the
properties aimed at each.

## Modules

### Registry

State and storage keys correspond one to one (see the comments at the
`VARIABLES`). `Without` and `Cut` (from `Listing`), `AddToChunks`,
`DropFromChunks` and `BumpGen` are the index helpers of `storage.rs`;
`WriteRegistration`, `GrantVerification` and `DropRecords` are what several
handlers share. Only
valid usernames are submitted; `Usernames` shows what valid means and that the
fold of valid names is what `Canon` assumes. Signatures restrict no step when any address
may sign, so they are not represented, except that a queued rotation remembers
the holder who signed it (`holder`, a history field). Fallback payout addresses,
timestamps inside the record and event payloads carry no property and are left
out. 32-bit quantities are parameters (`U32Max`, `GenModulus`, `MaxPages`).

### Listing

What the storage helpers do to vectors, wherever the contract keeps one: the
loops that copy the entries they keep (`Without`), the index cut into pages
(`Cut`) and read page by page (`Flatten`). `Registry`, `Export`, `Keeper` and
`Access` use it. The operators are defined by the rank of a position, not by
recursion, because recursive definitions cannot be reasoned about in the proofs.

### Access

Roles, expiries, index, queued grants, allowlist and spend as stored. Ledger
sequence and timestamp advance together. `accepted` is a history variable: the
units accepted in the current ledger, counted independently of the stored spend.
The admin is not metered and needs no role, so its calls are no steps here.

### Upgrade

`signed` holds the approvals signers put their key to: the hash they saw under
the id they signed. The submitted call carries the id only, and may land at any
later time. Every installed binary is taken to be a build of this contract.
`installs`, `attests`, `attestedUps` and `signed` are history. Digests
recorded with `set_provenance_digests` are taken to be digests of the binary
then running.

### AbstractRegistry, and what Registry implements

What dashboards and payout scripts rely on, with no counters, indexes, timers
or roles: who holds a name, which names somebody vouched for, open or closed.
Claiming, transferring, vouching, withdrawing, releasing and moving a name are
its steps. `Registry` instantiates it (`Abstract`) with the holder and the
verified flag of each record and the pause state, and `ImplementsAbstract`
states that every behaviour of `Registry` is one of `AbstractRegistry`: thirty
entry points, among them four ways to change a holder and five ways to remove a
record, come down to six steps. It holds for folded renames; with an unfolded
target `rename` is not a `Move` (see `rename_case`).

### Oracle

A proof is a key, a message, an expiry field and the shape of its signature;
`Statements` are the messages oracles really signed. The checks are in the
code's order: canonical message for name, current holder and expiry, layout,
allowlist, expiry, signature. Which proofs exist is a constant, so late,
repeated, altered and forged ones are submitted at any time.

### Export and Merkle

`Page` is either export entry point; `AdminPage` slices the flat index,
`PublicPage` walks the chunked pages and hides holders of unverified names.
A client keeps a cursor and what it has collected, asks either entry point with
any limit for its next page, starts over when the cursor is refused, and begins
another export when done. Between two requests any invocation of `Registry`
may happen. The last section are the reads by offset, by name and by counter.
`Merkle` is the tree bottom up as `merkle.rs` builds it, with an injective
constructor for SHA-256 and its two domain bytes.

### Feed

Every action of `Registry` paired with the set of events its handler publishes,
and `table`, what a follower holds who has applied all of them and never read
the contract.

### Keeper

`until[n]` is the last ledger a record lives in and every index page has one
too. Transactions that touch an archived entry fail. The keeper is a process:
`Start`, then alternately a page read (a simulation, which extends nothing) and
an `extend_registry_ttl` for the names on it, each of which may fail. `rename`
is a removal and a registration here. The timer is punctual: no ledger closes
while a pass is due.

### Indexer

Files survive a kill, memory does not. Appending an event, marking it seen and
replacing the cursor file are separate steps with a kill possible between any
two. Appending to the seen file and trimming it is one step: a kill in between
leaves one line too many until the next event. Events are numbered by ledger.

### Usernames and Versions

Pure operators over byte classes and version triples. What they promise is
proved for all inputs (`ValidNames`, `FoldMakesKeys`,
`CompatibilityDecidesOrder`, `MigrationsSplit`) and evaluated by `ASSUME`s of the
run modules that extend them (below).

`MC*` modules give the constants values that a `.cfg` cannot write. Operators
marked as a mutant are variants of the definition that follows them, used to
confirm that the properties react to plausible mistakes.

## Runs

Runs expected to pass:

| Run | Instance | Shows |
|---|---|---|
| `registry_life` | two usernames, two holders and the burn address, rotations, challenges, folded renames in either direction, bot flags, pause toggling; every timer has run out (see below) | verification stays with the holder it was given to; no flag is inherited or lost; whatever leaves, the other records stand; events rebuild the records; `Registry` implements `AbstractRegistry` |
| `registry_batch` | two usernames in three spellings, batches of two, expiry window 1, counters saturating at 2, threshold 0 then 1, proposals living one time unit, an admin alone or with a second | lazy expiry, repeated grants and mixed spellings in a batch keep the counters exact; a batch announces each removal once; bulk removal takes a live proposal that lists what goes and a second key |
| `registry_pause` | one username, every entry point but rename and set_bot_status, pause toggling, two oracle keys, six proofs | the pause gate is complete; no burn holder; a proof verifies only what an allowed oracle signed, before its expiry |
| `export` | three usernames, pages of two, three pages, generation modulo 3, limits 0 (the default, one entry) and 4 (above the cap of 3) | flat index and pages agree; cursors survive exactly as long as offsets do; an accepted cursor marks a prefix; a finished export is complete and an export finishes once removals stop; both exports and all other reads agree; Merkle roots prove the entries of a page |
| `indexer` | five events, pages of two, two seen lines, two kills, two failed requests, pruning | no gap behind the stored cursor, at most one duplicate per kill, every event logged in the end |
| `keeper` | three names, two to an index page, one to a batch, threshold 3, bump 5, interval 2, eight ledgers, one removal, one failed request | a pass that exits 0 protects every record for the threshold |
| `access` | admin and two addresses, two roles, delay 0 or 1, expiries, two ledgers, allowlist of one, cap 0 to 2, calls of one and two units, guardian | role store, its pages and the allowlist stay consistent; authority grows only by a grant, a privileged one waits; the per-ledger cap holds |
| `upgrade_direct` | two binaries, three installs, two attestations, cooldown, migration | provenance tells the truth, attestations are single-use |
| `upgrade_quorum` | three signers, two proposals, thresholds 0 to 2, late approvals | an executed hash has a quorum of signatures for it |

Symmetry is used in the keeper runs: names are interchangeable there. No
run disables deadlock checking.

**Pure algorithms.** TLC evaluates these `ASSUME`s at the start of the runs
whose module extends them. Each of them is also proved without the bounds (see
the table of theorems); the evaluation shows that the operators compute
something, and what:

* `ValidAsDocumented` (`MCRegistry`): the byte walk of
  `is_valid_github_username` accepts exactly the documented names, on every
  string of up to three bytes of each class and longer runs of `a`, `-`, `_`,
  at limits below, at and above the length;
* `FoldIsCanon` (`MCRegistry`): on valid names the fold is idempotent, keeps
  them valid, and identifies exactly what `eq_ignore_ascii_case` does;
* `TreesMatchReference`, `LeavesHavePaths` (`MCExport`): up to nine leaves the
  bottom-up tree is the one RFC 6962 defines top down, and every leaf has a
  path to the root;
* `CompatibilityIsOrder`, `MigrationsCompose` (`MCUpgrade`): compatibility
  is the order of version triples, across major versions too, and migrating in
  two hops applies the same steps as migrating in one, each of them once.

**Why the bounds suffice.** Two names give every interaction of a name with
another (taken, batch, rename); the third, with pages of two, gives full,
partial, emptied and middle pages. The generation wraps within a few removals.
`registry_life` has a clock that stands still and a challenge delay of 0, so
whatever waits for a deadline may happen at once: it explores the order of the
calls, and `registry_pause` and `registry_batch` the deadlines.
Time 2 with delays of 1 gives "before", "at" and "after" each deadline; in
`access` the second ledger is "at", where roles and entries have lapsed, queued
grants are due and the spend of the first ledger is stale. A cap of
one allowlist entry makes the full list and its release by expiry reachable.
Two proposals are what a late approval needs to meet the wrong one. `GenModulus`
is larger than `MaxBatch` everywhere, as 2^32 is than 25: a single batch never
wraps the generation onto itself. In `Keeper` the lifetimes keep their order
(interval < threshold < bump) and the run lasts longer than one bump, so a
record that is never extended is archived within it. In `Indexer` the seen file
is no longer than a page and the window is pruned past the cursor.

`CursorsStayValid` is a statement about one step. A cursor that is resumed
after exactly 2^32 removals would be accepted; the code says so itself, and
`since` in `Export` keeps the client from waiting that long.

**Fairness.** `Export`: weak fairness of the client's own step, since no lock or
pause of the contract delays a read. Nothing obliges others to stop:
`ExportFinishes` has "removals stop" as its premise. `Indexer`: weak fairness of
the script's next step, restart by its supervisor included; kills and failed
requests are finite. Weak fairness is enough because nobody else disables these
steps for good: a page read is replaced by a restart when the cursor becomes
invalid, and both are the client's step. All other specifications are safety
only.

### Where documents and code disagree

Each of these runs checks one sentence of the repository and is expected to
fail; `findings` in `PROJECT.json` quotes the sentence and the line.

| Run | Counterexample |
|---|---|
| `rename_case` | rename `ana` to `Ana`: the taken-name check looks up the unfolded spelling, then the record is written and removed under the same folded key; the total still counts it |
| `stale_rotation` | a queued rotation survives a change of holder |
| `keeper_cursor` | one name registered, one removed: the generation is 1, the keeper's first request `--cursor 0` names generation 0, every pass ends there and a record is archived although the keeper was started in every interval |

The modules state further sentences of this kind under a heading of their own.
TLC refutes each of them on an instance as small as the ones above when it is
added to a configuration whose constants let the named calls happen; they are
not kept as runs.

| Definition | Sentence | What the code does |
|---|---|---|
| `TakenNamesRefused` (`Registry`) with an unfolded spelling in `RenameNames` | `lib.rs:3926`, `UsernameTaken` if the new name is already registered | rename to `Bo` while `bo` is registered replaces `bo`'s record; `RemovalSparesOthers` says what still limits such a rename |
| `RotationDelayEnforced` (`Registry`) | `lib.rs:2489`, an address change must go through request and execute | register_sponsored changes the address at once |
| `ReservedNamesHeldBack` (`Registry`) | `lib.rs:2447`, reserved names are held back | register_sponsored does not consult the list |
| `ChallengeFreezesHolder` (`Registry`) | `lib.rs:4119`, a rotation underneath a challenge would let the answer change | a rotation queued before the challenge executes during it |
| `ExpiryIgnoresSpelling` (`Registry`) | `storage.rs:11`, every key namespaced by a username is folded | the grant time is kept per spelling |
| `RolesSeparated` (`Access`) | `lib.rs:3583`, the Revoker role does not grant verify | an allowlisted address given the Revoker role can do both |
| `RemoveRoleEndsVerifying` (`Access`) | `lib.rs:1017`, role and allowlist never disagree | remove_role leaves the allowlist entry |
| `VerifierGrantsWait` (`Access`) | `lib.rs:609`, a grant is only queued | add_verifier ignores the grant delay |
| `RevokeDropsPending` (`Access`) | `lib.rs:782`, a revoke also drops any grant still inside its timelock | remove_verifier leaves the queued grant |
| `StagedHashBinds` (`Upgrade`) | `docs/SECURITY.md:207`, upgrade and execute_upgrade reject a hash other than the staged one | upgrade does not look at the staged hash |
| `GivesUpOnErrors` (`Indexer`) | `scripts/event_indexer.sh:54`, MAX_RETRIES consecutive failures tolerated | an error answer resets the counter before it is counted, so the script asks for a pruned start ledger for ever |
| `CooldownBetweenUpgrades` (`Upgrade`) | `lib.rs:1117`, minimum time between WASM upgrades | execute_upgrade ignores the cooldown |
| `AttestationGate` (`Upgrade`) | `staged_wasm.rs:88`, a valid, unexpired attestation | execute_upgrade accepts an expired one |
| `OneKeyCannotUpgrade` (`Upgrade`) | `docs/SECURITY.md:236`, one key cannot execute an upgrade if threshold is two or more | the direct path ignores the threshold |

Smaller disagreements seen while reading: an expired attestation
(`lib.rs:1530`) and an expired batch proposal are said to be cleared, but the
clearing call returns an error and is rolled back; the migration window is
documented as `(current, target]` and coded as `[current, target)`;
`require_proposal_executable` is documented to check that the executor approved
and does not; approvals past the twentieth are accepted and not counted; a batch
removal leaves a removed name's challenge open; `set_role` with no delay leaves
an older queued grant in place. `docs/DASHBOARD_SYNC.md` has a follower reset
the verified flag at every registration, while register keeps it for an
unchanged holder (`KeepsFlag` in `Feed`; the other rule breaks
`EventsTellRecords`), and lists rename and rotation among the events that move
`get_last_event_ledger`, which events without a domain tag do not
(`lib.rs:4015`). The keeper extends records and never an index page, although
`docs/STORAGE_RENT.md` speaks of every registry entry. `set_audit_config` can
switch the audit log off and the append does not look at the switch; an
unauthorised attempt is logged and rolled back with its error (`lib.rs:2223`).
`is_compatible_with` is commented "Same major version, minor and patch must be
>= minimum" (`version.rs:94`) and accepts a greater major version, and a greater
minor version with a smaller patch.

## Proofs

Every theorem holds for all values of the constants that satisfy the `ASSUME`s
of the module it is about. The table gives what each one states; a theorem with
a mark needs one more hypothesis, explained below. Every passing run's property
that appears here was first checked by TLC, and so was every inductive
invariant.

| Module | Theorem | States |
|---|---|---|
| `RegistryProofs` | `TypeCorrect` | `TypeOK` |
| | `RegistryConsistent` (R) | `CountersMatchRecords`, `IndexMatchesRecords`, `ReverifyFlagsAreLive`, `EverCoversVerified` |
| | `PagesAgree` (R) | `PagesMatchIndex` |
| | `ValidNames`, `FoldMakesKeys` | `ValidAsDocumented`, `FoldIsCanon`, for any bytes, lengths and limits up to the buffer |
| | `NeverBurned` | `NoBurnHolder` |
| | `VerificationStaysWithHolder`, `BulkRemovalsAreDual`, `GrantsByProofAreBacked`, `CursorsSurvive` | `VerificationBoundToHolder`, `BulkRemovalNeedsProposal`, `ProofGrantsAreBacked`, `CursorsStayValid` |
| | `OthersAreSpared`, `PausedRegistryStands` (R) | `RemovalSparesOthers`, `PauseFreezesRecords` |
| | `RegistryImplementsAbstract` (R) | `ImplementsAbstract` |
| `ExportProofs` | `CursorsMarkPrefixes` (R), `FinishedExportsAreComplete` (R) | `AcceptedCursorMarksPrefix`, `FinishedExportIsComplete` |
| | `ExportsServeTheSame` (R), `ReadsTellTheSame` (R) | `ExportsAgree`, `ReadsAgree` |
| | `RootsProve` | `RootsProveEntries` |
| | `ProofsReachRoot` | for every list of leaves and every position, the verifier's climb ends at `RootOf` exactly when it starts from the leaf at that position |
| | `RootIsSplitRoot` | `TreesMatchReference`, for every list of leaves |
| `FeedProofs` | `EventsAreEnough` | `EventsTellRecords` |
| `KeeperProofs` | `KeeperTypeCorrect`, `CleanPassesProtect` | `TypeOK`, `CleanPassProtects` |
| `IndexerProofs` | `IndexerTypeCorrect`, `CursorNeverAhead` | `TypeOK`, `CursorCoversLog` |
| | `DuplicatesAreKills` (W) | `DuplicatesNeedCrashes` |
| `AccessProofs` | `AccessTypeCorrect`, `RoleIndexAgrees`, `AllowlistStaysBounded` | `TypeOK`, `RoleStoreConsistent`, `AllowlistBounded` |
| | `CapPerLedger`, `PowersAreGranted`, `PrivilegesWaited` | `RateLimited`, `AuthorityNeedsGrant`, `PrivilegedGrantsWait` |
| `UpgradeProofs` | `UpgradeTypeCorrect`, `ProvenanceTruthful`, `AttestationsNeverReused` | `TypeOK`, `ProvenanceFollowsCode`, `AttestationsSpentOnce` |
| | `ApprovalsGenuine`, `QuorumGenuine` | `IdsNameOneHash`, `ApprovalsMeantThisHash`, `QuorumMeantThisHash` |
| | `CompatibilityDecidesOrder`, `MigrationsSplit` | `CompatibilityIsOrder`, `MigrationsCompose`, for all versions and any set of steps |

* **(R)** `CanonicalRenames`: rename is only called with folded spellings.
  Without it these theorems are false (`rename_case` shows it), and the passing
  registry runs make the same choice: their `RenameNames` are folded.
* **(W)** `WindowFits`: a page of events fits in the seen file. The script ships
  with 100 and 50000 (`scripts/event_indexer.sh:80` and `:84`).

### Arguments

**Lists** (`ListingProofs`). The filter loops keep order, introduce no
duplicates and leave exactly the entries they should; cutting a list into pages
and reading the pages back is the identity; appending to the last page, or to a
new one, appends to the list; filtering every page filters the list. All of it
is by counting positions: the number of a slot is the size of the set of slots
read no later than it, so no induction over lists is needed.

**Registry.** None of the four properties of `RegistryConsistent` is inductive
alone: repair_index recounts from the flat index, so the counters are exact
only while the index is; the counter decrements are exact only because a key is
listed once; the saturating additions are exact because the number of keys is
at most `U32Max`; and the ever-verified total keeps up because it moves with
the same flips. The conjunction with `TypeOK` is inductive. Beyond
it, the thirty entry points change the records in eight ways only
(`StepKinds`); the pages, the action properties and the refinement go through
the eight. `NoBurnHolder` needs that no queued rotation leads to a burn address
either, since the execution of one does not look again. `OthersAreSpared` holds
for every spelling: what changes when a name leaves is another record only in a
rename whose target is not typed as its own key (`MovesOverwrite`), and
`TakenOver` says what such a rename does and what refuses it. TLC meets the
exception as soon as `registry_life` gets a third name `Bo`, folded to `bo`, and
`RenameNames` is `{"ana", "Bo"}`: `RemovalSparesOthers` holds there and
`TakenNamesRefused` does not; the other properties of that run need folded
renames, so it has none. For the refinement each
of the eight maps to one step of `AbstractRegistry`, or to a stutter.

**Export.** What the client holds under a cursor whose generation is still the
current one is the prefix of the flat index up to the cursor's offset: entries
before it can only move in a step that changes the generation
(`CursorsSurvive`). The generation is a modular counter, so the invariant also
carries how many times it has moved since the cursor was issued (`since`); the
model keeps that below the modulus, which is the bound of 2^32 removals under
one cursor that the code states for itself. `ExportsAgree` is that a slice of
the flat index and a walk of the pages come to the same, from `PagesAgree` and
the lemmas on `Cut` and `Flatten`.

**Merkle.** Both the tree and the climb are recursive functions; `LevelsUnroll`
and `ClimbUnrolls` show that they satisfy their equations, by induction on the
height in the set form of `CountingUp` (below). A pass at least halves a level,
rounding up, so `Len(leaves)` passes leave one node (`LevelFacts`). One step of
the climb from position p leads to the parent of p, and its hash is the
parent's exactly when the hash below was that of p (`ParentFacts`), because the
constructors are injective; an odd last node moves up unchanged. Attempting
this proof showed that the climb's cases overlapped at such a node, where TLC
takes the first and TLA+ leaves the choice open; they are disjoint now.

`RootIsSplitRoot` compares the two recursions by the runs of leaves that the
nodes of a level cover: at height h they are successive runs of 2^h leaves, the
last perhaps shorter (`Covers`). Joining two of them makes a run of which 2^h is
the largest power of two below its length, which is where the top-down tree
splits it (`SplitFacts`, `CoversStep`).

**Usernames.** The fold over the bytes unrolls from the left (`WalkUnrolls`), and
its two flags say after each byte whether it was a hyphen and whether all bytes
so far were acceptable (`Tells`, kept by `WalkStep`). `FoldMakesKeys` is what
`NamesAssumption` asks of `Canon`.

**Feed.** The invariant is the property itself with `TypeOK`: each row tells its
record. A handler publishes a set of events and the follower applies it with a
fold, so the proof unrolls the fold of a finite set (`FoldedUnrolls`): the fold
of a subset is some event of it applied to the fold of the rest. For a batch,
induction on the subset (`TakingAway`) then says that the rows of the names
folded so far are verified, or gone, and the others are untouched, however many
spellings of one name the batch holds; an event that is not about a record
leaves every row alone (`FoldedRemovals`). The other handlers publish one such
event. None of it depends on folded renames: when `Ana` replaces `ana` the
event's two halves fall on one row, as the writes of `rename` do.

**Induction.** The library's induction theorems take an operator and cannot be
instantiated by the provers. `CountingUp` states induction for a set of
naturals, and `TakingAway` for a set of subsets. Both are proved without the
library's: `RankNumbers` supplies the least of the counterexamples, which then
is none. Recursive functions and folds are shown to satisfy their equations in
the same way, by induction on their domain.

**Keeper.** A cursor of the current generation stands for a prefix of the list,
and while no batch of the pass has failed, every name on the prefix lives past
the threshold from the start of the pass. Registrations extend the list behind
the prefix, with fresh entries; a removal shifts it but outdates the cursor, and
the pass then ends without success.

**Indexer.** `Resume` is the next event that a script started now would ask
for. It never moves back, and nothing further than a page past it is in the
log. Every step is a file write, so the invariant says for each program counter
which of log, seen file and cursor file is ahead of the others. For duplicates:
the ids that are trimmed off the seen file are a page or more older than the
newest one, hence behind `Resume`, and are never asked for again.

**Access.** The index lists the addresses with a stored role, each once; the
allowlist names an address once, so that the first entry `is_active_verifier`
finds is the only one; the stored spend of this ledger is what was accepted in
it. Every entry point writes the stores in one of a few ways (`StepWrites`), and
while a pause switch is on only pruning writes them. Whoever keeps role and
expiry and gains no allowlist entry gains no power (`NothingGained`), which
gives `AuthorityNeedsGrant`. For `RoleStoreConsistent` a position lies on
exactly one page of any size, and a page keeps the active holders on it, so
paging lists each of them exactly once.

**Upgrade.** Provenance is inductive with `TypeOK`. `AttestationsSpentOnce`:
published attestations bound attested upgrades plus the pending one.
`ApprovalsMeantThisHash` needs `IdsNameOneHash` (ids in `signed` are below the
counter; what was signed under the live id was signed for its hash), which is
what makes a late approval harmless. `QuorumMeantThisHash`: an injection of the
approver list into the set of signers turns the list's length into a number of
keys.

### Only model-checked

* `ExportFinishes`, `EventsReachLog`: liveness under fairness, out of the
  prover's reach.

Every safety invariant and action property of a passing run is stated by a
theorem; the two liveness properties are the ones without.

## Not modelled

* **Audit log.** Handlers append to a bounded ring and nothing reads it back;
  no state of the models depends on it.
* **Error codes.** Which call is refused is in the guards. No caller inside the
  contract branches on a code.
* **Domain tags, topics and layouts of events**, the events of access and
  upgrade entry points, the health snapshot and getters that return one stored
  value: copies of state the modules hold.
* **Network tag and admin transfer.** The tag is written once and compared; the
  transfer helpers are unreachable.
* **SHA-256, ed25519, XDR, string assembly**: constructors and sets instead.
* **Other scripts, TypeScript fixtures, fuzz targets**: drivers without state.

## Possible extensions

* *Composition*: `access` of `Registry` and `Upgrade` derived from the state of
  `Access` instead of chosen, so that metered calls and their effects are one
  step. The properties proved of `Registry` and `Upgrade` hold for any access
  layer, and stay true under it.
