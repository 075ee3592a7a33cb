------------------------------- MODULE Access -------------------------------
(***************************************************************************)
(* The access layer of the TrustBridge contract: the two pause switches    *)
(* and the guardian, time-bounded roles with their enumeration index, the  *)
(* timelock on role grants, the verifier allowlist, and the per-ledger cap *)
(* on what a verifier or revoker may do.                                   *)
(*                                                                         *)
(* One action is one invocation; an invocation that fails a check writes   *)
(* nothing and is no step.  Every entry point but emergency_pause,         *)
(* prune_expired_verifiers and the metered calls needs the signature of    *)
(* the admin, whose address initialize fixes.  The admin is authorised by  *)
(* that address, never by its role entry, and is never metered, so its own *)
(* verify and revoke calls leave this layer's state alone.                 *)
(*                                                                         *)
(* Ledger time and ledger sequence advance together, one ledger at a time. *)
(***************************************************************************)
EXTENDS Listing

CONSTANTS
  Addresses,     \* Stellar addresses
  Admin,         \* the contract admin
  Guardians,     \* addresses passed to set_guardian
  Targets,       \* addresses passed to the role entry points
  Listees,       \* addresses passed to the allowlist entry points
  GrantedRoles,  \* roles passed to set_role and set_role_with_expiry
  Expiries,      \* expiry timestamps passed to the granting entry points
  RoleDelays,    \* values passed to set_role_delay
  Limits,        \* values passed to set_verify_limit
  DefaultLimit,  \* DEFAULT_VERIFIES_PER_LEDGER
  CallSizes,     \* units one verify, revoke or batch_verify call spends
  MaxVerifiers,  \* MAX_VERIFIERS
  MaxRolePage,   \* MAX_ROLE_PAGE_LIMIT
  MaxTime,       \* bound on the number of ledgers
  None           \* an absent storage entry

Roles == {"Admin", "Upgrader", "Verifier", "Revoker"}

ASSUME AddressesAssumption ==
  /\ IsFiniteSet(Addresses)
  /\ Admin \in Addresses
  /\ Guardians \cup Targets \cup Listees \subseteq Addresses
  /\ GrantedRoles \subseteq Roles

ASSUME BoundsAssumption ==
  /\ Expiries \subseteq Nat /\ RoleDelays \subseteq Nat /\ Limits \subseteq Nat
  /\ DefaultLimit \in Nat /\ CallSizes \subseteq Nat \ {0}
  /\ MaxVerifiers \in Nat \ {0} /\ MaxRolePage \in Nat \ {0} /\ MaxTime \in Nat

PendingGrant == [role : Roles, at : Nat]

AllowEntry == [addr : Addresses, expires : Nat]

ASSUME AbsentAssumption ==
  None \notin Roles \cup Addresses \cup Nat \cup PendingGrant \cup Seq(AllowEntry)

VARIABLES
  paused,     \* PAUSED_KEY, set by pause, unpause and set_paused
  emergency,  \* EMERGENCY_PAUSE_KEY
  guardian,   \* GUARDIAN_KEY
  role,       \* ROLE_KEY: the stored role of an address, lapsed or not
  expiry,     \* ROLE_EXPIRY_KEY: when that role lapses, None for never
  holders,    \* ROLE_IDX_KEY: addresses with a stored role, oldest first
  pending,    \* PENDING_ROLE_KEY: the grant waiting out its timelock
  delay,      \* ROLE_DELAY_KEY
  allow,      \* VERIFIER_ALLOWLIST_KEY: None until first populated
  limit,      \* VERIFY_LIMIT_KEY: 0 disables the cap
  spent,      \* VERIFY_RATE_KEY: units an address spent, and in which ledger
  accepted,   \* history: metered units accepted so far in this ledger
  now         \* ledger timestamp and sequence

switches == <<paused, emergency, guardian>>
roles    == <<role, expiry, holders, pending, delay>>
metering == <<limit, spent, accepted>>
vars     == <<switches, roles, allow, metering, now>>

TypeOK ==
  /\ paused \in BOOLEAN /\ emergency \in BOOLEAN
  /\ guardian \in Addresses \cup {None}
  /\ role \in [Addresses -> Roles \cup {None}]
  /\ expiry \in [Addresses -> Nat \cup {None}]
  /\ holders \in Seq(Addresses)
  /\ pending \in [Addresses -> PendingGrant \cup {None}]
  /\ delay \in Nat
  /\ allow \in Seq(AllowEntry) \cup {None}
  /\ limit \in Nat
  /\ spent \in [Addresses -> [seq : Nat, units : Nat]]
  /\ accepted \in [Addresses -> Nat]
  /\ now \in Nat

(* initialize grants the admin Role::Admin along the ordinary path. *)
Init ==
  /\ paused = FALSE /\ emergency = FALSE /\ guardian = None
  /\ role = [a \in Addresses |-> IF a = Admin THEN "Admin" ELSE None]
  /\ expiry = [a \in Addresses |-> None]
  /\ holders = <<Admin>>
  /\ pending = [a \in Addresses |-> None]
  /\ delay = 0 /\ allow = None /\ limit = DefaultLimit
  /\ spent = [a \in Addresses |-> [seq |-> 0, units |-> 0]]
  /\ accepted = [a \in Addresses |-> 0]
  /\ now = 0

----------------------------------------------------------------------------
(* What the entry points read. *)

(* require_not_paused: both switches must be off. *)
Open == ~paused /\ ~emergency

(* is_role_expired: a lapsed role stays stored, it just stops counting. *)
RoleExpired(a) == expiry[a] # None /\ now >= expiry[a]

(* get_role *)
ActiveRole(a) == IF RoleExpired(a) THEN None ELSE role[a]

(* require_role_not_expired *)
RoleNotLapsed(a) == ~(role[a] # None /\ RoleExpired(a))

EntryExpired(e) == e.expires # 0 /\ now >= e.expires

AllowList == IF allow = None THEN <<>> ELSE allow

Listed(a) == \E e \in Entries(AllowList) : e.addr = a

(* is_active_verifier: the first entry of the address decides. *)
ActiveVerifier(a) ==
  \E i \in DOMAIN AllowList :
    /\ AllowList[i].addr = a
    /\ \A j \in 1 .. (i - 1) : AllowList[j].addr # a
    /\ ~EntryExpired(AllowList[i])

(* Who verify and batch_verify let through besides the admin: once the     *)
(* allowlist was ever populated it replaces the role check.                *)
MayVerify(a) ==
  /\ RoleNotLapsed(a)
  /\ IF allow # None THEN ActiveVerifier(a) ELSE ActiveRole(a) = "Verifier"

MayRevoke(a) == RoleNotLapsed(a) /\ ActiveRole(a) = "Revoker"

(* Whom get_role_holders leaves out. *)
Inactive == {h \in Addresses : ActiveRole(h) = None}

RolePageSize(l) == IF l = 0 \/ l > MaxRolePage THEN MaxRolePage ELSE l

(* get_role_holders: a page of the enumeration index, lapsed roles left    *)
(* out.                                                                    *)
GetRoleHolders(offset, l) ==
  LET end  == offset + RolePageSize(l)
      page == SubSeq(holders, offset + 1, IF end <= Len(holders) THEN end ELSE Len(holders))
      live == Without(page, Inactive)
  IN [i \in DOMAIN live |-> [addr |-> live[i], role |-> ActiveRole(live[i])]]

----------------------------------------------------------------------------
(* Storage helpers. *)

(* add_to_role_index, called only when the address had no stored role. *)
AddHolder(a) ==
  IF role[a] # None \/ a \in Entries(holders) THEN holders ELSE Append(holders, a)

(* Mutant of DropHolder: the index entry is left behind. *)
KeepHolder(a) == holders

(* remove_from_role_index *)
DropHolder(a) == Without(holders, {a})

(* storage set_role_with_expiry; set_role passes no expiry and so clears   *)
(* the one an earlier grant left.                                          *)
StoreRole(a, r, e) ==
  /\ role' = [role EXCEPT ![a] = r]
  /\ expiry' = [expiry EXCEPT ![a] = e]
  /\ holders' = AddHolder(a)

(* storage remove_role *)
EraseRole(a) ==
  /\ role' = [role EXCEPT ![a] = None]
  /\ expiry' = [expiry EXCEPT ![a] = None]
  /\ holders' = DropHolder(a)

Unexpired(list) == Without(list, {e \in Entries(list) : EntryExpired(e)})

(* Mutant of Pruned: an emptied list is deleted. *)
PrunedAway == IF Unexpired(AllowList) = <<>> THEN None ELSE Unexpired(AllowList)

(* prune_expired_verifiers: the key is rewritten only when something was   *)
(* dropped, and an emptied list stays present.                             *)
Pruned == IF Unexpired(AllowList) = AllowList THEN allow ELSE Unexpired(AllowList)

(* storage add_verifier, after pruning: refresh in place or append. *)
Enlist(list, a, e) ==
  LET entry == [addr |-> a, expires |-> e]
  IN IF \E i \in DOMAIN list : list[i].addr = a
       THEN [i \in DOMAIN list |-> IF list[i].addr = a THEN entry ELSE list[i]]
       ELSE Append(list, entry)

(* Mutant of HasSlot: off by one at the cap. *)
HasLastSlot(list, a) == Len(list) <= MaxVerifiers

HasSlot(list, a) ==
  \/ \E i \in DOMAIN list : list[i].addr = a
  \/ Len(list) < MaxVerifiers

(* storage remove_verifier: other lapsed entries go with it. *)
Delist(a) == Without(Unexpired(AllowList), {e \in Entries(AllowList) : e.addr = a})

(* Mutant of SpentThisLedger: the rollover test is inverted. *)
SpentBefore(a) == IF spent[a].seq = now THEN 0 ELSE spent[a].units

(* The units charge_verify_rate counts against this ledger. *)
SpentThisLedger(a) == IF spent[a].seq = now THEN spent[a].units ELSE 0

----------------------------------------------------------------------------
(* Pause switches and guardian. *)

Pause ==
  /\ paused' = TRUE
  /\ UNCHANGED <<emergency, guardian, roles, allow, metering, now>>

Unpause ==
  /\ paused' = FALSE
  /\ UNCHANGED <<emergency, guardian, roles, allow, metering, now>>

(* set_paused returns early when nothing would change. *)
SetPaused(b) ==
  /\ paused # b
  /\ paused' = b
  /\ UNCHANGED <<emergency, guardian, roles, allow, metering, now>>

SetGuardian(g) ==
  /\ guardian' = g
  /\ UNCHANGED <<paused, emergency, roles, allow, metering, now>>

RemoveGuardian ==
  /\ guardian' = None
  /\ UNCHANGED <<paused, emergency, roles, allow, metering, now>>

EmergencyPause(caller) ==
  /\ caller = Admin \/ caller = guardian
  /\ ~emergency
  /\ emergency' = TRUE
  /\ UNCHANGED <<paused, guardian, roles, allow, metering, now>>

ClearEmergencyPause ==
  /\ emergency
  /\ emergency' = FALSE
  /\ UNCHANGED <<paused, guardian, roles, allow, metering, now>>

(* Roles. *)

(* Mutant of ActivateAt: the delay is taken off instead of added. *)
ActivateEarlier == now - delay

ActivateAt == now + delay

(* set_role with the timelock armed only queues; without it the grant is   *)
(* immediate, and a grant queued earlier stays queued.                     *)
SetRole(a, r) ==
  /\ Open
  /\ \/ /\ delay > 0
        /\ pending' = [pending EXCEPT ![a] = [role |-> r, at |-> ActivateAt]]
        /\ UNCHANGED <<role, expiry, holders>>
     \/ /\ delay = 0
        /\ StoreRole(a, r, None)
        /\ UNCHANGED pending
  /\ UNCHANGED <<switches, delay, allow, metering, now>>

SetRoleDelay(d) ==
  /\ delay' = d
  /\ UNCHANGED <<switches, role, expiry, holders, pending, allow, metering, now>>

ActivateRole(a) ==
  /\ Open
  /\ pending[a] # None
  /\ now >= pending[a].at
  /\ StoreRole(a, pending[a].role, None)
  /\ pending' = [pending EXCEPT ![a] = None]
  /\ UNCHANGED <<switches, delay, allow, metering, now>>

CancelRoleGrant(a) ==
  /\ pending[a] # None
  /\ pending' = [pending EXCEPT ![a] = None]
  /\ UNCHANGED <<switches, role, expiry, holders, delay, allow, metering, now>>

RemoveRole(a) ==
  /\ Open
  /\ EraseRole(a)
  /\ pending' = [pending EXCEPT ![a] = None]
  /\ UNCHANGED <<switches, delay, allow, metering, now>>

(* Mutant of SetRoleWithExpiry: the timelock is not consulted. *)
SetRoleUntimed(a, r, e) ==
  /\ Open
  /\ StoreRole(a, r, e)
  /\ UNCHANGED <<switches, pending, delay, allow, metering, now>>

(* With the timelock armed it may only move the expiry of a role in force. *)
SetRoleWithExpiry(a, r, e) ==
  /\ Open
  /\ delay > 0 => ActiveRole(a) = r
  /\ StoreRole(a, r, e)
  /\ UNCHANGED <<switches, pending, delay, allow, metering, now>>

(* Verifier allowlist. *)

AddVerifier(a, e) ==
  /\ Open
  /\ e = 0 \/ e > now
  /\ HasSlot(Unexpired(AllowList), a)
  /\ allow' = Enlist(Unexpired(AllowList), a, e)
  /\ StoreRole(a, "Verifier", None)
  /\ UNCHANGED <<switches, pending, delay, metering, now>>

RemoveVerifier(a) ==
  /\ Open
  /\ Listed(a)
  /\ allow' = Delist(a)
  /\ EraseRole(a)
  /\ UNCHANGED <<switches, pending, delay, metering, now>>

PruneExpiredVerifiers ==
  /\ allow' = Pruned
  /\ UNCHANGED <<switches, roles, metering, now>>

(* Metering. *)

SetVerifyLimit(l) ==
  /\ limit' = l
  /\ UNCHANGED <<switches, roles, allow, spent, accepted, now>>

(* charge_verify_rate.  A call that fails later, on the record, is rolled  *)
(* back with its charge, so only calls that go through are steps.          *)
Charge(a, units) ==
  \/ limit = 0 /\ UNCHANGED <<spent, accepted>>
  \/ /\ limit > 0
     /\ SpentThisLedger(a) + units <= limit
     /\ spent' = [spent EXCEPT ![a] = [seq |-> now, units |-> SpentThisLedger(a) + units]]
     /\ accepted' = [accepted EXCEPT ![a] = @ + units]

(* verify and batch_verify by a verifier; what they do to the records is   *)
(* in Registry.                                                            *)
VerifyCall(a, units) ==
  /\ Open /\ a # Admin
  /\ MayVerify(a)
  /\ Charge(a, units)
  /\ UNCHANGED <<switches, roles, allow, limit, now>>

(* revoke_verification by a revoker *)
RevokeCall(a) ==
  /\ Open /\ a # Admin
  /\ MayRevoke(a)
  /\ Charge(a, 1)
  /\ UNCHANGED <<switches, roles, allow, limit, now>>

CloseLedger ==
  /\ now < MaxTime
  /\ now' = now + 1
  /\ accepted' = [a \in Addresses |-> 0]
  /\ UNCHANGED <<switches, roles, allow, limit, spent>>

Switching ==
  \/ Pause \/ Unpause
  \/ \E b \in BOOLEAN : SetPaused(b)
  \/ \E g \in Guardians : SetGuardian(g)
  \/ RemoveGuardian
  \/ \E a \in Addresses : EmergencyPause(a)
  \/ ClearEmergencyPause

Granting ==
  \/ \E a \in Targets, r \in GrantedRoles : SetRole(a, r)
  \/ \E d \in RoleDelays : SetRoleDelay(d)
  \/ \E a \in Targets : ActivateRole(a) \/ CancelRoleGrant(a) \/ RemoveRole(a)
  \/ \E a \in Targets, r \in GrantedRoles, e \in Expiries \cup {None} :
       SetRoleWithExpiry(a, r, e)
  \/ \E a \in Listees, e \in Expiries : AddVerifier(a, e)
  \/ \E a \in Listees : RemoveVerifier(a)
  \/ PruneExpiredVerifiers

Metered ==
  \/ \E l \in Limits : SetVerifyLimit(l)
  \/ \E a \in Addresses, u \in CallSizes : VerifyCall(a, u)
  \/ \E a \in Addresses : RevokeCall(a)

Next == Switching \/ Granting \/ Metered \/ CloseLedger

Spec == Init /\ [][Next]_vars

----------------------------------------------------------------------------
(* Properties that hold. *)

(* What an address may do by what the admin granted it: verify, revoke,    *)
(* drive a multisig upgrade, or countersign a batch removal.               *)
Powers(a) ==
  ({ActiveRole(a)} \ {None, "Verifier"})
    \cup (IF MayVerify(a) THEN {"Verifier"} ELSE {})

(* How often the pages of get_role_holders, taken with limit l until       *)
(* get_role_holder_count is reached, list a with the role it has.          *)
Listings(a, l) ==
  LET step == RolePageSize(l)
  IN Cardinality({x \in (0 .. Len(holders)) \X (1 .. step) :
       /\ x[1] % step = 0
       /\ LET page == GetRoleHolders(x[1], l) IN
            x[2] \in DOMAIN page /\ page[x[2]] = [addr |-> a, role |-> ActiveRole(a)]})

(* Role, expiry and enumeration index agree, whichever entry points wrote  *)
(* them: paging through get_role_holders with any limit shows every active *)
(* role once and no lapsed one, the index holds nobody without a stored    *)
(* role, and no expiry is left behind without a role, where it would cut   *)
(* short a later grant.                                                    *)
RoleStoreConsistent ==
  /\ \A a \in Addresses, l \in 0 .. MaxRolePage + 1 :
       Listings(a, l) = IF ActiveRole(a) = None THEN 0 ELSE 1
  /\ \A i \in DOMAIN holders : role[holders[i]] # None
  /\ \A a \in Addresses : expiry[a] # None => role[a] # None

(* The allowlist holds at most MAX_VERIFIERS entries and no address twice, *)
(* however entries lapse, are refreshed and pruned in between.             *)
AllowlistBounded ==
  /\ Len(AllowList) <= MaxVerifiers
  /\ \A i, j \in DOMAIN AllowList : AllowList[i].addr = AllowList[j].addr => i = j

(* An address gains a power only in a step taken while the contract is not *)
(* paused and that rewrites this address's own role or allowlist entry:    *)
(* never because time passed, an entry lapsed or was pruned, or because of *)
(* what was granted to or taken from somebody else.                        *)
EntriesOf(a) == {e \in Entries(AllowList) : e.addr = a}

AuthorityNeedsGrant ==
  [][\A a \in Addresses :
       ~(Powers(a)' \subseteq Powers(a)) =>
         /\ Open
         /\ <<role[a], expiry[a], EntriesOf(a)>>' # <<role[a], expiry[a], EntriesOf(a)>>]_vars

(* While the grant timelock is armed, an address comes to hold the Admin,  *)
(* Upgrader or Revoker role only through a queued grant of that role whose *)
(* waiting time is over.                                                   *)
PrivilegedGrantsWait ==
  [][\A a \in Addresses : \A p \in Powers(a)' \ (Powers(a) \cup {"Verifier"}) :
       delay > 0 => /\ pending[a] # None
                    /\ pending[a].role = p
                    /\ now >= pending[a].at]_vars

(* A verifier or revoker never gets more units through in one ledger than  *)
(* the cap in force when its last call was accepted, counted over verify,  *)
(* batch_verify and revoke_verification together.                          *)
RateLimited ==
  [][\A a \in Addresses : accepted'[a] > accepted[a] => accepted'[a] <= limit]_vars

----------------------------------------------------------------------------
(* What the comments and documents say and the code does not do.           *)

(* A compromised revoker cannot mark accounts as verified (comment in      *)
(* verify): nobody but the admin may both verify and revoke.               *)
RolesSeparated ==
  \A a \in Addresses \ {Admin} : ~(MayVerify(a) /\ MayRevoke(a))

(* The allowlist and the roles never disagree (doc of add_verifier), so    *)
(* remove_role takes the power to verify from the address it names.        *)
RemoveRoleEndsVerifying ==
  [][\A a \in Addresses \ {Admin} :
       role[a] # None /\ role'[a] = None => ~MayVerify(a)']_vars

(* With the timelock armed no address can verify before the delay is over  *)
(* (comment in set_role).                                                  *)
VerifierGrantsWait ==
  [][\A a \in Addresses :
       delay > 0 /\ "Verifier" \in Powers(a)' \ Powers(a) =>
         pending[a] # None /\ now >= pending[a].at]_vars

(* A revoke also drops any grant still inside its timelock (comment in     *)
(* remove_role), whichever entry point revokes.                            *)
RevokeDropsPending ==
  [][\A a \in Addresses :
       role[a] # None /\ role'[a] = None => pending'[a] = None]_vars

=============================================================================
