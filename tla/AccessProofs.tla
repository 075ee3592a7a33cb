---------------------------- MODULE AccessProofs ----------------------------
(***************************************************************************)
(* What the access layer promises, for any addresses, roles, delays,       *)
(* limits and list sizes: role, expiry and enumeration index agree, the    *)
(* allowlist stays within its cap, nobody gains a power but by a grant,    *)
(* privileged roles wait out the timelock, and the cap per ledger holds.   *)
(*                                                                         *)
(* The argument rests on three facts about the stores: the index lists the *)
(* addresses that have a stored role, each once; the allowlist names an    *)
(* address once, so the first entry that is_active_verifier finds is the   *)
(* only one; and the units spent in this ledger are those that were        *)
(* accepted in it.                                                         *)
(***************************************************************************)
EXTENDS Access, ListingProofs

Once(s) == \A i, j \in DOMAIN s : s[i] = s[j] => i = j

(* The role index lists who has a stored role; expiries belong to roles.   *)
RolesStored ==
  /\ Entries(holders) = {a \in Addresses : role[a] # None}
  /\ Once(holders)
  /\ \A a \in Addresses : expiry[a] # None => role[a] # None

(* A list without an address twice, within the cap. *)
Bounded(list) ==
  /\ Len(list) <= MaxVerifiers
  /\ \A i, j \in DOMAIN list : list[i].addr = list[j].addr => i = j

(* What was accepted in this ledger was charged to it. *)
Metering ==
  \A a \in Addresses : spent[a].seq <= now /\ accepted[a] = SpentThisLedger(a)

Inv == TypeOK /\ RolesStored /\ Bounded(AllowList) /\ Metering

-----------------------------------------------------------------------------
(* Types. *)

(* None is no role, address, number, pending grant or list. *)
LEMMA NoneFacts ==
  /\ None \notin Roles /\ None \notin Addresses /\ None \notin Nat
  /\ None \notin PendingGrant /\ None \notin Seq(AllowEntry)
BY AbsentAssumption

(* The index without one address is still a list of addresses. *)
LEMMA HoldersTyped ==
  ASSUME TypeOK, NEW a \in Addresses
  PROVE  AddHolder(a) \in Seq(Addresses) /\ DropHolder(a) \in Seq(Addresses)
<1>1. holders \in Seq(Addresses)
  BY DEF TypeOK
<1>2. Without(holders, {a}) \in Seq(Addresses)
  BY <1>1, WithoutFacts
<1>3. Append(holders, a) \in Seq(Addresses)
  BY <1>1, AppendProperties
<1> QED BY <1>1, <1>2, <1>3 DEF AddHolder, DropHolder

(* The allowlist, and what is left of it. *)
LEMMA ListTyped ==
  ASSUME TypeOK
  PROVE  /\ AllowList \in Seq(AllowEntry)
         /\ \A list \in Seq(AllowEntry) : Unexpired(list) \in Seq(AllowEntry)
         /\ Pruned \in Seq(AllowEntry) \cup {None}
         /\ \A a \in Addresses : Delist(a) \in Seq(AllowEntry)
         /\ allow # None => AllowList = allow /\ Pruned # None
<1>1. AllowList \in Seq(AllowEntry) /\ (allow # None => AllowList = allow)
  BY DEF TypeOK, AllowList
<1>2. \A list \in Seq(AllowEntry) : Unexpired(list) \in Seq(AllowEntry)
  BY WithoutFacts DEF Unexpired
<1>3. \A a \in Addresses : Delist(a) \in Seq(AllowEntry)
  BY <1>1, <1>2, WithoutFacts DEF Delist
<1>4. Unexpired(AllowList) \in Seq(AllowEntry)
  BY <1>1, <1>2
<1>5. Pruned \in Seq(AllowEntry) \cup {None} /\ (allow # None => Pruned # None)
  BY <1>4, NoneFacts DEF TypeOK, Pruned
<1> QED BY <1>1, <1>2, <1>3, <1>5

(* Refreshing or appending an entry. *)
LEMMA EnlistFacts ==
  ASSUME NEW list \in Seq(AllowEntry), NEW a \in Addresses, NEW e \in Nat
  PROVE  /\ Enlist(list, a, e) \in Seq(AllowEntry)
         /\ HasSlot(list, a) /\ Bounded(list) => Bounded(Enlist(list, a, e))
         /\ \A x \in Entries(Enlist(list, a, e)) : x.addr # a => x \in Entries(list)
<1> DEFINE entry == [addr |-> a, expires |-> e]
           t == [i \in DOMAIN list |-> IF list[i].addr = a THEN entry ELSE list[i]]
<1>1. /\ entry \in AllowEntry /\ entry.addr = a /\ Len(list) \in Nat
      /\ DOMAIN list = 1 .. Len(list) /\ \A i \in 1 .. Len(list) : list[i] \in AllowEntry
  <2>1. entry \in AllowEntry /\ entry.addr = a
    BY DEF AllowEntry
  <2> HIDE DEF entry
  <2>2. /\ Len(list) \in Nat /\ DOMAIN list = 1 .. Len(list)
        /\ \A i \in 1 .. Len(list) : list[i] \in AllowEntry
    OBVIOUS
  <2> QED BY <2>1, <2>2
<1>2. CASE \E i \in DOMAIN list : list[i].addr = a
  <2>1. Enlist(list, a, e) = t
    BY <1>2 DEF Enlist
  <2>2. /\ t \in Seq(AllowEntry) /\ DOMAIN t = 1 .. Len(list) /\ Len(t) = Len(list)
        /\ \A i \in 1 .. Len(list) :
             t[i] = (IF list[i].addr = a THEN entry ELSE list[i])
    BY <1>1
  <2> HIDE DEF t, entry
  <2>3. \A i \in 1 .. Len(list) : t[i].addr = list[i].addr
    BY <1>1, <2>2
  <2>4. Bounded(list) => Bounded(t)
    BY <1>1, <2>2, <2>3 DEF Bounded
  <2>5. \A x \in Entries(t) : x.addr # a => x \in Entries(list)
    BY <1>1, <2>2 DEF Entries
  <2> QED BY <2>1, <2>2, <2>4, <2>5
<1>3. CASE ~\E i \in DOMAIN list : list[i].addr = a
  <2> HIDE DEF entry
  <2>1. /\ Enlist(list, a, e) = Append(list, entry)
        /\ HasSlot(list, a) => Len(list) < MaxVerifiers
    BY <1>3 DEF Enlist, HasSlot, entry
  <2>2. /\ Append(list, entry) \in Seq(AllowEntry)
        /\ Len(Append(list, entry)) = Len(list) + 1
        /\ \A i \in 1 .. Len(list) : Append(list, entry)[i] = list[i]
        /\ Append(list, entry)[Len(list) + 1] = entry
    BY <1>1, AppendProperties
  <2> DEFINE s == Append(list, entry)
  <2> HIDE DEF s
  <2>3. DOMAIN s = 1 .. Len(list) + 1 /\ s \in Seq(AllowEntry)
        /\ Len(s) = Len(list) + 1 /\ s[Len(list) + 1] = entry
        /\ \A i \in 1 .. Len(list) : s[i] = list[i]
    BY <1>1, <2>2 DEF s
  <2>4. ASSUME HasSlot(list, a), Bounded(list)
        PROVE  Bounded(s)
    <3>1. Len(s) <= MaxVerifiers
      BY <1>1, <2>1, <2>3, <2>4, BoundsAssumption
    <3>2. ASSUME NEW i \in DOMAIN s, NEW j \in DOMAIN s, s[i].addr = s[j].addr
          PROVE  i = j
      <4>1. CASE i \in 1 .. Len(list) /\ j \in 1 .. Len(list)
        BY <1>1, <2>3, <2>4, <3>2, <4>1 DEF Bounded
      <4>2. CASE i \notin 1 .. Len(list)
        <5>1. i = Len(list) + 1 /\ s[i].addr = a
          BY <1>1, <2>3, <4>2
        <5>2. j \notin 1 .. Len(list)
          BY <1>1, <1>3, <2>3, <3>2, <5>1
        <5> QED BY <1>1, <2>3, <5>1, <5>2
      <4>3. CASE j \notin 1 .. Len(list)
        <5>1. j = Len(list) + 1 /\ s[j].addr = a
          BY <1>1, <2>3, <4>3
        <5>2. i \notin 1 .. Len(list)
          BY <1>1, <1>3, <2>3, <3>2, <5>1
        <5> QED BY <1>1, <2>3, <5>1, <5>2
      <4> QED BY <4>1, <4>2, <4>3
    <3> QED BY <3>1, <3>2 DEF Bounded
  <2>5. ASSUME NEW x \in Entries(s), x.addr # a
        PROVE  x \in Entries(list)
    <3>1. PICK i \in 1 .. Len(list) + 1 : x = s[i]
      BY <2>3 DEF Entries
    <3>2. i # Len(list) + 1
      BY <1>1, <2>3, <2>5, <3>1
    <3>3. i \in 1 .. Len(list)
      BY <1>1, <3>1, <3>2
    <3> QED BY <1>1, <2>3, <3>1, <3>3 DEF Entries
  <2> QED BY <2>1, <2>3, <2>4, <2>5 DEF s
<1> QED BY <1>2, <1>3

-----------------------------------------------------------------------------
(* What a step may write. *)

RoleWrite ==
  \/ UNCHANGED <<role, expiry, holders>>
  \/ \E a \in Addresses, r \in Roles, e \in Nat \cup {None} : StoreRole(a, r, e)
  \/ \E a \in Addresses : EraseRole(a)

AllowWrite ==
  \/ allow' = allow
  \/ allow' = Pruned
  \/ \E a \in Addresses, e \in Nat : /\ HasSlot(Unexpired(AllowList), a)
                                     /\ allow' = Enlist(Unexpired(AllowList), a, e)
  \/ \E a \in Addresses : allow' = Delist(a)

MeterWrite ==
  \/ UNCHANGED <<spent, accepted, now>>
  \/ \E a \in Addresses, u \in Nat : Charge(a, u) /\ UNCHANGED now
  \/ /\ now' = now + 1
     /\ accepted' = [a \in Addresses |-> 0]
     /\ UNCHANGED spent

PendingWrite ==
  \/ UNCHANGED pending
  \/ \E a \in Addresses, r \in Roles : pending' = [pending EXCEPT ![a] = [role |-> r, at |-> ActivateAt]]
  \/ \E a \in Addresses : pending' = [pending EXCEPT ![a] = None]

(* While a pause switch is on, roles stand still and the allowlist is at   *)
(* most pruned.                                                            *)
ClosedWrite == UNCHANGED <<role, expiry, holders>> /\ allow' \in {allow, Pruned}

(* The addresses and numbers that the entry points are given. *)
LEMMA InputsTyped ==
  /\ Targets \subseteq Addresses /\ Listees \subseteq Addresses
  /\ Guardians \subseteq Addresses /\ GrantedRoles \subseteq Roles
  /\ Expiries \subseteq Nat /\ RoleDelays \subseteq Nat /\ Limits \subseteq Nat
  /\ CallSizes \subseteq Nat /\ 1 \in Nat /\ "Verifier" \in Roles
BY AddressesAssumption, BoundsAssumption DEF Roles

Writes ==
  /\ RoleWrite /\ AllowWrite /\ MeterWrite /\ PendingWrite
  /\ Open \/ ClosedWrite

(* The pause switches and the guardian touch nothing else. *)
LEMMA SwitchingWrites ==
  ASSUME Switching
  PROVE  /\ UNCHANGED <<role, expiry, holders, pending, delay, allow, limit, spent, accepted, now>>
         /\ paused' \in {paused, TRUE, FALSE} /\ emergency' \in {emergency, TRUE, FALSE}
         /\ guardian' = guardian \/ guardian' \in Guardians \cup {None}
BY DEF Switching, Pause, Unpause, SetPaused, SetGuardian, RemoveGuardian, EmergencyPause,
       ClearEmergencyPause, roles, metering, switches

(* A granting entry point. *)
LEMMA GrantingWrites ==
  ASSUME TypeOK, Granting
  PROVE  /\ Writes /\ UNCHANGED <<paused, emergency, guardian, limit, spent, accepted, now>>
         /\ delay' = delay \/ delay' \in RoleDelays
<1>1. /\ Targets \subseteq Addresses /\ Listees \subseteq Addresses
      /\ GrantedRoles \subseteq Roles /\ Expiries \subseteq Nat
      /\ "Verifier" \in Roles /\ None \in Nat \cup {None}
      /\ Expiries \cup {None} \subseteq Nat \cup {None}
  BY InputsTyped
<1>2. ASSUME NEW a \in Targets, NEW r \in GrantedRoles, SetRole(a, r)
      PROVE  /\ Writes /\ UNCHANGED <<switches, metering, now>>
             /\ delay' = delay \/ delay' \in RoleDelays
  BY <1>1, <1>2 DEF SetRole, Writes, RoleWrite, AllowWrite, MeterWrite, PendingWrite, metering
<1>3. ASSUME NEW d \in RoleDelays, SetRoleDelay(d)
      PROVE  /\ Writes /\ UNCHANGED <<switches, metering, now>>
             /\ delay' = delay \/ delay' \in RoleDelays
  BY <1>3 DEF SetRoleDelay, Writes, RoleWrite, AllowWrite, MeterWrite, PendingWrite,
     ClosedWrite, metering
<1>4. ASSUME NEW a \in Targets, ActivateRole(a)
      PROVE  /\ Writes /\ UNCHANGED <<switches, metering, now>>
             /\ delay' = delay \/ delay' \in RoleDelays
  <2>1. pending[a] \in PendingGrant
    BY <1>1, <1>4 DEF TypeOK, ActivateRole
  <2>2. pending[a].role \in Roles
    BY <2>1 DEF PendingGrant
  <2> QED BY <1>1, <1>4, <2>2 DEF ActivateRole, Writes, RoleWrite, AllowWrite, MeterWrite,
             PendingWrite, metering
<1>5. ASSUME NEW a \in Targets, CancelRoleGrant(a)
      PROVE  /\ Writes /\ UNCHANGED <<switches, metering, now>>
             /\ delay' = delay \/ delay' \in RoleDelays
  BY <1>1, <1>5 DEF CancelRoleGrant, Writes, RoleWrite, AllowWrite, MeterWrite, PendingWrite,
     ClosedWrite, metering
<1>6. ASSUME NEW a \in Targets, RemoveRole(a)
      PROVE  /\ Writes /\ UNCHANGED <<switches, metering, now>>
             /\ delay' = delay \/ delay' \in RoleDelays
  BY <1>1, <1>6 DEF RemoveRole, Writes, RoleWrite, AllowWrite, MeterWrite, PendingWrite, metering
<1>7. ASSUME NEW a \in Targets, NEW r \in GrantedRoles, NEW e \in Expiries \cup {None},
             SetRoleWithExpiry(a, r, e)
      PROVE  /\ Writes /\ UNCHANGED <<switches, metering, now>>
             /\ delay' = delay \/ delay' \in RoleDelays
  BY <1>1, <1>7 DEF SetRoleWithExpiry, Writes, RoleWrite, AllowWrite, MeterWrite,
     PendingWrite, metering
<1>8. ASSUME NEW a \in Listees, NEW e \in Expiries, AddVerifier(a, e)
      PROVE  /\ Writes /\ UNCHANGED <<switches, metering, now>>
             /\ delay' = delay \/ delay' \in RoleDelays
  BY <1>1, <1>8 DEF AddVerifier, Writes, RoleWrite, AllowWrite, MeterWrite, PendingWrite, metering
<1>9. ASSUME NEW a \in Listees, RemoveVerifier(a)
      PROVE  /\ Writes /\ UNCHANGED <<switches, metering, now>>
             /\ delay' = delay \/ delay' \in RoleDelays
  BY <1>1, <1>9 DEF RemoveVerifier, Writes, RoleWrite, AllowWrite, MeterWrite, PendingWrite, metering
<1>10. ASSUME PruneExpiredVerifiers
       PROVE  /\ Writes /\ UNCHANGED <<switches, metering, now>>
              /\ delay' = delay \/ delay' \in RoleDelays
  BY <1>10 DEF PruneExpiredVerifiers, Writes, RoleWrite, AllowWrite, MeterWrite, PendingWrite,
     ClosedWrite, metering, roles
<1>11. /\ Writes /\ UNCHANGED <<switches, metering, now>>
       /\ delay' = delay \/ delay' \in RoleDelays
  BY <1>2, <1>3, <1>4, <1>5, <1>6, <1>7, <1>8, <1>9, <1>10 DEF Granting
<1> QED BY <1>11 DEF switches, metering

(* A metered call, or a new limit. *)
LEMMA MeteredWrites ==
  ASSUME Metered
  PROVE  /\ UNCHANGED <<paused, emergency, guardian, role, expiry, holders, pending, delay,
                        allow, now>>
         /\ limit' = limit \/ limit' \in Limits
         /\ UNCHANGED <<spent, accepted>> \/ \E a \in Addresses, u \in Nat : Charge(a, u)
<1>1. CallSizes \subseteq Nat /\ 1 \in Nat
  BY InputsTyped
<1>2. ASSUME NEW l \in Limits, SetVerifyLimit(l)
      PROVE  /\ UNCHANGED <<switches, roles, allow, now>>
             /\ limit' = limit \/ limit' \in Limits
             /\ UNCHANGED <<spent, accepted>> \/ \E a \in Addresses, u \in Nat : Charge(a, u)
  BY <1>2 DEF SetVerifyLimit
<1>3. ASSUME NEW a \in Addresses, NEW u \in CallSizes, VerifyCall(a, u)
      PROVE  /\ UNCHANGED <<switches, roles, allow, now>>
             /\ limit' = limit \/ limit' \in Limits
             /\ UNCHANGED <<spent, accepted>> \/ \E b \in Addresses, v \in Nat : Charge(b, v)
  BY <1>1, <1>3 DEF VerifyCall
<1>4. ASSUME NEW a \in Addresses, RevokeCall(a)
      PROVE  /\ UNCHANGED <<switches, roles, allow, now>>
             /\ limit' = limit \/ limit' \in Limits
             /\ UNCHANGED <<spent, accepted>> \/ \E b \in Addresses, v \in Nat : Charge(b, v)
  BY <1>1, <1>4 DEF RevokeCall
<1>5. /\ UNCHANGED <<switches, roles, allow, now>>
      /\ limit' = limit \/ limit' \in Limits
      /\ UNCHANGED <<spent, accepted>> \/ \E a \in Addresses, u \in Nat : Charge(a, u)
  BY <1>2, <1>3, <1>4 DEF Metered
<1> QED BY <1>5 DEF switches, roles

(* Every step writes the stores one of these ways. *)
LEMMA StepWrites ==
  ASSUME TypeOK, [Next]_vars
  PROVE  /\ Writes
         /\ paused' \in BOOLEAN /\ emergency' \in BOOLEAN
         /\ guardian' \in Addresses \cup {None} /\ delay' \in Nat /\ limit' \in Nat
<1>1. /\ paused \in BOOLEAN /\ emergency \in BOOLEAN
      /\ guardian \in Addresses \cup {None} /\ delay \in Nat /\ limit \in Nat
  BY DEF TypeOK
<1>2. Guardians \subseteq Addresses /\ RoleDelays \subseteq Nat /\ Limits \subseteq Nat
  BY InputsTyped
<1>3. CASE Switching
  BY <1>1, <1>2, <1>3, SwitchingWrites DEF Writes, RoleWrite, AllowWrite, MeterWrite,
     PendingWrite, ClosedWrite
<1>4. CASE Granting
  BY <1>1, <1>2, <1>4, GrantingWrites
<1>5. CASE Metered
  <2>1. /\ UNCHANGED <<paused, emergency, guardian, role, expiry, holders, pending, delay,
                       allow, now>>
        /\ limit' = limit \/ limit' \in Limits
        /\ UNCHANGED <<spent, accepted>> \/ \E a \in Addresses, u \in Nat : Charge(a, u)
    BY <1>5, MeteredWrites
  <2>2. RoleWrite /\ AllowWrite /\ PendingWrite /\ ClosedWrite
    BY <2>1 DEF RoleWrite, AllowWrite, PendingWrite, ClosedWrite
  <2>3. MeterWrite
    BY <2>1 DEF MeterWrite
  <2> QED BY <1>1, <1>2, <2>1, <2>2, <2>3 DEF Writes
<1>6. CASE CloseLedger
  BY <1>1, <1>6 DEF CloseLedger, switches, roles, Writes, RoleWrite, AllowWrite, MeterWrite,
     PendingWrite, ClosedWrite
<1>7. CASE UNCHANGED vars
  BY <1>1, <1>7 DEF vars, switches, roles, metering, Writes, RoleWrite, AllowWrite, MeterWrite,
     PendingWrite, ClosedWrite
<1> QED BY <1>3, <1>4, <1>5, <1>6, <1>7 DEF Next

-----------------------------------------------------------------------------
(* The invariant. *)

(* Dropping entries keeps a list within its cap and without repetition. *)
LEMMA WithoutBounded ==
  ASSUME NEW list \in Seq(AllowEntry), Bounded(list), NEW X
  PROVE  /\ Without(list, X) \in Seq(AllowEntry)
         /\ Bounded(Without(list, X))
         /\ Entries(Without(list, X)) = Entries(list) \ X
<1> DEFINE t == Without(list, X)
<1>1. /\ t \in Seq(AllowEntry) /\ Entries(t) = Entries(list) \ X /\ Len(t) <= Len(list)
      /\ Len(t) \in Nat /\ Len(list) \in Nat
  BY WithoutFacts, WithoutShorter, LenProperties
<1>2. \A i, j \in DOMAIN list : list[i] = list[j] => i = j
  BY DEF Bounded
<1>3. \A i, j \in DOMAIN t : t[i] = t[j] => i = j
  BY <1>2, WithoutFacts
<1> HIDE DEF t
<1>4. ASSUME NEW i \in DOMAIN t, NEW j \in DOMAIN t, t[i].addr = t[j].addr
      PROVE  i = j
  <2>1. t[i] \in Entries(list) /\ t[j] \in Entries(list)
    BY <1>1 DEF Entries
  <2>2. PICK k \in DOMAIN list, l \in DOMAIN list : t[i] = list[k] /\ t[j] = list[l]
    BY <2>1 DEF Entries
  <2>3. k = l
    BY <1>4, <2>2 DEF Bounded
  <2> QED BY <1>3, <1>4, <2>2, <2>3
<1>5. Len(t) <= MaxVerifiers
  BY <1>1, BoundsAssumption DEF Bounded
<1>6. Bounded(t)
  BY <1>4, <1>5 DEF Bounded
<1> QED BY <1>1, <1>6 DEF t

(* Writing a role keeps the index the list of those who have one. *)
LEMMA RoleWriteKeeps ==
  ASSUME TypeOK, RolesStored, RoleWrite
  PROVE  /\ role' \in [Addresses -> Roles \cup {None}]
         /\ expiry' \in [Addresses -> Nat \cup {None}]
         /\ holders' \in Seq(Addresses)
         /\ RolesStored'
<1>1. /\ role \in [Addresses -> Roles \cup {None}]
      /\ expiry \in [Addresses -> Nat \cup {None}] /\ holders \in Seq(Addresses)
      /\ None \notin Roles
  BY NoneFacts DEF TypeOK
<1>2. CASE UNCHANGED <<role, expiry, holders>>
  BY <1>1, <1>2 DEF RolesStored
<1>3. ASSUME NEW a \in Addresses, NEW r \in Roles, NEW e \in Nat \cup {None}, StoreRole(a, r, e)
      PROVE  /\ role' \in [Addresses -> Roles \cup {None}]
             /\ expiry' \in [Addresses -> Nat \cup {None}]
             /\ holders' \in Seq(Addresses)
             /\ RolesStored'
  <2>1. /\ role' = [role EXCEPT ![a] = r] /\ expiry' = [expiry EXCEPT ![a] = e]
        /\ holders' = AddHolder(a)
    BY <1>3 DEF StoreRole
  <2>2. /\ role' \in [Addresses -> Roles \cup {None}]
        /\ expiry' \in [Addresses -> Nat \cup {None}]
        /\ holders' \in Seq(Addresses)
    BY <1>1, <2>1, HoldersTyped
  <2>3. {b \in Addresses : role'[b] # None} = {b \in Addresses : role[b] # None} \cup {a}
    BY <1>1, <2>1
  <2>4. Entries(holders') = Entries(holders) \cup {a} /\ Once(holders')
    <3>1. CASE role[a] # None
      BY <2>1, <3>1 DEF AddHolder, RolesStored
    <3>2. CASE role[a] = None
      <4>1. a \notin Entries(holders)
        BY <3>2 DEF RolesStored
      <4>2. holders' = Append(holders, a)
        BY <2>1, <3>2, <4>1 DEF AddHolder
      <4> QED BY <1>1, <4>1, <4>2, AppendFacts DEF RolesStored, Once
    <3> QED BY <3>1, <3>2
  <2>5. \A b \in Addresses : expiry'[b] # None => role'[b] # None
    BY <1>1, <2>1 DEF RolesStored
  <2> QED BY <2>2, <2>3, <2>4, <2>5 DEF RolesStored, Once
<1>4. ASSUME NEW a \in Addresses, EraseRole(a)
      PROVE  /\ role' \in [Addresses -> Roles \cup {None}]
             /\ expiry' \in [Addresses -> Nat \cup {None}]
             /\ holders' \in Seq(Addresses)
             /\ RolesStored'
  <2>1. /\ role' = [role EXCEPT ![a] = None] /\ expiry' = [expiry EXCEPT ![a] = None]
        /\ holders' = Without(holders, {a})
    BY <1>4 DEF EraseRole, DropHolder
  <2>2. /\ role' \in [Addresses -> Roles \cup {None}]
        /\ expiry' \in [Addresses -> Nat \cup {None}]
        /\ holders' \in Seq(Addresses)
    BY <1>1, <2>1, WithoutFacts
  <2>3. {b \in Addresses : role'[b] # None} = {b \in Addresses : role[b] # None} \ {a}
    BY <1>1, <2>1
  <2>4. Entries(holders') = Entries(holders) \ {a} /\ Once(holders')
    <3> DEFINE h == Without(holders, {a})
    <3>1. \A i, j \in DOMAIN holders : holders[i] = holders[j] => i = j
      BY DEF RolesStored, Once
    <3>2. Entries(h) = Entries(holders) \ {a} /\ \A i, j \in DOMAIN h : h[i] = h[j] => i = j
      BY <1>1, <3>1, WithoutFacts
    <3> QED BY <2>1, <3>2 DEF Once
  <2>5. \A b \in Addresses : expiry'[b] # None => role'[b] # None
    BY <1>1, <2>1 DEF RolesStored
  <2> QED BY <2>2, <2>3, <2>4, <2>5 DEF RolesStored, Once
<1> QED BY <1>2, <1>3, <1>4 DEF RoleWrite

(* A list, pruned or with one address taken off. *)
LEMMA PruningKeeps ==
  ASSUME TypeOK, Bounded(AllowList)
  PROVE  /\ AllowList \in Seq(AllowEntry)
         /\ Unexpired(AllowList) \in Seq(AllowEntry)
         /\ Bounded(Unexpired(AllowList))
         /\ Entries(Unexpired(AllowList)) \subseteq Entries(AllowList)
         /\ \A a \in Addresses : /\ Delist(a) \in Seq(AllowEntry) /\ Bounded(Delist(a))
                                 /\ Entries(Delist(a)) \subseteq Entries(AllowList)
                                 /\ \A e \in Entries(Delist(a)) : e.addr # a
<1>1. AllowList \in Seq(AllowEntry)
  BY ListTyped
<1>2. /\ Unexpired(AllowList) \in Seq(AllowEntry) /\ Bounded(Unexpired(AllowList))
      /\ Entries(Unexpired(AllowList)) \subseteq Entries(AllowList)
  BY <1>1, WithoutBounded DEF Unexpired
<1>3. ASSUME NEW a \in Addresses
      PROVE  /\ Delist(a) \in Seq(AllowEntry) /\ Bounded(Delist(a))
             /\ Entries(Delist(a)) \subseteq Entries(AllowList)
             /\ \A e \in Entries(Delist(a)) : e.addr # a
  <2> DEFINE X == {e \in Entries(AllowList) : e.addr = a}
  <2>1. /\ Delist(a) \in Seq(AllowEntry) /\ Bounded(Delist(a))
        /\ Entries(Delist(a)) = Entries(Unexpired(AllowList)) \ X
    BY <1>2, WithoutBounded DEF Delist
  <2> QED BY <1>2, <2>1
<1> QED BY <1>1, <1>2, <1>3

(* What a write leaves on the allowlist. *)
LEMMA AllowWriteKeeps ==
  ASSUME TypeOK, Bounded(AllowList), AllowWrite
  PROVE  /\ allow' \in Seq(AllowEntry) \cup {None}
         /\ Bounded(AllowList')
         /\ allow # None => allow' # None
<1>1. /\ allow \in Seq(AllowEntry) \cup {None} /\ None \notin Seq(AllowEntry)
      /\ Unexpired(AllowList) \in Seq(AllowEntry) /\ Bounded(Unexpired(AllowList))
      /\ Pruned \in {allow, Unexpired(AllowList)}
  BY NoneFacts, PruningKeeps DEF TypeOK, Pruned
<1>2. ASSUME allow' = allow
      PROVE  /\ allow' \in Seq(AllowEntry) \cup {None} /\ Bounded(AllowList')
             /\ allow # None => allow' # None
  BY <1>1, <1>2 DEF AllowList
<1>3. ASSUME allow' \in Seq(AllowEntry), Bounded(allow')
      PROVE  /\ allow' \in Seq(AllowEntry) \cup {None} /\ Bounded(AllowList')
             /\ allow # None => allow' # None
  BY <1>1, <1>3 DEF AllowList
<1>4. CASE allow' = Pruned
  BY <1>1, <1>2, <1>3, <1>4
<1>5. ASSUME NEW a \in Addresses, NEW e \in Nat, HasSlot(Unexpired(AllowList), a),
             allow' = Enlist(Unexpired(AllowList), a, e)
      PROVE  allow' \in Seq(AllowEntry) /\ Bounded(allow')
  BY <1>1, <1>5, EnlistFacts
<1>6. ASSUME NEW a \in Addresses, allow' = Delist(a)
      PROVE  allow' \in Seq(AllowEntry) /\ Bounded(allow')
  BY <1>6, PruningKeeps
<1> QED BY <1>2, <1>3, <1>4, <1>5, <1>6 DEF AllowWrite

(* What a write leaves of the meters. *)
LEMMA MeterWriteKeeps ==
  ASSUME TypeOK, Metering, MeterWrite
  PROVE  /\ spent' \in [Addresses -> [seq : Nat, units : Nat]]
         /\ accepted' \in [Addresses -> Nat] /\ now' \in Nat /\ now' >= now
         /\ Metering'
<1>1. /\ spent \in [Addresses -> [seq : Nat, units : Nat]]
      /\ accepted \in [Addresses -> Nat] /\ now \in Nat
  BY DEF TypeOK
<1>2. CASE UNCHANGED <<spent, accepted, now>>
  BY <1>1, <1>2 DEF Metering, SpentThisLedger
<1>3. ASSUME NEW a \in Addresses, NEW u \in Nat, Charge(a, u), UNCHANGED now
      PROVE  /\ spent' \in [Addresses -> [seq : Nat, units : Nat]]
             /\ accepted' \in [Addresses -> Nat] /\ Metering'
  <2>1. CASE UNCHANGED <<spent, accepted>>
    BY <1>1, <1>3, <2>1 DEF Metering, SpentThisLedger
  <2>2. CASE ~UNCHANGED <<spent, accepted>>
    <3> DEFINE n == SpentThisLedger(a) + u
    <3>1. /\ SpentThisLedger(a) \in Nat /\ n \in Nat /\ accepted[a] = SpentThisLedger(a)
      BY <1>1 DEF SpentThisLedger, Metering
    <3>2. /\ spent' = [spent EXCEPT ![a] = [seq |-> now, units |-> n]]
          /\ accepted' = [accepted EXCEPT ![a] = n]
      BY <1>1, <1>3, <2>2, <3>1 DEF Charge
    <3> HIDE DEF n
    <3>3. /\ spent' \in [Addresses -> [seq : Nat, units : Nat]]
          /\ accepted' \in [Addresses -> Nat]
      BY <1>1, <3>1, <3>2
    <3>4. ASSUME NEW b \in Addresses
          PROVE  /\ spent'[b].seq <= now'
                 /\ accepted'[b] = IF spent'[b].seq = now' THEN spent'[b].units ELSE 0
      <4>1. CASE b = a
        BY <1>1, <1>3, <3>1, <3>2, <4>1
      <4>2. CASE b # a
        BY <1>1, <1>3, <3>2, <4>2 DEF Metering, SpentThisLedger
      <4> QED BY <4>1, <4>2
    <3> QED BY <3>3, <3>4 DEF Metering, SpentThisLedger
  <2> QED BY <2>1, <2>2
<1>4. CASE now' = now + 1 /\ accepted' = [a \in Addresses |-> 0] /\ UNCHANGED spent
  <2>1. ASSUME NEW b \in Addresses
        PROVE  /\ spent'[b].seq <= now'
               /\ accepted'[b] = IF spent'[b].seq = now' THEN spent'[b].units ELSE 0
    <3>1. spent[b].seq \in Nat /\ spent[b].seq <= now
      BY <1>1 DEF Metering
    <3> QED BY <1>1, <1>4, <3>1
  <2> QED BY <1>1, <1>4, <2>1 DEF Metering, SpentThisLedger
<1>5. now' \in Nat /\ now' >= now
  BY <1>1 DEF MeterWrite
<1> QED BY <1>2, <1>3, <1>4, <1>5 DEF MeterWrite

(* The queue of grants. *)
LEMMA PendingTyped ==
  ASSUME TypeOK, PendingWrite
  PROVE  pending' \in [Addresses -> PendingGrant \cup {None}]
<1>1. pending \in [Addresses -> PendingGrant \cup {None}] /\ now + delay \in Nat
  BY DEF TypeOK
<1>2. \A r \in Roles : [role |-> r, at |-> ActivateAt] \in PendingGrant
  BY <1>1 DEF PendingGrant, ActivateAt
<1> QED BY <1>1, <1>2 DEF PendingWrite

(* The state that initialize leaves. *)
LEMMA InvInit == Init => Inv
<1> SUFFICES ASSUME Init PROVE Inv
  OBVIOUS
<1>1. Admin \in Addresses /\ "Admin" \in Roles /\ DefaultLimit \in Nat /\ MaxVerifiers \in Nat
      /\ None \notin Roles
  BY AddressesAssumption, BoundsAssumption, NoneFacts DEF Roles
<1>2. TypeOK
  <2>1. /\ role \in [Addresses -> Roles \cup {None}]
        /\ expiry \in [Addresses -> Nat \cup {None}]
        /\ holders \in Seq(Addresses)
    BY <1>1 DEF Init
  <2>2. /\ pending \in [Addresses -> PendingGrant \cup {None}]
        /\ allow \in Seq(AllowEntry) \cup {None}
        /\ spent \in [Addresses -> [seq : Nat, units : Nat]]
        /\ accepted \in [Addresses -> Nat]
    BY DEF Init
  <2>3. /\ paused \in BOOLEAN /\ emergency \in BOOLEAN /\ guardian \in Addresses \cup {None}
        /\ delay \in Nat /\ limit \in Nat /\ now \in Nat
    BY <1>1 DEF Init
  <2> QED BY <2>1, <2>2, <2>3 DEF TypeOK
<1>3. RolesStored
  <2>1. Entries(holders) = {Admin} /\ Once(holders)
    BY DEF Init, Entries, Once
  <2>2. {a \in Addresses : role[a] # None} = {Admin}
    BY <1>1 DEF Init
  <2>3. \A a \in Addresses : expiry[a] = None
    BY DEF Init
  <2> QED BY <2>1, <2>2, <2>3 DEF RolesStored
<1>4. Bounded(AllowList)
  BY <1>1 DEF Init, AllowList, Bounded
<1>5. Metering
  BY DEF Init, Metering, SpentThisLedger
<1> QED BY <1>2, <1>3, <1>4, <1>5 DEF Inv

(* Every step keeps the invariant. *)
LEMMA InvStep == Inv /\ [Next]_vars => Inv'
<1> SUFFICES ASSUME Inv, [Next]_vars PROVE Inv'
  OBVIOUS
<1>1. TypeOK /\ RolesStored /\ Bounded(AllowList) /\ Metering
  BY DEF Inv
<1>2. /\ RoleWrite /\ AllowWrite /\ MeterWrite /\ PendingWrite
      /\ paused' \in BOOLEAN /\ emergency' \in BOOLEAN
      /\ guardian' \in Addresses \cup {None} /\ delay' \in Nat /\ limit' \in Nat
  BY <1>1, StepWrites DEF Writes
<1>3. /\ role' \in [Addresses -> Roles \cup {None}]
      /\ expiry' \in [Addresses -> Nat \cup {None}]
      /\ holders' \in Seq(Addresses) /\ RolesStored'
  BY <1>1, <1>2, RoleWriteKeeps
<1>4. allow' \in Seq(AllowEntry) \cup {None} /\ Bounded(AllowList)'
  BY <1>1, <1>2, AllowWriteKeeps
<1>5. /\ spent' \in [Addresses -> [seq : Nat, units : Nat]]
      /\ accepted' \in [Addresses -> Nat] /\ now' \in Nat /\ Metering'
  BY <1>1, <1>2, MeterWriteKeeps
<1>6. pending' \in [Addresses -> PendingGrant \cup {None}]
  BY <1>1, <1>2, PendingTyped
<1>7. TypeOK'
  BY <1>2, <1>3, <1>4, <1>5, <1>6 DEF TypeOK
<1> QED BY <1>3, <1>4, <1>5, <1>7 DEF Inv

(* The invariant holds throughout. *)
LEMMA InvHolds == Spec => []Inv
BY InvInit, InvStep, PTL DEF Spec

(* Every variable keeps its type. *)
THEOREM AccessTypeCorrect == Spec => []TypeOK
<1>1. Inv => TypeOK
  BY DEF Inv
<1> QED BY InvHolds, <1>1, PTL

(* The allowlist never holds more than MAX_VERIFIERS entries, nor one      *)
(* address twice.                                                          *)
THEOREM AllowlistStaysBounded == Spec => []AllowlistBounded
<1>1. Inv => AllowlistBounded
  BY DEF Inv, Bounded, AllowlistBounded
<1> QED BY InvHolds, <1>1, PTL

-----------------------------------------------------------------------------
(* The cap. *)

(* A step lets no units through beyond the limit in force before it. *)
LEMMA RateStep ==
  ASSUME Inv, [Next]_vars, NEW a \in Addresses, accepted'[a] > accepted[a]
  PROVE  accepted'[a] <= limit
<1>1. /\ TypeOK /\ accepted \in [Addresses -> Nat] /\ MeterWrite
      /\ \A b \in Addresses : accepted[b] = SpentThisLedger(b)
  BY StepWrites DEF Inv, TypeOK, Metering, Writes
<1>2. ~UNCHANGED accepted
  BY <1>1
<1>3. accepted' # [b \in Addresses |-> 0]
  BY <1>1
<1>4. PICK b \in Addresses, u \in Nat : Charge(b, u)
  BY <1>1, <1>2, <1>3 DEF MeterWrite
<1>5. /\ SpentThisLedger(b) + u <= limit
      /\ accepted' = [accepted EXCEPT ![b] = @ + u]
  BY <1>2, <1>4 DEF Charge
<1>6. b = a
  BY <1>1, <1>5
<1> QED BY <1>1, <1>5, <1>6

(* The cap per ledger holds for verify, batch_verify and                   *)
(* revoke_verification together, across changes of the limit.              *)
THEOREM CapPerLedger == Spec => RateLimited
<1>1. Inv /\ [Next]_vars =>
        [\A a \in Addresses : accepted'[a] > accepted[a] => accepted'[a] <= limit]_vars
  BY RateStep
<1> QED BY InvHolds, <1>1, PTL DEF Spec, RateLimited

-----------------------------------------------------------------------------
(* Powers. *)

Live(e, t) == ~(e.expires # 0 /\ t >= e.expires)

ActiveAmong(list, t, a) ==
  \E i \in DOMAIN list :
    /\ list[i].addr = a
    /\ \A j \in 1 .. (i - 1) : list[j].addr # a
    /\ Live(list[i], t)

(* On a list that names an address once, the first entry is the only one. *)
LEMMA FirstEntryDecides ==
  ASSUME NEW list \in Seq(AllowEntry), Bounded(list), NEW t, NEW a
  PROVE  ActiveAmong(list, t, a) <=> \E e \in Entries(list) : e.addr = a /\ Live(e, t)
<1>1. Len(list) \in Nat /\ DOMAIN list = 1 .. Len(list)
  OBVIOUS
<1>2. ActiveAmong(list, t, a) => \E e \in Entries(list) : e.addr = a /\ Live(e, t)
  BY DEF ActiveAmong, Entries
<1>3. ASSUME NEW e \in Entries(list), e.addr = a, Live(e, t)
      PROVE  ActiveAmong(list, t, a)
  <2>1. PICK i \in DOMAIN list : list[i] = e
    BY DEF Entries
  <2>2. \A j \in 1 .. (i - 1) : j \in DOMAIN list /\ j # i
    BY <1>1, <2>1
  <2>3. \A j \in 1 .. (i - 1) : list[j].addr # a
    BY <1>3, <2>1, <2>2 DEF Bounded
  <2> QED BY <1>3, <2>1, <2>3 DEF ActiveAmong
<1> QED BY <1>2, <1>3

(* Whoever keeps role and expiry, and gains no entry, gains no power. *)
LEMMA NothingGained ==
  ASSUME Inv, Inv', now' >= now, NEW a \in Addresses,
         role'[a] = role[a], expiry'[a] = expiry[a],
         EntriesOf(a)' \subseteq EntriesOf(a), allow # None => allow' # None
  PROVE  /\ ActiveRole(a)' \in {None, ActiveRole(a)}
         /\ Powers(a)' \subseteq Powers(a)
<1>1. /\ now \in Nat /\ now' \in Nat
      /\ expiry[a] \in Nat \cup {None} /\ None \notin Nat /\ None \notin Roles
      /\ "Verifier" \in Roles
  BY NoneFacts, InputsTyped DEF Inv, TypeOK
<1>2. RoleExpired(a) => RoleExpired(a)'
  BY <1>1 DEF RoleExpired
<1>3. ActiveRole(a)' \in {None, ActiveRole(a)}
  BY <1>2 DEF ActiveRole
<1>4. RoleNotLapsed(a)' => RoleNotLapsed(a)
  BY <1>2 DEF RoleNotLapsed
<1>5. /\ AllowList \in Seq(AllowEntry) /\ AllowList' \in Seq(AllowEntry)
      /\ Bounded(AllowList) /\ Bounded(AllowList')
  BY DEF Inv, TypeOK, AllowList
<1>6. ASSUME ActiveVerifier(a)'
      PROVE  ActiveVerifier(a) /\ allow # None
  <2>1. ActiveAmong(AllowList', now', a)
    BY <1>6 DEF ActiveVerifier, ActiveAmong, Live, EntryExpired
  <2>2. PICK e \in Entries(AllowList') : e.addr = a /\ Live(e, now')
    BY <1>5, <2>1, FirstEntryDecides
  <2>3. e \in EntriesOf(a)'
    BY <2>2 DEF EntriesOf
  <2>4. e \in Entries(AllowList)
    BY <2>3 DEF EntriesOf
  <2>5. e.expires \in Nat
    <3>1. e \in AllowEntry
      BY <1>5, <2>4 DEF Entries
    <3> QED BY <3>1 DEF AllowEntry
  <2>6. Live(e, now)
    BY <1>1, <2>2, <2>5 DEF Live
  <2>7. ActiveAmong(AllowList, now, a)
    BY <1>5, <2>2, <2>4, <2>6, FirstEntryDecides
  <2>8. allow # None
    BY <2>4 DEF AllowList, Entries
  <2> QED BY <2>7, <2>8 DEF ActiveVerifier, ActiveAmong, Live, EntryExpired
<1>7. MayVerify(a)' => MayVerify(a)
  <2>1. CASE allow' # None
    BY <1>4, <1>6, <2>1 DEF MayVerify
  <2>2. CASE allow' = None
    BY <1>1, <1>3, <1>4, <2>2 DEF MayVerify
  <2> QED BY <2>1, <2>2
<1>8. Powers(a)' \subseteq Powers(a)
  BY <1>3, <1>7 DEF Powers
<1> QED BY <1>3, <1>8

(* Pruning and delisting leave an address no entry it had not. *)
LEMMA PruningGains ==
  ASSUME Inv, allow' \in {allow, Pruned}, NEW a \in Addresses
  PROVE  EntriesOf(a)' \subseteq EntriesOf(a)
<1>1. /\ Entries(Unexpired(AllowList)) \subseteq Entries(AllowList)
      /\ Unexpired(AllowList) \in Seq(AllowEntry) /\ None \notin Seq(AllowEntry)
  BY PruningKeeps, NoneFacts DEF Inv
<1>2. AllowList' \in {AllowList, Unexpired(AllowList)}
  BY <1>1 DEF AllowList, Pruned
<1> QED BY <1>1, <1>2 DEF EntriesOf

(* A step in which an address gains a power is taken while nothing is      *)
(* paused, and rewrites that address's role or entry.                      *)
LEMMA GainStep ==
  ASSUME Inv, [Next]_vars, NEW a \in Addresses, ~(Powers(a)' \subseteq Powers(a))
  PROVE  /\ Open
         /\ <<role[a], expiry[a], EntriesOf(a)>>' # <<role[a], expiry[a], EntriesOf(a)>>
<1>1. /\ Inv' /\ Writes /\ now' >= now /\ (allow # None => allow' # None)
  BY InvStep, StepWrites, AllowWriteKeeps, MeterWriteKeeps DEF Inv, Writes
<1>2. CASE ~Open
  <2>1. UNCHANGED <<role, expiry>> /\ allow' \in {allow, Pruned}
    BY <1>1, <1>2 DEF Writes, ClosedWrite
  <2>2. EntriesOf(a)' \subseteq EntriesOf(a)
    BY <2>1, PruningGains
  <2>3. Powers(a)' \subseteq Powers(a)
    BY <1>1, <2>1, <2>2, NothingGained
  <2> QED BY <2>3
<1>3. CASE <<role[a], expiry[a], EntriesOf(a)>>' = <<role[a], expiry[a], EntriesOf(a)>>
  <2>1. role'[a] = role[a] /\ expiry'[a] = expiry[a] /\ EntriesOf(a)' \subseteq EntriesOf(a)
    BY <1>3
  <2>2. Powers(a)' \subseteq Powers(a)
    BY <1>1, <2>1, NothingGained
  <2> QED BY <2>2
<1> QED BY <1>2, <1>3

(* No power comes from the passing of time, from pruning, or from what is  *)
(* granted to or taken from somebody else.                                 *)
THEOREM PowersAreGranted == Spec => AuthorityNeedsGrant
<1>1. Inv /\ [Next]_vars =>
        [\A a \in Addresses :
           ~(Powers(a)' \subseteq Powers(a)) =>
             /\ Open
             /\ <<role[a], expiry[a], EntriesOf(a)>>' # <<role[a], expiry[a], EntriesOf(a)>>]_vars
  BY GainStep
<1> QED BY InvHolds, <1>1, PTL DEF Spec, AuthorityNeedsGrant

-----------------------------------------------------------------------------
(* The timelock. *)

(* Where the role an address holds after a step came from. *)
RoleSource(a) ==
  \/ role'[a] = role[a] /\ expiry'[a] = expiry[a]
  \/ role'[a] \in {None, "Verifier", ActiveRole(a)}
  \/ /\ pending[a] # None
     /\ role'[a] = pending[a].role
     /\ now >= pending[a].at

(* With the timelock armed, a new privileged role was queued and waited. *)
LEMMA SourceStep ==
  ASSUME Inv, [Next]_vars, delay > 0, NEW a \in Addresses
  PROVE  RoleSource(a)
<1>1. /\ role \in [Addresses -> Roles \cup {None}]
      /\ expiry \in [Addresses -> Nat \cup {None}]
      /\ delay \in Nat
  BY DEF Inv, TypeOK
<1>2. ASSUME UNCHANGED <<role, expiry>>
      PROVE  RoleSource(a)
  BY <1>2 DEF RoleSource
<1>3. ASSUME NEW b, NEW r, NEW e, StoreRole(b, r, e), b # a \/ r \in {"Verifier", ActiveRole(a)}
      PROVE  RoleSource(a)
  BY <1>1, <1>3 DEF StoreRole, RoleSource
<1>4. ASSUME NEW b, EraseRole(b)
      PROVE  RoleSource(a)
  BY <1>1, <1>4 DEF EraseRole, RoleSource
<1>5. ASSUME Granting
      PROVE  RoleSource(a)
  <2>1. ASSUME NEW b \in Targets, NEW r \in GrantedRoles, SetRole(b, r)
        PROVE  RoleSource(a)
    BY <1>1, <1>2, <2>1 DEF SetRole
  <2>2. ASSUME NEW d \in RoleDelays, SetRoleDelay(d)
        PROVE  RoleSource(a)
    BY <1>2, <2>2 DEF SetRoleDelay
  <2>3. ASSUME NEW b \in Targets, ActivateRole(b)
        PROVE  RoleSource(a)
    <3>1. CASE b # a
      BY <1>3, <2>3, <3>1 DEF ActivateRole
    <3>2. CASE b = a
      BY <1>1, <2>3, <3>2 DEF ActivateRole, StoreRole, RoleSource
    <3> QED BY <3>1, <3>2
  <2>4. ASSUME NEW b \in Targets, CancelRoleGrant(b)
        PROVE  RoleSource(a)
    BY <1>2, <2>4 DEF CancelRoleGrant
  <2>5. ASSUME NEW b \in Targets, RemoveRole(b)
        PROVE  RoleSource(a)
    BY <1>4, <2>5 DEF RemoveRole
  <2>6. ASSUME NEW b \in Targets, NEW r \in GrantedRoles, NEW e \in Expiries \cup {None},
               SetRoleWithExpiry(b, r, e)
        PROVE  RoleSource(a)
    BY <1>3, <2>6 DEF SetRoleWithExpiry
  <2>7. ASSUME NEW b \in Listees, NEW e \in Expiries, AddVerifier(b, e)
        PROVE  RoleSource(a)
    BY <1>3, <2>7 DEF AddVerifier
  <2>8. ASSUME NEW b \in Listees, RemoveVerifier(b)
        PROVE  RoleSource(a)
    BY <1>4, <2>8 DEF RemoveVerifier
  <2>9. ASSUME PruneExpiredVerifiers
        PROVE  RoleSource(a)
    BY <1>2, <2>9 DEF PruneExpiredVerifiers, roles
  <2> QED BY <1>5, <2>1, <2>2, <2>3, <2>4, <2>5, <2>6, <2>7, <2>8, <2>9 DEF Granting
<1>6. CASE Switching
  BY <1>2, <1>6, SwitchingWrites
<1>7. CASE Metered
  BY <1>2, <1>7, MeteredWrites
<1>8. CASE CloseLedger
  BY <1>2, <1>8 DEF CloseLedger, roles
<1>9. CASE UNCHANGED vars
  BY <1>2, <1>9 DEF vars, roles
<1> QED BY <1>5, <1>6, <1>7, <1>8, <1>9 DEF Next

(* The privileged power gained in a step is the one whose wait is over. *)
LEMMA WaitStep ==
  ASSUME Inv, [Next]_vars, NEW a \in Addresses,
         NEW p \in Powers(a)' \ (Powers(a) \cup {"Verifier"}), delay > 0
  PROVE  pending[a] # None /\ pending[a].role = p /\ now >= pending[a].at
<1>1. p = ActiveRole(a)' /\ p # None /\ p # "Verifier" /\ p # ActiveRole(a)
  BY DEF Powers
<1>2. p = role'[a]
  BY <1>1 DEF ActiveRole
<1>3. now' >= now /\ now \in Nat /\ now' \in Nat /\ expiry[a] \in Nat \cup {None}
  BY StepWrites, MeterWriteKeeps DEF Inv, Writes, TypeOK
<1>4. ~(role'[a] = role[a] /\ expiry'[a] = expiry[a])
  <2> SUFFICES ASSUME role'[a] = role[a], expiry'[a] = expiry[a] PROVE FALSE
    OBVIOUS
  <2>1. RoleExpired(a) => RoleExpired(a)'
    BY <1>3, NoneFacts DEF RoleExpired
  <2>2. ActiveRole(a)' \in {None, ActiveRole(a)}
    BY <2>1 DEF ActiveRole
  <2> QED BY <1>1, <2>2
<1>5. RoleSource(a)
  BY SourceStep
<1> QED BY <1>1, <1>2, <1>4, <1>5 DEF RoleSource

(* While the timelock is armed, Admin, Upgrader and Revoker come only by   *)
(* activate_role, after the wait.                                          *)
THEOREM PrivilegesWaited == Spec => PrivilegedGrantsWait
<1>1. Inv /\ [Next]_vars =>
        [\A a \in Addresses : \A p \in Powers(a)' \ (Powers(a) \cup {"Verifier"}) :
           delay > 0 => /\ pending[a] # None
                        /\ pending[a].role = p
                        /\ now >= pending[a].at]_vars
  BY WaitStep
<1> QED BY InvHolds, <1>1, PTL DEF Spec, PrivilegedGrantsWait

-----------------------------------------------------------------------------
(* Paging through the role index. *)

PageEnd(offset, step) ==
  IF offset + step <= Len(holders) THEN offset + step ELSE Len(holders)

PageOf(offset, step) == SubSeq(holders, offset + 1, PageEnd(offset, step))

LivePage(offset, step) == Without(PageOf(offset, step), Inactive)

(* Every position lies on exactly one page. *)
LEMMA OnePage ==
  ASSUME NEW step \in Nat \ {0}, NEW i \in Nat \ {0}
  PROVE  \E o \in Nat : /\ o % step = 0 /\ o < i /\ i <= o + step
                        /\ \A q \in Nat : q % step = 0 /\ q < i /\ i <= q + step => q = o
<1> DEFINE j == i - 1
           k == j \div step
<1>1. j \in Nat /\ k \in Nat
  OBVIOUS
<1>2. k * step <= j /\ j < k * step + step
  OBVIOUS
<1> HIDE DEF j, k
<1>3. k * step \in Nat /\ (k * step) % step = 0
  BY <1>1
<1>4. k * step < i /\ i <= k * step + step
  BY <1>2, <1>3 DEF j
<1>5. \A a, b \in Nat : /\ a * step <= j /\ j < a * step + step
                        /\ b * step <= j /\ j < b * step + step
                        => a = b
  <2> SUFFICES ASSUME NEW a \in Nat, NEW b \in Nat,
                      a * step <= j, j < a * step + step, b * step <= j, j < b * step + step
               PROVE  a = b
    OBVIOUS
  <2> QED BY <1>1
<1>6. ASSUME NEW q \in Nat, q % step = 0, q < i, i <= q + step
      PROVE  q = k * step
  <2>1. q = step * (q \div step) + (q % step) /\ q \div step \in Nat
    OBVIOUS
  <2>2. q = (q \div step) * step
    BY <1>6, <2>1
  <2>3. q <= j /\ j < q + step
    BY <1>6 DEF j
  <2>4. q \div step = k
    BY <1>1, <1>2, <1>5, <2>1, <2>2, <2>3
  <2> QED BY <2>2, <2>4
<1> QED BY <1>3, <1>4, <1>6

(* A page keeps the holders of active roles that stand on it, each once. *)
LEMMA LivePageFacts ==
  ASSUME holders \in Seq(Addresses), Once(holders),
         NEW step \in Nat \ {0}, NEW o \in 0 .. Len(holders)
  PROVE  /\ DOMAIN LivePage(o, step) \subseteq 1 .. step
         /\ Once(LivePage(o, step))
         /\ \A a : a \in Entries(LivePage(o, step)) <=>
                     /\ a \notin Inactive
                     /\ \E i \in DOMAIN holders : holders[i] = a /\ o < i /\ i <= o + step
<1> DEFINE e == PageEnd(o, step)
           page == PageOf(o, step)
           live == LivePage(o, step)
<1>1. /\ Len(holders) \in Nat /\ DOMAIN holders = 1 .. Len(holders)
      /\ o \in Nat /\ e \in Nat /\ o <= e /\ e <= Len(holders) /\ e <= o + step
      /\ \A i \in 1 .. Len(holders) : i <= o + step => i <= e
  BY DEF PageEnd
<1>2. page = SubSeq(holders, o + 1, e)
  BY DEF PageOf
<1> HIDE DEF e, page
<1>3. /\ page \in Seq(Addresses) /\ Len(page) = e - o /\ DOMAIN page = 1 .. e - o
      /\ \A i \in 1 .. e - o : page[i] = holders[o + i]
  BY <1>1, <1>2, Slice
<1>4. live = Without(page, Inactive)
  BY DEF LivePage, page
<1> HIDE DEF live
<1>5. ASSUME NEW i \in DOMAIN page, NEW j \in DOMAIN page, page[i] = page[j]
      PROVE  i = j
  <2>1. i \in 1 .. e - o /\ j \in 1 .. e - o
    BY <1>3
  <2>2. o + i \in DOMAIN holders /\ o + j \in DOMAIN holders
    BY <1>1, <2>1
  <2>3. holders[o + i] = holders[o + j]
    BY <1>3, <1>5, <2>1
  <2>4. o + i = o + j
    BY <2>2, <2>3 DEF Once
  <2> QED BY <1>1, <2>1, <2>4
<1>6. /\ live \in Seq(Addresses) /\ Entries(live) = Entries(page) \ Inactive
      /\ \A i, j \in DOMAIN live : live[i] = live[j] => i = j
      /\ Len(live) <= Len(page) /\ Len(live) \in Nat /\ DOMAIN live = 1 .. Len(live)
  <2>1. \A i, j \in DOMAIN page : page[i] = page[j] => i = j
    BY <1>5
  <2>2. live \in Seq(Addresses) /\ Entries(live) = Entries(page) \ Inactive
    BY <1>3, <1>4, WithoutFacts
  <2>3. \A i, j \in DOMAIN live : live[i] = live[j] => i = j
    <3>1. \A i, j \in DOMAIN Without(page, Inactive) :
            Without(page, Inactive)[i] = Without(page, Inactive)[j] => i = j
      BY <1>3, <2>1, WithoutFacts
    <3> QED BY <1>4, <3>1
  <2>4. Len(live) <= Len(page)
    BY <1>3, <1>4, WithoutShorter
  <2> QED BY <2>2, <2>3, <2>4, LenProperties
<1>7. DOMAIN live \subseteq 1 .. step
  BY <1>1, <1>3, <1>6
<1>8. ASSUME NEW a
      PROVE  a \in Entries(page) <=>
               \E i \in DOMAIN holders : holders[i] = a /\ o < i /\ i <= o + step
  <2>1. ASSUME a \in Entries(page)
        PROVE  \E i \in DOMAIN holders : holders[i] = a /\ o < i /\ i <= o + step
    <3>1. PICK m \in 1 .. e - o : a = holders[o + m]
      BY <1>3, <2>1 DEF Entries
    <3>2. o + m \in 1 .. Len(holders) /\ o < o + m /\ o + m <= o + step
      BY <1>1
    <3> QED BY <1>1, <3>1, <3>2
  <2>2. ASSUME NEW i \in DOMAIN holders, holders[i] = a, o < i, i <= o + step
        PROVE  a \in Entries(page)
    <3>1. i - o \in 1 .. e - o /\ o + (i - o) = i
      BY <1>1, <2>2
    <3>2. page[i - o] = a
      BY <1>3, <2>2, <3>1
    <3> QED BY <1>3, <3>1, <3>2 DEF Entries
  <2> QED BY <2>1, <2>2
<1> QED BY <1>6, <1>7, <1>8 DEF live, Once

(* What get_role_holders returns for a page. *)
LEMMA HoldersListed ==
  ASSUME NEW o, NEW l
  PROVE  /\ DOMAIN GetRoleHolders(o, l) = DOMAIN LivePage(o, RolePageSize(l))
         /\ \A k \in DOMAIN LivePage(o, RolePageSize(l)) :
              GetRoleHolders(o, l)[k] = [addr |-> LivePage(o, RolePageSize(l))[k],
                                         role |-> ActiveRole(LivePage(o, RolePageSize(l))[k])]
BY DEF GetRoleHolders, LivePage, PageOf, PageEnd

(* The pages list an active role once and a lapsed or absent one never. *)
LEMMA ListedOnce ==
  ASSUME Inv, NEW a \in Addresses, NEW l \in 0 .. MaxRolePage + 1
  PROVE  Listings(a, l) = IF ActiveRole(a) = None THEN 0 ELSE 1
<1> DEFINE step == RolePageSize(l)
           X == {x \in (0 .. Len(holders)) \X (1 .. step) :
                   /\ x[1] % step = 0
                   /\ LET page == GetRoleHolders(x[1], l) IN
                        x[2] \in DOMAIN page
                          /\ page[x[2]] = [addr |-> a, role |-> ActiveRole(a)]}
           At(o, k) == k \in DOMAIN LivePage(o, step) /\ LivePage(o, step)[k] = a
<1>1. /\ holders \in Seq(Addresses) /\ Once(holders) /\ Len(holders) \in Nat
      /\ DOMAIN holders = 1 .. Len(holders)
      /\ Entries(holders) = {b \in Addresses : role[b] # None}
  BY DEF Inv, TypeOK, RolesStored
<1>2. step \in Nat \ {0}
  BY BoundsAssumption DEF RolePageSize
<1>3. Listings(a, l) = Cardinality(X)
  BY DEF Listings
<1>4. \A o, k : <<o, k>> \in X <=>
                  o \in 0 .. Len(holders) /\ k \in 1 .. step /\ o % step = 0 /\ At(o, k)
  <2> SUFFICES ASSUME NEW o, NEW k
               PROVE  <<o, k>> \in X <=>
                        o \in 0 .. Len(holders) /\ k \in 1 .. step /\ o % step = 0 /\ At(o, k)
    OBVIOUS
  <2> DEFINE page == GetRoleHolders(o, l)
             lp == LivePage(o, step)
  <2>1. /\ DOMAIN page = DOMAIN lp
        /\ \A m \in DOMAIN lp : page[m] = [addr |-> lp[m], role |-> ActiveRole(lp[m])]
    BY HoldersListed
  <2>2. <<o, k>> \in X <=> /\ o \in 0 .. Len(holders) /\ k \in 1 .. step /\ o % step = 0
                           /\ k \in DOMAIN page
                           /\ page[k] = [addr |-> a, role |-> ActiveRole(a)]
    OBVIOUS
  <2> HIDE DEF page, lp, X
  <2>3. ASSUME k \in DOMAIN lp
        PROVE  page[k] = [addr |-> a, role |-> ActiveRole(a)] <=> lp[k] = a
    <3>1. page[k].addr = lp[k]
      BY <2>1, <2>3
    <3> QED BY <2>1, <2>3, <3>1
  <2> QED BY <2>1, <2>2, <2>3 DEF lp
<1>5. X \subseteq (0 .. Len(holders)) \X (1 .. step)
  OBVIOUS
<1> HIDE DEF X, step
<1>6. \A x \in X : x = <<x[1], x[2]>> /\ x[1] \in 0 .. Len(holders) /\ x[1] % step = 0 /\ At(x[1], x[2])
  <2>1. \A x \in X : x = <<x[1], x[2]>> /\ <<x[1], x[2]>> \in X
    BY <1>5
  <2> QED BY <1>4, <2>1
<1>7. CASE ActiveRole(a) = None
  <2>1. a \in Inactive
    BY <1>7 DEF Inactive
  <2>2. X = {}
    <3> SUFFICES ASSUME NEW x \in X PROVE FALSE
      OBVIOUS
    <3>1. a \in Entries(LivePage(x[1], step)) /\ x[1] \in 0 .. Len(holders)
      BY <1>6 DEF Entries
    <3> QED BY <1>1, <1>2, <2>1, <3>1, LivePageFacts
  <2> QED BY <1>3, <1>7, <2>2, FS_EmptySet
<1>8. CASE ActiveRole(a) # None
  <2>1. a \notin Inactive /\ role[a] # None
    BY <1>8 DEF Inactive, ActiveRole
  <2>2. PICK i \in DOMAIN holders : holders[i] = a
    BY <1>1, <2>1 DEF Entries
  <2> i \in Nat \ {0}
    BY <1>1
  <2>3. PICK o \in Nat : /\ o % step = 0 /\ o < i /\ i <= o + step
                         /\ \A q \in Nat : q % step = 0 /\ q < i /\ i <= q + step => q = o
    BY <1>2, OnePage
  <2>4. o \in 0 .. Len(holders)
    BY <1>1, <2>3
  <2>5. a \in Entries(LivePage(o, step))
    BY <1>1, <1>2, <2>1, <2>2, <2>3, <2>4, LivePageFacts
  <2>6. PICK k \in DOMAIN LivePage(o, step) : LivePage(o, step)[k] = a
    BY <2>5 DEF Entries
  <2>7. k \in 1 .. step
    BY <1>1, <1>2, <2>4, LivePageFacts
  <2>8. <<o, k>> \in X
    BY <1>4, <2>3, <2>4, <2>6, <2>7
  <2>9. ASSUME NEW x \in X
        PROVE  x = <<o, k>>
    <3>1. /\ x = <<x[1], x[2]>> /\ x[1] \in 0 .. Len(holders) /\ x[1] % step = 0
          /\ x[2] \in DOMAIN LivePage(x[1], step) /\ LivePage(x[1], step)[x[2]] = a
      BY <1>6
    <3>2. a \in Entries(LivePage(x[1], step))
      BY <3>1 DEF Entries
    <3>3. PICK m \in DOMAIN holders : holders[m] = a /\ x[1] < m /\ m <= x[1] + step
      BY <1>1, <1>2, <3>1, <3>2, LivePageFacts
    <3>4. m = i
      BY <1>1, <2>2, <3>3 DEF Once
    <3>5. x[1] = o
      BY <1>1, <2>3, <3>1, <3>3, <3>4
    <3>6. x[2] = k
      BY <1>1, <1>2, <2>4, <2>6, <3>1, <3>5, LivePageFacts DEF Once
    <3> QED BY <3>1, <3>5, <3>6
  <2>10. X = {<<o, k>>}
    BY <2>8, <2>9
  <2> QED BY <1>3, <1>8, <2>10, FS_Singleton
<1> QED BY <1>7, <1>8

(* Role, expiry and index agree, and the pages of get_role_holders show    *)
(* every active role once and no lapsed one, whatever limit a client asks. *)
THEOREM RoleIndexAgrees == Spec => []RoleStoreConsistent
<1>1. Inv => RoleStoreConsistent
  <2> SUFFICES ASSUME Inv PROVE RoleStoreConsistent
    OBVIOUS
  <2>1. \A i \in DOMAIN holders : role[holders[i]] # None
    BY DEF Inv, RolesStored, Entries
  <2>2. \A a \in Addresses : expiry[a] # None => role[a] # None
    BY DEF Inv, RolesStored
  <2> QED BY <2>1, <2>2, ListedOnce DEF RoleStoreConsistent
<1> QED BY InvHolds, <1>1, PTL

=============================================================================
