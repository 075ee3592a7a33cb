-------------------------------- MODULE Feed --------------------------------
(***************************************************************************)
(* The events the contract publishes about its records (src/events.rs).    *)
(*                                                                         *)
(* Every invocation of Registry is paired with the events its handler      *)
(* publishes; `table' is what somebody holds who has applied all of them,  *)
(* in order, knowing nothing else of the contract.  An event names the     *)
(* username as the caller typed it.                                        *)
(***************************************************************************)
EXTENDS Registry

FSE == INSTANCE FiniteSetsExt

VARIABLE table  \* addr, verified and bot of each key as the events tell them

Row == [addr : Addresses, verified : BOOLEAN, bot : BOOLEAN]

ASSUME RowAssumption == None \notin Row

-----------------------------------------------------------------------------
(* Events. *)

RegisteredEvent(n, a) == [type |-> "registered", name |-> n, addr |-> a]

VerifiedEvent(n) == [type |-> "verified", name |-> n]

VerificationRevokedEvent(n) == [type |-> "revoked", name |-> n]

BotStatusChangedEvent(n, b) == [type |-> "bot", name |-> n, bot |-> b]

RemovedEvent(n) == [type |-> "removed", name |-> n]

ChallengeEvent(n) == [type |-> "challenge", name |-> n]

BatchRemoveEvent == [type |-> "batch_remove"]

(* Pause, unpause, emergency and role events. *)
AccessEvent == [type |-> "access"]

RenamedEvent(old, new, a) ==
  [type |-> "renamed", old |-> old, name |-> new, addr |-> a]

RotationExecutedEvent(n, a) ==
  [type |-> "rotated", name |-> n, addr |-> a]

RotationEvent(n) == [type |-> "rotation", name |-> n]

VerificationConfiguredEvent == [type |-> "configured"]

-----------------------------------------------------------------------------
(* A follower. *)

(* mutant: a registration resets the flag, as docs/DASHBOARD_SYNC.md says *)
ResetsFlag(row, a) == FALSE

(* What register does to the record, which the event does not spell out. *)
KeepsFlag(row, a) == row # None /\ row.verified /\ row.addr = a

Apply(e, t) ==
  LET Put(r) == [t EXCEPT ![Canon[e.name]] = r]
      old    == t[Canon[e.name]]
  IN CASE e.type = "registered" ->
            Put([addr     |-> e.addr,
                 verified |-> KeepsFlag(old, e.addr),
                 bot      |-> old # None /\ old.bot])
       [] e.type = "verified" -> Put([old EXCEPT !.verified = TRUE])
       [] e.type = "revoked"  -> Put([old EXCEPT !.verified = FALSE])
       [] e.type = "bot"      -> Put([old EXCEPT !.bot = e.bot])
       [] e.type = "rotated"  -> Put([addr |-> e.addr, verified |-> FALSE, bot |-> old.bot])
       [] e.type = "removed"  -> Put(None)
       [] e.type = "renamed"  ->
            [Put([addr |-> e.addr, verified |-> FALSE, bot |-> t[Canon[e.old]].bot])
               EXCEPT ![Canon[e.old]] = None]
       [] OTHER -> t

(* The events of one invocation.  Those about records concern different    *)
(* keys, so their order does not matter.                                   *)
Publish(E) == table' = FSE!FoldSet(Apply, table, E)

-----------------------------------------------------------------------------
(* Every action of Registry with what it publishes. *)

NoRemovedEvent(n) == {ChallengeEvent(n)}  \* mutant: completion not announced as removal

ChallengeRemovalEvents(n) == {RemovedEvent(n), ChallengeEvent(n)}

NoEvents(b) == {}  \* mutant: a batch removes in silence

(* One event per removed record, however often the list names it. *)
RemovalEvents(b) == {RemovedEvent(k) : k \in {Canon[n] : n \in Entries(b)} \cap Live}

FeedInit ==
  /\ Init
  /\ table = [k \in Keys |-> None]

AnnouncedStep ==
  \/ \E n \in Names, a \in Addresses :
       /\ Register(n, a) \/ RegisterSponsored(n, a)
       /\ Publish({RegisteredEvent(n, a)})
  \/ \E n \in VerifyNames :
       /\ \/ \E c \in Addresses : Verify(c, n)
          \/ \E p \in Proofs : VerifyWithOracleProof(n, p)
       /\ Publish({VerifiedEvent(n)})
  \/ \E c \in Addresses, n \in VerifyNames :
       RevokeVerification(c, n) /\ Publish({VerificationRevokedEvent(n)})
  \/ \E c \in Addresses, b \in Batches :
       /\ BatchVerify(c, b)
       /\ Publish({VerifiedEvent(n) : n \in {m \in Entries(b) : Verifiable(m)}})
  \/ \E c \in Addresses, n \in Names : Remove(c, n) /\ Publish({RemovedEvent(n)})
  \/ \E c \in Addresses, n \in Names, b \in BotFlags :
       SetBotStatus(c, n, b) /\ Publish({BotStatusChangedEvent(n, b)})
  \/ \E c \in Addresses, n \in Names, m \in RenameNames :
       Rename(c, n, m) /\ Publish({RenamedEvent(n, m, rec[Canon[n]].addr)})
  \/ \E n \in Names, a \in RotationTargets :
       RequestRotation(n, a) /\ Publish({RotationEvent(n)})
  \/ \E n \in Names :
       ExecuteRotation(n) /\ Publish({RotationExecutedEvent(n, rotation[Canon[n]].to)})
  \/ \E c \in Addresses, n \in Names :
       CancelRotation(c, n) /\ Publish({RotationEvent(n)})
  \/ \E n \in ChallengeNames :
       \/ (StartChallenge(n) \/ CancelChallenge(n)) /\ Publish({ChallengeEvent(n)})
       \/ CompleteChallenge(n) /\ Publish(ChallengeRemovalEvents(n))
  \/ \E b \in Batches : BatchRemove(b) /\ Publish(RemovalEvents(b))
  \/ \E b \in Proposals : ProposeBatchRemove(b) /\ Publish({BatchRemoveEvent})
  \/ \E c \in Addresses :
       /\ ExecuteBatchRemove(c)
       /\ Publish(RemovalEvents(proposal.names) \cup {BatchRemoveEvent})
  \/ CancelBatchRemove /\ Publish({BatchRemoveEvent})
  \/ \E w \in ExpiryWindows :
       ConfigVerification(w) /\ Publish({VerificationConfiguredEvent})
  \/ ChangeAccess /\ Publish({AccessEvent})

(* Entry points that publish nothing, and the clock. *)
SilentStep ==
  /\ \/ \E n \in ReservedNames : AddReserved(n) \/ RemoveReserved(n)
     \/ \E s \in Cooldowns : SetCooldown(s)
     \/ \E s \in RotationDelays : SetRotationDelay(s)
     \/ \E t \in Thresholds : SetBatchRemoveThreshold(t)
     \/ \E S \in OracleLists : SetOracleAllowlist(S)
     \/ CompactIndex
     \/ RepairIndex
     \/ Tick
  /\ UNCHANGED table

FeedNext == AnnouncedStep \/ SilentStep

FeedSpec == FeedInit /\ [][FeedNext]_<<vars, table>>

-----------------------------------------------------------------------------
(* Properties. *)

(* The events are enough: whoever has applied all of them holds the        *)
(* address, the verified flag and the bot flag of every record, through    *)
(* re-registrations, rotations, renames, batches and challenges, and       *)
(* without reading the contract once.                                      *)
EventsTellRecords ==
  \A k \in Keys :
    table[k] = IF rec[k] = None
                 THEN None
                 ELSE [addr |-> rec[k].addr, verified |-> rec[k].verified, bot |-> rec[k].bot]

=============================================================================
