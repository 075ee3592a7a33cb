--------------------------- MODULE RegistryProofs ---------------------------
(***************************************************************************)
(* Theorems about the registry, for every value of its constants: that it  *)
(* agrees with itself, what single invocations do to it (the action        *)
(* properties, the burn address, the chunked index), and the step-by-step  *)
(* refinement of AbstractRegistry.                                         *)
(*                                                                         *)
(* Some thirty entry points change the records in eight ways only.  Each   *)
(* way is an action below, StepKinds shows that there is no ninth, and the *)
(* theorems about steps go through the eight.                              *)
(***************************************************************************)
EXTENDS Registry, Usernames, ListingProofs

-----------------------------------------------------------------------------
(* Keys and pages. *)

(* The storage keys are spellings, finitely many, and folded. *)
LEMMA KeysFacts ==
  /\ Keys \subseteq Names /\ IsFiniteSet(Keys)
  /\ \A n \in Names : Canon[n] \in Keys
  /\ \A k \in Keys : Canon[k] = k
  /\ \A X \in SUBSET Keys : /\ IsFiniteSet(X) /\ Cardinality(X) \in Nat
                            /\ Cardinality(X) <= Cardinality(Keys)
<1>1. Keys \subseteq Names /\ \A n \in Names : Canon[n] \in Keys
  BY NamesAssumption DEF Keys
<1>2. IsFiniteSet(Keys)
  BY <1>1, NamesAssumption, FS_Subset
<1>3. \A k \in Keys : Canon[k] = k
  BY NamesAssumption DEF Keys
<1>4. \A X \in SUBSET Keys : /\ IsFiniteSet(X) /\ Cardinality(X) \in Nat
                             /\ Cardinality(X) <= Cardinality(Keys)
  BY <1>2, FS_Subset, FS_CardinalityType
<1> QED BY <1>1, <1>2, <1>3, <1>4

(* Appending a key, filtering and repaging keep the pages well typed. *)
LEMMA AddToChunksType ==
  ASSUME NEW ch \in Seq(Seq(Keys)), NEW k \in Keys
  PROVE  AddToChunks(ch, k) \in Seq(Seq(Keys))
<1>1. CASE ch = <<>> \/ Len(ch[Len(ch)]) >= ChunkSize
  <2>1. <<k>> \in Seq(Keys)
    OBVIOUS
  <2> QED BY <1>1, <2>1, AppendProperties DEF AddToChunks
<1>2. CASE ~(ch = <<>> \/ Len(ch[Len(ch)]) >= ChunkSize)
  <2>1. Len(ch) \in 1 .. Len(ch)
    BY <1>2, EmptySeq, LenProperties
  <2>2. ch[Len(ch)] \in Seq(Keys)
    BY <2>1, ElementOfSeq
  <2>3. Append(ch[Len(ch)], k) \in Seq(Keys)
    BY <2>2, AppendProperties
  <2>4. [ch EXCEPT ![Len(ch)] = Append(ch[Len(ch)], k)] \in Seq(Seq(Keys))
    BY <2>1, <2>3, ExceptSeq
  <2> QED BY <1>2, <2>4 DEF AddToChunks
<1> QED BY <1>1, <1>2

(* remove_from_index leaves a list of pages. *)
LEMMA DropFromChunksType ==
  ASSUME NEW ch \in Seq(Seq(Keys)), NEW X
  PROVE  DropFromChunks(ch, X) \in Seq(Seq(Keys))
<1> DEFINE Y(c) == {k \in X : FirstPage(ch, c, k)}
<1>1. DOMAIN ch = 1 .. Len(ch) /\ Len(ch) \in Nat
  BY LenProperties
<1>2. \A c \in 1 .. Len(ch) : Without(ch[c], Y(c)) \in Seq(Keys)
  BY ElementOfSeq, WithoutFacts
<1>3. DropFromChunks(ch, X) = [c \in 1 .. Len(ch) |-> Without(ch[c], Y(c))]
  BY <1>1 DEF DropFromChunks
<1> HIDE DEF Y
<1> QED BY <1>1, <1>2, <1>3

-----------------------------------------------------------------------------
(* Type correctness. *)

(* The saturating counter arithmetic and the wrapping generation. *)
LEMMA CounterTypes ==
  ASSUME NEW a \in Nat, NEW b \in Nat
  PROVE  /\ SatAdd(a, b) \in Nat
         /\ SatSub(a, b) \in Nat
         /\ gen \in Nat => BumpGen(b) \in Nat /\ BumpGen(b) < GenModulus
<1>1. SatAdd(a, b) \in Nat /\ SatSub(a, b) \in Nat
  BY NumbersAssumption DEF SatAdd, SatSub
<1>2. ASSUME gen \in Nat PROVE BumpGen(b) \in Nat /\ BumpGen(b) < GenModulus
  <2>1. gen + b \in Nat /\ GenModulus \in Nat /\ GenModulus > 0
    BY <1>2, NumbersAssumption
  <2> QED BY <2>1 DEF BumpGen
<1> QED BY <1>1, <1>2

(* What removing a set of keys leaves of the registry is well typed. *)
LEMMA DropRecordsType ==
  ASSUME TypeOK, NEW X \in SUBSET Keys, DropRecords(X)
  PROVE  /\ rec' \in [Keys -> Record \cup {None}]
         /\ count' \in Nat /\ vcount' \in Nat /\ ever' \in Nat
         /\ index' \in Seq(Keys) /\ chunks' \in Seq(Seq(Keys))
         /\ gen' \in Nat /\ gen' < GenModulus
         /\ reverify' \subseteq Keys
<1>1. rec' \in [Keys -> Record \cup {None}] /\ reverify' \subseteq Keys
  BY DEF TypeOK, DropRecords, FlagsWithout
<1>2. index' \in Seq(Keys) /\ chunks' \in Seq(Seq(Keys))
  BY WithoutFacts, DropFromChunksType DEF TypeOK, DropRecords
<1>3. Cardinality(X) \in Nat /\ Cardinality(X \cap VerifiedKeys) \in Nat
  BY KeysFacts
<1>4. count' \in Nat /\ vcount' \in Nat /\ ever' \in Nat
  BY <1>3, CounterTypes DEF TypeOK, DropRecords
<1>5. gen' \in Nat /\ gen' < GenModulus
  BY <1>3, CounterTypes DEF TypeOK, DropRecords
<1> QED BY <1>1, <1>2, <1>4, <1>5

(* What register and register_sponsored share keeps the types. *)
LEMMA WriteRegistrationType ==
  ASSUME TypeOK, NEW k \in Keys, NEW a \in Addresses, WriteRegistration(k, a)
  PROVE  TypeOK'
<1>1. rec' \in [Keys -> Record \cup {None}]
  <2>1. rec[k] # None => rec[k] \in Record
    BY DEF TypeOK
  <2>2. [addr     |-> a,
         payout   |-> IF rec[k] = None THEN a ELSE rec[k].payout,
         verified |-> KeepsVerification(k, a),
         bot      |-> ~(rec[k] = None) /\ rec[k].bot] \in Record
    BY <2>1 DEF Record, KeepsVerification
  <2> QED BY <2>2 DEF TypeOK, WriteRegistration
<1>2. index' \in Seq(Keys) /\ chunks' \in Seq(Seq(Keys))
  BY AppendProperties, AddToChunksType DEF TypeOK, WriteRegistration
<1>3. count' \in Nat /\ vcount' \in Nat /\ ever' \in Nat
  BY CounterTypes DEF TypeOK, WriteRegistration
<1>4. reverify' \subseteq Keys /\ lastAct' \in [Keys -> Nat]
  BY DEF TypeOK, WriteRegistration
<1>5. /\ gen' \in Nat /\ gen' < GenModulus
      /\ verifiedAt' \in [Names -> Nat \cup {None}]
      /\ challenge' \in [Keys -> Nat \cup {None}]
      /\ rotation' \in [Keys -> Rotation \cup {None}]
      /\ reserved' \subseteq Keys /\ proposal' \in Proposal \cup {None}
      /\ oracles' \subseteq OracleKeys /\ cfg' \in Config
      /\ access' \in AccessStates /\ now' \in Nat
  BY DEF TypeOK, WriteRegistration, control
<1> QED BY <1>1, <1>2, <1>3, <1>4, <1>5 DEF TypeOK

(* What the verifying entry points share keeps the types. *)
LEMMA GrantVerificationType ==
  ASSUME TypeOK, NEW N \in SUBSET Names, GrantVerification(N),
         \A n \in N : rec[Canon[n]] # None
  PROVE  TypeOK'
<1> DEFINE granted == {Canon[n] : n \in N}
<1>1. granted \subseteq Keys
  BY KeysFacts
<1>2. rec' \in [Keys -> Record \cup {None}]
  <2>1. ASSUME NEW k \in granted PROVE [rec[k] EXCEPT !.verified = TRUE] \in Record
    <3>1. rec[k] \in Record
      BY <1>1 DEF TypeOK
    <3> QED BY <3>1 DEF Record
  <2> QED BY <2>1 DEF TypeOK, GrantVerification
<1>3. Flips(N) \in Nat
  <2>1. {Canon[n] : n \in N} \ VerifiedKeys \in SUBSET Keys
    BY <1>1
  <2> QED BY <2>1, KeysFacts DEF Flips
<1>4. vcount' \in Nat /\ ever' \in Nat /\ count' \in Nat
  BY <1>3, CounterTypes DEF TypeOK, GrantVerification, BumpEver
<1>5. verifiedAt' \in [Names -> Nat \cup {None}] /\ reverify' \subseteq Keys
  BY DEF TypeOK, GrantVerification
<1>6. /\ index' \in Seq(Keys) /\ chunks' \in Seq(Seq(Keys))
      /\ gen' \in Nat /\ gen' < GenModulus
      /\ lastAct' \in [Keys -> Nat]
      /\ challenge' \in [Keys -> Nat \cup {None}]
      /\ rotation' \in [Keys -> Rotation \cup {None}]
      /\ reserved' \subseteq Keys /\ proposal' \in Proposal \cup {None}
      /\ oracles' \subseteq OracleKeys /\ cfg' \in Config
      /\ access' \in AccessStates /\ now' \in Nat
  BY DEF TypeOK, GrantVerification, control
<1> QED BY <1>2, <1>4, <1>5, <1>6 DEF TypeOK

(* A renamed record is well typed, and so is everything kept beside it. *)
LEMMA RenameType ==
  ASSUME TypeOK, NEW c, NEW old \in Names, NEW new \in Names, Rename(c, old, new)
  PROVE  TypeOK'
<1> DEFINE k == Canon[old]
           m == Canon[new]
<1>1. k \in Keys /\ m \in Keys
  BY KeysFacts
<1>2. rec[k] \in Record
  BY <1>1 DEF TypeOK, Rename, HolderOrAdmin
<1>3. rec' \in [Keys -> Record \cup {None}]
  <2>1. [rec[k] EXCEPT !.verified = FALSE] \in Record
    BY <1>2 DEF Record
  <2>2. [rec EXCEPT ![m] = [rec[k] EXCEPT !.verified = FALSE]]
          \in [Keys -> Record \cup {None}]
    BY <1>1, <2>1 DEF TypeOK
  <2> QED BY <1>1, <2>2 DEF Rename
<1>4. index' \in Seq(Keys) /\ chunks' \in Seq(Seq(Keys))
  BY <1>1, AppendProperties, WithoutFacts, AddToChunksType, DropFromChunksType
     DEF TypeOK, Rename
<1>5. /\ count' \in Nat /\ vcount' \in Nat /\ ever' \in Nat
      /\ gen' \in Nat /\ gen' < GenModulus
  BY CounterTypes DEF TypeOK, Rename
<1>6. reverify' \subseteq Keys /\ lastAct' \in [Keys -> Nat]
  BY <1>1 DEF TypeOK, Rename, FlagsWithout
<1>7. /\ verifiedAt' \in [Names -> Nat \cup {None}]
      /\ challenge' \in [Keys -> Nat \cup {None}]
      /\ rotation' \in [Keys -> Rotation \cup {None}]
      /\ reserved' \subseteq Keys /\ proposal' \in Proposal \cup {None}
      /\ oracles' \subseteq OracleKeys /\ cfg' \in Config
      /\ access' \in AccessStates /\ now' \in Nat
  BY DEF TypeOK, Rename, control
<1> QED BY <1>3, <1>4, <1>5, <1>6, <1>7 DEF TypeOK

(* Every storage entry keeps its type under every entry point. *)
LEMMA TypeOKStep == TypeOK /\ [Next]_vars => TypeOK'
<1> SUFFICES ASSUME TypeOK, [Next]_vars PROVE TypeOK'
  OBVIOUS
<1> USE DEF registry, timers, control
<1>1. ASSUME NEW n \in Names, NEW a \in Addresses,
             Register(n, a) \/ RegisterSponsored(n, a)
      PROVE  TypeOK'
  BY <1>1, KeysFacts, WriteRegistrationType DEF Register, RegisterSponsored
<1>2. ASSUME NEW c \in Addresses, NEW n \in VerifyNames, Verify(c, n) PROVE TypeOK'
  BY <1>2, NamesAssumption, GrantVerificationType DEF Verify, Verifiable
<1>3. ASSUME NEW c \in Addresses, NEW n \in VerifyNames, RevokeVerification(c, n)
      PROVE  TypeOK'
  <2>1. Canon[n] \in Keys /\ n \in Names
    BY NamesAssumption, KeysFacts
  <2>2. rec[Canon[n]] \in Record
    BY <1>3, <2>1 DEF TypeOK, RevokeVerification, VerifiedKeys
  <2>3. rec' \in [Keys -> Record \cup {None}]
    BY <1>3, <2>1, <2>2 DEF TypeOK, RevokeVerification, Record
  <2>4. vcount' \in Nat
    BY <1>3, CounterTypes DEF TypeOK, RevokeVerification
  <2> QED BY <1>3, <2>1, <2>3, <2>4 DEF TypeOK, RevokeVerification
<1>4. ASSUME NEW n \in VerifyNames, NEW p, VerifyWithOracleProof(n, p) PROVE TypeOK'
  BY <1>4, NamesAssumption, GrantVerificationType DEF VerifyWithOracleProof, Verifiable
<1>5. ASSUME NEW c \in Addresses, NEW b \in Batches, BatchVerify(c, b) PROVE TypeOK'
  <2>1. Entries(b) \subseteq Names
    BY CallersAssumption, LenProperties, ElementOfSeq DEF Entries
  <2> QED BY <1>5, <2>1, GrantVerificationType DEF BatchVerify, Verifiable
<1>6. ASSUME NEW c \in Addresses, NEW n \in Names, Remove(c, n) PROVE TypeOK'
  <2>1. Canon[n] \in Keys /\ {Canon[n]} \in SUBSET Keys
    BY KeysFacts
  <2> QED BY <1>6, <2>1, DropRecordsType DEF TypeOK, Remove
<1>7. ASSUME NEW c \in Addresses, NEW n \in Names, CancelRotation(c, n) PROVE TypeOK'
  BY <1>7 DEF TypeOK, CancelRotation
<1>8. ASSUME NEW c \in Addresses, NEW n \in Names, NEW b \in BotFlags,
             SetBotStatus(c, n, b)
      PROVE  TypeOK'
  <2>1. Canon[n] \in Keys /\ b \in BOOLEAN
    BY KeysFacts, CallersAssumption
  <2>2. rec[Canon[n]] \in Record
    BY <1>8, <2>1 DEF TypeOK, SetBotStatus, HolderOrAdmin
  <2>3. rec' \in [Keys -> Record \cup {None}]
    BY <1>8, <2>1, <2>2 DEF TypeOK, SetBotStatus, Record
  <2> QED BY <1>8, <2>3 DEF TypeOK, SetBotStatus
<1>9. ASSUME NEW c \in Addresses, NEW n \in Names, NEW m \in RenameNames, Rename(c, n, m)
      PROVE  TypeOK'
  BY <1>9, NamesAssumption, RenameType
<1>10. ASSUME NEW n \in Names, NEW a \in RotationTargets, RequestRotation(n, a)
       PROVE  TypeOK'
  <2>1. Canon[n] \in Keys /\ a \in Addresses
    BY KeysFacts, CallersAssumption
  <2>2. rec[Canon[n]] \in Record
    BY <1>10, <2>1 DEF TypeOK, RequestRotation
  <2>3. [to |-> a, at |-> now + cfg.rotDelay, holder |-> rec[Canon[n]].addr] \in Rotation
    BY <2>1, <2>2 DEF TypeOK, Config, Record, Rotation
  <2>4. rotation' \in [Keys -> Rotation \cup {None}]
    BY <1>10, <2>3 DEF TypeOK, RequestRotation
  <2> QED BY <1>10, <2>4 DEF TypeOK, RequestRotation
<1>11. ASSUME NEW n \in Names, ExecuteRotation(n) PROVE TypeOK'
  <2>1. Canon[n] \in Keys
    BY KeysFacts
  <2>2. rec[Canon[n]] \in Record /\ rotation[Canon[n]] \in Rotation
    BY <1>11, <2>1 DEF TypeOK, ExecuteRotation
  <2>3. rec' \in [Keys -> Record \cup {None}]
    BY <1>11, <2>1, <2>2 DEF TypeOK, ExecuteRotation, Record, Rotation
  <2>4. vcount' \in Nat
    BY <1>11, CounterTypes DEF TypeOK, ExecuteRotation
  <2> QED BY <1>11, <2>1, <2>3, <2>4 DEF TypeOK, ExecuteRotation
<1>12. ASSUME NEW n \in ChallengeNames,
              StartChallenge(n) \/ CancelChallenge(n)
       PROVE  TypeOK'
  <2>1. Canon[n] \in Keys
    BY KeysFacts, NamesAssumption
  <2>2. now + ChallengeDelay \in Nat
    BY NumbersAssumption DEF TypeOK
  <2> QED BY <1>12, <2>1, <2>2 DEF TypeOK, StartChallenge, CancelChallenge
<1>13. ASSUME NEW n \in ChallengeNames, CompleteChallenge(n) PROVE TypeOK'
  <2>1. Canon[n] \in Keys /\ {Canon[n]} \in SUBSET Keys
    BY KeysFacts, NamesAssumption
  <2> QED BY <1>13, <2>1, DropRecordsType DEF TypeOK, CompleteChallenge
<1>14. ASSUME NEW b, ApplyBatchRemove(b), proposal' \in Proposal \cup {None}
       PROVE  TypeOK'
  <2>1. {Canon[n] : n \in Entries(b)} \cap Live \in SUBSET Keys
    BY DEF Live
  <2> QED BY <1>14, <2>1, DropRecordsType DEF TypeOK, ApplyBatchRemove
<1>15. ASSUME NEW b \in Batches, BatchRemove(b) PROVE TypeOK'
  BY <1>14, <1>15 DEF TypeOK, BatchRemove
<1>16. ASSUME NEW b \in Proposals, ProposeBatchRemove(b) PROVE TypeOK'
  <2>1. [names |-> b, by |-> Admin, at |-> now] \in Proposal
    BY CallersAssumption DEF TypeOK, Proposal
  <2> QED BY <1>16, <2>1 DEF TypeOK, ProposeBatchRemove
<1>17. ASSUME NEW c \in Addresses, ExecuteBatchRemove(c) PROVE TypeOK'
  BY <1>14, <1>17 DEF TypeOK, ExecuteBatchRemove
<1>18. CASE CancelBatchRemove
  BY <1>18 DEF TypeOK, CancelBatchRemove
<1>19. ASSUME NEW n \in ReservedNames, AddReserved(n) \/ RemoveReserved(n) PROVE TypeOK'
  <2>1. Canon[n] \in Keys
    BY KeysFacts, NamesAssumption
  <2> QED BY <1>19, <2>1 DEF TypeOK, AddReserved, RemoveReserved
<1>20. ASSUME NEW s \in Nat, SetCooldown(s) \/ SetRotationDelay(s)
                               \/ ConfigVerification(s) \/ SetBatchRemoveThreshold(s)
       PROVE  TypeOK'
  <2>1. cfg' \in Config
    BY <1>20 DEF TypeOK, Config, SetCooldown, SetRotationDelay, ConfigVerification,
                 SetBatchRemoveThreshold
  <2> QED BY <1>20, <2>1 DEF TypeOK, SetCooldown, SetRotationDelay, ConfigVerification,
                             SetBatchRemoveThreshold
<1>21. CASE CompactIndex
  BY <1>21, CutType, NumbersAssumption DEF TypeOK, CompactIndex
<1>22. CASE RepairIndex
  <2>1. IsFiniteSet(DOMAIN index)
    BY LenProperties, FS_Interval DEF TypeOK
  <2>2. count' \in Nat /\ vcount' \in Nat
    BY <1>22, <2>1, FS_Subset, FS_CardinalityType DEF RepairIndex
  <2> QED BY <1>22, <2>2 DEF TypeOK, RepairIndex
<1>23. CASE ChangeAccess
  BY <1>23 DEF TypeOK, ChangeAccess
<1>24. CASE Tick
  BY <1>24 DEF TypeOK, Tick
<1>27. ASSUME NEW S \in OracleLists, SetOracleAllowlist(S) PROVE TypeOK'
  BY <1>27, CallersAssumption DEF TypeOK, SetOracleAllowlist
<1>25. CASE UNCHANGED vars
  BY <1>25 DEF TypeOK, vars
<1>26. Cooldowns \cup RotationDelays \cup ExpiryWindows \cup Thresholds \subseteq Nat
  BY NumbersAssumption
<1> QED
  BY <1>1, <1>2, <1>3, <1>4, <1>5, <1>6, <1>7, <1>8, <1>9, <1>10, <1>11, <1>12, <1>13,
     <1>15, <1>16, <1>17, <1>18, <1>19, <1>20, <1>21, <1>22, <1>23, <1>24, <1>25, <1>26,
     <1>27
     DEF Next

(* The registry starts well typed. *)
LEMMA InitialTypes == Init => TypeOK
<1> SUFFICES ASSUME Init PROVE TypeOK
  OBVIOUS
<1>1. GenModulus \in Nat /\ GenModulus > 0
  BY NumbersAssumption
<1>2. <<>> \in Seq(Keys) /\ <<>> \in Seq(Seq(Keys))
  BY EmptySeq
<1>3. cfg \in Config
  BY DEF Init, Config
<1> QED BY <1>1, <1>2, <1>3 DEF Init, TypeOK

(* The stored state of the registry is well typed in every reachable       *)
(* state, whatever the callers submit.                                     *)
THEOREM TypeCorrect == Spec => []TypeOK
  BY InitialTypes, TypeOKStep, PTL DEF Spec

-----------------------------------------------------------------------------
(* The registry agrees with itself. *)

(* rename tests whether the new name is taken under the spelling it was    *)
(* given.  The counters and indexes are exact as long as that spelling is  *)
(* the storage key itself, which is what this hypothesis says; without it  *)
(* the code does lose count (run MCRenameCase).                            *)
CanonicalRenames == RenameNames \subseteq Keys

(* The inductive invariant.  The counters are exact only because the index *)
(* is (repair_index recounts from it), and both only because no key is     *)
(* listed twice.                                                           *)
Consistent ==
  /\ CountersMatchRecords
  /\ IndexMatchesRecords
  /\ ReverifyFlagsAreLive
  /\ EverCoversVerified

(* The counted sets are finite and fit a u32, so nothing saturates. *)
LEMMA CountedSets ==
  ASSUME TypeOK
  PROVE  /\ Live \in SUBSET Keys /\ VerifiedKeys \in SUBSET Live
         /\ IsFiniteSet(Live) /\ IsFiniteSet(VerifiedKeys)
         /\ Cardinality(Live) \in Nat /\ Cardinality(VerifiedKeys) \in Nat
         /\ \A X \in SUBSET Keys : Cardinality(X) <= U32Max
<1>1. Live \in SUBSET Keys /\ VerifiedKeys \in SUBSET Live
  BY DEF Live, VerifiedKeys
<1>2. /\ IsFiniteSet(Live) /\ IsFiniteSet(VerifiedKeys)
      /\ Cardinality(Live) \in Nat /\ Cardinality(VerifiedKeys) \in Nat
  BY <1>1, KeysFacts
<1>3. \A X \in SUBSET Keys : Cardinality(X) <= U32Max
  <2> SUFFICES ASSUME NEW X \in SUBSET Keys PROVE Cardinality(X) <= U32Max
    OBVIOUS
  <2>1. /\ Cardinality(X) \in Nat /\ Cardinality(X) <= Cardinality(Keys)
        /\ Cardinality(Keys) \in Nat
    BY KeysFacts
  <2> QED BY <2>1, NumbersAssumption
<1> QED BY <1>1, <1>2, <1>3

(* Registration: a fresh key joins every list once; a re-registration by   *)
(* another address takes the key out of the verified ones.                 *)
LEMMA RegistrationConsistent ==
  ASSUME TypeOK, Consistent, NEW k \in Keys, NEW a \in Addresses,
         WriteRegistration(k, a)
  PROVE  Consistent'
<1> USE DEF Consistent
<1>1. rec' \in [Keys -> Record \cup {None}]
  BY WriteRegistrationType DEF TypeOK
<1>2. \A j \in Keys : j # k => rec'[j] = rec[j]
  BY DEF TypeOK, WriteRegistration
<1>3. /\ rec'[k].verified = KeepsVerification(k, a)
      /\ rec'[k] \in Record
  <2>1. rec[k] # None => rec[k] \in Record
    BY DEF TypeOK
  <2>2. [addr     |-> a,
         payout   |-> IF rec[k] = None THEN a ELSE rec[k].payout,
         verified |-> KeepsVerification(k, a),
         bot      |-> ~(rec[k] = None) /\ rec[k].bot] \in Record
    BY <2>1 DEF Record, KeepsVerification
  <2> QED BY <2>2 DEF TypeOK, WriteRegistration
<1>4. rec'[k] # None
  BY <1>3, NoneAssumption
<1>5. Live' = Live \cup {k}
  BY <1>2, <1>4 DEF Live
<1>6. CASE rec[k] = None
  <2>1. k \notin Live /\ k \notin VerifiedKeys
    BY <1>6 DEF Live, VerifiedKeys
  <2>2. VerifiedKeys' = VerifiedKeys
    BY <1>2, <1>3, <1>6, <2>1 DEF VerifiedKeys, KeepsVerification
  <2>3. /\ count' = SatAdd(count, 1) /\ index' = Append(index, k)
        /\ vcount' = vcount /\ ever' = ever /\ reverify' = reverify
    BY <1>6 DEF WriteRegistration
  <2>4. count' = Cardinality(Live')
    <3>1. Cardinality(Live \cup {k}) = Cardinality(Live) + 1
      BY <2>1, CountedSets, FS_AddElement
    <3>2. Cardinality(Live \cup {k}) <= U32Max
      BY CountedSets
    <3> QED BY <1>5, <2>3, <3>1, <3>2 DEF CountersMatchRecords, SatAdd
  <2>5. IndexMatchesRecords'
    <3>1. index \in Seq(Keys)
      BY DEF TypeOK
    <3>2. /\ Entries(Append(index, k)) = Entries(index) \cup {k}
          /\ (\A i, j \in DOMAIN index : index[i] = index[j] => i = j)
                 /\ k \notin Entries(index)
               => \A i, j \in DOMAIN Append(index, k) :
                    Append(index, k)[i] = Append(index, k)[j] => i = j
      BY <3>1, AppendFacts
    <3> QED BY <1>5, <2>1, <2>3, <3>2 DEF IndexMatchesRecords
  <2>6. ReverifyFlagsAreLive'
    BY <1>5, <2>2, <2>3 DEF ReverifyFlagsAreLive
  <2> QED BY <2>2, <2>3, <2>4, <2>5, <2>6 DEF CountersMatchRecords, EverCoversVerified
<1>7. CASE rec[k] # None
  <2>1. k \in Live /\ Live' = Live /\ rec[k] \in Record
    BY <1>5, <1>7 DEF Live, TypeOK
  <2>2. count' = count /\ index' = index /\ ever' = ever
    BY <1>7 DEF WriteRegistration
  <2>3. CASE rec[k].addr # a /\ rec[k].verified
    <3>1. k \in VerifiedKeys
      BY <1>7, <2>3 DEF VerifiedKeys
    <3>2. VerifiedKeys' = VerifiedKeys \ {k}
      BY <1>2, <1>3, <2>3 DEF VerifiedKeys, KeepsVerification
    <3>3. vcount' = SatSub(vcount, 1) /\ reverify' = reverify \cup {k}
      BY <1>7, <2>3 DEF WriteRegistration
    <3>4. /\ Cardinality(VerifiedKeys \ {k}) = Cardinality(VerifiedKeys) - 1
          /\ Cardinality(VerifiedKeys \ {k}) \in Nat
      BY <3>1, CountedSets, FS_RemoveElement, FS_CardinalityType
    <3>5. vcount' = Cardinality(VerifiedKeys') /\ vcount' <= vcount
      BY <3>2, <3>3, <3>4, CountedSets DEF CountersMatchRecords, SatSub
    <3>6. ReverifyFlagsAreLive'
      BY <2>1, <3>2, <3>3 DEF ReverifyFlagsAreLive
    <3>7. ever' >= vcount'
      BY <2>2, <3>4, <3>5, <3>2 DEF EverCoversVerified, TypeOK
    <3> QED BY <2>1, <2>2, <3>5, <3>6, <3>7
            DEF CountersMatchRecords, IndexMatchesRecords, EverCoversVerified
  <2>4. CASE ~(rec[k].addr # a /\ rec[k].verified)
    <3>1. rec'[k].verified = rec[k].verified
      BY <1>3, <1>7, <2>1, <2>4 DEF KeepsVerification, Record
    <3>2. VerifiedKeys' = VerifiedKeys
      BY <1>2, <1>4, <1>7, <3>1 DEF VerifiedKeys
    <3>3. vcount' = vcount /\ reverify' = reverify
      BY <1>7, <2>4 DEF WriteRegistration
    <3> QED BY <2>1, <2>2, <3>2, <3>3
            DEF CountersMatchRecords, IndexMatchesRecords, EverCoversVerified,
                ReverifyFlagsAreLive
  <2> QED BY <2>3, <2>4
<1> QED BY <1>6, <1>7

(* A grant moves the counters by the records it flips, once each. *)
LEMMA GrantConsistent ==
  ASSUME TypeOK, Consistent, NEW N \in SUBSET Names, GrantVerification(N),
         \A n \in N : rec[Canon[n]] # None
  PROVE  Consistent'
<1> DEFINE granted == {Canon[n] : n \in N}
           flipped == granted \ VerifiedKeys
<1>1. granted \subseteq Live
  BY KeysFacts DEF Live
<1>2. \A k \in granted : rec[k] \in Record
  BY <1>1 DEF Live, TypeOK
<1>3. \A k \in granted : [rec[k] EXCEPT !.verified = TRUE] \in Record
  BY <1>2 DEF Record
<1>4. \A k \in granted : rec'[k] # None /\ rec'[k].verified
  BY <1>1, <1>2, <1>3, NoneAssumption DEF GrantVerification, Live, Record
<1>5. \A k \in Keys \ granted : rec'[k] = rec[k]
  BY DEF GrantVerification
<1> HIDE DEF granted
<1>6. Live' = Live
  BY <1>1, <1>4, <1>5 DEF Live
<1>7. VerifiedKeys' = VerifiedKeys \cup flipped
  BY <1>1, <1>4, <1>5 DEF Live, VerifiedKeys
<1>8. /\ flipped \in SUBSET Keys /\ VerifiedKeys \cup flipped \in SUBSET Keys
      /\ VerifiedKeys \cap flipped = {}
  BY <1>1, CountedSets
<1>9. /\ IsFiniteSet(flipped) /\ Cardinality(flipped) \in Nat
  BY <1>8, KeysFacts
<1>10. Cardinality(VerifiedKeys \cup flipped) =
         Cardinality(VerifiedKeys) + Cardinality(flipped)
  <2>1. Cardinality(VerifiedKeys \cap flipped) = 0
    BY <1>8, FS_EmptySet
  <2> HIDE DEF flipped
  <2>2. Cardinality(VerifiedKeys \cup flipped) =
          Cardinality(VerifiedKeys) + Cardinality(flipped)
            - Cardinality(VerifiedKeys \cap flipped)
    BY <1>9, CountedSets, FS_Union
  <2> QED BY <1>9, <2>1, <2>2, CountedSets
<1>11. Flips(N) = Cardinality(flipped)
  BY DEF Flips, granted
<1> HIDE DEF flipped
<1>12. Cardinality(VerifiedKeys \cup flipped) <= U32Max
  BY <1>8, CountedSets
<1>13. /\ vcount' = SatAdd(vcount, Cardinality(flipped))
       /\ ever' = SatAdd(ever, Cardinality(flipped))
       /\ count' = count /\ index' = index
       /\ reverify' = reverify \ granted
  BY <1>11 DEF GrantVerification, BumpEver, granted
<1>14. vcount' = Cardinality(VerifiedKeys')
  BY <1>7, <1>9, <1>10, <1>12, <1>13, CountedSets DEF CountersMatchRecords, Consistent, SatAdd
<1>15. ever' >= vcount'
  BY <1>9, <1>13, NumbersAssumption DEF SatAdd, EverCoversVerified, Consistent, TypeOK
<1>16. ReverifyFlagsAreLive'
  BY <1>6, <1>7, <1>13 DEF ReverifyFlagsAreLive, Consistent, flipped
<1> QED BY <1>6, <1>13, <1>14, <1>15, <1>16
        DEF Consistent, CountersMatchRecords, IndexMatchesRecords, EverCoversVerified

(* Removing live keys takes each of them out of every list. *)
LEMMA DropConsistent ==
  ASSUME TypeOK, Consistent, NEW X \in SUBSET Live, DropRecords(X)
  PROVE  Consistent'
<1>1. Live' = Live \ X
  BY DEF Live, DropRecords
<1>2. VerifiedKeys' = VerifiedKeys \ X
  BY DEF VerifiedKeys, DropRecords
<1>3. /\ X \in SUBSET Keys /\ Cardinality(X) \in Nat
      /\ Live \cap X = X /\ VerifiedKeys \cap X = X \cap VerifiedKeys
      /\ Cardinality(X \cap VerifiedKeys) \in Nat
  BY KeysFacts, CountedSets
<1>4. /\ Cardinality(Live \ X) = Cardinality(Live) - Cardinality(X)
      /\ Cardinality(VerifiedKeys \ X)
           = Cardinality(VerifiedKeys) - Cardinality(X \cap VerifiedKeys)
  <2>1. Cardinality(Live \ X) = Cardinality(Live) - Cardinality(Live \cap X)
    BY CountedSets, FS_Difference
  <2>2. Cardinality(VerifiedKeys \ X)
          = Cardinality(VerifiedKeys) - Cardinality(VerifiedKeys \cap X)
    BY CountedSets, FS_Difference
  <2> QED BY <1>3, <2>1, <2>2
<1>5. Cardinality(Live \ X) \in Nat /\ Cardinality(VerifiedKeys \ X) \in Nat
  BY CountedSets, FS_Difference, FS_CardinalityType
<1>6. count' = Cardinality(Live')
  BY <1>1, <1>3, <1>4, <1>5, CountedSets
     DEF Consistent, CountersMatchRecords, DropRecords, SatSub
<1>7. vcount' = Cardinality(VerifiedKeys') /\ vcount' <= vcount /\ vcount' \in Nat
  BY <1>2, <1>3, <1>4, <1>5, CountedSets
     DEF Consistent, CountersMatchRecords, DropRecords, SatSub
<1>8. ever' >= vcount'
  BY <1>7 DEF Consistent, EverCoversVerified, DropRecords, TypeOK
<1>9. IndexMatchesRecords'
  <2>1. index \in Seq(Keys) /\ index' = Without(index, X)
    BY DEF TypeOK, DropRecords
  <2> QED BY <1>1, <2>1, WithoutFacts DEF Consistent, IndexMatchesRecords
<1>10. ReverifyFlagsAreLive'
  BY <1>1, <1>2 DEF Consistent, ReverifyFlagsAreLive, DropRecords, FlagsWithout
<1> QED BY <1>6, <1>7, <1>8, <1>9, <1>10
        DEF Consistent, CountersMatchRecords, EverCoversVerified

(* A key that leaves the verified ones is counted out if it was counted in. *)
LEMMA OneLessVerified ==
  ASSUME TypeOK, Consistent, NEW k,
         VerifiedKeys' = VerifiedKeys \ {k}, ever' = ever,
         vcount' = IF k \in VerifiedKeys THEN SatSub(vcount, 1) ELSE vcount
  PROVE  vcount' = Cardinality(VerifiedKeys') /\ ever' >= vcount'
<1>1. CASE k \in VerifiedKeys
  <2>1. /\ Cardinality(VerifiedKeys \ {k}) = Cardinality(VerifiedKeys) - 1
        /\ Cardinality(VerifiedKeys \ {k}) \in Nat
    BY <1>1, CountedSets, FS_RemoveElement, FS_CardinalityType
  <2>2. vcount' = Cardinality(VerifiedKeys') /\ vcount' <= vcount /\ vcount' \in Nat
    BY <1>1, <2>1, CountedSets DEF Consistent, CountersMatchRecords, SatSub
  <2> QED BY <2>2 DEF Consistent, EverCoversVerified, TypeOK
<1>2. CASE k \notin VerifiedKeys
  <2>1. VerifiedKeys \ {k} = VerifiedKeys
    BY <1>2
  <2> QED BY <1>2, <2>1 DEF Consistent, EverCoversVerified, CountersMatchRecords
<1> QED BY <1>1, <1>2

(* rename moves one record: the new key was free, so one key leaves every  *)
(* list and one joins it.                                                  *)
LEMMA RenameConsistent ==
  ASSUME TypeOK, Consistent, NEW c, NEW old \in Names, NEW new \in Keys,
         Rename(c, old, new)
  PROVE  Consistent'
<1> DEFINE k == Canon[old]
<1>1. k \in Keys /\ Canon[new] = new
  BY KeysFacts
<1>2. rec[k] # None /\ rec[new] = None /\ k # new
  BY <1>1 DEF Rename, HolderOrAdmin, HasRecord
<1>3. k \in Live /\ new \notin Live /\ rec[k] \in Record
  BY <1>1, <1>2 DEF Live, TypeOK
<1> DEFINE moved == [rec[k] EXCEPT !.verified = FALSE]
<1>4. moved \in Record /\ ~moved.verified
  BY <1>3 DEF Record
<1>5. rec' = [[rec EXCEPT ![new] = moved] EXCEPT ![k] = None]
  BY <1>1 DEF Rename
<1> HIDE DEF moved
<1>6. /\ rec'[new] = moved /\ rec'[k] = None
      /\ \A j \in Keys : j # new /\ j # k => rec'[j] = rec[j]
  BY <1>1, <1>2, <1>5 DEF TypeOK
<1>7. Live' = (Live \cup {new}) \ {k}
  BY <1>1, <1>2, <1>4, <1>6, NoneAssumption DEF Live
<1>8. VerifiedKeys' = VerifiedKeys \ {k}
  BY <1>1, <1>2, <1>4, <1>6 DEF VerifiedKeys
<1>9. k \in VerifiedKeys <=> rec[k].verified
  BY <1>1, <1>2 DEF VerifiedKeys
<1> DEFINE flagged == IF rec[k].verified \/ k \in reverify THEN {new} ELSE {}
<1>10. /\ vcount' = IF k \in VerifiedKeys THEN SatSub(vcount, 1) ELSE vcount
       /\ count' = count /\ ever' = ever
       /\ index' = Without(Append(index, new), {k})
       /\ reverify' = (reverify \ {k}) \cup flagged
  BY <1>1, <1>9 DEF Rename, FlagsWithout
<1>11. flagged \subseteq {new}
  OBVIOUS
<1> HIDE DEF k, flagged
<1>12. vcount' = Cardinality(VerifiedKeys') /\ ever' >= vcount'
  BY <1>8, <1>10, OneLessVerified
<1>13. count' = Cardinality(Live')
  <2>1. /\ IsFiniteSet(Live \cup {new})
        /\ Cardinality(Live \cup {new}) = Cardinality(Live) + 1
    BY <1>3, CountedSets, FS_AddElement
  <2>2. Cardinality((Live \cup {new}) \ {k}) = Cardinality(Live \cup {new}) - 1
    BY <1>3, <2>1, FS_RemoveElement
  <2> QED BY <1>7, <1>10, <2>1, <2>2, CountedSets DEF Consistent, CountersMatchRecords
<1>14. IndexMatchesRecords'
  <2> DEFINE s == Append(index, new)
  <2>1. index \in Seq(Keys) /\ new \notin Entries(index)
    BY <1>3 DEF Consistent, IndexMatchesRecords, TypeOK
  <2>2. /\ s \in Seq(Keys) /\ Entries(s) = Live \cup {new}
        /\ \A i, j \in DOMAIN s : s[i] = s[j] => i = j
    BY <2>1, AppendFacts DEF Consistent, IndexMatchesRecords
  <2> HIDE DEF s
  <2> DEFINE t == Without(s, {k})
  <2>3. /\ Entries(t) = Entries(s) \ {k}
        /\ (\A i, j \in DOMAIN s : s[i] = s[j] => i = j)
             => \A i, j \in DOMAIN t : t[i] = t[j] => i = j
    BY <2>2, WithoutFacts
  <2>4. index' = t
    BY <1>10 DEF s
  <2> HIDE DEF t
  <2> QED BY <1>7, <2>2, <2>3, <2>4 DEF IndexMatchesRecords
<1>15. ReverifyFlagsAreLive'
  <2>1. new \notin VerifiedKeys
    BY <1>3, CountedSets
  <2> QED BY <1>2, <1>7, <1>8, <1>10, <1>11, <2>1
          DEF Consistent, ReverifyFlagsAreLive, k
<1> QED BY <1>12, <1>13, <1>14, <1>15
        DEF Consistent, CountersMatchRecords, EverCoversVerified

(* The flat index lists the members of a set of live keys once each.       *)
LEMMA ListedOnce ==
  ASSUME TypeOK, Consistent
  PROVE  /\ \A X \in SUBSET Live :
              Cardinality({i \in DOMAIN index : index[i] \in X}) = Cardinality(X)
         /\ Len(index) \in Nat /\ Len(index) = count /\ Len(index) = Cardinality(Live)
<1>1. index \in Seq(Keys) /\ DOMAIN index = 1 .. Len(index) /\ Len(index) \in Nat
  BY LenProperties DEF TypeOK
<1>2. IsFiniteSet(DOMAIN index) /\ Cardinality(DOMAIN index) = Len(index)
  BY <1>1, PositionsCounted
<1>3. ASSUME NEW X \in SUBSET Live
      PROVE  Cardinality({i \in DOMAIN index : index[i] \in X}) = Cardinality(X)
  <2> DEFINE P == {i \in DOMAIN index : index[i] \in X}
             f == [i \in P |-> index[i]]
  <2>1. IsFiniteSet(P) /\ IsFiniteSet(X)
    BY <1>2, CountedSets, FS_Subset
  <2>2. f \in Injection(P, X)
    BY DEF Injection, IsInjective, Consistent, IndexMatchesRecords
  <2>3. f \in Surjection(P, X)
    <3>1. \A x \in X : \E i \in P : f[i] = x
      BY DEF Consistent, IndexMatchesRecords, Entries
    <3> QED BY <2>2, <3>1 DEF Injection, Surjection
  <2> HIDE DEF P, f
  <2>4. Cardinality(P) = Cardinality(X)
    BY <2>1, <2>2, <2>3, FS_Injection
  <2> QED BY <2>4 DEF P
<1>4. {i \in DOMAIN index : index[i] \in Live} = DOMAIN index
  BY DEF Consistent, IndexMatchesRecords, Entries
<1>5. Len(index) = Cardinality(Live)
  BY <1>2, <1>3, <1>4
<1> QED BY <1>1, <1>3, <1>5 DEF Consistent, CountersMatchRecords

(* repair_index finds nothing to repair: what it counts through the index  *)
(* are the records, each once.                                             *)
LEMMA RepairFindsNothing ==
  ASSUME TypeOK, Consistent, RepairIndex
  PROVE  count' = count /\ vcount' = vcount
<1>1. count' = Cardinality(Live)
  BY ListedOnce DEF RepairIndex
<1>2. vcount' = Cardinality(VerifiedKeys)
  BY ListedOnce, CountedSets DEF RepairIndex
<1> QED BY <1>1, <1>2 DEF Consistent, CountersMatchRecords

(* Every entry point keeps the registry consistent. *)
LEMMA ConsistentStep ==
  ASSUME CanonicalRenames, TypeOK, Consistent, [Next]_vars
  PROVE  Consistent'
<1> USE DEF registry
<1>1. ASSUME UNCHANGED registry PROVE Consistent'
  BY <1>1 DEF Consistent, CountersMatchRecords, IndexMatchesRecords,
              ReverifyFlagsAreLive, EverCoversVerified, Live, VerifiedKeys
<1>2. ASSUME NEW n \in Names, NEW a \in Addresses,
             Register(n, a) \/ RegisterSponsored(n, a)
      PROVE  Consistent'
  BY <1>2, KeysFacts, RegistrationConsistent DEF Register, RegisterSponsored
<1>3. ASSUME NEW n \in VerifyNames, Verifiable(n), GrantVerification({n})
      PROVE  Consistent'
  BY <1>3, NamesAssumption, GrantConsistent DEF Verifiable
<1>4. ASSUME NEW c \in Addresses, NEW b \in Batches, BatchVerify(c, b) PROVE Consistent'
  <2>1. Entries(b) \subseteq Names
    BY CallersAssumption, LenProperties, ElementOfSeq DEF Entries
  <2> QED BY <1>4, <2>1, GrantConsistent DEF BatchVerify, Verifiable
<1>5. ASSUME NEW c \in Addresses, NEW n \in VerifyNames, RevokeVerification(c, n)
      PROVE  Consistent'
  <2> DEFINE k == Canon[n]
  <2>1. k \in VerifiedKeys /\ k \in Keys /\ rec[k] \in Record
    BY <1>5 DEF RevokeVerification, VerifiedKeys, TypeOK
  <2>2. /\ rec'[k] \in Record /\ ~rec'[k].verified
        /\ \A j \in Keys : j # k => rec'[j] = rec[j]
    BY <1>5, <2>1 DEF RevokeVerification, Record, TypeOK
  <2>3. Live' = Live /\ VerifiedKeys' = VerifiedKeys \ {k}
    BY <2>1, <2>2, NoneAssumption DEF Live, VerifiedKeys
  <2>4. /\ vcount' = SatSub(vcount, 1)
        /\ UNCHANGED <<count, ever, index, reverify>>
    BY <1>5 DEF RevokeVerification
  <2>5. vcount' = Cardinality(VerifiedKeys') /\ ever' >= vcount'
    BY <2>1, <2>3, <2>4, OneLessVerified
  <2> QED BY <2>3, <2>4, <2>5 DEF Consistent, CountersMatchRecords, IndexMatchesRecords,
                                  ReverifyFlagsAreLive, EverCoversVerified
<1>6. ASSUME NEW n \in Names, ExecuteRotation(n) PROVE Consistent'
  <2> DEFINE k == Canon[n]
  <2>1. k \in Live /\ k \in Keys /\ rec[k] \in Record /\ rotation[k] \in Rotation
    BY <1>6, KeysFacts DEF ExecuteRotation, Live, TypeOK
  <2>2. /\ rec'[k] \in Record /\ ~rec'[k].verified
        /\ \A j \in Keys : j # k => rec'[j] = rec[j]
    BY <1>6, <2>1 DEF ExecuteRotation, Record, Rotation, TypeOK
  <2>3. Live' = Live /\ VerifiedKeys' = VerifiedKeys \ {k}
    BY <2>1, <2>2, NoneAssumption DEF Live, VerifiedKeys
  <2>4. k \in VerifiedKeys <=> rec[k].verified
    BY <2>1 DEF Live, VerifiedKeys
  <2>5. /\ vcount' = IF k \in VerifiedKeys THEN SatSub(vcount, 1) ELSE vcount
        /\ UNCHANGED <<count, ever, index>>
        /\ reverify' \subseteq reverify \cup {k}
    BY <1>6, <2>4 DEF ExecuteRotation
  <2>6. vcount' = Cardinality(VerifiedKeys') /\ ever' >= vcount'
    BY <2>3, <2>5, OneLessVerified
  <2> QED BY <2>1, <2>3, <2>5, <2>6
          DEF Consistent, CountersMatchRecords, IndexMatchesRecords,
              ReverifyFlagsAreLive, EverCoversVerified
<1>7. ASSUME NEW c \in Addresses, NEW n \in Names, NEW b \in BotFlags,
             SetBotStatus(c, n, b)
      PROVE  Consistent'
  <2> DEFINE k == Canon[n]
  <2>1. k \in Keys /\ rec[k] # None /\ rec[k] \in Record /\ b \in BOOLEAN
    BY <1>7, KeysFacts, CallersAssumption DEF SetBotStatus, HolderOrAdmin, TypeOK
  <2>2. /\ rec'[k] \in Record /\ rec'[k].verified = rec[k].verified
        /\ \A j \in Keys : j # k => rec'[j] = rec[j]
    BY <1>7, <2>1 DEF SetBotStatus, Record, TypeOK
  <2>3. Live' = Live /\ VerifiedKeys' = VerifiedKeys
    BY <2>1, <2>2, NoneAssumption DEF Live, VerifiedKeys
  <2> QED BY <1>7, <2>3 DEF SetBotStatus, Consistent, CountersMatchRecords,
               IndexMatchesRecords, ReverifyFlagsAreLive, EverCoversVerified
<1>8. ASSUME NEW n \in Names, rec[Canon[n]] # None, DropRecords({Canon[n]})
      PROVE  Consistent'
  <2>1. {Canon[n]} \in SUBSET Live
    BY <1>8, KeysFacts DEF Live
  <2> QED BY <1>8, <2>1, DropConsistent
<1>9. ASSUME NEW b, ApplyBatchRemove(b) PROVE Consistent'
  BY <1>9, DropConsistent DEF ApplyBatchRemove
<1>10. ASSUME NEW c \in Addresses, NEW n \in Names, NEW m \in RenameNames, Rename(c, n, m)
       PROVE  Consistent'
  BY <1>10, RenameConsistent DEF CanonicalRenames
<1>11. CASE CompactIndex
  BY <1>11 DEF CompactIndex, Consistent, CountersMatchRecords, IndexMatchesRecords,
               ReverifyFlagsAreLive, EverCoversVerified, Live, VerifiedKeys
<1>12. CASE RepairIndex
  <2>1. UNCHANGED <<rec, count, vcount, ever, index, reverify>>
    BY <1>12, RepairFindsNothing DEF RepairIndex
  <2> QED BY <2>1 DEF Consistent, CountersMatchRecords, IndexMatchesRecords,
                      ReverifyFlagsAreLive, EverCoversVerified, Live, VerifiedKeys
<1>13. ASSUME NEW c, NEW n \in Names, Remove(c, n) PROVE Consistent'
  BY <1>8, <1>13 DEF Remove, HolderOrAdmin
<1>14. ASSUME NEW n \in ChallengeNames, CompleteChallenge(n) PROVE Consistent'
  BY <1>8, <1>14, NamesAssumption DEF CompleteChallenge
<1>15. ASSUME NEW c, NEW n \in VerifyNames, NEW p,
              Verify(c, n) \/ VerifyWithOracleProof(n, p)
       PROVE  Consistent'
  BY <1>3, <1>15 DEF Verify, VerifyWithOracleProof
<1>16. ASSUME NEW c, NEW b, BatchRemove(b) \/ ExecuteBatchRemove(c) PROVE Consistent'
  BY <1>9, <1>16 DEF BatchRemove, ExecuteBatchRemove
<1>17. ASSUME NEW c, NEW n, NEW a,
              CancelRotation(c, n) \/ RequestRotation(n, a) \/ StartChallenge(n)
                \/ CancelChallenge(n)
       PROVE  Consistent'
  BY <1>1, <1>17 DEF CancelRotation, RequestRotation, StartChallenge, CancelChallenge
<1>18. ASSUME NEW b, NEW n, NEW s,
              ProposeBatchRemove(b) \/ CancelBatchRemove \/ AddReserved(n)
                \/ RemoveReserved(n) \/ SetCooldown(s) \/ SetRotationDelay(s)
                \/ ConfigVerification(s) \/ SetBatchRemoveThreshold(s)
                \/ SetOracleAllowlist(s)
       PROVE  Consistent'
  BY <1>1, <1>18 DEF ProposeBatchRemove, CancelBatchRemove, AddReserved, RemoveReserved,
                     SetCooldown, SetRotationDelay, ConfigVerification,
                     SetBatchRemoveThreshold, SetOracleAllowlist
<1>19. CASE ChangeAccess \/ Tick
  BY <1>1, <1>19 DEF ChangeAccess, Tick
<1>20. CASE UNCHANGED vars
  BY <1>1, <1>20 DEF vars
<1> QED
  BY <1>2, <1>4, <1>5, <1>6, <1>7, <1>10, <1>11, <1>12, <1>13, <1>14, <1>15, <1>16,
     <1>17, <1>18, <1>19, <1>20
     DEF Next

(* The invariants of docs/REGISTRY_INVARIANTS.md: in every reachable state *)
(* the stored counters equal the numbers of live and verified records, the *)
(* flat index lists each live key once, re-verification flags belong to    *)
(* unverified records, and the ever-verified total covers the verified     *)
(* ones; for any number of names, addresses and batches, provided rename   *)
(* is given its new name in lower case.                                    *)
THEOREM RegistryConsistent ==
  ASSUME CanonicalRenames
  PROVE  Spec => [](CountersMatchRecords /\ IndexMatchesRecords
                      /\ ReverifyFlagsAreLive /\ EverCoversVerified)
<1>1. Init => Consistent
  <2> SUFFICES ASSUME Init PROVE Consistent
    OBVIOUS
  <2>1. Live = {} /\ VerifiedKeys = {}
    BY DEF Init, Live, VerifiedKeys
  <2>2. Entries(index) = {} /\ DOMAIN index = {}
    BY DEF Init, Entries
  <2> QED BY <2>1, <2>2, FS_EmptySet
          DEF Init, Consistent, CountersMatchRecords, IndexMatchesRecords,
              ReverifyFlagsAreLive, EverCoversVerified
<1>2. TypeOK /\ Consistent /\ [Next]_vars => Consistent'
  BY ConsistentStep
<1>3. Consistent => CountersMatchRecords /\ IndexMatchesRecords
                      /\ ReverifyFlagsAreLive /\ EverCoversVerified
  BY DEF Consistent
<1> QED BY <1>1, <1>2, <1>3, TypeCorrect, PTL DEF Spec

-----------------------------------------------------------------------------
(* The ways of changing records. *)

(* Nothing but timers, settings, pages and recounted totals changes. *)
Spares ==
  /\ UNCHANGED <<rec, ever, index, gen, reverify>>
  /\ UNCHANGED <<count, vcount>> \/ RepairIndex
  /\ UNCHANGED chunks \/ CompactIndex
  /\ access' = access \/ access' \in AccessStates

Operating == access.open /\ UNCHANGED access

Registers(k, a) ==
  Operating /\ a # ZeroAddress /\ WriteRegistration(k, a)

Grants(N) ==
  Operating /\ (\A n \in N : Verifiable(n)) /\ GrantVerification(N)

Withdraws(k) ==
  /\ Operating /\ k \in VerifiedKeys
  /\ rec' = [rec EXCEPT ![k].verified = FALSE]
  /\ UNCHANGED <<index, chunks, gen>>

Tags(k, b) ==
  /\ Operating /\ k \in Live
  /\ rec' = [rec EXCEPT ![k].bot = b]
  /\ UNCHANGED <<index, chunks, gen>>

(* More records than the threshold go only by a confirmed proposal. *)
Drops(X) ==
  /\ Operating /\ DropRecords(X)
  /\ IsFiniteSet(X) /\ Cardinality(X) \in Nat /\ Cardinality(X) < GenModulus
  /\ cfg.threshold > 0 /\ Cardinality(X) > cfg.threshold => Confirmed(X)

Moves(old, new) == Operating /\ \E c \in Addresses : Rename(c, old, new)

Rotates(n) == Operating /\ ExecuteRotation(n)

(* A list names no more keys than it has entries. *)
LEMMA BatchSize ==
  ASSUME NEW b \in Batches \cup Proposals, NEW X \in SUBSET {Canon[n] : n \in Entries(b)}
  PROVE  /\ IsFiniteSet(X) /\ Cardinality(X) \in Nat
         /\ Len(b) \in Nat /\ Len(b) <= MaxBatch
         /\ Cardinality(X) <= Len(b) /\ Cardinality(X) < GenModulus
<1> DEFINE T == {Canon[n] : n \in Entries(b)}
           f == [i \in 1 .. Len(b) |-> Canon[b[i]]]
<1>1. /\ Len(b) \in Nat /\ Len(b) <= MaxBatch /\ MaxBatch \in Nat
      /\ DOMAIN b = 1 .. Len(b)
  BY CallersAssumption, LenProperties
<1>2. f \in Surjection(1 .. Len(b), T)
  BY <1>1 DEF Surjection, Entries
<1>3. IsFiniteSet(1 .. Len(b)) /\ Cardinality(1 .. Len(b)) = Len(b)
  BY <1>1, FS_Interval
<1> HIDE DEF f
<1>4. IsFiniteSet(T) /\ Cardinality(T) <= Cardinality(1 .. Len(b))
  BY <1>2, <1>3, FS_Surjection
<1>5. IsFiniteSet(X) /\ Cardinality(X) <= Cardinality(T)
  BY <1>4, FS_Subset
<1>6. Cardinality(X) \in Nat /\ Cardinality(T) \in Nat
  BY <1>4, <1>5, FS_CardinalityType
<1> QED BY <1>1, <1>3, <1>4, <1>5, <1>6, NumbersAssumption

(* Removing one record needs no proposal: the threshold is never one. *)
LEMMA SingleDrop ==
  ASSUME TypeOK, NEW k, Operating, DropRecords({k})
  PROVE  Drops({k})
<1>1. IsFiniteSet({k}) /\ Cardinality({k}) = 1
  BY FS_Singleton
<1>2. cfg.threshold \in Nat
  BY DEF TypeOK, Config
<1> QED BY <1>1, <1>2, NumbersAssumption DEF Drops

(* A batch removal is a removal of registered keys. *)
LEMMA BatchDrop ==
  ASSUME TypeOK, NEW b \in Batches \cup Proposals, Operating, ApplyBatchRemove(b),
         DualControl(Len(b))
           => /\ b = proposal.names /\ SecondKeys # {}
              /\ proposal # None /\ proposal' = None /\ ~ProposalExpired
  PROVE  \E X \in SUBSET Live : Drops(X)
<1> DEFINE X == {Canon[n] : n \in Entries(b)} \cap Live
<1>1. X \in SUBSET Live /\ X \in SUBSET {Canon[n] : n \in Entries(b)}
  OBVIOUS
<1>2. DropRecords(X)
  BY DEF ApplyBatchRemove
<1> HIDE DEF X
<1>3. cfg.threshold \in Nat
  BY DEF TypeOK, Config
<1>4. cfg.threshold > 0 /\ Cardinality(X) > cfg.threshold => DualControl(Len(b))
  BY <1>1, <1>3, BatchSize DEF DualControl
<1>5. DualControl(Len(b)) => Confirmed(X)
  BY <1>1 DEF Confirmed
<1>6. Drops(X)
  BY <1>1, <1>2, <1>4, <1>5, BatchSize DEF Drops
<1> QED BY <1>1, <1>6

(* Every step changes the records in one of the eight ways. *)
LEMMA StepKinds ==
  ASSUME TypeOK, [Next]_vars
  PROVE  \/ Spares
         \/ \E k \in Keys, a \in Addresses : Registers(k, a)
         \/ \E N \in SUBSET Names : Grants(N)
         \/ \E k \in Keys : Withdraws(k)
         \/ \E k \in Keys, b \in BOOLEAN : Tags(k, b)
         \/ \E X \in SUBSET Live : Drops(X)
         \/ \E old \in Names, new \in RenameNames : Moves(old, new)
         \/ \E n \in Names : Rotates(n)
<1> DEFINE Goal ==
             \/ Spares
             \/ \E k \in Keys, a \in Addresses : Registers(k, a)
             \/ \E N \in SUBSET Names : Grants(N)
             \/ \E k \in Keys : Withdraws(k)
             \/ \E k \in Keys, b \in BOOLEAN : Tags(k, b)
             \/ \E X \in SUBSET Live : Drops(X)
             \/ \E old \in Names, new \in RenameNames : Moves(old, new)
             \/ \E n \in Names : Rotates(n)
<1> SUFFICES Goal
  OBVIOUS
<1> USE DEF registry, timers, control
<1>1. ASSUME NEW n \in Names, NEW a \in Addresses,
             Register(n, a) \/ RegisterSponsored(n, a)
      PROVE  Goal
  <2>1. Registers(Canon[n], a) /\ Canon[n] \in Keys
    BY <1>1, KeysFacts
       DEF Register, RegisterSponsored, Bindable, Registers, Operating, WriteRegistration
  <2> QED BY <2>1
<1>2. ASSUME NEW N \in SUBSET Names, access.open, \A n \in N : Verifiable(n),
             GrantVerification(N)
      PROVE  Goal
  <2>1. Grants(N)
    BY <1>2 DEF Grants, Operating, GrantVerification
  <2> QED BY <2>1
<1>3. ASSUME NEW n \in VerifyNames, NEW c, NEW p,
             Verify(c, n) \/ VerifyWithOracleProof(n, p)
      PROVE  Goal
  <2>1. {n} \in SUBSET Names
    BY NamesAssumption
  <2> HIDE DEF Goal
  <2> QED BY <1>2, <1>3, <2>1 DEF Verify, VerifyWithOracleProof
<1>4. ASSUME NEW c, NEW b \in Batches, BatchVerify(c, b) PROVE Goal
  <2> DEFINE N == {n \in Entries(b) : Verifiable(n)}
  <2>1. N \in SUBSET Names
    BY CallersAssumption, LenProperties, ElementOfSeq DEF Entries
  <2>2. access.open /\ GrantVerification(N) /\ \A n \in N : Verifiable(n)
    BY <1>4 DEF BatchVerify
  <2> HIDE DEF N, Goal
  <2> QED BY <1>2, <2>1, <2>2
<1>5. ASSUME NEW c, NEW n \in VerifyNames, RevokeVerification(c, n) PROVE Goal
  <2>1. Withdraws(Canon[n])
    BY <1>5 DEF RevokeVerification, Withdraws, Operating
  <2>2. Canon[n] \in Keys
    BY NamesAssumption, KeysFacts
  <2> QED BY <2>1, <2>2
<1>6. ASSUME NEW c, NEW n \in Names, NEW b \in BotFlags, SetBotStatus(c, n, b) PROVE Goal
  <2>1. Canon[n] \in Keys /\ b \in BOOLEAN
    BY KeysFacts, CallersAssumption
  <2>2. Tags(Canon[n], b)
    BY <1>6, <2>1 DEF SetBotStatus, Tags, Operating, HolderOrAdmin, Live
  <2> QED BY <2>1, <2>2
<1>7. ASSUME NEW c, NEW n \in Names, Remove(c, n) \/ CompleteChallenge(n) PROVE Goal
  <2>1. Canon[n] \in Live
    BY <1>7, KeysFacts DEF Remove, CompleteChallenge, HolderOrAdmin, Live
  <2>2. Operating /\ DropRecords({Canon[n]})
    BY <1>7 DEF Remove, CompleteChallenge, Operating
  <2>3. Drops({Canon[n]})
    BY <2>2, SingleDrop
  <2> QED BY <2>1, <2>3
<1>8. ASSUME NEW b \in Batches, BatchRemove(b) PROVE Goal
  <2>1. Operating
    BY <1>8 DEF BatchRemove, ApplyBatchRemove, Operating
  <2>2. \E X \in SUBSET Live : Drops(X)
    BY <1>8, <2>1, BatchDrop DEF BatchRemove
  <2> QED BY <2>2
<1>9. ASSUME NEW c, ExecuteBatchRemove(c) PROVE Goal
  <2>1. /\ proposal \in Proposal /\ proposal.names \in Proposals
        /\ c \in SecondKeys
    BY <1>9 DEF ExecuteBatchRemove, MayExecute, TypeOK, Proposal, SecondKeys
  <2>2. Operating
    BY <1>9 DEF ExecuteBatchRemove, ApplyBatchRemove, Operating
  <2>3. \E X \in SUBSET Live : Drops(X)
    BY <1>9, <2>1, <2>2, BatchDrop DEF ExecuteBatchRemove
  <2> QED BY <2>3
<1>10. ASSUME NEW c \in Addresses, NEW n \in Names, NEW m \in RenameNames, Rename(c, n, m)
       PROVE  Goal
  <2>1. Moves(n, m)
    BY <1>10 DEF Moves, Operating, Rename
  <2> QED BY <2>1
<1>11. ASSUME NEW n \in Names, ExecuteRotation(n) PROVE Goal
  <2>1. Rotates(n)
    BY <1>11 DEF Rotates, Operating, ExecuteRotation
  <2> QED BY <2>1
<1>12. CASE CompactIndex \/ RepairIndex \/ ChangeAccess \/ Tick
  BY <1>12 DEF CompactIndex, RepairIndex, ChangeAccess, Tick, Spares
<1>13. ASSUME NEW c, NEW n, NEW a,
              CancelRotation(c, n) \/ RequestRotation(n, a) \/ StartChallenge(n)
                \/ CancelChallenge(n)
       PROVE  Goal
  BY <1>13 DEF CancelRotation, RequestRotation, StartChallenge, CancelChallenge, Spares
<1>14. ASSUME NEW b, NEW n, NEW s,
              ProposeBatchRemove(b) \/ CancelBatchRemove \/ AddReserved(n)
                \/ RemoveReserved(n) \/ SetCooldown(s) \/ SetRotationDelay(s)
                \/ ConfigVerification(s) \/ SetBatchRemoveThreshold(s)
                \/ SetOracleAllowlist(s)
       PROVE  Goal
  BY <1>14 DEF ProposeBatchRemove, CancelBatchRemove, AddReserved, RemoveReserved,
               SetCooldown, SetRotationDelay, ConfigVerification,
               SetBatchRemoveThreshold, SetOracleAllowlist, Spares
<1>15. CASE UNCHANGED vars
  BY <1>15 DEF vars, Spares
<1> HIDE DEF Goal
<1> QED
  BY <1>1, <1>3, <1>4, <1>5, <1>6, <1>7, <1>8, <1>9, <1>10, <1>11, <1>12, <1>13, <1>14,
     <1>15, NamesAssumption
     DEF Next

-----------------------------------------------------------------------------
(* What each way does to the holders and to the verified keys. *)

(* A record is never None, and neither is its holder. *)
LEMMA HolderFacts ==
  ASSUME TypeOK
  PROVE  /\ \A k \in Live : rec[k] \in Record /\ Holder[k] = rec[k].addr
                              /\ Holder[k] \in Addresses /\ Holder[k] # None
         /\ \A k \in Keys \ Live : rec[k] = None /\ Holder[k] = None
         /\ Live = {k \in Keys : Holder[k] # None}
         /\ VerifiedKeys = {k \in Live : rec[k].verified}
<1>1. /\ \A k \in Live : rec[k] \in Record /\ Holder[k] = rec[k].addr
      /\ \A k \in Keys \ Live : rec[k] = None /\ Holder[k] = None
  BY DEF TypeOK, Live, Holder
<1>2. \A r \in Record : r.addr \in Addresses
  BY DEF Record
<1>3. None \notin Addresses
  BY NoneAssumption
<1>4. \A k \in Live : Holder[k] \in Addresses /\ Holder[k] # None
  BY <1>1, <1>2, <1>3
<1>5. Live \subseteq Keys /\ VerifiedKeys = {k \in Live : rec[k].verified}
  BY DEF Live, VerifiedKeys
<1> QED BY <1>1, <1>4, <1>5

(* A change of one record changes the holder of one key. *)
LEMMA OneRecord ==
  ASSUME TypeOK, NEW k \in Keys, NEW r \in Record, rec' = [rec EXCEPT ![k] = r]
  PROVE  /\ Holder' = [Holder EXCEPT ![k] = r.addr]
         /\ VerifiedKeys' = IF r.verified THEN VerifiedKeys \cup {k} ELSE VerifiedKeys \ {k}
<1>1. /\ rec'[k] = r /\ r # None
      /\ \A j \in Keys : j # k => rec'[j] = rec[j]
  BY NoneAssumption DEF TypeOK
<1>2. Holder' = [Holder EXCEPT ![k] = r.addr]
  <2>1. \A j \in Keys : Holder'[j] = IF j = k THEN r.addr ELSE Holder[j]
    BY <1>1 DEF Holder
  <2>2. Holder' = [j \in Keys |-> Holder'[j]] /\ Holder = [j \in Keys |-> Holder[j]]
    BY DEF Holder
  <2> QED BY <2>1, <2>2
<1>3. \A j \in Keys : j \in VerifiedKeys' <=> IF j = k THEN r.verified ELSE j \in VerifiedKeys
  BY <1>1 DEF VerifiedKeys
<1>4. VerifiedKeys \subseteq Keys /\ VerifiedKeys' \subseteq Keys
  BY DEF VerifiedKeys
<1> QED BY <1>2, <1>3, <1>4

(* A registration moves one name; it stays verified only with its holder. *)
LEMMA RegistersEffect ==
  ASSUME TypeOK, NEW k \in Keys, NEW a \in Addresses, Registers(k, a)
  PROVE  /\ Holder' = [Holder EXCEPT ![k] = a]
         /\ VerifiedKeys' = IF Holder[k] = a THEN VerifiedKeys ELSE VerifiedKeys \ {k}
<1> DEFINE r == [addr     |-> a,
                 payout   |-> IF rec[k] = None THEN a ELSE rec[k].payout,
                 verified |-> KeepsVerification(k, a),
                 bot      |-> ~(rec[k] = None) /\ rec[k].bot]
<1>1. rec[k] # None => rec[k] \in Record
  BY DEF TypeOK
<1>2. r \in Record /\ r.addr = a /\ r.verified = KeepsVerification(k, a)
  BY <1>1 DEF Record, KeepsVerification
<1>3. rec' = [rec EXCEPT ![k] = r]
  BY DEF Registers, WriteRegistration
<1> HIDE DEF r
<1>4. KeepsVerification(k, a) <=> k \in VerifiedKeys /\ Holder[k] = a
  BY DEF KeepsVerification, VerifiedKeys, Holder
<1>5. CASE KeepsVerification(k, a)
  <2>1. VerifiedKeys' = VerifiedKeys \cup {k} /\ Holder' = [Holder EXCEPT ![k] = a]
    BY <1>2, <1>3, <1>5, OneRecord
  <2> QED BY <1>4, <1>5, <2>1
<1>6. CASE ~KeepsVerification(k, a)
  <2>1. VerifiedKeys' = VerifiedKeys \ {k} /\ Holder' = [Holder EXCEPT ![k] = a]
    BY <1>2, <1>3, <1>6, OneRecord
  <2> QED BY <1>4, <1>6, <2>1
<1> QED BY <1>5, <1>6

(* A grant verifies registered names and moves none. *)
LEMMA GrantsEffect ==
  ASSUME TypeOK, NEW N \in SUBSET Names, Grants(N)
  PROVE  /\ Holder' = Holder
         /\ {Canon[n] : n \in N} \subseteq Live
         /\ VerifiedKeys' = VerifiedKeys \cup {Canon[n] : n \in N}
<1> DEFINE granted == {Canon[n] : n \in N}
<1>1. granted \subseteq Live
  BY KeysFacts DEF Grants, Verifiable, Live
<1>2. \A k \in Keys : rec'[k] = IF k \in granted THEN [rec[k] EXCEPT !.verified = TRUE]
                                                 ELSE rec[k]
  BY DEF Grants, GrantVerification
<1> HIDE DEF granted
<1>3. \A k \in granted : /\ rec'[k] \in Record /\ rec'[k] # None
                         /\ rec'[k].addr = rec[k].addr /\ rec'[k].verified
  <2> SUFFICES ASSUME NEW k \in granted
               PROVE  /\ rec'[k] \in Record /\ rec'[k] # None
                      /\ rec'[k].addr = rec[k].addr /\ rec'[k].verified
    OBVIOUS
  <2>1. k \in Keys /\ rec[k] \in Record
    BY <1>1, HolderFacts DEF Live
  <2>2. rec'[k] = [rec[k] EXCEPT !.verified = TRUE]
    BY <1>2, <2>1
  <2>3. rec'[k] \in Record /\ rec'[k].addr = rec[k].addr /\ rec'[k].verified
    BY <2>1, <2>2 DEF Record
  <2> QED BY <2>3, NoneAssumption
<1>4. Holder' = Holder
  <2>1. \A k \in Keys : Holder'[k] = Holder[k]
    <3> SUFFICES ASSUME NEW k \in Keys PROVE Holder'[k] = Holder[k]
      OBVIOUS
    <3>1. CASE k \in granted
      BY <1>1, <1>3, <3>1 DEF Holder, Live
    <3>2. CASE k \notin granted
      BY <1>2, <3>2 DEF Holder
    <3> QED BY <3>1, <3>2
  <2> QED BY <2>1 DEF Holder
<1>5. VerifiedKeys' = VerifiedKeys \cup granted
  BY <1>1, <1>2, <1>3 DEF VerifiedKeys, Live
<1> QED BY <1>1, <1>4, <1>5 DEF granted

(* Revoking unverifies one registered name and moves none. *)
LEMMA WithdrawsEffect ==
  ASSUME TypeOK, NEW k \in Keys, Withdraws(k)
  PROVE  Holder' = Holder /\ VerifiedKeys' = VerifiedKeys \ {k}
<1> DEFINE r == [rec[k] EXCEPT !.verified = FALSE]
<1>1. k \in Live /\ rec[k] \in Record
  BY HolderFacts DEF Withdraws
<1>2. r \in Record /\ r.addr = rec[k].addr /\ ~r.verified
  BY <1>1 DEF Record
<1>3. rec' = [rec EXCEPT ![k] = r]
  BY DEF Withdraws
<1>4. Holder' = [Holder EXCEPT ![k] = rec[k].addr] /\ VerifiedKeys' = VerifiedKeys \ {k}
  <2> HIDE DEF r
  <2> QED BY <1>2, <1>3, OneRecord
<1>5. Holder[k] = rec[k].addr
  BY <1>1, HolderFacts
<1> QED BY <1>4, <1>5 DEF Holder

(* The bot flag leaves holders and verification alone. *)
LEMMA TagsEffect ==
  ASSUME TypeOK, NEW k \in Keys, NEW b \in BOOLEAN, Tags(k, b)
  PROVE  Holder' = Holder /\ VerifiedKeys' = VerifiedKeys
<1> DEFINE r == [rec[k] EXCEPT !.bot = b]
<1>1. k \in Live /\ rec[k] \in Record
  BY HolderFacts DEF Tags
<1>2. r \in Record /\ r.addr = rec[k].addr /\ r.verified = rec[k].verified
  BY <1>1 DEF Record
<1>3. rec' = [rec EXCEPT ![k] = r]
  BY DEF Tags
<1>4. /\ Holder' = [Holder EXCEPT ![k] = rec[k].addr]
      /\ VerifiedKeys' = IF rec[k].verified THEN VerifiedKeys \cup {k} ELSE VerifiedKeys \ {k}
  <2> HIDE DEF r
  <2> QED BY <1>2, <1>3, OneRecord
<1>5. Holder[k] = rec[k].addr /\ (rec[k].verified <=> k \in VerifiedKeys)
  BY <1>1, HolderFacts
<1> QED BY <1>4, <1>5 DEF Holder

(* A removal takes the holder and the verification of the removed keys. *)
LEMMA DropsEffect ==
  ASSUME TypeOK, NEW X \in SUBSET Live, Drops(X)
  PROVE  /\ Holder' = [k \in Keys |-> IF k \in X THEN None ELSE Holder[k]]
         /\ VerifiedKeys' = VerifiedKeys \ X
         /\ Live' = Live \ X
<1>1. \A k \in Keys : rec'[k] = IF k \in X THEN None ELSE rec[k]
  BY DEF Drops, DropRecords
<1> QED BY <1>1 DEF Holder, VerifiedKeys, Live

(* A rename to a free key takes the holder and the verification along. *)
LEMMA MovesEffect ==
  ASSUME CanonicalRenames, TypeOK, NEW old \in Names, NEW new \in RenameNames,
         Moves(old, new)
  PROVE  /\ Canon[old] \in Live /\ Canon[new] = new /\ new \in Keys \ Live
         /\ Holder' = [Holder EXCEPT ![Canon[old]] = None, ![new] = Holder[Canon[old]]]
         /\ VerifiedKeys' = VerifiedKeys \ {Canon[old]}
         /\ index' = Without(Append(index, new), {Canon[old]})
         /\ gen' = BumpGen(1)
<1> DEFINE k == Canon[old]
           r == [rec[k] EXCEPT !.verified = FALSE]
<1>1. new \in Keys /\ Canon[new] = new /\ k \in Keys
  BY KeysFacts DEF CanonicalRenames
<1>2. PICK c \in Addresses : Rename(c, old, new)
  BY DEF Moves
<1>3. rec[k] # None /\ rec[new] = None
  BY <1>1, <1>2 DEF Rename, HolderOrAdmin, HasRecord
<1>4. /\ index' = Without(Append(index, new), {k}) /\ gen' = BumpGen(1)
      /\ rec' = [[rec EXCEPT ![new] = r] EXCEPT ![k] = None]
  BY <1>1, <1>2 DEF Rename
<1>5. k \in Live /\ new \in Keys \ Live /\ k # new
  BY <1>1, <1>3 DEF Live
<1>6. r \in Record /\ r # None /\ r.addr = Holder[k] /\ ~r.verified
  <2>1. rec[k] \in Record /\ Holder[k] = rec[k].addr
    BY <1>5, HolderFacts
  <2> QED BY <2>1, NoneAssumption DEF Record
<1>7. /\ rec'[k] = None /\ rec'[new] = r
      /\ \A j \in Keys : j # k /\ j # new => rec'[j] = rec[j]
  <2> HIDE DEF r
  <2> QED BY <1>1, <1>4, <1>5 DEF TypeOK
<1> HIDE DEF r, k
<1>8. Holder' = [Holder EXCEPT ![k] = None, ![new] = Holder[k]]
  <2>1. \A j \in Keys : Holder'[j] = IF j = new THEN Holder[k]
                                     ELSE IF j = k THEN None ELSE Holder[j]
    BY <1>5, <1>6, <1>7 DEF Holder
  <2>2. Holder' = [j \in Keys |-> Holder'[j]] /\ DOMAIN Holder = Keys
    BY DEF Holder
  <2>3. [Holder EXCEPT ![k] = None, ![new] = Holder[k]]
          = [j \in Keys |-> IF j = new THEN Holder[k] ELSE IF j = k THEN None ELSE Holder[j]]
    BY <1>5, <2>2 DEF Live
  <2> QED BY <2>1, <2>2, <2>3
<1>9. VerifiedKeys' = VerifiedKeys \ {k}
  <2>1. new \notin VerifiedKeys
    BY <1>5, HolderFacts
  <2> QED BY <1>5, <1>6, <1>7, <2>1 DEF VerifiedKeys, Live
<1> QED BY <1>1, <1>4, <1>5, <1>8, <1>9 DEF k

(* A rotation hands one name to its queued address, unverified. *)
LEMMA RotatesEffect ==
  ASSUME TypeOK, NEW n \in Names, Rotates(n)
  PROVE  /\ Canon[n] \in Live /\ rotation[Canon[n]] \in Rotation
         /\ Holder' = [Holder EXCEPT ![Canon[n]] = rotation[Canon[n]].to]
         /\ VerifiedKeys' = VerifiedKeys \ {Canon[n]}
<1> DEFINE k == Canon[n]
           r == [rec[k] EXCEPT !.addr = rotation[k].to, !.verified = FALSE]
<1>1. k \in Live /\ k \in Keys /\ rotation[k] \in Rotation /\ rec[k] \in Record
  BY KeysFacts, HolderFacts DEF Rotates, ExecuteRotation, Live, TypeOK
<1>2. r \in Record /\ r.addr = rotation[k].to /\ ~r.verified
  BY <1>1 DEF Record, Rotation
<1>3. rec' = [rec EXCEPT ![k] = r]
  BY <1>1 DEF Rotates, ExecuteRotation, TypeOK
<1> HIDE DEF r
<1>4. Holder' = [Holder EXCEPT ![k] = rotation[k].to] /\ VerifiedKeys' = VerifiedKeys \ {k}
  BY <1>1, <1>2, <1>3, OneRecord
<1> QED BY <1>1, <1>4

-----------------------------------------------------------------------------
(* The burn address. *)

(* No record is bound to the burn address because no registration is and   *)
(* no rotation that is still queued would: execute_address_rotation does   *)
(* not check its target again.                                             *)
BurnFree ==
  /\ NoBurnHolder
  /\ \A k \in Keys : rotation[k] # None => rotation[k].to # ZeroAddress

(* A queued rotation stays as it was requested or goes. *)
LEMMA QueuedRotations ==
  ASSUME TypeOK, [Next]_vars
  PROVE  \A k \in Keys : rotation'[k] = rotation[k] \/ rotation'[k] = None
                           \/ rotation'[k].to # ZeroAddress
<1> DEFINE Goal == \A k \in Keys : rotation'[k] = rotation[k] \/ rotation'[k] = None
                                     \/ rotation'[k].to # ZeroAddress
<1> SUFFICES Goal
  OBVIOUS
<1> USE DEF timers
<1>1. ASSUME UNCHANGED rotation PROVE Goal
  BY <1>1
<1>2. ASSUME NEW n \in Names, rotation' = [rotation EXCEPT ![Canon[n]] = None] PROVE Goal
  BY <1>2 DEF TypeOK
<1>3. ASSUME NEW n \in Names, NEW a, RequestRotation(n, a) PROVE Goal
  <2>1. /\ rotation \in [Keys -> Rotation \cup {None}]
        /\ rotation' = [rotation EXCEPT ![Canon[n]] =
                          [to |-> a, at |-> now + cfg.rotDelay,
                           holder |-> rec[Canon[n]].addr]]
        /\ a # ZeroAddress
    BY <1>3 DEF RequestRotation, Bindable, TypeOK
  <2> QED BY <2>1
<1> HIDE DEF Goal
<1>4. ASSUME NEW n \in Names, NEW c, ExecuteRotation(n) \/ CancelRotation(c, n) PROVE Goal
  BY <1>2, <1>4 DEF ExecuteRotation, CancelRotation
<1>5. ASSUME NEW n, NEW a, NEW c, NEW b, NEW m,
             Register(n, a) \/ RegisterSponsored(n, a) \/ SetBotStatus(c, n, b)
               \/ Remove(c, n) \/ Rename(c, n, m)
      PROVE  Goal
  BY <1>1, <1>5 DEF Register, RegisterSponsored, WriteRegistration, SetBotStatus, Remove,
                    Rename
<1>6. ASSUME NEW n, NEW c, NEW p, NEW b,
             Verify(c, n) \/ VerifyWithOracleProof(n, p) \/ BatchVerify(c, b)
               \/ RevokeVerification(c, n)
      PROVE  Goal
  BY <1>1, <1>6 DEF Verify, VerifyWithOracleProof, BatchVerify, RevokeVerification,
                    GrantVerification
<1>7. ASSUME NEW n, NEW c, NEW b,
             StartChallenge(n) \/ CancelChallenge(n) \/ CompleteChallenge(n)
               \/ BatchRemove(b) \/ ExecuteBatchRemove(c)
      PROVE  Goal
  BY <1>1, <1>7 DEF StartChallenge, CancelChallenge, CompleteChallenge, BatchRemove,
                    ExecuteBatchRemove, ApplyBatchRemove
<1>8. ASSUME NEW b, NEW n, NEW s,
             ProposeBatchRemove(b) \/ CancelBatchRemove \/ AddReserved(n)
               \/ RemoveReserved(n) \/ SetCooldown(s) \/ SetRotationDelay(s)
               \/ ConfigVerification(s) \/ SetBatchRemoveThreshold(s)
               \/ SetOracleAllowlist(s)
      PROVE  Goal
  BY <1>1, <1>8 DEF ProposeBatchRemove, CancelBatchRemove, AddReserved, RemoveReserved,
                    SetCooldown, SetRotationDelay, ConfigVerification,
                    SetBatchRemoveThreshold, SetOracleAllowlist
<1>9. CASE CompactIndex \/ RepairIndex \/ ChangeAccess \/ Tick \/ UNCHANGED vars
  BY <1>1, <1>9 DEF CompactIndex, RepairIndex, ChangeAccess, Tick, vars
<1> QED
  BY <1>3, <1>4, <1>5, <1>6, <1>7, <1>8, <1>9 DEF Next

(* Whatever happens, every holder was one before, is the checked address   *)
(* of a registration, or is the target of a rotation that was queued.      *)
LEMMA BurnFreeStep ==
  ASSUME TypeOK, BurnFree, [Next]_vars
  PROVE  BurnFree'
<1> DEFINE Clean(h) == \A k \in Keys : h[k] # None => h[k] # ZeroAddress
<1>1. Clean(Holder)
  BY HolderFacts DEF BurnFree, NoBurnHolder
<1>2. Clean(Holder')
  <2>1. ASSUME Spares PROVE Holder' = Holder
    BY <2>1 DEF Spares, Holder
  <2>2. ASSUME NEW k \in Keys, NEW a \in Addresses, Registers(k, a) PROVE Clean(Holder')
    <3>1. Holder' = [Holder EXCEPT ![k] = a] /\ a # ZeroAddress /\ DOMAIN Holder = Keys
      BY <2>2, RegistersEffect DEF Registers, Holder
    <3> QED BY <1>1, <3>1
  <2>3. ASSUME NEW N \in SUBSET Names, Grants(N) PROVE Holder' = Holder
    BY <2>3, GrantsEffect
  <2>4. ASSUME NEW k \in Keys, NEW b \in BOOLEAN, Withdraws(k) \/ Tags(k, b)
        PROVE  Holder' = Holder
    BY <2>4, WithdrawsEffect, TagsEffect
  <2>5. ASSUME NEW X \in SUBSET Live, Drops(X) PROVE Clean(Holder')
    BY <1>1, <2>5, DropsEffect
  <2>6. ASSUME NEW old \in Names, NEW new \in RenameNames, Moves(old, new)
        PROVE  Clean(Holder')
    <3> DEFINE k == Canon[old]
               m == Canon[new]
               r == [rec[k] EXCEPT !.verified = FALSE]
    <3>1. k \in Keys /\ m \in Keys
      BY NamesAssumption, KeysFacts
    <3>2. rec[k] # None /\ rec' = [[rec EXCEPT ![m] = r] EXCEPT ![k] = None]
      BY <2>6 DEF Moves, Rename, HolderOrAdmin
    <3>3. rec[k] \in Record /\ Holder[k] = rec[k].addr /\ r.addr = rec[k].addr
      BY <3>1, <3>2 DEF TypeOK, Holder, Record
    <3>4. \A j \in Keys : rec'[j] = None \/ rec'[j] = r \/ rec'[j] = rec[j]
      <4> HIDE DEF r
      <4> QED BY <3>1, <3>2 DEF TypeOK
    <3> HIDE DEF r
    <3>5. \A j \in Keys : Holder'[j] \in {None, Holder[k], Holder[j]}
      BY <3>3, <3>4 DEF Holder
    <3> QED BY <1>1, <3>1, <3>5
  <2>7. ASSUME NEW n \in Names, Rotates(n) PROVE Clean(Holder')
    <3>1. /\ Holder' = [Holder EXCEPT ![Canon[n]] = rotation[Canon[n]].to]
          /\ DOMAIN Holder = Keys /\ Canon[n] \in Keys
          /\ rotation[Canon[n]] # None
      BY <2>7, RotatesEffect, KeysFacts DEF Rotates, ExecuteRotation, Holder
    <3>2. rotation[Canon[n]].to # ZeroAddress
      BY <3>1 DEF BurnFree
    <3> QED BY <1>1, <3>1, <3>2
  <2> HIDE DEF Clean
  <2> QED BY <1>1, <2>1, <2>2, <2>3, <2>4, <2>5, <2>6, <2>7, StepKinds
<1>3. NoBurnHolder'
  <2>1. TypeOK'
    BY TypeOKStep
  <2>2. \A k \in Live' : Holder'[k] = rec'[k].addr /\ Holder'[k] # None /\ k \in Keys
    <3>1. \A k \in Live' : rec'[k] \in Record /\ Holder'[k] = rec'[k].addr /\ k \in Keys
      BY <2>1 DEF TypeOK, Live, Holder
    <3>2. \A r \in Record : r.addr # None
      BY NoneAssumption DEF Record
    <3> QED BY <3>1, <3>2
  <2> QED BY <1>2, <2>2 DEF NoBurnHolder
<1>4. \A k \in Keys : rotation'[k] # None => rotation'[k].to # ZeroAddress
  BY QueuedRotations DEF BurnFree
<1> QED BY <1>3, <1>4 DEF BurnFree

(* No operation binds a username to the burn address: not registration,    *)
(* not sponsorship, not a rotation that waited out its delay, not rename,  *)
(* for any number of names, addresses and pending rotations.               *)
THEOREM NeverBurned == Spec => []NoBurnHolder
<1>1. Init => BurnFree
  BY DEF Init, BurnFree, NoBurnHolder, Live
<1>2. TypeOK /\ BurnFree /\ [Next]_vars => BurnFree'
  BY BurnFreeStep
<1>3. BurnFree => NoBurnHolder
  BY DEF BurnFree
<1> QED BY <1>1, <1>2, <1>3, TypeCorrect, PTL DEF Spec

-----------------------------------------------------------------------------
(* Action properties. *)

(* A record that is verified after a rename was there before, unchanged,   *)
(* and at most the old name has gone; in whatever case the new one is      *)
(* typed.                                                                  *)
LEMMA MovedRecords ==
  ASSUME TypeOK, NEW old \in Names, NEW new \in RenameNames, Moves(old, new)
  PROVE  /\ \A j \in Keys : rec'[j] = rec[j] \/ rec'[j] = None
                              \/ (rec'[j] \in Record /\ ~rec'[j].verified)
         /\ \A j \in Keys : rec[j] # None /\ rec'[j] = None => j = Canon[old]
         /\ gen' = BumpGen(1)
<1> DEFINE k == Canon[old]
           m == Canon[new]
           r == [rec[k] EXCEPT !.verified = FALSE]
<1>1. k \in Keys /\ m \in Keys
  BY NamesAssumption, KeysFacts
<1>2. /\ rec[k] # None /\ gen' = BumpGen(1)
      /\ rec' = [[rec EXCEPT ![m] = r] EXCEPT ![k] = None]
  BY DEF Moves, Rename, HolderOrAdmin
<1>3. r \in Record /\ r # None /\ ~r.verified
  <2>1. rec[k] \in Record
    BY <1>1, <1>2 DEF TypeOK
  <2> QED BY <2>1, NoneAssumption DEF Record
<1> HIDE DEF r
<1>4. \A j \in Keys : rec'[j] = IF j = k THEN None ELSE IF j = m THEN r ELSE rec[j]
  BY <1>1, <1>2 DEF TypeOK
<1> QED BY <1>2, <1>3, <1>4

(* Verification vouches for one holder: what is verified before and after  *)
(* a step has the same holder.                                             *)
THEOREM VerificationStaysWithHolder == Spec => VerificationBoundToHolder
<1> DEFINE A == \A k \in VerifiedKeys \cap VerifiedKeys' : rec'[k].addr = rec[k].addr
<1>1. ASSUME TypeOK, TypeOK', [Next]_vars PROVE A
  <2> SUFFICES ASSUME NEW k \in VerifiedKeys, k \in VerifiedKeys'
               PROVE  Holder'[k] = Holder[k]
    BY DEF Holder, VerifiedKeys
  <2>0. k \in Keys /\ k \in Live
    BY DEF VerifiedKeys, Live
  <2>1. ASSUME Spares PROVE Holder' = Holder
    BY <2>1 DEF Spares, Holder
  <2>2. ASSUME NEW j \in Keys, NEW a \in Addresses, Registers(j, a)
        PROVE  Holder'[k] = Holder[k]
    <3>1. /\ Holder' = [Holder EXCEPT ![j] = a] /\ DOMAIN Holder = Keys
          /\ VerifiedKeys' = IF Holder[j] = a THEN VerifiedKeys ELSE VerifiedKeys \ {j}
      BY <1>1, <2>2, RegistersEffect DEF Holder
    <3> QED BY <2>0, <3>1
  <2>3. ASSUME NEW N \in SUBSET Names, Grants(N) PROVE Holder' = Holder
    BY <1>1, <2>3, GrantsEffect
  <2>4. ASSUME NEW j \in Keys, NEW b \in BOOLEAN, Withdraws(j) \/ Tags(j, b)
        PROVE  Holder' = Holder
    BY <1>1, <2>4, WithdrawsEffect, TagsEffect
  <2>5. ASSUME NEW X \in SUBSET Live, Drops(X) PROVE Holder'[k] = Holder[k]
    <3>1. k \notin X
      BY <1>1, <2>5, DropsEffect
    <3> QED BY <1>1, <2>0, <2>5, <3>1, DropsEffect
  <2>6. ASSUME NEW old \in Names, NEW new \in RenameNames, Moves(old, new)
        PROVE  Holder'[k] = Holder[k]
    <3>1. rec'[k] = rec[k] \/ rec'[k] = None \/ ~rec'[k].verified
      BY <1>1, <2>0, <2>6, MovedRecords
    <3>2. rec'[k] # None /\ rec'[k].verified
      BY DEF VerifiedKeys
    <3> QED BY <2>0, <3>1, <3>2 DEF Holder
  <2>7. ASSUME NEW n \in Names, Rotates(n) PROVE Holder'[k] = Holder[k]
    <3>1. k # Canon[n]
      BY <1>1, <2>7, RotatesEffect
    <3> QED BY <1>1, <2>0, <2>7, <3>1, RotatesEffect DEF Holder
  <2> QED BY <1>1, <2>1, <2>2, <2>3, <2>4, <2>5, <2>6, <2>7, StepKinds
<1>2. TypeOK /\ TypeOK' /\ [Next]_vars => [A]_vars
  BY <1>1
<1> QED BY <1>2, TypeCorrect, PTL DEF Spec, VerificationBoundToHolder

(* Whatever the spellings, a rename moves one record, and onto another     *)
(* live one only if the new name is not typed as its key.                  *)
LEMMA MovesOverwrite ==
  ASSUME TypeOK, NEW old \in Names, NEW new \in RenameNames, Moves(old, new),
         NEW k \in Live, k \in Live', rec'[k] # rec[k]
  PROVE  TakenOver(k)
<1> DEFINE j == Canon[old]
           m == Canon[new]
           r == [rec[j] EXCEPT !.verified = FALSE]
<1>1. j \in Keys /\ m \in Keys /\ new \in Names
  BY NamesAssumption, KeysFacts
<1>2. /\ rec[j] # None /\ ~HasRecord(new) /\ m \notin reserved
      /\ challenge[j] = None /\ challenge[m] = None /\ rotation[j] = None
      /\ rec' = [[rec EXCEPT ![m] = r] EXCEPT ![j] = None]
  BY DEF Moves, Rename, HolderOrAdmin
<1>3. r # None
  <2>1. rec[j] \in Record
    BY <1>1, <1>2 DEF TypeOK
  <2>2. r \in Record
    BY <2>1 DEF Record
  <2> QED BY <2>2, NoneAssumption
<1> HIDE DEF r
<1>4. \A i \in Keys : rec'[i] = IF i = j THEN None ELSE IF i = m THEN r ELSE rec[i]
  BY <1>1, <1>2 DEF TypeOK
<1>5. k \in Keys /\ k = m /\ k # j
  BY <1>4 DEF Live
<1>6. Live \ Live' = {j}
  <2>1. \A i \in Keys : i # j /\ rec[i] # None => rec'[i] # None
    BY <1>3, <1>4
  <2> QED BY <1>1, <1>2, <1>4, <2>1 DEF Live
<1>7. new \notin Keys
  <2>1. rec[m] # None
    BY <1>5 DEF Live
  <2>2. new \in Keys => m = new
    BY KeysFacts
  <2> QED BY <1>2, <2>1, <2>2 DEF HasRecord
<1>8. /\ j \in Live /\ rec'[k] = r
      /\ \A i \in Keys \ {j, k} : rec'[i] = rec[i]
  BY <1>1, <1>2, <1>4, <1>5 DEF Live
<1> QED BY <1>2, <1>5, <1>6, <1>7, <1>8 DEF TakenOver, r

(* When usernames leave, every record that stays stands as it was, for any *)
(* names in any spelling; a rename overwrites one only if the new name is  *)
(* a spelling of it that is not its key, and then nothing else changes and *)
(* neither name was reserved, challenged or about to rotate.               *)
THEOREM OthersAreSpared == Spec => RemovalSparesOthers
<1> DEFINE A == Live \ Live' # {}
                  => \A k \in Live \cap Live' : rec'[k] = rec[k] \/ TakenOver(k)
<1>1. ASSUME TypeOK, TypeOK', [Next]_vars PROVE A
  <2> SUFFICES ASSUME Live \ Live' # {}, NEW k \in Live, k \in Live',
                      rec'[k] # rec[k]
               PROVE  TakenOver(k)
    OBVIOUS
  <2>1. k \in Keys /\ \A j \in Keys : j \in Live' <=> rec'[j] # None
    BY DEF Live
  <2>2. ASSUME NEW j \in Keys, NEW r, r # None, rec' = [rec EXCEPT ![j] = r] PROVE FALSE
    <3>1. \A i \in Live : i \in Live'
      BY <1>1, <2>2 DEF Live, TypeOK
    <3> QED BY <3>1
  <2>3. ASSUME Live' = Live PROVE FALSE
    BY <2>3
  <2>4. ASSUME Holder' = Holder PROVE FALSE
    <3>1. \A j \in Keys : rec'[j] = None <=> Holder'[j] = None
      BY <1>1, NoneAssumption DEF TypeOK, Record, Holder
    <3> QED BY <1>1, <2>3, <2>4, <3>1, HolderFacts DEF Live
  <2>5. CASE Spares
    BY <2>5 DEF Spares
  <2>6. ASSUME NEW j \in Keys, NEW a \in Addresses, Registers(j, a) PROVE FALSE
    <3>1. rec'[j] # None
      <4>1. Holder' = [Holder EXCEPT ![j] = a] /\ DOMAIN Holder = Keys /\ a # None
        BY <1>1, <2>6, RegistersEffect, NoneAssumption DEF Holder
      <4> QED BY <4>1 DEF Holder
    <3>2. \A i \in Keys : i # j => rec'[i] = rec[i]
      BY <1>1, <2>6 DEF Registers, WriteRegistration, TypeOK
    <3> QED BY <2>1, <3>1, <3>2 DEF Live
  <2>7. ASSUME NEW N \in SUBSET Names, Grants(N) PROVE FALSE
    BY <1>1, <2>4, <2>7, GrantsEffect
  <2>8. ASSUME NEW j \in Keys, NEW b \in BOOLEAN, Withdraws(j) \/ Tags(j, b) PROVE FALSE
    BY <1>1, <2>4, <2>8, WithdrawsEffect, TagsEffect
  <2>9. ASSUME NEW X \in SUBSET Live, Drops(X) PROVE rec'[k] = rec[k]
    BY <2>1, <2>9 DEF Drops, DropRecords
  <2>10. ASSUME NEW old \in Names, NEW new \in RenameNames, Moves(old, new)
         PROVE  TakenOver(k)
    BY <1>1, <2>10, MovesOverwrite
  <2>11. ASSUME NEW n \in Names, Rotates(n) PROVE FALSE
    <3>1. Canon[n] \in Keys /\ Canon[n] \in Live /\ rec'[Canon[n]] # None
          /\ \A i \in Keys : i # Canon[n] => rec'[i] = rec[i]
      <4>1. Canon[n] \in Keys /\ Canon[n] \in Live
        BY <1>1, <2>11, RotatesEffect, KeysFacts
      <4>2. rec' = [rec EXCEPT ![Canon[n]] =
                      [rec[Canon[n]] EXCEPT !.addr = rotation[Canon[n]].to, !.verified = FALSE]]
        BY <1>1, <2>11, <4>1 DEF Rotates, ExecuteRotation, TypeOK
      <4>3. [rec[Canon[n]] EXCEPT !.addr = rotation[Canon[n]].to, !.verified = FALSE] # None
        <5>1. rec[Canon[n]] \in Record /\ rotation[Canon[n]].to \in Addresses
          BY <1>1, <2>11, <4>1, RotatesEffect, HolderFacts DEF Rotation
        <5> QED BY <5>1, NoneAssumption DEF Record
      <4> QED BY <1>1, <4>1, <4>2, <4>3 DEF TypeOK
    <3> QED BY <2>1, <3>1 DEF Live
  <2> QED BY <1>1, <2>5, <2>6, <2>7, <2>8, <2>9, <2>10, <2>11, StepKinds
<1>2. TypeOK /\ TypeOK' /\ [Next]_vars => [A]_vars
  BY <1>1
<1> QED BY <1>2, TypeCorrect, PTL DEF Spec, RemovalSparesOthers

(* While the contract is paused nothing changes a record, a counter or the *)
(* flat index.  repair_index still runs then, and rewrites the counters:   *)
(* to the values they have, because they agree with the index.             *)
THEOREM PausedRegistryStands ==
  ASSUME CanonicalRenames
  PROVE  Spec => PauseFreezesRecords
<1> DEFINE A == ~access.open => UNCHANGED <<rec, count, vcount, ever, index, gen, reverify>>
<1>1. ASSUME TypeOK, Consistent, [Next]_vars PROVE A
  <2>1. ASSUME Spares PROVE A
    BY <1>1, <2>1, RepairFindsNothing DEF Spares
  <2>2. ASSUME NEW k, NEW a, NEW N, NEW b, NEW X, NEW n, NEW m,
               Registers(k, a) \/ Grants(N) \/ Withdraws(k) \/ Tags(k, b)
                 \/ Drops(X) \/ Moves(n, m) \/ Rotates(n)
        PROVE  A
    BY <2>2 DEF Registers, Grants, Withdraws, Tags, Drops, Moves, Rotates, Operating
  <2> HIDE DEF A
  <2> QED BY <1>1, <2>1, <2>2, StepKinds
<1>2. TypeOK /\ Consistent /\ [Next]_vars => [A]_vars
  BY <1>1
<1>3. Spec => []Consistent
  BY RegistryConsistent, PTL DEF Consistent
<1> QED BY <1>2, <1>3, TypeCorrect, PTL DEF Spec, PauseFreezesRecords

(* With a threshold in force, more keys than it allows disappear in one    *)
(* invocation only when they were proposed, the invocation consumes the    *)
(* live proposal, and somebody other than its proposer could execute it.   *)
THEOREM BulkRemovalsAreDual == Spec => BulkRemovalNeedsProposal
<1> DEFINE A == cfg.threshold > 0 /\ Cardinality(Live \ Live') > cfg.threshold
                  => Confirmed(Live \ Live')
<1>1. ASSUME TypeOK, TypeOK', [Next]_vars PROVE A
  <2> SUFFICES ASSUME cfg.threshold > 0, Cardinality(Live \ Live') > cfg.threshold
               PROVE  Confirmed(Live \ Live')
    OBVIOUS
  <2> DEFINE Goal == Confirmed(Live \ Live')
  <2>1. cfg.threshold \in Nat
    BY <1>1 DEF TypeOK, Config
  <2>2. ASSUME NEW k, Live \ Live' \subseteq {k} PROVE FALSE
    <3>1. IsFiniteSet({k}) /\ Cardinality({k}) = 1
      BY FS_Singleton
    <3>2. Cardinality(Live \ Live') \in Nat /\ Cardinality(Live \ Live') <= 1
      BY <2>2, <3>1, FS_Subset, FS_CardinalityType
    <3> QED BY <2>1, <3>2
  <2>3. ASSUME NEW k \in Keys, NEW r, r # None, rec' = [rec EXCEPT ![k] = r] PROVE FALSE
    <3>1. \A j \in Live : j \in Live'
      BY <1>1, <2>3 DEF Live, TypeOK
    <3> QED BY <2>2, <3>1
  <2>4. ASSUME Holder' = Holder PROVE FALSE
    <3>1. Live' = Live
      <4>1. \A j \in Keys : rec'[j] = None <=> Holder'[j] = None
        BY <1>1, NoneAssumption DEF TypeOK, Record, Holder
      <4> QED BY <1>1, <2>4, <4>1, HolderFacts DEF Live
    <3> QED BY <2>2, <3>1
  <2>5. ASSUME Spares PROVE Goal
    BY <2>4, <2>5 DEF Spares, Holder
  <2>6. ASSUME NEW k \in Keys, NEW a \in Addresses, Registers(k, a) PROVE Goal
    <3>1. Holder' = [Holder EXCEPT ![k] = a]
      BY <1>1, <2>6, RegistersEffect
    <3>2. \A j \in Keys : rec'[j] = None <=> Holder'[j] = None
      BY <1>1, NoneAssumption DEF TypeOK, Record, Holder
    <3>3. \A j \in Live : j \in Live'
      <4>1. DOMAIN Holder = Keys /\ \A j \in Live : Holder[j] # None
        BY <1>1, HolderFacts DEF Holder
      <4> QED BY <3>1, <3>2, <4>1, NoneAssumption DEF Live
    <3> QED BY <2>2, <3>3
  <2>7. ASSUME NEW N \in SUBSET Names, Grants(N) PROVE Goal
    BY <1>1, <2>4, <2>7, GrantsEffect
  <2>8. ASSUME NEW k \in Keys, NEW b \in BOOLEAN, Withdraws(k) \/ Tags(k, b) PROVE Goal
    BY <1>1, <2>4, <2>8, WithdrawsEffect, TagsEffect
  <2>9. ASSUME NEW X \in SUBSET Live, Drops(X) PROVE Goal
    <3>1. Live \ Live' = X
      BY <1>1, <2>9, DropsEffect
    <3> QED BY <2>9, <3>1 DEF Drops
  <2>10. ASSUME NEW old \in Names, NEW new \in RenameNames, Moves(old, new) PROVE Goal
    <3>1. Live \ Live' \subseteq {Canon[old]}
      BY <1>1, <2>10, MovedRecords DEF Live
    <3> QED BY <2>2, <3>1
  <2>11. ASSUME NEW n \in Names, Rotates(n) PROVE Goal
    <3>1. rec[Canon[n]] \in Record /\ Canon[n] \in Keys
      BY <1>1, <2>11, RotatesEffect, HolderFacts, KeysFacts
    <3>2. [rec[Canon[n]] EXCEPT !.addr = rotation[Canon[n]].to, !.verified = FALSE] # None
      <4>1. rotation[Canon[n]].to \in Addresses
        BY <1>1, <2>11, RotatesEffect DEF Rotation
      <4> QED BY <3>1, <4>1, NoneAssumption DEF Record
    <3>3. rec' = [rec EXCEPT ![Canon[n]] =
                    [rec[Canon[n]] EXCEPT !.addr = rotation[Canon[n]].to, !.verified = FALSE]]
      BY <1>1, <2>11, <3>1 DEF Rotates, ExecuteRotation, TypeOK
    <3> QED BY <2>3, <3>1, <3>2, <3>3
  <2> HIDE DEF Goal
  <2> QED BY <1>1, <2>5, <2>6, <2>7, <2>8, <2>9, <2>10, <2>11, StepKinds DEF Goal
<1>2. TypeOK /\ TypeOK' /\ [Next]_vars => [A]_vars
  BY <1>1
<1> QED BY <1>2, TypeCorrect, PTL DEF Spec, BulkRemovalNeedsProposal

(* A grant by proof rests on a statement an allowlisted oracle signed for  *)
(* this username and this holder, and which has not expired.               *)
THEOREM GrantsByProofAreBacked == Spec => ProofGrantsAreBacked
<1> DEFINE A == \A n \in VerifyNames, p \in Proofs :
                  VerifyWithOracleProof(n, p) =>
                    \E s \in Statements :
                      /\ s[1] \in oracles
                      /\ s[2].name = n /\ s[2].addr = rec'[Canon[n]].addr
                      /\ s[2].expires = 0 \/ now <= s[2].expires
<1>1. ASSUME TypeOK PROVE A
  <2> SUFFICES ASSUME NEW n \in VerifyNames, NEW p \in Proofs, VerifyWithOracleProof(n, p)
               PROVE  \E s \in Statements :
                        /\ s[1] \in oracles
                        /\ s[2].name = n /\ s[2].addr = rec'[Canon[n]].addr
                        /\ s[2].expires = 0 \/ now <= s[2].expires
    OBVIOUS
  <2>1. n \in Names /\ Canon[n] \in Keys /\ rec[Canon[n]] \in Record
    BY <1>1, NamesAssumption, KeysFacts DEF VerifyWithOracleProof, Verifiable, TypeOK
  <2>2. rec'[Canon[n]].addr = rec[Canon[n]].addr
    BY <2>1 DEF VerifyWithOracleProof, GrantVerification, Record
  <2>3. /\ p.key \in oracles /\ <<p.key, p.message>> \in Statements
        /\ p.expires = 0 \/ now <= p.expires
        /\ p.message = [name |-> n, addr |-> rec[Canon[n]].addr, expires |-> p.expires]
    BY DEF VerifyWithOracleProof, VerifyOwnershipProof, VerifyWithProof, Binds,
           OwnershipMessage, InTime, SignatureVerifies
  <2> QED BY <2>2, <2>3
<1>2. TypeOK => [A]_vars
  BY <1>1
<1> QED BY <1>2, TypeCorrect, PTL DEF Spec, ProofGrantsAreBacked

-----------------------------------------------------------------------------
(* Pagination cursors. *)

(* The generation wraps, but no single invocation takes it all the way     *)
(* round: removing something always shows.                                 *)
LEMMA GenerationMoves ==
  ASSUME TypeOK, NEW r \in Nat, 0 < r, r < GenModulus
  PROVE  BumpGen(r) # gen
<1>1. gen \in Nat /\ gen < GenModulus /\ GenModulus \in Nat
  BY NumbersAssumption DEF TypeOK
<1>2. CASE gen + r < GenModulus
  <2>1. (gen + r) % GenModulus = gen + r
    BY <1>1, <1>2
  <2> QED BY <1>1, <2>1 DEF BumpGen
<1>3. CASE ~(gen + r < GenModulus)
  <2>1. gen + r - GenModulus \in 0 .. GenModulus - 1
    BY <1>1, <1>3
  <2>2. (gen + r) % GenModulus = gen + r - GenModulus
    BY <1>1, <2>1
  <2> QED BY <1>1, <2>2 DEF BumpGen
<1> QED BY <1>2, <1>3

(* While the generation stays, the flat index only grows at its end. *)
LEMMA GrowingIndex ==
  ASSUME TypeOK, [Next]_vars
  PROVE  gen' = gen => /\ Len(index) <= Len(index')
                       /\ \A i \in DOMAIN index : index'[i] = index[i]
<1> DEFINE A == gen' = gen => /\ Len(index) <= Len(index')
                              /\ \A i \in DOMAIN index : index'[i] = index[i]
<1> SUFFICES A
  OBVIOUS
<1>1. index \in Seq(Keys) /\ Len(index) \in Nat /\ DOMAIN index = 1 .. Len(index)
  BY LenProperties DEF TypeOK
<1>2. ASSUME UNCHANGED index PROVE A
  BY <1>1, <1>2
<1>3. ASSUME NEW k \in Keys, index' = Append(index, k) PROVE A
  BY <1>1, <1>3, AppendProperties
<1>4. ASSUME NEW k \in Keys, NEW a \in Addresses, Registers(k, a) PROVE A
  BY <1>2, <1>3, <1>4 DEF Registers, WriteRegistration
<1>5. ASSUME NEW X \in SUBSET Live, Drops(X) PROVE A
  <2>1. CASE X = {}
    BY <1>1, <1>2, <1>5, <2>1, WithoutNothing DEF Drops, DropRecords
  <2>2. CASE X # {}
    <3>1. Cardinality(X) # 0 /\ Cardinality(X) \in Nat /\ Cardinality(X) < GenModulus
      BY <1>5, <2>2, FS_EmptySet DEF Drops
    <3>2. BumpGen(Cardinality(X)) # gen
      BY <3>1, GenerationMoves
    <3> QED BY <1>5, <3>2 DEF Drops, DropRecords
  <2> QED BY <2>1, <2>2
<1>6. ASSUME NEW old \in Names, NEW new \in RenameNames, Moves(old, new) PROVE A
  BY <1>6, MovedRecords, GenerationMoves, NumbersAssumption
<1>7. ASSUME NEW k, NEW N, NEW b, NEW n,
             Spares \/ Grants(N) \/ Withdraws(k) \/ Tags(k, b) \/ Rotates(n)
      PROVE  A
  BY <1>2, <1>7
     DEF Spares, Grants, GrantVerification, Withdraws, Tags, Rotates, ExecuteRotation
<1> HIDE DEF A
<1> QED BY <1>4, <1>5, <1>6, <1>7, StepKinds

(* An accepted cursor points at the entry it pointed at when it was issued *)
(* or past the end: while the generation stays, the flat index only grows. *)
THEOREM CursorsSurvive == Spec => CursorsStayValid
<1> DEFINE A == gen' = gen => /\ Len(index) <= Len(index')
                              /\ \A i \in DOMAIN index : index'[i] = index[i]
<1>1. TypeOK /\ [Next]_vars => [A]_vars
  BY GrowingIndex
<1> QED BY <1>1, TypeCorrect, PTL DEF Spec, CursorsStayValid

-----------------------------------------------------------------------------
(* The pages. *)

(* A key added to the pages comes last in them: on the last page when      *)
(* there is room, else on a page of its own.                               *)
LEMMA AddedEntry ==
  ASSUME NEW ch \in Seq(Seq(Keys)), NEW k \in Keys,
         \A c \in DOMAIN ch : Len(ch[c]) <= ChunkSize
  PROVE  /\ Flatten(AddToChunks(ch, k)) = Append(Flatten(ch), k)
         /\ \A c \in DOMAIN AddToChunks(ch, k) : Len(AddToChunks(ch, k)[c]) <= ChunkSize
<1> DEFINE t == AddToChunks(ch, k)
           n == Len(ch)
<1>1. /\ n \in Nat /\ DOMAIN ch = 1 .. n /\ t \in Seq(Seq(Keys))
      /\ ChunkSize \in Nat /\ ChunkSize >= 1
  BY LenProperties, AddToChunksType, NumbersAssumption
<1>2. CASE ch = <<>> \/ Len(ch[n]) >= ChunkSize
  <2>1. t = Append(ch, <<k>>) /\ <<k>> \in Seq(Keys)
    BY <1>2 DEF AddToChunks
  <2> HIDE DEF t
  <2>2. DOMAIN t = 1 .. n + 1 /\ t[n + 1] = <<k>> /\ \A c \in 1 .. n : t[c] = ch[c]
    BY <1>1, <2>1, AppendProperties, LenProperties
  <2>3. NewPage(t, ch, k)
    BY <2>2 DEF NewPage
  <2>4. ASSUME NEW c \in DOMAIN t PROVE Len(t[c]) <= ChunkSize
    <3>1. c \in 1 .. n \/ c = n + 1
      BY <1>1, <2>2
    <3>2. Len(<<k>>) = 1
      OBVIOUS
    <3> QED BY <1>1, <2>2, <3>1, <3>2
  <2>5. Flatten(t) = Append(Flatten(ch), k)
    BY <1>1, <2>3, FlattenAdd
  <2> QED BY <2>4, <2>5 DEF t
<1>3. CASE ~(ch = <<>> \/ Len(ch[n]) >= ChunkSize)
  <2>1. n \in 1 .. n
    BY <1>1, <1>3, EmptySeq
  <2>2. ch[n] \in Seq(Keys) /\ Len(ch[n]) \in Nat /\ Len(ch[n]) < ChunkSize
    BY <1>1, <1>3, <2>1, ElementOfSeq, LenProperties
  <2>3. t = [ch EXCEPT ![n] = Append(ch[n], k)]
    BY <1>3 DEF AddToChunks
  <2> HIDE DEF t
  <2>4. /\ DOMAIN t = 1 .. n /\ t[n] = Append(ch[n], k)
        /\ \A c \in 1 .. n : c # n => t[c] = ch[c]
    BY <1>1, <2>1, <2>3
  <2>5. LastPageGrows(t, ch, k)
    BY <2>1, <2>4 DEF LastPageGrows
  <2>6. ASSUME NEW c \in DOMAIN t PROVE Len(t[c]) <= ChunkSize
    <3>1. Len(t[n]) = Len(ch[n]) + 1
      BY <2>2, <2>4, AppendProperties
    <3>2. CASE c = n
      BY <1>1, <2>2, <3>1, <3>2
    <3>3. CASE c # n
      BY <1>1, <2>4, <3>3
    <3> QED BY <3>2, <3>3
  <2>7. Flatten(t) = Append(Flatten(ch), k)
    BY <1>1, <2>5, FlattenAdd
  <2> QED BY <2>6, <2>7 DEF t
<1> QED BY <1>2, <1>3

(* Dropping each key from the first page that lists it drops it from the   *)
(* list, when no key is listed twice.                                      *)
LEMMA DroppedEntries ==
  ASSUME NEW ch \in Seq(Seq(Keys)), NEW X,
         \A c \in DOMAIN ch : Len(ch[c]) <= ChunkSize,
         \A i, j \in DOMAIN Flatten(ch) : Flatten(ch)[i] = Flatten(ch)[j] => i = j
  PROVE  /\ Flatten(DropFromChunks(ch, X)) = Without(Flatten(ch), X)
         /\ \A c \in DOMAIN DropFromChunks(ch, X) :
              Len(DropFromChunks(ch, X)[c]) <= ChunkSize
<1> DEFINE Y(c) == {k \in X : FirstPage(ch, c, k)}
           t == [c \in DOMAIN ch |-> Without(ch[c], X)]
<1>1. Len(ch) \in Nat /\ DOMAIN ch = 1 .. Len(ch) /\ ChunkSize \in Nat
  BY LenProperties, NumbersAssumption
<1>2. \A c \in DOMAIN ch : ch[c] \in Seq(Keys)
  BY <1>1, ElementOfSeq
<1>4. ASSUME NEW c \in DOMAIN ch, NEW k \in Entries(ch[c]) PROVE FirstPage(ch, c, k)
  <2> SUFFICES ASSUME NEW b \in 1 .. c - 1, k \in Entries(ch[b]) PROVE FALSE
    BY DEF FirstPage
  <2>1. b \in DOMAIN ch /\ b # c
    BY <1>1
  <2> QED BY <2>1, OnOnePage
<1>5. \A c \in DOMAIN ch : Without(ch[c], Y(c)) = Without(ch[c], X)
  <2> SUFFICES ASSUME NEW c \in DOMAIN ch
               PROVE  Entries(ch[c]) \cap Y(c) = Entries(ch[c]) \cap X
    BY WithoutSame
  <2> QED BY <1>4
<1>6. DropFromChunks(ch, X) = t
  BY <1>5 DEF DropFromChunks
<1>7. Flatten(t) = Without(Flatten(ch), X)
  BY FlattenWithout
<1>8. ASSUME NEW c \in DOMAIN ch PROVE Len(Without(ch[c], X)) <= ChunkSize
  <2> DEFINE s == ch[c]
  <2>1. s \in Seq(Keys) /\ Len(s) \in Nat /\ Len(s) <= ChunkSize
    BY <1>2, LenProperties
  <2> HIDE DEF s
  <2>2. Len(Without(s, X)) \in Nat /\ Len(Without(s, X)) <= Len(s)
    <3>1. Without(s, X) \in Seq(Keys)
      BY <2>1, WithoutFacts
    <3> QED BY <2>1, <3>1, WithoutShorter, LenProperties
  <2>3. Len(Without(s, X)) <= ChunkSize
    BY <1>1, <2>1, <2>2
  <2> QED BY <2>3 DEF s
<1> QED BY <1>6, <1>7, <1>8

(* No step takes the pages and the flat index apart. *)
LEMMA PagesStep ==
  ASSUME CanonicalRenames, TypeOK, Consistent, PagesMatchIndex, [Next]_vars
  PROVE  PagesMatchIndex'
<1>1. /\ index \in Seq(Keys) /\ chunks \in Seq(Seq(Keys))
      /\ Entries(index) = Live /\ \A i, j \in DOMAIN index : index[i] = index[j] => i = j
      /\ Flatten(chunks) = index /\ \A c \in DOMAIN chunks : Len(chunks[c]) <= ChunkSize
  BY DEF TypeOK, Consistent, IndexMatchesRecords, PagesMatchIndex
<1>2. CASE UNCHANGED <<index, chunks>>
  BY <1>2 DEF PagesMatchIndex
<1>3. CASE CompactIndex
  <2>1. chunks' = Cut(index, ChunkSize) /\ index' = index /\ ChunkSize \in Nat \ {0}
    BY <1>3, NumbersAssumption DEF CompactIndex
  <2> QED BY <1>1, <2>1, FlattenCut DEF PagesMatchIndex
<1>4. ASSUME NEW k \in Keys, NEW a \in Addresses, Registers(k, a) PROVE PagesMatchIndex'
  <2>1. \/ UNCHANGED <<index, chunks>>
        \/ index' = Append(index, k) /\ chunks' = AddToChunks(chunks, k)
    BY <1>4 DEF Registers, WriteRegistration
  <2> QED BY <1>1, <1>2, <2>1, AddedEntry DEF PagesMatchIndex
<1>5. ASSUME NEW X \in SUBSET Live, Drops(X) PROVE PagesMatchIndex'
  <2>1. index' = Without(index, X) /\ chunks' = DropFromChunks(chunks, X)
    BY <1>5 DEF Drops, DropRecords
  <2> QED BY <1>1, <2>1, DroppedEntries DEF PagesMatchIndex
<1>6. ASSUME NEW old \in Names, NEW new \in RenameNames, Moves(old, new)
      PROVE  PagesMatchIndex'
  <2> DEFINE k == Canon[old]
             s == Append(index, new)
             t == AddToChunks(chunks, new)
  <2>1. Canon[new] = new /\ new \in Keys \ Live
    BY <1>6, MovesEffect
  <2>2. index' = Without(s, {k}) /\ chunks' = DropFromChunks(t, {k})
    BY <1>6, <2>1 DEF Moves, Rename
  <2>3. \A i, j \in DOMAIN s : s[i] = s[j] => i = j
    <3>1. index \in Seq(Keys) /\ new \in Keys
      BY <1>1, <2>1
    <3>2. (\A i, j \in DOMAIN index : index[i] = index[j] => i = j) /\ new \notin Entries(index)
            => \A i, j \in DOMAIN s : s[i] = s[j] => i = j
      BY <3>1, AppendFacts
    <3> HIDE DEF s
    <3> QED BY <1>1, <2>1, <3>2
  <2>4. Flatten(t) = s /\ t \in Seq(Seq(Keys)) /\ \A c \in DOMAIN t : Len(t[c]) <= ChunkSize
    <3>1. new \in Keys /\ t \in Seq(Seq(Keys))
      BY <1>1, <2>1, AddToChunksType
    <3> QED BY <1>1, <3>1, AddedEntry
  <2> HIDE DEF s, t, k
  <2>5. /\ Flatten(chunks') = index'
        /\ \A c \in DOMAIN chunks' : Len(chunks'[c]) <= ChunkSize
    BY <2>2, <2>3, <2>4, DroppedEntries
  <2> QED BY <2>5 DEF PagesMatchIndex
<1>7. ASSUME NEW k, NEW N, NEW b, NEW n,
             Spares \/ Grants(N) \/ Withdraws(k) \/ Tags(k, b) \/ Rotates(n)
      PROVE  PagesMatchIndex'
  BY <1>2, <1>3, <1>7
     DEF Spares, Grants, GrantVerification, Withdraws, Tags, Rotates, ExecuteRotation
<1> QED BY <1>4, <1>5, <1>6, <1>7, StepKinds

(* The pages of the chunked index, read in order, are the flat index after *)
(* any calls, so both exports count in the same order; this rests on no    *)
(* key being listed twice, or a removal would leave the second entry on    *)
(* its page.                                                               *)
THEOREM PagesAgree ==
  ASSUME CanonicalRenames
  PROVE  Spec => []PagesMatchIndex
<1>1. Init => PagesMatchIndex
  <2> SUFFICES ASSUME Init PROVE Flatten(<<>>) = <<>>
    BY DEF Init, PagesMatchIndex
  <2>1. <<>> \in Seq(Seq(Keys)) /\ DOMAIN <<>> = {}
    OBVIOUS
  <2>2. Slots(<<>>) = {}
    BY <2>1, SlotFacts
  <2>3. Len(Flatten(<<>>)) = 0 /\ Flatten(<<>>) \in Seq(Keys)
    BY <2>1, <2>2, FlattenFacts, FS_EmptySet
  <2> QED BY <2>3, EmptySeq, LenProperties
<1>2. TypeOK /\ Consistent /\ PagesMatchIndex /\ [Next]_vars => PagesMatchIndex'
  BY PagesStep
<1>3. CountersMatchRecords /\ IndexMatchesRecords /\ ReverifyFlagsAreLive
        /\ EverCoversVerified => Consistent
  BY DEF Consistent
<1> QED BY <1>1, <1>2, <1>3, TypeCorrect, RegistryConsistent, PTL DEF Spec

-----------------------------------------------------------------------------
(* The refinement. *)

(* The abstract state says who holds which name. *)
LEMMA AbstractBound ==
  ASSUME TypeOK
  PROVE  Abstract!Bound = Live /\ VerifiedKeys \subseteq Live /\ Live \subseteq Keys
<1>1. Live = {k \in Keys : Holder[k] # None}
  BY HolderFacts
<1> QED BY <1>1 DEF Abstract!Bound, VerifiedKeys, Live

(* A key whose holder is set to an address other than the burn address is  *)
(* claimed, transferred or left alone; vouching ends with a transfer.      *)
LEMMA RebindMaps ==
  ASSUME TypeOK, access.open, UNCHANGED access,
         NEW k \in Keys, NEW a \in Addresses \ {ZeroAddress},
         Holder' = [Holder EXCEPT ![k] = a],
         \/ VerifiedKeys' = VerifiedKeys \ {k}
         \/ Holder[k] = a /\ VerifiedKeys' = VerifiedKeys
  PROVE  Abstract!Next \/ UNCHANGED <<Holder, VerifiedKeys, access.open>>
<1>1. Abstract!Bound = Live /\ VerifiedKeys \subseteq Live
  BY AbstractBound
<1>2. Holder = [Holder EXCEPT ![k] = Holder[k]]
  BY DEF Holder
<1>3. CASE k \notin Live
  <2>1. VerifiedKeys' = VerifiedKeys
    BY <1>1, <1>3
  <2>2. Abstract!Claim(k, a)
    BY <1>1, <1>3, <2>1 DEF Abstract!Claim
  <2> QED BY <2>2 DEF Abstract!Next, Abstract!Operate
<1>4. CASE k \in Live /\ Holder[k] # a
  <2>1. Abstract!Transfer(k, a)
    BY <1>1, <1>4 DEF Abstract!Transfer
  <2> QED BY <2>1 DEF Abstract!Next, Abstract!Operate
<1>5. CASE Holder[k] = a /\ VerifiedKeys' = VerifiedKeys
  BY <1>2, <1>5
<1>6. CASE Holder[k] = a /\ VerifiedKeys' = VerifiedKeys \ {k}
  <2>1. Abstract!Withdraw(k)
    BY <1>2, <1>6 DEF Abstract!Withdraw
  <2> QED BY <2>1 DEF Abstract!Next, Abstract!Operate
<1> QED BY <1>3, <1>4, <1>5, <1>6

(* Every step of the registry is a step of AbstractRegistry or none. *)
LEMMA StepMaps ==
  ASSUME CanonicalRenames, TypeOK, TypeOK', BurnFree, [Next]_vars
  PROVE  [Abstract!Next]_<<Holder, VerifiedKeys, access.open>>
<1> DEFINE Goal == Abstract!Next \/ UNCHANGED <<Holder, VerifiedKeys, access.open>>
<1> SUFFICES Goal
  OBVIOUS
<1> USE AbstractBound
<1>1. access'.open \in BOOLEAN
  BY CallersAssumption DEF TypeOK, Access
<1>2. CASE Spares
  <2>1. UNCHANGED <<Holder, VerifiedKeys>>
    BY <1>2 DEF Spares, Holder, VerifiedKeys
  <2> QED BY <1>1, <2>1 DEF Abstract!Next, Abstract!OpenOrClose
<1>3. ASSUME NEW k \in Keys, NEW a \in Addresses, Registers(k, a) PROVE Goal
  <2>1. access.open /\ UNCHANGED access /\ a \in Addresses \ {ZeroAddress}
    BY <1>3 DEF Registers, Operating
  <2>2. /\ Holder' = [Holder EXCEPT ![k] = a]
        /\ VerifiedKeys' = IF Holder[k] = a THEN VerifiedKeys ELSE VerifiedKeys \ {k}
    BY <1>3, RegistersEffect
  <2> QED BY <2>1, <2>2, RebindMaps
<1>4. ASSUME NEW N \in SUBSET Names, Grants(N) PROVE Goal
  <2> DEFINE U == {Canon[n] : n \in N}
  <2>1. /\ UNCHANGED Holder /\ U \subseteq Live /\ VerifiedKeys' = VerifiedKeys \cup U
        /\ access.open /\ UNCHANGED access
    BY <1>4, GrantsEffect DEF Grants, Operating
  <2> HIDE DEF U
  <2>2. Abstract!Vouch(U) /\ U \in SUBSET Keys
    BY <2>1 DEF Abstract!Vouch
  <2> QED BY <2>1, <2>2 DEF Abstract!Next, Abstract!Operate
<1>5. ASSUME NEW k \in Keys, Withdraws(k) PROVE Goal
  <2>1. Abstract!Withdraw(k) /\ access.open /\ UNCHANGED access
    BY <1>5, WithdrawsEffect DEF Abstract!Withdraw, Withdraws, Operating
  <2> QED BY <2>1 DEF Abstract!Next, Abstract!Operate
<1>6. ASSUME NEW k \in Keys, NEW b \in BOOLEAN, Tags(k, b) PROVE Goal
  BY <1>6, TagsEffect DEF Tags, Operating
<1>7. ASSUME NEW X \in SUBSET Live, Drops(X) PROVE Goal
  <2>1. Abstract!Release(X) /\ access.open /\ UNCHANGED access /\ X \in SUBSET Keys
    BY <1>7, DropsEffect DEF Abstract!Release, Drops, Operating
  <2> QED BY <2>1 DEF Abstract!Next, Abstract!Operate
<1>8. ASSUME NEW old \in Names, NEW new \in RenameNames, Moves(old, new) PROVE Goal
  <2>1. Abstract!Move(Canon[old], new)
    BY <1>8, MovesEffect DEF Abstract!Move
  <2>2. access.open /\ UNCHANGED access /\ Canon[old] \in Keys /\ new \in Keys
    BY <1>8, KeysFacts DEF Moves, Operating, CanonicalRenames
  <2> QED BY <2>1, <2>2 DEF Abstract!Next, Abstract!Operate
<1>9. ASSUME NEW n \in Names, Rotates(n) PROVE Goal
  <2>1. /\ Canon[n] \in Keys /\ rotation[Canon[n]] \in Rotation
        /\ Holder' = [Holder EXCEPT ![Canon[n]] = rotation[Canon[n]].to]
        /\ VerifiedKeys' = VerifiedKeys \ {Canon[n]}
    BY <1>9, KeysFacts, RotatesEffect
  <2>2. rotation[Canon[n]].to \in Addresses \ {ZeroAddress}
    BY <1>9, <2>1 DEF BurnFree, Rotates, ExecuteRotation, Rotation
  <2>3. access.open /\ UNCHANGED access
    BY <1>9 DEF Rotates, Operating
  <2> QED BY <2>1, <2>2, <2>3, RebindMaps
<1> HIDE DEF Goal
<1> QED BY <1>2, <1>3, <1>4, <1>5, <1>6, <1>7, <1>8, <1>9, StepKinds

(* The registry implements AbstractRegistry: with every username list,     *)
(* index and timer there is, a holder and the vouching for it change only  *)
(* by claim, transfer, move, release, vouch and withdraw, and not while    *)
(* the contract is paused; of rename, with its new name in lower case.     *)
THEOREM RegistryImplementsAbstract ==
  ASSUME CanonicalRenames
  PROVE  Spec => ImplementsAbstract
<1>1. Init => Abstract!Init
  BY CallersAssumption DEF Init, Abstract!Init, Holder, VerifiedKeys, Access
<1>2. Init => BurnFree
  BY DEF Init, BurnFree, NoBurnHolder, Live
<1>3. TypeOK /\ BurnFree /\ [Next]_vars => BurnFree'
  BY BurnFreeStep
<1>4. TypeOK /\ TypeOK' /\ BurnFree /\ [Next]_vars
        => [Abstract!Next]_<<Holder, VerifiedKeys, access.open>>
  BY StepMaps
<1> QED BY <1>1, <1>2, <1>3, <1>4, TypeCorrect, PTL
        DEF Spec, ImplementsAbstract, Abstract!Spec

-----------------------------------------------------------------------------
(* The usernames. *)

(* What the walk over the bytes of s ends with. *)
Walked(s) == SU!FoldLeft(WalkByte, [hyphen |-> FALSE, ok |-> TRUE], s)

(* The walk visits the bytes in order: its state after each of them. *)
LEMMA WalkUnrolls ==
  ASSUME NEW S, NEW s \in Seq(S)
  PROVE  \E w : /\ w[0] = [hyphen |-> FALSE, ok |-> TRUE] /\ w[Len(s)] = Walked(s)
                /\ \A i \in 1 .. Len(s) : w[i] = WalkByte(w[i - 1], s[i])
<1> DEFINE start == [hyphen |-> FALSE, ok |-> TRUE]
           c(T) == SU!Max(T)
           Fold(f, A) == f = [T \in SUBSET A |->
                                IF T = {} THEN start ELSE WalkByte(f[T \ {c(T)}], s[c(T)])]
           H == {n \in Nat : \E f : Fold(f, 1 .. n)}
<1>1. DOMAIN s = 1 .. Len(s) /\ Len(s) \in Nat
  BY LenProperties
<1>2. \A n \in Nat : \A T \in SUBSET (1 .. n) : T # {} => c(T) \in T /\ \A i \in T : i <= c(T)
  <2> SUFFICES ASSUME NEW n \in Nat, NEW T \in SUBSET (1 .. n), T # {}
               PROVE  c(T) \in T /\ \A i \in T : i <= c(T)
    OBVIOUS
  <2>1. IsFiniteSet(T) /\ Cardinality(T) \in Nat /\ Cardinality(T) # 0
    <3>1. IsFiniteSet(1 .. n)
      BY FS_Interval
    <3>2. IsFiniteSet(T)
      BY <3>1, FS_Subset
    <3> QED BY <3>2, FS_CardinalityType, FS_EmptySet
  <2>2. PICK m \in T : Rank(T, m) = Cardinality(T)
    <3>1. T \subseteq Nat /\ Cardinality(T) \in 1 .. Cardinality(T)
      BY <2>1
    <3> QED BY <2>1, <3>1, RankNumbers
  <2>3. \A i \in T : i <= m
    <3> SUFFICES ASSUME NEW i \in T, m < i PROVE FALSE
      OBVIOUS
    <3>1. T \subseteq Nat
      OBVIOUS
    <3>2. Rank(T, m) < Rank(T, i) /\ Rank(T, i) \in 1 .. Cardinality(T)
      BY <2>1, <3>1, RankNumbers
    <3> QED BY <2>1, <2>2, <3>2
  <2>4. \E x \in T : \A y \in T : x >= y
    BY <2>3
  <2> QED BY <2>4 DEF SU!Max
<1> HIDE DEF c
<1>3. 0 \in H
  <2> DEFINE f == [T \in SUBSET (1 .. 0) |-> start]
  <2>1. \A T \in SUBSET (1 .. 0) : T = {}
    OBVIOUS
  <2>2. Fold(f, 1 .. 0)
    BY <2>1
  <2> HIDE DEF f, Fold
  <2> QED BY <2>2
<1>4. ASSUME NEW n \in Nat, n \in H PROVE n + 1 \in H
  <2>1. PICK f : Fold(f, 1 .. n)
    BY <1>4
  <2> DEFINE A == SUBSET (1 .. n)
             B == SUBSET (1 .. n + 1)
             g == [T \in B |-> IF T = {} THEN start ELSE WalkByte(f[T \ {c(T)}], s[c(T)])]
  <2>2. \A T \in A : T \in B /\ g[T] = f[T]
    <3> SUFFICES ASSUME NEW T \in A PROVE T \in B /\ g[T] = f[T]
      OBVIOUS
    <3>1. T \in B
      OBVIOUS
    <3>2. f[T] = IF T = {} THEN start ELSE WalkByte(f[T \ {c(T)}], s[c(T)])
      BY <2>1
    <3>3. g[T] = IF T = {} THEN start ELSE WalkByte(f[T \ {c(T)}], s[c(T)])
      BY <3>1
    <3> QED BY <3>1, <3>2, <3>3
  <2>3. \A T \in B : T # {} => T \ {c(T)} \in A
    <3> SUFFICES ASSUME NEW T \in B, T # {}, NEW i \in T, i # c(T) PROVE i \in 1 .. n
      OBVIOUS
    <3>1. c(T) \in T /\ i <= c(T)
      <4>1. n + 1 \in Nat
        OBVIOUS
      <4> QED BY <1>2, <4>1
    <3>2. i \in 1 .. n + 1 /\ c(T) \in 1 .. n + 1
      BY <3>1
    <3> QED BY <3>1, <3>2
  <2>4. \A T \in B : T # {} => g[T \ {c(T)}] = f[T \ {c(T)}]
    BY <2>2, <2>3
  <2>5. Fold(g, 1 .. n + 1)
    BY <2>4
  <2> HIDE DEF g, Fold
  <2> QED BY <2>5
<1>5. \E f : Fold(f, DOMAIN s)
  <2>1. Nat \subseteq H
    <3> HIDE DEF H
    <3> QED BY <1>3, <1>4, CountingUp
  <2> QED BY <1>1, <2>1
<1> DEFINE f == CHOOSE f : Fold(f, DOMAIN s)
<1>6. Fold(f, DOMAIN s)
  BY <1>5
<1>7. f[DOMAIN s] = Walked(s)
  BY DEF Walked, SU!FoldLeft, SU!MapThenFoldSet, c
<1> HIDE DEF f
<1> DEFINE w == [i \in 0 .. Len(s) |-> f[1 .. i]]
<1>8. \A T \in SUBSET (1 .. Len(s)) :
        f[T] = IF T = {} THEN start ELSE WalkByte(f[T \ {c(T)}], s[c(T)])
  BY <1>1, <1>6
<1>9. w[0] = start
  <2>1. w[0] = f[{}]
    BY <1>1
  <2> QED BY <1>8, <2>1
<1>10. w[Len(s)] = Walked(s)
  BY <1>1, <1>7
<1>11. ASSUME NEW i \in 1 .. Len(s) PROVE w[i] = WalkByte(w[i - 1], s[i])
  <2>1. i \in Nat /\ i - 1 \in 0 .. Len(s) /\ i \in 0 .. Len(s) /\ 1 .. i \in SUBSET (1 .. Len(s))
    BY <1>1
  <2>2. c(1 .. i) = i
    <3>1. 1 .. i \in SUBSET (1 .. i) /\ 1 .. i # {} /\ i \in 1 .. i
      BY <2>1
    <3>2. c(1 .. i) \in 1 .. i /\ i <= c(1 .. i)
      BY <1>2, <2>1, <3>1
    <3> QED BY <2>1, <3>2
  <2>3. (1 .. i) \ {i} = 1 .. i - 1 /\ 1 .. i # {}
    BY <2>1
  <2>4. f[1 .. i] = WalkByte(f[1 .. i - 1], s[i])
    BY <1>8, <2>1, <2>2, <2>3
  <2> QED BY <2>1, <2>4
<1> HIDE DEF w
<1> QED BY <1>9, <1>10, <1>11

(* What one byte does to the state of the walk. *)
LEMMA WalkByteFacts ==
  ASSUME NEW v, NEW b
  PROVE  /\ WalkByte(v, b).hyphen <=> b = "-"
         /\ WalkByte(v, b).ok <=> v.ok /\ IF b = "-" THEN ~v.hyphen ELSE b \in Alphanumeric \cup {"_"}
BY Zenon DEF WalkByte

Plain(b) == b \in Alphanumeric \cup {"-", "_"}

(* The state v tells whether byte n is a hyphen and whether all bytes up   *)
(* to it are acceptable.                                                   *)
Tells(v, s, n) ==
  /\ v.hyphen <=> n # 0 /\ s[n] = "-"
  /\ v.ok <=> /\ \A i \in 1 .. n : Plain(s[i])
              /\ ~ \E i \in 1 .. n - 1 : s[i] = "-" /\ s[i + 1] = "-"

LEMMA WalkStep ==
  ASSUME NEW v, NEW s, NEW n \in Nat, Tells(v, s, n)
  PROVE  Tells(WalkByte(v, s[n + 1]), s, n + 1)
<1> DEFINE b == s[n + 1]
           Pair(i) == s[i] = "-" /\ s[i + 1] = "-"
<1>1. (\A i \in 1 .. n + 1 : Plain(s[i])) <=> (\A i \in 1 .. n : Plain(s[i])) /\ Plain(b)
  <2>1. \A i : i \in 1 .. n + 1 <=> i \in 1 .. n \/ i = n + 1
    OBVIOUS
  <2> QED BY <2>1
<1>2. (\E i \in 1 .. (n + 1) - 1 : Pair(i)) <=> (\E i \in 1 .. n - 1 : Pair(i)) \/ (n # 0 /\ Pair(n))
  <2>1. \A i : i \in 1 .. (n + 1) - 1 <=> i \in 1 .. n - 1 \/ (n # 0 /\ i = n)
    OBVIOUS
  <2> HIDE DEF Pair
  <2> QED BY <2>1
<1>3. v.hyphen <=> n # 0 /\ s[n] = "-"
  BY DEF Tells
<1>4. v.ok <=> (\A i \in 1 .. n : Plain(s[i])) /\ ~ \E i \in 1 .. n - 1 : Pair(i)
  BY DEF Tells
<1>5. "-" \notin Alphanumeric \cup {"_"}
  BY DEF Alphanumeric, Upper, Lower
<1>6. (IF b = "-" THEN ~v.hyphen ELSE b \in Alphanumeric \cup {"_"})
        <=> Plain(b) /\ ~(n # 0 /\ Pair(n))
  <2>1. Plain(b) <=> b = "-" \/ b \in Alphanumeric \cup {"_"}
    BY DEF Plain
  <2>2. Pair(n) <=> s[n] = "-" /\ b = "-"
    OBVIOUS
  <2> HIDE DEF Pair, b
  <2> QED BY <1>3, <1>5, <2>1, <2>2
<1> DEFINE w == WalkByte(v, b)
<1>7. /\ w.hyphen <=> b = "-"
      /\ w.ok <=> v.ok /\ IF b = "-" THEN ~v.hyphen ELSE b \in Alphanumeric \cup {"_"}
  BY WalkByteFacts
<1>8. n + 1 # 0
  OBVIOUS
<1>9. w.ok <=> /\ \A i \in 1 .. n + 1 : Plain(s[i])
               /\ ~ \E i \in 1 .. (n + 1) - 1 : Pair(i)
  <2> HIDE DEF w, b, Pair
  <2> QED BY <1>1, <1>2, <1>4, <1>6, <1>7
<1> HIDE DEF w
<1> QED BY <1>7, <1>8, <1>9 DEF Tells, w

(* The walk accepts the strings without a foreign byte or a double hyphen. *)
LEMMA WalkFacts ==
  ASSUME NEW S, NEW s \in Seq(S)
  PROVE  Walked(s).ok <=> /\ \A i \in DOMAIN s : Plain(s[i])
                          /\ ~ \E i \in 1 .. Len(s) - 1 : s[i] = "-" /\ s[i + 1] = "-"
<1>1. PICK w : /\ w[0] = [hyphen |-> FALSE, ok |-> TRUE] /\ w[Len(s)] = Walked(s)
               /\ \A i \in 1 .. Len(s) : w[i] = WalkByte(w[i - 1], s[i])
  BY WalkUnrolls
<1>2. DOMAIN s = 1 .. Len(s) /\ Len(s) \in Nat
  BY LenProperties
<1> DEFINE G == {n \in Nat : n <= Len(s) => Tells(w[n], s, n)}
<1>3. 0 \in G
  <2>1. ~w[0].hyphen /\ w[0].ok
    BY <1>1
  <2>2. 1 .. 0 = {} /\ 1 .. 0 - 1 = {}
    OBVIOUS
  <2>3. Tells(w[0], s, 0)
    BY <2>1, <2>2 DEF Tells
  <2> QED BY <2>3
<1>4. ASSUME NEW n \in Nat, n \in G PROVE n + 1 \in G
  <2>1. ASSUME n + 1 <= Len(s) PROVE Tells(w[n + 1], s, n + 1)
    <3>1. n + 1 \in 1 .. Len(s) /\ (n + 1) - 1 = n /\ Tells(w[n], s, n)
      BY <1>2, <1>4, <2>1
    <3>2. w[n + 1] = WalkByte(w[n], s[n + 1])
      BY <1>1, <3>1
    <3> QED BY <3>1, <3>2, WalkStep
  <2> QED BY <2>1
<1>5. Tells(w[Len(s)], s, Len(s))
  <2>1. Nat \subseteq G
    <3> HIDE DEF G
    <3> QED BY <1>3, <1>4, CountingUp
  <2> QED BY <1>2, <2>1
<1> QED BY <1>1, <1>2, <1>5 DEF Tells

(* is_valid_github_username accepts exactly what its documentation lists,  *)
(* for every string of any bytes and every limit the buffer can hold.      *)
THEOREM ValidNames ==
  ASSUME NEW S, NEW s \in Seq(S), NEW max \in Nat, NEW buf \in Nat, max <= buf
  PROVE  IsValidGithubUsername(s, max, buf) <=> DocumentedlyValid(s, max)
<1>1. DOMAIN s = 1 .. Len(s) /\ Len(s) \in Nat
  BY LenProperties
<1>2. SU!FoldLeft(WalkByte, [hyphen |-> FALSE, ok |-> TRUE], s).ok <=> Walked(s).ok
  BY DEF Walked
<1> DEFINE X == \A i \in DOMAIN s : Plain(s[i])
           Y == ~ \E i \in 1 .. Len(s) - 1 : s[i] = "-" /\ s[i + 1] = "-"
           Ends == s[1] \in Alphanumeric /\ s[Len(s)] \in Alphanumeric
<1>3. Walked(s).ok <=> X /\ Y
  BY WalkFacts
<1>4. IsValidGithubUsername(s, max, buf)
        <=> Len(s) <= max /\ Len(s) # 0 /\ Len(s) <= buf /\ Ends /\ Walked(s).ok
  BY <1>2 DEF IsValidGithubUsername, Buffered
<1>5. DocumentedlyValid(s, max) <=> Len(s) \in 1 .. max /\ X /\ Ends /\ Y
  BY DEF DocumentedlyValid, Plain
<1> HIDE DEF X, Y, Ends
<1> QED BY <1>1, <1>3, <1>4, <1>5

(* The fold of a byte. *)
LEMMA LowerFacts ==
  ASSUME NEW b
  PROVE  /\ LowerByte(LowerByte(b)) = LowerByte(b)
         /\ LowerByte(b) \in Alphanumeric <=> b \in Alphanumeric
         /\ LowerByte(b) = "-" <=> b = "-"
         /\ LowerByte(b) = "_" <=> b = "_"
BY DEF LowerByte, Alphanumeric, Upper, Lower

(* For the names that can be registered the fold is what Registry assumes  *)
(* of Canon: it leads to a name that can be registered, folding again      *)
(* changes nothing, and two names share a key exactly if                   *)
(* eq_ignore_ascii_case identifies them.                                   *)
THEOREM FoldMakesKeys ==
  ASSUME NEW S, NEW s \in Seq(S), NEW t \in Seq(S), NEW max \in Nat, NEW buf \in Nat, max <= buf,
         IsValidGithubUsername(s, max, buf), IsValidGithubUsername(t, max, buf)
  PROVE  LET Fold(n) == CanonicalizeUsername(n, buf)
         IN  /\ IsValidGithubUsername(Fold(s), max, buf)
             /\ Fold(Fold(s)) = Fold(s)
             /\ EqIgnoreAsciiCase(s, t, buf) <=> Fold(s) = Fold(t)
<1> DEFINE Fold(n) == CanonicalizeUsername(n, buf)
           f == Fold(s)
           g == Fold(t)
<1>1. /\ DOMAIN s = 1 .. Len(s) /\ Len(s) \in Nat /\ DOMAIN t = 1 .. Len(t) /\ Len(t) \in Nat
  BY LenProperties
<1>2. Buffered(s, buf) /\ Buffered(t, buf)
  BY DEF IsValidGithubUsername
<1>3. f = [i \in DOMAIN s |-> LowerByte(s[i])] /\ g = [i \in DOMAIN t |-> LowerByte(t[i])]
  BY <1>2 DEF CanonicalizeUsername
<1> DEFINE R == {LowerByte(s[i]) : i \in DOMAIN s}
<1>4. f \in Seq(R) /\ Len(f) = Len(s) /\ DOMAIN f = DOMAIN s
  <2>1. f \in [1 .. Len(s) -> R]
    BY <1>1, <1>3
  <2> HIDE DEF f, R
  <2> QED BY <1>1, <2>1
<1>5. DocumentedlyValid(s, max)
  BY ValidNames
<1>6. DocumentedlyValid(f, max)
  <2>1. \A i \in DOMAIN s : f[i] = LowerByte(s[i])
    BY <1>3
  <2> HIDE DEF f, R
  <2>2. Len(f) \in 1 .. max
    BY <1>4, <1>5 DEF DocumentedlyValid
  <2>3. \A i \in DOMAIN f : f[i] \in Alphanumeric \cup {"-", "_"}
    <3>1. \A i \in DOMAIN s : s[i] \in Alphanumeric \/ s[i] = "-" \/ s[i] = "_"
      BY <1>5 DEF DocumentedlyValid
    <3>2. ASSUME NEW i \in DOMAIN s PROVE f[i] \in Alphanumeric \cup {"-", "_"}
      <4>1. /\ LowerByte(s[i]) \in Alphanumeric <=> s[i] \in Alphanumeric
            /\ LowerByte(s[i]) = "-" <=> s[i] = "-"
            /\ LowerByte(s[i]) = "_" <=> s[i] = "_"
        BY LowerFacts
      <4>2. f[i] = LowerByte(s[i])
        BY <2>1, <3>2
      <4> QED BY <3>1, <3>2, <4>1, <4>2
    <3> QED BY <1>4, <3>2
  <2>4. f[1] \in Alphanumeric /\ f[Len(f)] \in Alphanumeric
    <3>1. 1 \in DOMAIN s /\ Len(s) \in DOMAIN s
      <4>1. Len(s) \in 1 .. max
        BY <1>5 DEF DocumentedlyValid
      <4> QED BY <1>1, <4>1
    <3>2. s[1] \in Alphanumeric /\ s[Len(s)] \in Alphanumeric
      BY <1>5 DEF DocumentedlyValid
    <3>3. f[1] = LowerByte(s[1]) /\ f[Len(f)] = LowerByte(s[Len(s)])
      BY <1>4, <2>1, <3>1
    <3> QED BY <3>2, <3>3, LowerFacts
  <2>5. ~ \E i \in 1 .. Len(f) - 1 : f[i] = "-" /\ f[i + 1] = "-"
    <3> SUFFICES ASSUME NEW i \in 1 .. Len(s) - 1, f[i] = "-", f[i + 1] = "-" PROVE FALSE
      BY <1>4
    <3>1. i \in DOMAIN s /\ i + 1 \in DOMAIN s
      BY <1>1
    <3>2. s[i] = "-" /\ s[i + 1] = "-"
      BY <2>1, <3>1, LowerFacts
    <3> QED BY <1>5, <3>2 DEF DocumentedlyValid
  <2> QED BY <2>2, <2>3, <2>4, <2>5 DEF DocumentedlyValid
<1>7. IsValidGithubUsername(f, max, buf)
  <2> HIDE DEF f, R
  <2> QED BY <1>4, <1>6, ValidNames
<1>8. Fold(f) = f
  <2>1. Buffered(f, buf)
    <3> HIDE DEF f, R
    <3> QED BY <1>2, <1>4 DEF Buffered
  <2>2. Fold(f) = [i \in DOMAIN f |-> LowerByte(f[i])]
    <3> HIDE DEF f
    <3> QED BY <2>1 DEF CanonicalizeUsername
  <2>3. \A i \in DOMAIN f : LowerByte(f[i]) = f[i]
    <3>1. ASSUME NEW i \in DOMAIN s PROVE LowerByte(f[i]) = f[i]
      <4>1. f[i] = LowerByte(s[i])
        BY <1>3, <3>1
      <4> HIDE DEF f
      <4> QED BY <4>1, LowerFacts
    <3> QED BY <1>4, <3>1
  <2>4. f = [i \in DOMAIN f |-> f[i]]
    BY <1>3
  <2> HIDE DEF f, Fold
  <2> QED BY <2>2, <2>3, <2>4
<1>9. EqIgnoreAsciiCase(s, t, buf) <=> f = g
  <2>1. s # <<>>
    BY <1>2, EmptySeq DEF Buffered
  <2>2. EqIgnoreAsciiCase(s, t, buf)
          <=> Len(s) = Len(t) /\ \A i \in DOMAIN s : LowerByte(s[i]) = LowerByte(t[i])
    BY <1>2, <2>1 DEF EqIgnoreAsciiCase
  <2>3. ASSUME f = g PROVE Len(s) = Len(t)
    <3>1. DOMAIN f = DOMAIN s /\ DOMAIN g = DOMAIN t
      BY <1>3
    <3>2. 1 .. Len(s) = 1 .. Len(t)
      BY <1>1, <2>3, <3>1
    <3>3. \A m, n \in Nat : 1 .. m = 1 .. n => m = n
      <4> SUFFICES ASSUME NEW m \in Nat, NEW n \in Nat, 1 .. m = 1 .. n, m < n PROVE FALSE
        OBVIOUS
      <4>1. n \in 1 .. n /\ n \notin 1 .. m
        OBVIOUS
      <4> QED BY <4>1
    <3>4. Len(s) \in Nat /\ Len(t) \in Nat
      BY <1>1
    <3> QED BY <3>2, <3>3, <3>4
  <2>4. ASSUME Len(s) = Len(t)
        PROVE  f = g <=> \A i \in DOMAIN s : LowerByte(s[i]) = LowerByte(t[i])
    <3>1. DOMAIN s = DOMAIN t
      BY <1>1, <2>4
    <3> QED BY <1>3, <3>1
  <2> HIDE DEF f, g
  <2> QED BY <2>2, <2>3, <2>4
<1> QED BY <1>7, <1>8, <1>9

=============================================================================
