----------------------------- MODULE FeedProofs -----------------------------
(***************************************************************************)
(* The events tell the records, for every value of the constants.          *)
(***************************************************************************)
EXTENDS Feed, RegistryProofs

-----------------------------------------------------------------------------
(* Applying the events of one invocation. *)

(* What a follower holds who starts from t and applies the events E. *)
Folded(t, E) == FSE!FoldSet(Apply, t, E)

(* f holds the folds of the subsets of E: each is one event applied to the *)
(* fold of the others.                                                     *)
Unrolls(f, t, E) ==
  /\ f[{}] = t /\ f[E] = Folded(t, E)
  /\ \A S \in SUBSET E : S # {} => \E e \in S : f[S] = Apply(e, f[S \ {e}])

(* The fold of finitely many events unrolls. *)
LEMMA FoldedUnrolls ==
  ASSUME NEW t, NEW E, IsFiniteSet(E)
  PROVE  \E f : Unrolls(f, t, E)
<1> DEFINE c(S) == CHOOSE e \in S : TRUE
           Upto(n) == {S \in SUBSET E : Cardinality(S) <= n}
           Fold(f, D) == f = [S \in D |-> IF S = {} THEN t ELSE Apply(c(S), f[S \ {c(S)}])]
           H == {n \in Nat : \E f : Fold(f, Upto(n))}
<1>1. \A S \in SUBSET E : IsFiniteSet(S) /\ Cardinality(S) \in Nat
  BY FS_Subset, FS_CardinalityType
<1>2. \A S \in SUBSET E : S # {} => /\ c(S) \in S /\ S \ {c(S)} \in SUBSET E
                                    /\ Cardinality(S \ {c(S)}) = Cardinality(S) - 1
  BY <1>1, FS_RemoveElement
<1> HIDE DEF c
<1>3. 0 \in H
  <2>1. \A S \in Upto(0) : S = {}
    BY <1>1, FS_EmptySet
  <2> DEFINE f == [S \in Upto(0) |-> t]
  <2>2. Fold(f, Upto(0))
    BY <2>1
  <2> QED BY <2>2
<1>4. ASSUME NEW n \in Nat, n \in H PROVE n + 1 \in H
  <2>1. PICK f : Fold(f, Upto(n))
    BY <1>4
  <2> DEFINE g == [S \in Upto(n + 1) |-> IF S = {} THEN t ELSE Apply(c(S), f[S \ {c(S)}])]
  <2>2. \A S \in Upto(n) : S \in Upto(n + 1) /\ g[S] = f[S]
    <3> SUFFICES ASSUME NEW S \in Upto(n) PROVE S \in Upto(n + 1) /\ g[S] = f[S]
      OBVIOUS
    <3>1. S \in Upto(n + 1)
      BY <1>1
    <3>2. f[S] = IF S = {} THEN t ELSE Apply(c(S), f[S \ {c(S)}])
      BY <2>1
    <3>3. g[S] = IF S = {} THEN t ELSE Apply(c(S), f[S \ {c(S)}])
      BY <3>1
    <3> QED BY <3>1, <3>2, <3>3
  <2>3. \A S \in Upto(n + 1) : S # {} => S \ {c(S)} \in Upto(n)
    BY <1>1, <1>2
  <2>4. \A S \in Upto(n + 1) : S # {} => g[S \ {c(S)}] = f[S \ {c(S)}]
    BY <2>2, <2>3
  <2>5. Fold(g, Upto(n + 1))
    BY <2>4
  <2> HIDE DEF g, Fold, Upto
  <2> QED BY <2>5
<1>5. Cardinality(E) \in H
  <2>1. Nat \subseteq H
    <3> HIDE DEF H
    <3> QED BY <1>3, <1>4, CountingUp
  <2> QED BY <1>1, <2>1
<1>6. Upto(Cardinality(E)) = SUBSET E
  BY <1>1, FS_Subset
<1>7. \E f : Fold(f, SUBSET E)
  BY <1>5, <1>6
<1> DEFINE f == CHOOSE f : Fold(f, SUBSET E)
<1>8. Fold(f, SUBSET E)
  BY <1>7
<1>9. f[E] = Folded(t, E)
  BY DEF Folded, FSE!FoldSet, FSE!MapThenFoldSet, c
<1> HIDE DEF f
<1>10. \A S \in SUBSET E : f[S] = IF S = {} THEN t ELSE Apply(c(S), f[S \ {c(S)}])
  BY <1>8
<1>11. \A S \in SUBSET E : S # {} => \E e \in S : f[S] = Apply(e, f[S \ {e}])
  BY <1>2, <1>10
<1>12. f[{}] = t
  BY <1>10
<1>13. Unrolls(f, t, E)
  BY <1>9, <1>11, <1>12 DEF Unrolls
<1> QED BY <1>13

(* A single event is just applied. *)
LEMMA FoldedOne ==
  ASSUME NEW t, NEW e
  PROVE  Folded(t, {e}) = Apply(e, t)
<1>1. IsFiniteSet({e})
  BY FS_Singleton
<1>2. PICK f : Unrolls(f, t, {e})
  BY <1>1, FoldedUnrolls
<1>3. \E x \in {e} : f[{e}] = Apply(x, f[{e} \ {x}])
  BY <1>2 DEF Unrolls
<1>4. {e} \ {e} = {}
  OBVIOUS
<1> QED BY <1>2, <1>3, <1>4 DEF Unrolls

(* What each kind of event does to the table. *)
LEMMA AppliedEvents ==
  ASSUME NEW t, NEW n
  PROVE  /\ Apply(VerifiedEvent(n), t) =
              [t EXCEPT ![Canon[n]] = [t[Canon[n]] EXCEPT !.verified = TRUE]]
         /\ Apply(VerificationRevokedEvent(n), t) =
              [t EXCEPT ![Canon[n]] = [t[Canon[n]] EXCEPT !.verified = FALSE]]
         /\ Apply(RemovedEvent(n), t) = [t EXCEPT ![Canon[n]] = None]
<1>1. Apply(VerifiedEvent(n), t) =
        [t EXCEPT ![Canon[n]] = [t[Canon[n]] EXCEPT !.verified = TRUE]]
  BY DEF Apply, VerifiedEvent
<1>2. Apply(VerificationRevokedEvent(n), t) =
        [t EXCEPT ![Canon[n]] = [t[Canon[n]] EXCEPT !.verified = FALSE]]
  BY DEF Apply, VerificationRevokedEvent
<1>3. Apply(RemovedEvent(n), t) = [t EXCEPT ![Canon[n]] = None]
  BY DEF Apply, RemovedEvent
<1> QED BY <1>1, <1>2, <1>3

(* A registration carries the address; what else the row holds follows. *)
LEMMA AppliedRegistration ==
  ASSUME NEW t, NEW n, NEW a
  PROVE  Apply(RegisteredEvent(n, a), t) =
           [t EXCEPT ![Canon[n]] = [addr     |-> a,
                                    verified |-> KeepsFlag(t[Canon[n]], a),
                                    bot      |-> t[Canon[n]] # None /\ t[Canon[n]].bot]]
  BY DEF Apply, RegisteredEvent

(* A bot event carries the flag. *)
LEMMA AppliedBotStatus ==
  ASSUME NEW t, NEW n, NEW b
  PROVE  Apply(BotStatusChangedEvent(n, b), t) =
           [t EXCEPT ![Canon[n]] = [t[Canon[n]] EXCEPT !.bot = b]]
  BY DEF Apply, BotStatusChangedEvent

(* A rotation carries the address and takes the verification. *)
LEMMA AppliedRotation ==
  ASSUME NEW t, NEW n, NEW a
  PROVE  Apply(RotationExecutedEvent(n, a), t) =
           [t EXCEPT ![Canon[n]] = [addr |-> a, verified |-> FALSE, bot |-> t[Canon[n]].bot]]
  BY DEF Apply, RotationExecutedEvent

(* The events that say nothing of a record. *)
LEMMA IgnoredEvents ==
  ASSUME NEW t
  PROVE  /\ \A n : Apply(ChallengeEvent(n), t) = t
         /\ \A n : Apply(RotationEvent(n), t) = t
         /\ Apply(BatchRemoveEvent, t) = t
         /\ Apply(AccessEvent, t) = t
         /\ Apply(VerificationConfiguredEvent, t) = t
  BY DEF Apply, ChallengeEvent, RotationEvent, BatchRemoveEvent, AccessEvent,
         VerificationConfiguredEvent

(* A rename moves the bot flag and leaves the old key empty. *)
LEMMA AppliedRename ==
  ASSUME NEW t, NEW n, NEW m, NEW a
  PROVE  Apply(RenamedEvent(n, m, a), t) =
           [[t EXCEPT ![Canon[m]] = [addr |-> a, verified |-> FALSE, bot |-> t[Canon[n]].bot]]
              EXCEPT ![Canon[n]] = None]
  BY DEF Apply, RenamedEvent

(* The events about finitely many names are finitely many. *)
LEMMA FiniteEvents ==
  ASSUME NEW N \in SUBSET Names
  PROVE  /\ IsFiniteSet({VerifiedEvent(n) : n \in N})
         /\ IsFiniteSet({RemovedEvent(n) : n \in N})
<1>1. IsFiniteSet(N)
  BY NamesAssumption, FS_Subset
<1> DEFINE v == [n \in N |-> VerifiedEvent(n)]
           r == [n \in N |-> RemovedEvent(n)]
<1>2. v \in Surjection(N, {VerifiedEvent(n) : n \in N})
  BY DEF Surjection
<1>3. r \in Surjection(N, {RemovedEvent(n) : n \in N})
  BY DEF Surjection
<1> HIDE DEF v, r
<1> QED BY <1>1, <1>2, <1>3, FS_Surjection

(* The events of a batch verification turn the flag of each named record, *)
(* however many of its spellings the batch lists.                          *)
LEMMA FoldedGrants ==
  ASSUME NEW N \in SUBSET Names, NEW t \in [Keys -> Row \cup {None}],
         \A n \in N : t[Canon[n]] # None
  PROVE  Folded(t, {VerifiedEvent(n) : n \in N}) =
           [k \in Keys |-> IF k \in {Canon[n] : n \in N}
                             THEN [t[k] EXCEPT !.verified = TRUE]
                             ELSE t[k]]
<1> DEFINE E == {VerifiedEvent(n) : n \in N}
           Told(S) == {Canon[n] : n \in {x \in N : VerifiedEvent(x) \in S}}
           Granted(S) == [k \in Keys |-> IF k \in Told(S) THEN [t[k] EXCEPT !.verified = TRUE]
                                                          ELSE t[k]]
<1>1. IsFiniteSet(E)
  BY FiniteEvents
<1>2. PICK f : Unrolls(f, t, E)
  <2> HIDE DEF E
  <2> QED BY <1>1, FoldedUnrolls
<1> DEFINE G == {S \in SUBSET E : f[S] = Granted(S)}
<1>3. {} \in G
  BY <1>2 DEF Unrolls
<1>4. ASSUME NEW S \in SUBSET E, S # {}, \A e \in S : S \ {e} \in G
      PROVE  S \in G
  <2>1. PICK e \in S : f[S] = Apply(e, f[S \ {e}])
    BY <1>2, <1>4 DEF Unrolls
  <2>2. PICK n \in N : e = VerifiedEvent(n)
    OBVIOUS
  <2>3. Canon[n] \in Keys /\ \A x \in N : VerifiedEvent(x) = e => x = n
    BY <2>2, KeysFacts DEF VerifiedEvent
  <2> DEFINE k == Canon[n]
             T == S \ {e}
  <2>4. f[T] = Granted(T)
    BY <1>4
  <2>5. Told(S) = Told(T) \cup {k}
    BY <2>2, <2>3
  <2>6. f[S] = [Granted(T) EXCEPT ![k] = [Granted(T)[k] EXCEPT !.verified = TRUE]]
    <3>1. f[S] = Apply(VerifiedEvent(n), Granted(T))
      BY <2>1, <2>2, <2>4
    <3> HIDE DEF Granted, T
    <3> QED BY <3>1, AppliedEvents
  <2> HIDE DEF Told, T, k
  <2>7. k \in Keys /\ t[k] \in Row
    BY <2>3 DEF k
  <2>8. [Granted(T)[k] EXCEPT !.verified = TRUE] = [t[k] EXCEPT !.verified = TRUE]
    BY <2>7 DEF Row
  <2>9. f[S] = [j \in Keys |-> IF j = k THEN [t[k] EXCEPT !.verified = TRUE] ELSE Granted(T)[j]]
    BY <2>6, <2>7, <2>8
  <2>10. f[S] = Granted(S)
    BY <2>5, <2>9
  <2> QED BY <2>10
<1>5. E \in G
  <2> HIDE DEF E, G
  <2>1. {} \in G /\ \A S \in SUBSET E : S # {} /\ (\A e \in S : S \ {e} \in G) => S \in G
    BY <1>3, <1>4
  <2> QED BY <1>1, <2>1, TakingAway
<1>6. Told(E) = {Canon[n] : n \in N}
  OBVIOUS
<1>7. Folded(t, E) = Granted(E)
  BY <1>2, <1>5 DEF Unrolls
<1> HIDE DEF Told
<1> QED BY <1>6, <1>7

(* What is announced beside removals. *)
Beside(F) == \E m : F \in SUBSET {ChallengeEvent(m), BatchRemoveEvent}

(* The events of a removal empty the rows of the named records; what is    *)
(* announced beside them changes nothing.                                  *)
LEMMA FoldedRemovals ==
  ASSUME NEW N \in SUBSET Names, NEW t \in [Keys -> Row \cup {None}], NEW F, Beside(F)
  PROVE  Folded(t, {RemovedEvent(n) : n \in N} \cup F) =
           [k \in Keys |-> IF k \in {Canon[n] : n \in N} THEN None ELSE t[k]]
<1> DEFINE E == {RemovedEvent(n) : n \in N} \cup F
           Told(S) == {Canon[n] : n \in {x \in N : RemovedEvent(x) \in S}}
           Emptied(S) == [k \in Keys |-> IF k \in Told(S) THEN None ELSE t[k]]
<1> PICK m : F \in SUBSET {ChallengeEvent(m), BatchRemoveEvent}
  BY DEF Beside
<1>1. IsFiniteSet(E)
  <2>1. IsFiniteSet({ChallengeEvent(m), BatchRemoveEvent})
    <3>1. /\ IsFiniteSet({ChallengeEvent(m)})
          /\ {ChallengeEvent(m), BatchRemoveEvent} = {ChallengeEvent(m)} \cup {BatchRemoveEvent}
      BY FS_Singleton
    <3> QED BY <3>1, FS_AddElement
  <2>2. IsFiniteSet(F) /\ IsFiniteSet({RemovedEvent(n) : n \in N})
    BY <2>1, FS_Subset, FiniteEvents
  <2> QED BY <2>2, FS_Union
<1>2. PICK f : Unrolls(f, t, E)
  <2> HIDE DEF E
  <2> QED BY <1>1, FoldedUnrolls
<1> DEFINE G == {S \in SUBSET E : f[S] = Emptied(S)}
<1>3. {} \in G
  BY <1>2 DEF Unrolls
<1>4. ASSUME NEW S \in SUBSET E, S # {}, \A e \in S : S \ {e} \in G
      PROVE  S \in G
  <2>1. PICK e \in S : f[S] = Apply(e, f[S \ {e}])
    BY <1>2, <1>4 DEF Unrolls
  <2> DEFINE T == S \ {e}
  <2>2. f[T] = Emptied(T)
    BY <1>4
  <2>3. CASE e \in F
    <3>1. f[S] = f[T]
      BY <2>1, <2>3, IgnoredEvents
    <3>2. \A x \in N : RemovedEvent(x) # e
      BY <2>3 DEF RemovedEvent, ChallengeEvent, BatchRemoveEvent
    <3>3. Told(S) = Told(T)
      BY <3>2
    <3> HIDE DEF Told
    <3>4. f[S] = Emptied(S)
      BY <2>2, <3>1, <3>3
    <3> QED BY <3>4
  <2>4. CASE e \notin F
    <3>1. PICK n \in N : e = RemovedEvent(n)
      BY <2>4
    <3>2. Canon[n] \in Keys /\ \A x \in N : RemovedEvent(x) = e => x = n
      BY <3>1, KeysFacts DEF RemovedEvent
    <3> DEFINE k == Canon[n]
    <3>3. Told(S) = Told(T) \cup {k}
      BY <3>1, <3>2
    <3>4. f[S] = [Emptied(T) EXCEPT ![k] = None]
      <4>1. f[S] = Apply(RemovedEvent(n), Emptied(T))
        BY <2>1, <2>2, <3>1
      <4> HIDE DEF Emptied, T
      <4> QED BY <4>1, AppliedEvents
    <3> HIDE DEF Told, T, k
    <3>5. f[S] = [j \in Keys |-> IF j = k THEN None ELSE Emptied(T)[j]]
      BY <3>4
    <3>6. f[S] = Emptied(S)
      BY <3>3, <3>5
    <3> QED BY <3>6
  <2> QED BY <2>3, <2>4
<1>5. E \in G
  <2> HIDE DEF E, G
  <2>1. {} \in G /\ \A S \in SUBSET E : S # {} /\ (\A e \in S : S \ {e} \in G) => S \in G
    BY <1>3, <1>4
  <2> QED BY <1>1, <2>1, TakingAway
<1>6. Told(E) = {Canon[n] : n \in N}
  OBVIOUS
<1>7. Folded(t, E) = Emptied(E)
  BY <1>2, <1>5 DEF Unrolls
<1> HIDE DEF Told
<1> QED BY <1>6, <1>7

-----------------------------------------------------------------------------
(* Every invocation and its events. *)

(* What a follower should keep of a record. *)
RowOf(r) ==
  IF r = None THEN None ELSE [addr |-> r.addr, verified |-> r.verified, bot |-> r.bot]

(* The inductive invariant: EventsTellRecords, and no rows but these. *)
TableTells == table = [k \in Keys |-> RowOf(rec[k])]

(* A row is there when the record is and says the same. *)
LEMMA RowFacts ==
  ASSUME TypeOK, TableTells
  PROVE  /\ table \in [Keys -> Row \cup {None}]
         /\ \A k \in Keys : table[k] = RowOf(rec[k]) /\ (table[k] = None <=> rec[k] = None)
         /\ \A k \in Keys : rec[k] # None =>
              /\ rec[k] \in Record
              /\ table[k] = [addr |-> rec[k].addr, verified |-> rec[k].verified,
                             bot |-> rec[k].bot]
<1>1. \A k \in Keys : rec[k] # None => rec[k] \in Record
  BY DEF TypeOK
<1>2. \A r \in Record : [addr |-> r.addr, verified |-> r.verified, bot |-> r.bot] \in Row
  BY DEF Record, Row
<1>3. \A k \in Keys : table[k] = RowOf(rec[k])
  BY DEF TableTells
<1>4. \A k \in Keys : table[k] = None <=> rec[k] = None
  BY <1>1, <1>2, <1>3, RowAssumption DEF RowOf
<1>5. table \in [Keys -> Row \cup {None}]
  BY <1>1, <1>2 DEF TableTells, RowOf
<1> QED BY <1>1, <1>3, <1>4, <1>5 DEF RowOf

(* A field of a record and of its row change alike. *)
LEMMA RowChanges ==
  ASSUME NEW q \in Record
  PROVE  /\ \A v \in BOOLEAN : /\ [q EXCEPT !.verified = v] \in Record
                               /\ [RowOf(q) EXCEPT !.verified = v]
                                    = RowOf([q EXCEPT !.verified = v])
         /\ \A b \in BOOLEAN : /\ [q EXCEPT !.bot = b] \in Record
                               /\ [RowOf(q) EXCEPT !.bot = b] = RowOf([q EXCEPT !.bot = b])
         /\ \A a \in Addresses : /\ [q EXCEPT !.addr = a] \in Record
                                 /\ [RowOf(q) EXCEPT !.addr = a] = RowOf([q EXCEPT !.addr = a])
<1> DEFINE Told(r) == [addr |-> r.addr, verified |-> r.verified, bot |-> r.bot]
<1>1. \A r \in Record : RowOf(r) = Told(r)
  BY NoneAssumption DEF RowOf
<1>2. ASSUME NEW v \in BOOLEAN
      PROVE  /\ [q EXCEPT !.verified = v] \in Record
             /\ [Told(q) EXCEPT !.verified = v] = Told([q EXCEPT !.verified = v])
  BY DEF Record
<1>3. ASSUME NEW b \in BOOLEAN
      PROVE  /\ [q EXCEPT !.bot = b] \in Record
             /\ [Told(q) EXCEPT !.bot = b] = Told([q EXCEPT !.bot = b])
  BY DEF Record
<1>4. ASSUME NEW a \in Addresses
      PROVE  /\ [q EXCEPT !.addr = a] \in Record
             /\ [Told(q) EXCEPT !.addr = a] = Told([q EXCEPT !.addr = a])
  BY DEF Record
<1> HIDE DEF Told
<1> QED BY <1>1, <1>2, <1>3, <1>4

(* One record and its row change together. *)
LEMMA OneRow ==
  ASSUME TypeOK, TableTells, NEW k \in Keys, NEW r,
         rec' = [rec EXCEPT ![k] = r], table' = [table EXCEPT ![k] = RowOf(r)]
  PROVE  TableTells'
<1>1. rec'[k] = r /\ \A j \in Keys : j # k => rec'[j] = rec[j]
  BY DEF TypeOK
<1>2. table' = [j \in Keys |-> RowOf(rec'[j])]
  BY <1>1 DEF TableTells
<1> QED BY <1>2 DEF TableTells

(* An event nobody records a row by. *)
LEMMA NoRow ==
  ASSUME TableTells, rec' = rec, table' = table
  PROVE  TableTells'
  BY DEF TableTells

(* One event is published and applied. *)
LEMMA PublishedOne ==
  ASSUME NEW e, Publish({e})
  PROVE  table' = Apply(e, table)
<1>1. table' = Folded(table, {e})
  BY DEF Publish, Folded
<1> QED BY <1>1, FoldedOne

(* A registration is told with what it keeps. *)
LEMMA RegistrationTold ==
  ASSUME TypeOK, TableTells, NEW n \in Names, NEW a \in Addresses,
         WriteRegistration(Canon[n], a), Publish({RegisteredEvent(n, a)})
  PROVE  TableTells'
<1> DEFINE k == Canon[n]
           r == [addr     |-> a,
                 payout   |-> IF rec[k] = None THEN a ELSE rec[k].payout,
                 verified |-> KeepsVerification(k, a),
                 bot      |-> ~(rec[k] = None) /\ rec[k].bot]
           row == [addr     |-> a,
                   verified |-> KeepsFlag(table[k], a),
                   bot      |-> table[k] # None /\ table[k].bot]
<1>1. k \in Keys
  BY KeysFacts
<1>2. rec' = [rec EXCEPT ![k] = r]
  BY DEF WriteRegistration
<1>3. table' = [table EXCEPT ![k] = row]
  <2>1. table' = Apply(RegisteredEvent(n, a), table)
    BY PublishedOne
  <2> HIDE DEF WriteRegistration, r
  <2> QED BY <2>1, AppliedRegistration
<1>4. r \in Record
  <2>1. rec[k] # None => rec[k] \in Record
    BY <1>1 DEF TypeOK
  <2> QED BY <2>1 DEF Record, KeepsVerification
<1>5. row = RowOf(r)
  <2>1. KeepsFlag(table[k], a) = KeepsVerification(k, a)
    BY <1>1, RowFacts DEF KeepsFlag, KeepsVerification
  <2>2. (table[k] # None /\ table[k].bot) = (~(rec[k] = None) /\ rec[k].bot)
    BY <1>1, RowFacts
  <2>3. r # None
    BY <1>4, NoneAssumption
  <2> QED BY <2>1, <2>2, <2>3 DEF RowOf
<1> HIDE DEF r, row, k
<1> QED BY <1>1, <1>2, <1>3, <1>5, OneRow

(* So are a revocation, a bot flag and a rotation. *)
LEMMA ChangeTold ==
  ASSUME TypeOK, TableTells, NEW n \in Names, rec[Canon[n]] # None
  PROVE  /\ /\ rec' = [rec EXCEPT ![Canon[n]].verified = FALSE]
            /\ Publish({VerificationRevokedEvent(n)})
            => TableTells'
         /\ \A b \in BOOLEAN :
              /\ rec' = [rec EXCEPT ![Canon[n]].bot = b]
              /\ Publish({BotStatusChangedEvent(n, b)})
              => TableTells'
         /\ \A a \in Addresses :
              /\ rec' = [rec EXCEPT ![Canon[n]].addr = a, ![Canon[n]].verified = FALSE]
              /\ Publish({RotationExecutedEvent(n, a)})
              => TableTells'
<1> DEFINE k == Canon[n]
           q == rec[k]
<1>1. k \in Keys /\ q \in Record /\ table[k] = RowOf(q)
  BY KeysFacts, RowFacts
<1>2. ASSUME NEW r, NEW e, rec' = [rec EXCEPT ![k] = r], Publish({e}),
             Apply(e, table) = [table EXCEPT ![k] = RowOf(r)]
      PROVE  TableTells'
  <2>1. table' = [table EXCEPT ![k] = RowOf(r)]
    BY <1>2, PublishedOne
  <2> HIDE DEF k
  <2> QED BY <1>1, <1>2, <2>1, OneRow
<1>3. ASSUME rec' = [rec EXCEPT ![k].verified = FALSE],
             Publish({VerificationRevokedEvent(n)})
      PROVE  TableTells'
  <2>1. rec' = [rec EXCEPT ![k] = [q EXCEPT !.verified = FALSE]]
    BY <1>3
  <2>2. Apply(VerificationRevokedEvent(n), table)
          = [table EXCEPT ![k] = [table[k] EXCEPT !.verified = FALSE]]
    BY AppliedEvents
  <2>3. [table[k] EXCEPT !.verified = FALSE] = RowOf([q EXCEPT !.verified = FALSE])
    <3> HIDE DEF q
    <3> QED BY <1>1, RowChanges
  <2> HIDE DEF k, q
  <2> QED BY <1>2, <1>3, <2>1, <2>2, <2>3
<1>4. ASSUME NEW b \in BOOLEAN, rec' = [rec EXCEPT ![k].bot = b],
             Publish({BotStatusChangedEvent(n, b)})
      PROVE  TableTells'
  <2>1. rec' = [rec EXCEPT ![k] = [q EXCEPT !.bot = b]]
    BY <1>4
  <2>2. Apply(BotStatusChangedEvent(n, b), table)
          = [table EXCEPT ![k] = [table[k] EXCEPT !.bot = b]]
    BY AppliedBotStatus
  <2>3. [table[k] EXCEPT !.bot = b] = RowOf([q EXCEPT !.bot = b])
    <3> HIDE DEF q
    <3> QED BY <1>1, RowChanges
  <2> HIDE DEF k, q
  <2> QED BY <1>2, <1>4, <2>1, <2>2, <2>3
<1>5. ASSUME NEW a \in Addresses, Publish({RotationExecutedEvent(n, a)}),
             rec' = [rec EXCEPT ![k].addr = a, ![k].verified = FALSE]
      PROVE  TableTells'
  <2> DEFINE p == [q EXCEPT !.addr = a]
             r == [p EXCEPT !.verified = FALSE]
  <2>1. rec' = [rec EXCEPT ![k] = r]
    BY <1>1, <1>5 DEF TypeOK
  <2>2. Apply(RotationExecutedEvent(n, a), table)
          = [table EXCEPT ![k] = [addr |-> a, verified |-> FALSE, bot |-> table[k].bot]]
    BY AppliedRotation
  <2>3. p \in Record /\ RowOf(p) = [table[k] EXCEPT !.addr = a]
    <3> HIDE DEF q
    <3> QED BY <1>1, RowChanges
  <2>4. RowOf(r) = [RowOf(p) EXCEPT !.verified = FALSE]
    <3> HIDE DEF p
    <3> QED BY <2>3, RowChanges
  <2>5. table[k] = [addr |-> q.addr, verified |-> q.verified, bot |-> q.bot]
    BY <1>1, NoneAssumption DEF RowOf
  <2>6. RowOf(r) = [addr |-> a, verified |-> FALSE, bot |-> table[k].bot]
    <3> HIDE DEF r, p, q
    <3> QED BY <2>3, <2>4, <2>5
  <2> HIDE DEF k, q, p, r
  <2> QED BY <1>2, <1>5, <2>1, <2>2, <2>6
<1> QED BY <1>3, <1>4, <1>5

(* A batch of grants is told name by name. *)
LEMMA GrantsTold ==
  ASSUME TypeOK, TableTells, NEW N \in SUBSET Names, \A n \in N : Verifiable(n),
         GrantVerification(N), Publish({VerifiedEvent(n) : n \in N})
  PROVE  TableTells'
<1> DEFINE granted == {Canon[n] : n \in N}
<1>1. \A n \in N : Canon[n] \in Keys /\ rec[Canon[n]] # None
  BY KeysFacts DEF Verifiable
<1>2. \A n \in N : table[Canon[n]] # None
  BY <1>1, RowFacts
<1>3. table' = [k \in Keys |-> IF k \in granted THEN [table[k] EXCEPT !.verified = TRUE]
                                               ELSE table[k]]
  <2>1. table \in [Keys -> Row \cup {None}]
    BY RowFacts
  <2> QED BY <1>2, <2>1, FoldedGrants DEF Publish, Folded
<1>4. \A k \in granted : k \in Keys /\ rec[k] \in Record
  BY <1>1, RowFacts
<1> HIDE DEF granted
<1>5. \A k \in Keys : rec'[k] = IF k \in granted THEN [rec[k] EXCEPT !.verified = TRUE]
                                                 ELSE rec[k]
  BY DEF GrantVerification, granted
<1>6. ASSUME NEW k \in Keys PROVE table'[k] = RowOf(rec'[k])
  <2>1. CASE k \in granted
    <3>1. RowOf([rec[k] EXCEPT !.verified = TRUE]) = [RowOf(rec[k]) EXCEPT !.verified = TRUE]
      BY <1>4, <2>1, RowChanges
    <3> QED BY <1>3, <1>5, <2>1, <3>1, RowFacts
  <2>2. CASE k \notin granted
    BY <1>3, <1>5, <2>2, RowFacts
  <2> QED BY <2>1, <2>2
<1>7. table' = [k \in Keys |-> table'[k]]
  BY <1>3
<1> QED BY <1>6, <1>7 DEF TableTells

(* Every removed record is told, and what else is announced with it        *)
(* changes no row.                                                         *)
LEMMA DropsTold ==
  ASSUME TypeOK, TableTells, NEW N \in SUBSET Names, NEW X, X = {Canon[n] : n \in N},
         DropRecords(X), NEW F, Beside(F), Publish({RemovedEvent(n) : n \in N} \cup F)
  PROVE  TableTells'
<1>1. table \in [Keys -> Row \cup {None}]
  BY RowFacts
<1>2. table' = [k \in Keys |-> IF k \in X THEN None ELSE table[k]]
  <2>1. table' = Folded(table, {RemovedEvent(n) : n \in N} \cup F)
    BY DEF Publish, Folded
  <2>2. Folded(table, {RemovedEvent(n) : n \in N} \cup F)
          = [k \in Keys |-> IF k \in {Canon[n] : n \in N} THEN None ELSE table[k]]
    BY <1>1, FoldedRemovals
  <2> QED BY <2>1, <2>2
<1>3. \A k \in Keys : rec'[k] = IF k \in X THEN None ELSE rec[k]
  BY DEF DropRecords
<1>4. \A k \in Keys : table'[k] = RowOf(rec'[k])
  BY <1>2, <1>3, RowFacts DEF RowOf
<1>5. table' = [k \in Keys |-> table'[k]]
  BY <1>2
<1> QED BY <1>4, <1>5 DEF TableTells

(* The events of a removal of listed names. *)
LEMMA BatchTold ==
  ASSUME TypeOK, TableTells, NEW b, ApplyBatchRemove(b),
         NEW F \in SUBSET {BatchRemoveEvent}, Publish(RemovalEvents(b) \cup F)
  PROVE  TableTells'
<1> DEFINE X == {Canon[n] : n \in Entries(b)} \cap Live
<1>1. X \in SUBSET Keys
  BY DEF Live
<1>2. DropRecords(X)
  BY DEF ApplyBatchRemove
<1>3. RemovalEvents(b) = {RemovedEvent(k) : k \in X}
  BY DEF RemovalEvents
<1> HIDE DEF X
<1>4. X \in SUBSET Names /\ X = {Canon[k] : k \in X}
  BY <1>1, KeysFacts
<1>5. Beside(F)
  BY DEF Beside
<1>6. Publish({RemovedEvent(k) : k \in X} \cup F)
  BY <1>3
<1> QED BY <1>2, <1>4, <1>5, <1>6, DropsTold

(* The events of a removal of one name. *)
LEMMA RemovalTold ==
  ASSUME TypeOK, TableTells, NEW n \in Names, DropRecords({Canon[n]}),
         Publish({RemovedEvent(n)}) \/ Publish(ChallengeRemovalEvents(n))
  PROVE  TableTells'
<1>1. {n} \in SUBSET Names /\ {Canon[x] : x \in {n}} = {Canon[n]}
  OBVIOUS
<1>2. /\ {RemovedEvent(x) : x \in {n}} \cup {} = {RemovedEvent(n)}
      /\ {RemovedEvent(x) : x \in {n}} \cup {ChallengeEvent(n)} = ChallengeRemovalEvents(n)
  BY DEF ChallengeRemovalEvents
<1>3. Beside({}) /\ Beside({ChallengeEvent(n)})
  BY DEF Beside
<1>4. CASE Publish({RemovedEvent(n)})
  <2>1. Publish({RemovedEvent(x) : x \in {n}} \cup {})
    BY <1>2, <1>4
  <2> QED BY <1>1, <1>3, <2>1, DropsTold
<1>5. CASE Publish(ChallengeRemovalEvents(n))
  <2>1. Publish({RemovedEvent(x) : x \in {n}} \cup {ChallengeEvent(n)})
    BY <1>2, <1>5
  <2> QED BY <1>1, <1>3, <2>1, DropsTold
<1> QED BY <1>4, <1>5

(* A rename moves the row as it moves the record, and through the same     *)
(* two writes.                                                             *)
LEMMA RenameTold ==
  ASSUME TypeOK, TableTells, NEW c, NEW n \in Names, NEW m \in Names, Rename(c, n, m),
         Publish({RenamedEvent(n, m, rec[Canon[n]].addr)})
  PROVE  TableTells'
<1> DEFINE k == Canon[n]
           j == Canon[m]
           q == rec[k]
           r == [q EXCEPT !.verified = FALSE]
           row == [addr |-> q.addr, verified |-> FALSE, bot |-> table[k].bot]
<1>1. k \in Keys /\ j \in Keys
  BY KeysFacts
<1>2. q \in Record /\ table[k] = RowOf(q)
  BY <1>1, RowFacts DEF Rename, HolderOrAdmin
<1>3. rec' = [[rec EXCEPT ![j] = r] EXCEPT ![k] = None]
  BY DEF Rename
<1>4. table' = [[table EXCEPT ![j] = row] EXCEPT ![k] = None]
  <2>1. table' = Apply(RenamedEvent(n, m, q.addr), table)
    BY PublishedOne
  <2> HIDE DEF q
  <2> QED BY <2>1, AppliedRename
<1>5. row = RowOf(r)
  <2>1. table[k] = [addr |-> q.addr, verified |-> q.verified, bot |-> q.bot]
    BY <1>2, NoneAssumption DEF RowOf
  <2>2. RowOf(r) = [table[k] EXCEPT !.verified = FALSE]
    <3> HIDE DEF q
    <3> QED BY <1>2, RowChanges
  <2>3. table[k].bot = q.bot
    <3> HIDE DEF q, k
    <3> QED BY <2>1
  <2>4. RowOf(r) = [[addr |-> q.addr, verified |-> q.verified, bot |-> q.bot]
                      EXCEPT !.verified = FALSE]
    <3> HIDE DEF q, k, r
    <3> QED BY <2>1, <2>2
  <2> HIDE DEF r, q, k
  <2> QED BY <2>3, <2>4
<1> HIDE DEF row, r, q, k, j
<1>6. table \in [Keys -> Row \cup {None}]
  BY RowFacts
<1>7. ASSUME NEW i \in Keys PROVE table'[i] = RowOf(rec'[i])
  <2>1. CASE i = k
    <3>1. table'[i] = None /\ rec'[i] = None
      BY <1>1, <1>3, <1>4, <1>6, <2>1 DEF TypeOK
    <3> QED BY <3>1 DEF RowOf
  <2>2. CASE i # k /\ i = j
    <3>1. table'[i] = row /\ rec'[i] = r
      BY <1>1, <1>3, <1>4, <1>6, <2>2 DEF TypeOK
    <3> QED BY <3>1, <1>5
  <2>3. CASE i # k /\ i # j
    <3>1. table'[i] = table[i] /\ rec'[i] = rec[i]
      BY <1>1, <1>3, <1>4, <1>6, <2>3 DEF TypeOK
    <3> QED BY <3>1, RowFacts
  <2> QED BY <2>1, <2>2, <2>3
<1>8. table' = [i \in Keys |-> table'[i]]
  BY <1>1, <1>4, <1>6
<1> QED BY <1>7, <1>8 DEF TableTells

(* Whatever is published, the step is one of the registry's. *)
LEMMA FeedSteps == [FeedNext]_<<vars, table>> => [Next]_vars
<1>1. AnnouncedStep => Next
  BY DEF AnnouncedStep, Next
<1>2. SilentStep => Next
  BY DEF SilentStep, Next
<1> QED BY <1>1, <1>2 DEF FeedNext

(* Every announced invocation keeps table and records together. *)
LEMMA AnnouncedTold ==
  ASSUME TypeOK, TableTells, AnnouncedStep
  PROVE  TableTells'
<1> USE DEF registry, timers
<1>1. ASSUME NEW n \in Names, NEW a \in Addresses,
             Register(n, a) \/ RegisterSponsored(n, a), Publish({RegisteredEvent(n, a)})
      PROVE  TableTells'
  BY <1>1, RegistrationTold DEF Register, RegisterSponsored
<1>2. ASSUME NEW n \in VerifyNames, NEW c, NEW p,
             Verify(c, n) \/ VerifyWithOracleProof(n, p), Publish({VerifiedEvent(n)})
      PROVE  TableTells'
  <2>1. {n} \in SUBSET Names /\ {VerifiedEvent(x) : x \in {n}} = {VerifiedEvent(n)}
    BY NamesAssumption
  <2>2. GrantVerification({n}) /\ \A x \in {n} : Verifiable(x)
    BY <1>2 DEF Verify, VerifyWithOracleProof
  <2>3. Publish({VerifiedEvent(x) : x \in {n}})
    BY <1>2, <2>1
  <2> QED BY <2>1, <2>2, <2>3, GrantsTold
<1>3. ASSUME NEW n \in VerifyNames, NEW c, RevokeVerification(c, n),
             Publish({VerificationRevokedEvent(n)})
      PROVE  TableTells'
  <2>1. n \in Names /\ rec[Canon[n]] # None
    BY <1>3, NamesAssumption DEF RevokeVerification, VerifiedKeys
  <2>2. rec' = [rec EXCEPT ![Canon[n]].verified = FALSE]
    BY <1>3 DEF RevokeVerification
  <2> QED BY <1>3, <2>1, <2>2, ChangeTold
<1>4. ASSUME NEW c, NEW b \in Batches, BatchVerify(c, b),
             Publish({VerifiedEvent(n) : n \in {m \in Entries(b) : Verifiable(m)}})
      PROVE  TableTells'
  <2> DEFINE N == {n \in Entries(b) : Verifiable(n)}
  <2>1. N \in SUBSET Names
    BY CallersAssumption, LenProperties, ElementOfSeq DEF Entries
  <2>2. GrantVerification(N) /\ \A n \in N : Verifiable(n)
    BY <1>4 DEF BatchVerify
  <2>3. Publish({VerifiedEvent(n) : n \in N})
    BY <1>4
  <2> HIDE DEF N
  <2> QED BY <2>1, <2>2, <2>3, GrantsTold
<1>5. ASSUME NEW c, NEW n \in Names, Remove(c, n), Publish({RemovedEvent(n)})
      PROVE  TableTells'
  BY <1>5, RemovalTold DEF Remove
<1>6. ASSUME NEW c, NEW n \in Names, NEW b \in BotFlags, SetBotStatus(c, n, b),
             Publish({BotStatusChangedEvent(n, b)})
      PROVE  TableTells'
  <2>1. b \in BOOLEAN /\ rec[Canon[n]] # None
    BY <1>6, CallersAssumption DEF SetBotStatus, HolderOrAdmin
  <2>2. rec' = [rec EXCEPT ![Canon[n]].bot = b]
    BY <1>6 DEF SetBotStatus
  <2> QED BY <1>6, <2>1, <2>2, ChangeTold
<1>7. ASSUME NEW c, NEW n \in Names, NEW m \in RenameNames, Rename(c, n, m),
             Publish({RenamedEvent(n, m, rec[Canon[n]].addr)})
      PROVE  TableTells'
  BY <1>7, NamesAssumption, RenameTold
<1>8. ASSUME NEW e, Publish({e}), UNCHANGED rec, Apply(e, table) = table
      PROVE  TableTells'
  BY <1>8, PublishedOne, NoRow
<1>9. ASSUME NEW n, NEW a, NEW c,
             RequestRotation(n, a) \/ CancelRotation(c, n), Publish({RotationEvent(n)})
      PROVE  TableTells'
  BY <1>8, <1>9, IgnoredEvents DEF RequestRotation, CancelRotation
<1>10. ASSUME NEW n \in Names, ExecuteRotation(n),
              Publish({RotationExecutedEvent(n, rotation[Canon[n]].to)})
       PROVE  TableTells'
  <2>1. rec[Canon[n]] # None /\ rotation[Canon[n]].to \in Addresses
    BY <1>10, KeysFacts DEF ExecuteRotation, TypeOK, Rotation
  <2>2. rec' = [rec EXCEPT ![Canon[n]].addr = rotation[Canon[n]].to,
                           ![Canon[n]].verified = FALSE]
    BY <1>10 DEF ExecuteRotation
  <2> QED BY <1>10, <2>1, <2>2, ChangeTold
<1>11. ASSUME NEW n \in ChallengeNames, StartChallenge(n) \/ CancelChallenge(n),
              Publish({ChallengeEvent(n)})
       PROVE  TableTells'
  BY <1>8, <1>11, IgnoredEvents DEF StartChallenge, CancelChallenge
<1>12. ASSUME NEW n \in ChallengeNames, CompleteChallenge(n),
              Publish(ChallengeRemovalEvents(n))
       PROVE  TableTells'
  BY <1>12, NamesAssumption, RemovalTold DEF CompleteChallenge
<1>13. ASSUME NEW b, BatchRemove(b), Publish(RemovalEvents(b)) PROVE TableTells'
  <2>1. Publish(RemovalEvents(b) \cup {}) /\ {} \in SUBSET {BatchRemoveEvent}
    BY <1>13
  <2> QED BY <1>13, <2>1, BatchTold DEF BatchRemove
<1>14. ASSUME NEW c, ExecuteBatchRemove(c),
              Publish(RemovalEvents(proposal.names) \cup {BatchRemoveEvent})
       PROVE  TableTells'
  BY <1>14, BatchTold DEF ExecuteBatchRemove
<1>15. ASSUME NEW b, ProposeBatchRemove(b) \/ CancelBatchRemove, Publish({BatchRemoveEvent})
       PROVE  TableTells'
  BY <1>8, <1>15, IgnoredEvents DEF ProposeBatchRemove, CancelBatchRemove
<1>16. ASSUME NEW w, ConfigVerification(w), Publish({VerificationConfiguredEvent})
       PROVE  TableTells'
  BY <1>8, <1>16, IgnoredEvents DEF ConfigVerification
<1>17. ASSUME ChangeAccess, Publish({AccessEvent}) PROVE TableTells'
  BY <1>8, <1>17, IgnoredEvents DEF ChangeAccess
<1> QED
  BY <1>1, <1>2, <1>3, <1>4, <1>5, <1>6, <1>7, <1>9, <1>10, <1>11, <1>12, <1>13, <1>14,
     <1>15, <1>16, <1>17
     DEF AnnouncedStep

(* A silent one changes no record. *)
LEMMA SilentTold ==
  ASSUME TableTells, SilentStep
  PROVE  TableTells'
<1> USE DEF registry, timers
<1>1. table' = table
  BY DEF SilentStep
<1>2. rec' = rec
  BY DEF SilentStep, AddReserved, RemoveReserved, SetCooldown, SetRotationDelay,
         SetBatchRemoveThreshold, SetOracleAllowlist, CompactIndex, RepairIndex, Tick
<1> QED BY <1>1, <1>2, NoRow

(* The events are enough: whoever applies all of them holds the address,   *)
(* the verified flag and the bot flag of every record, for any names,      *)
(* addresses and batches, and without assuming that renames are typed in   *)
(* lower case.                                                             *)
THEOREM EventsAreEnough == FeedSpec => []EventsTellRecords
<1>1. FeedInit => TypeOK /\ TableTells
  <2> SUFFICES ASSUME FeedInit PROVE TypeOK /\ TableTells
    OBVIOUS
  <2>1. TypeOK
    BY InitialTypes DEF FeedInit
  <2>2. TableTells
    BY DEF FeedInit, Init, TableTells, RowOf
  <2> QED BY <2>1, <2>2
<1>2. TypeOK /\ TableTells /\ [FeedNext]_<<vars, table>> => (TypeOK /\ TableTells)'
  <2> SUFFICES ASSUME TypeOK, TableTells, [FeedNext]_<<vars, table>>
               PROVE  TypeOK' /\ TableTells'
    OBVIOUS
  <2>1. TypeOK'
    BY FeedSteps, TypeOKStep
  <2>2. CASE AnnouncedStep
    BY <2>1, <2>2, AnnouncedTold
  <2>3. CASE SilentStep
    BY <2>1, <2>3, SilentTold
  <2>4. CASE UNCHANGED <<vars, table>>
    BY <2>1, <2>4, NoRow DEF vars, registry
  <2> QED BY <2>1, <2>2, <2>3, <2>4 DEF FeedNext
<1>3. TypeOK /\ TableTells => EventsTellRecords
  BY DEF TableTells, EventsTellRecords, RowOf
<1> QED BY <1>1, <1>2, <1>3, PTL DEF FeedSpec

=============================================================================
