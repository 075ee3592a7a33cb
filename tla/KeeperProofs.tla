---------------------------- MODULE KeeperProofs ----------------------------
(***************************************************************************)
(* A pass of the keeper that exits 0 protects every record, for any number *)
(* of names, removals, failed requests and ledgers, any page and batch     *)
(* size and any lifetimes in the order of the code's.                      *)
(*                                                                         *)
(* The argument: a cursor of the current generation stands for a prefix of *)
(* the list of names, and as long as no batch of the pass has failed every *)
(* name on that prefix lives past the threshold from the start of the      *)
(* pass.  Registrations extend the list behind the prefix, with fresh      *)
(* entries; a removal shifts it but outdates the cursor, and the pass then *)
(* ends without success.                                                   *)
(***************************************************************************)
EXTENDS Keeper, ListingProofs

PageRecord == [names : Seq(Names), until : Nat]

(* The pages list the registered names, each once. *)
Listed ==
  /\ Entries(Flat) = Registered
  /\ \A i, j \in DOMAIN Flat : Flat[i] = Flat[j] => i = j

(* What a pass that succeeds promises of a name. *)
Covered(n) == until[n] > started + Threshold

Prefix(o) == o <= Len(Flat) /\ (failed = 0 => \A i \in 1 .. o : Covered(Flat[i]))

Reading == pc = "read" /\ cursor.gen = gen => Prefix(cursor.offset)

(* The next cursor is right once the batch is sent. *)
Sending ==
  pc = "send" =>
    /\ next = <<>> /\ failed = 0 => \A n \in Registered : n \in Entries(batch) \/ Covered(n)
    /\ \A c \in Cursors : next = <<c>> =>
         /\ cursor.offset < c.offset /\ c.gen <= gen
         /\ c.gen = gen =>
              /\ c.offset <= Len(Flat)
              /\ failed = 0 => \A i \in 1 .. c.offset :
                                 Flat[i] \in Entries(batch) \/ Covered(Flat[i])

Walking == cursor.gen <= gen /\ failed <= cursor.offset /\ Reading /\ Sending

Inv == TypeOK /\ pages \in Seq(PageRecord) /\ Listed /\ Walking /\ CleanPassProtects

-----------------------------------------------------------------------------
(* Lifetimes and pages. *)

(* The names are finitely many. *)
LEMMA NamesFinite == IsFiniteSet(Names) /\ Cardinality(Names) \in Nat
BY KeeperAssumption, FS_CardinalityType

(* Whatever is extended or new outlives the threshold, and no more than an *)
(* extension or the network's lifetime from now.                           *)
LEMMA Lifetimes ==
  ASSUME TypeOK
  PROVE  /\ ledger \in Nat /\ Furthest \in Nat
         /\ \A u \in 0 .. Furthest :
              /\ ExtendTtl(u) \in 0 .. Furthest
              /\ ExtendTtl(u) >= u /\ ExtendTtl(u) > ledger + Threshold
         /\ NewEntry \in 0 .. Furthest /\ NewEntry > ledger + Threshold
<1>1. ledger \in Nat
  BY DEF TypeOK
<1> QED BY <1>1, KeeperAssumption DEF ExtendTtl, NewEntry, Furthest

(* The numbers a pass works with. *)
LEMMA PassNumbers ==
  ASSUME TypeOK
  PROVE  /\ ledger \in Nat /\ gen \in Nat /\ failed \in Nat /\ Threshold \in Nat
         /\ started \in 0 .. ledger /\ lastClean \in 0 .. ledger
         /\ next \in {<<>>} \cup {<<c>> : c \in Cursors}
         /\ \A c \in Cursors : c.offset \in Nat /\ c.gen \in Nat
         /\ cursor.offset \in Nat /\ cursor.gen \in Nat
         /\ until \in [Names -> 0 .. Furthest] /\ Furthest \in Nat
<1>1. ledger \in Nat /\ Furthest \in Nat
  BY Lifetimes
<1>2. gen \in Nat /\ Threshold \in Nat
  BY KeeperAssumption DEF TypeOK
<1>3. failed \in Nat
  BY NamesFinite DEF TypeOK
<1>4. \A c \in Cursors : c.offset \in Nat /\ c.gen \in Nat
  BY KeeperAssumption, NamesFinite DEF Cursors
<1>5. cursor \in Cursors /\ next \in {<<>>} \cup {<<c>> : c \in Cursors}
  BY DEF TypeOK
<1>6. started \in 0 .. ledger /\ lastClean \in 0 .. ledger
  BY DEF TypeOK
<1>7. until \in [Names -> 0 .. Furthest]
  BY DEF TypeOK
<1>8. cursor.offset \in Nat /\ cursor.gen \in Nat
  BY <1>4, <1>5, Zenon
<1> QED BY <1>1, <1>2, <1>3, <1>4, <1>5, <1>6, <1>7, <1>8, Zenon

PageOK(x) ==
  x \in PageRecord /\ Len(x.names) <= ChunkSize /\ x.until \in 0 .. Furthest

(* Reading a page keeps its names. *)
LEMMA ReadFacts ==
  ASSUME TypeOK, NEW x, PageOK(x)
  PROVE  PageOK(Read(x)) /\ Read(x).names = x.names
<1>1. ExtendTtl(x.until) \in 0 .. Furthest /\ Furthest \in Nat
  BY Lifetimes DEF PageOK
<1>2. [x EXCEPT !.until = ExtendTtl(x.until)] = [names |-> x.names, until |-> ExtendTtl(x.until)]
  BY DEF PageOK, PageRecord
<1>3. CASE x.names = <<>>
  BY <1>3 DEF Read
<1>4. CASE x.names # <<>>
  <2>1. Read(x) = [names |-> x.names, until |-> ExtendTtl(x.until)]
    BY <1>2, <1>4 DEF Read
  <2> QED BY <1>1, <2>1 DEF PageOK, PageRecord
<1> QED BY <1>3, <1>4

Lists(ps) == [p \in DOMAIN ps |-> ps[p].names]

(* The lists on the pages. *)
LEMMA ListsFacts ==
  ASSUME NEW ps \in Seq(PageRecord)
  PROVE  /\ Lists(ps) \in Seq(Seq(Names))
         /\ DOMAIN ps = 1 .. Len(ps) /\ Len(ps) \in Nat
         /\ DOMAIN Lists(ps) = 1 .. Len(ps) /\ Len(Lists(ps)) = Len(ps)
         /\ \A p \in 1 .. Len(ps) : Lists(ps)[p] = ps[p].names /\ ps[p].names \in Seq(Names)
<1>1. DOMAIN ps = 1 .. Len(ps) /\ Len(ps) \in Nat
  BY LenProperties
<1>2. \A p \in 1 .. Len(ps) : ps[p].names \in Seq(Names)
  <2>1. \A p \in 1 .. Len(ps) : ps[p] \in PageRecord
    BY <1>1, ElementOfSeq
  <2> QED BY <2>1 DEF PageRecord
<1> QED BY <1>1, <1>2 DEF Lists

(* A registration writes one page, the last or a new one, and reads one.   *)
LEMMA RegisterPages ==
  ASSUME TypeOK, pages \in Seq(PageRecord), NEW n \in Names, Register(n)
  PROVE  /\ pages' \in Seq(PageRecord) /\ \A p \in DOMAIN pages' : PageOK(pages'[p])
         /\ Flat' = Append(Flat, n)
<1> DEFINE last == Len(pages)
           full == last = 0 \/ Len(pages[last].names) >= ChunkSize
           front == [p \in DOMAIN pages |-> IF p = last THEN Read(pages[p]) ELSE pages[p]]
           new == Page(<<n>>, NewEntry)
<1>1. /\ DOMAIN pages = 1 .. last /\ last \in Nat
      /\ \A p \in 1 .. last : PageOK(pages[p])
  <2>1. DOMAIN pages = 1 .. last /\ last \in Nat
    BY ListsFacts
  <2>2. \A p \in 1 .. last : pages[p] \in PageRecord
    BY <2>1, ElementOfSeq
  <2> QED BY <2>1, <2>2 DEF PageOK, TypeOK
<1>2. NewEntry \in 0 .. Furthest /\ Furthest \in Nat /\ ChunkSize \in Nat \ {0}
  BY Lifetimes, KeeperAssumption
<1>3. Flat = Flatten(Lists(pages)) /\ Flat' = Flatten(Lists(pages'))
  BY DEF Flat, Lists
<1>4. CASE full
  <2>1. pages' = Append(front, new)
    BY <1>4 DEF Register
  <2>2. \A p \in 1 .. last : PageOK(front[p]) /\ front[p].names = pages[p].names
    BY <1>1, ReadFacts
  <2>3. PageOK(new) /\ new.names = <<n>>
    BY <1>2 DEF PageOK, PageRecord, Page
  <2>4. front \in Seq(PageRecord) /\ Len(front) = last
    <3>1. DOMAIN front = 1 .. last /\ \A p \in 1 .. last : front[p] \in PageRecord
      BY <1>1, <2>2 DEF PageOK
    <3> HIDE DEF front
    <3>2. front = [p \in 1 .. last |-> front[p]]
      BY <1>1, <3>1 DEF front
    <3> QED BY <1>1, <3>1, <3>2
  <2> HIDE DEF front, new
  <2>5. /\ pages' \in Seq(PageRecord) /\ Len(pages') = last + 1
        /\ pages'[last + 1] = new /\ \A p \in 1 .. last : pages'[p] = front[p]
    BY <2>1, <2>3, <2>4, AppendProperties DEF PageOK
  <2>6. DOMAIN pages' = 1 .. last + 1
    BY <2>5, LenProperties
  <2>7. \A p \in DOMAIN pages' : PageOK(pages'[p])
    BY <1>1, <2>2, <2>3, <2>5, <2>6
  <2>8. NewPage(Lists(pages'), Lists(pages), n)
    <3>1. /\ DOMAIN Lists(pages') = 1 .. last + 1 /\ Len(Lists(pages)) = last
          /\ \A p \in 1 .. last + 1 : Lists(pages')[p] = pages'[p].names
          /\ \A p \in 1 .. last : Lists(pages)[p] = pages[p].names
      BY <2>5, ListsFacts
    <3>2. Lists(pages')[last + 1] = <<n>>
      BY <1>1, <2>3, <2>5, <3>1
    <3>3. \A p \in 1 .. last : Lists(pages')[p] = Lists(pages)[p]
      BY <1>1, <2>2, <2>5, <3>1
    <3> QED BY <3>1, <3>2, <3>3 DEF NewPage
  <2>9. Flat' = Append(Flat, n)
    <3>1. Lists(pages) \in Seq(Seq(Names)) /\ Lists(pages') \in Seq(Seq(Names))
      BY <2>5, ListsFacts
    <3> QED BY <1>3, <2>8, <3>1, FlattenAdd
  <2> QED BY <2>5, <2>7, <2>9
<1>5. CASE ~full
  <2> DEFINE x == pages[last]
             y == Page(Append(x.names, n), ExtendTtl(x.until))
  <2>1. last \in 1 .. last /\ PageOK(x) /\ Len(x.names) < ChunkSize
    <3>1. last # 0 /\ ~(Len(x.names) >= ChunkSize)
      BY <1>5
    <3>2. PageOK(x) /\ last \in 1 .. last
      BY <1>1, <3>1
    <3>3. Len(x.names) \in Nat
      BY <3>2, LenProperties DEF PageOK, PageRecord
    <3> QED BY <1>2, <3>1, <3>2, <3>3
  <2>2. pages' = [pages EXCEPT ![last] = y]
    BY <1>5 DEF Register
  <2>3. /\ Append(x.names, n) \in Seq(Names) /\ Len(Append(x.names, n)) <= ChunkSize
    <3>1. x.names \in Seq(Names) /\ Len(x.names) \in Nat
      BY <2>1, LenProperties DEF PageOK, PageRecord
    <3>2. Append(x.names, n) \in Seq(Names) /\ Len(Append(x.names, n)) = Len(x.names) + 1
      BY <3>1, AppendProperties
    <3> QED BY <1>2, <2>1, <3>1, <3>2
  <2>4. PageOK(y) /\ y.names = Append(x.names, n)
    <3>1. ExtendTtl(x.until) \in 0 .. Furthest
      BY <2>1, Lifetimes DEF PageOK
    <3> QED BY <1>2, <2>3, <3>1 DEF PageOK, PageRecord, Page
  <2> HIDE DEF y
  <2>5. /\ pages' \in Seq(PageRecord) /\ DOMAIN pages' = 1 .. last /\ Len(pages') = last
        /\ pages'[last] = y /\ \A p \in 1 .. last : p # last => pages'[p] = pages[p]
    <3>1. DOMAIN pages' = 1 .. last /\ pages'[last] = y
          /\ \A p \in 1 .. last : p # last => pages'[p] = pages[p]
      BY <1>1, <2>1, <2>2
    <3>2. y \in PageRecord /\ last \in DOMAIN pages
      BY <1>1, <2>1, <2>4 DEF PageOK
    <3>3. pages' \in Seq(PageRecord) /\ Len(pages') = last
      BY <2>2, <3>2, ExceptSeq
    <3> QED BY <3>1, <3>3
  <2>6. \A p \in DOMAIN pages' : PageOK(pages'[p])
    BY <1>1, <2>4, <2>5
  <2>7. LastPageGrows(Lists(pages'), Lists(pages), n)
    <3>1. /\ DOMAIN Lists(pages') = 1 .. last /\ Len(Lists(pages)) = last
          /\ \A p \in 1 .. last : Lists(pages')[p] = pages'[p].names
          /\ \A p \in 1 .. last : Lists(pages)[p] = pages[p].names
      BY <2>5, ListsFacts
    <3>2. last > 0
      BY <1>1, <2>1
    <3>3. Lists(pages')[last] = Append(Lists(pages)[last], n)
      BY <2>1, <2>4, <2>5, <3>1
    <3>4. \A p \in 1 .. last : p # last => Lists(pages')[p] = Lists(pages)[p]
      BY <2>5, <3>1
    <3> QED BY <3>1, <3>2, <3>3, <3>4 DEF LastPageGrows
  <2>8. Flat' = Append(Flat, n)
    <3>1. Lists(pages) \in Seq(Seq(Names)) /\ Lists(pages') \in Seq(Seq(Names))
      BY <2>5, ListsFacts
    <3> QED BY <1>3, <2>7, <3>1, FlattenAdd
  <2> QED BY <2>5, <2>6, <2>8
<1> QED BY <1>4, <1>5

(* A removal takes the name from its page and reads the pages before it.   *)
LEMMA RemovePages ==
  ASSUME TypeOK, pages \in Seq(PageRecord), Listed, NEW n \in Names, Remove(n)
  PROVE  /\ pages' \in Seq(PageRecord) /\ \A p \in DOMAIN pages' : PageOK(pages'[p])
         /\ Flat' = Without(Flat, {n})
<1> DEFINE ch == Lists(pages)
           last == Len(pages)
<1>1. PICK q \in PagesOf(n) :
        pages' = [p \in DOMAIN pages |->
            IF p > q THEN pages[p]
            ELSE IF p < q THEN Read(pages[p])
            ELSE Page(Without(pages[p].names, {n}), ExtendTtl(pages[p].until))]
  BY DEF Remove
<1>2. /\ ch \in Seq(Seq(Names)) /\ DOMAIN pages = 1 .. last /\ last \in Nat
      /\ DOMAIN ch = 1 .. last
      /\ \A p \in 1 .. last : ch[p] = pages[p].names /\ ch[p] \in Seq(Names)
  BY ListsFacts
<1>3. \A p \in 1 .. last : PageOK(pages[p])
  <2>1. \A p \in 1 .. last : pages[p] \in PageRecord
    BY <1>2, ElementOfSeq
  <2> QED BY <1>2, <2>1 DEF PageOK, TypeOK
<1>4. Flat = Flatten(ch) /\ Flat' = Flatten(Lists(pages'))
  BY DEF Flat, Lists
<1>5. q \in 1 .. last /\ n \in Entries(ch[q])
  BY <1>2 DEF PagesOf
<1>6. ASSUME NEW p \in 1 .. last
      PROVE  PageOK(pages'[p]) /\ pages'[p].names = Without(ch[p], {n})
  <2>1. CASE p = q
    <3> DEFINE w == Without(ch[p], {n})
    <3>1. pages'[p] = Page(w, ExtendTtl(pages[p].until))
      BY <1>1, <1>2, <1>5, <2>1
    <3>2. w \in Seq(Names) /\ Len(w) \in Nat /\ Len(w) <= Len(ch[p]) /\ Len(ch[p]) \in Nat
      <4>1. ch[p] \in Seq(Names)
        BY <1>2
      <4> HIDE DEF ch
      <4>2. w \in Seq(Names) /\ Len(w) <= Len(ch[p])
        BY <4>1, WithoutFacts, WithoutShorter
      <4> QED BY <4>1, <4>2, LenProperties
    <3>3. Len(ch[p]) <= ChunkSize /\ ChunkSize \in Nat
      BY <1>2, <1>3, KeeperAssumption DEF PageOK
    <3>4. ExtendTtl(pages[p].until) \in 0 .. Furthest /\ Furthest \in Nat
      BY <1>3, Lifetimes DEF PageOK
    <3> HIDE DEF w
    <3>5. Len(w) <= ChunkSize
      BY <3>2, <3>3
    <3>6. PageOK(pages'[p]) /\ pages'[p].names = w
      BY <3>1, <3>2, <3>4, <3>5 DEF PageOK, PageRecord, Page
    <3> QED BY <3>6 DEF w
  <2>2. CASE p # q
    <3>1. pages'[p] = pages[p] \/ pages'[p] = Read(pages[p])
      BY <1>1, <1>2, <1>5, <2>2
    <3>2. PageOK(pages'[p]) /\ pages'[p].names = pages[p].names
      BY <1>3, <3>1, ReadFacts
    <3>3. n \notin Entries(ch[p])
      <4>1. \A i, j \in DOMAIN Flatten(ch) : Flatten(ch)[i] = Flatten(ch)[j] => i = j
        BY <1>4 DEF Listed
      <4>2. p \in DOMAIN ch /\ q \in DOMAIN ch
        BY <1>2, <1>5
      <4> HIDE DEF ch
      <4> QED BY <1>2, <1>5, <2>2, <4>1, <4>2, OnOnePage
    <3>4. Without(ch[p], {n}) = ch[p]
      <4>1. ch[p] \in Seq(Names) /\ Entries(ch[p]) \cap {n} = {}
        BY <1>2, <3>3
      <4> QED BY <4>1, WithoutNothing
    <3> QED BY <1>2, <3>2, <3>4
  <2> QED BY <2>1, <2>2
<1>7. DOMAIN pages' = 1 .. last
  BY <1>1, <1>2
<1>8. pages' \in Seq(PageRecord)
  <2>1. \A p \in 1 .. last : pages'[p] \in PageRecord
    BY <1>6 DEF PageOK
  <2>2. pages' = [p \in 1 .. last |-> pages'[p]]
    BY <1>1, <1>2
  <2>3. pages' \in [1 .. last -> PageRecord] /\ last \in Nat
    BY <1>2, <2>1, <2>2
  <2> HIDE DEF last
  <2> QED BY <2>3
<1>9. Lists(pages') = [p \in DOMAIN ch |-> Without(ch[p], {n})]
  BY <1>2, <1>6, <1>7 DEF Lists
<1>10. Flat' = Without(Flat, {n})
  <2> HIDE DEF ch
  <2> QED BY <1>2, <1>4, <1>9, FlattenWithout
<1> QED BY <1>6, <1>7, <1>8, <1>10

-----------------------------------------------------------------------------
(* The list and the walk. *)

(* The list of names. *)
LEMMA FlatFacts ==
  ASSUME Inv
  PROVE  /\ Flat \in Seq(Names) /\ DOMAIN Flat = 1 .. Len(Flat)
         /\ Len(Flat) \in Nat /\ Len(Flat) <= Cardinality(Names)
         /\ \A i \in 1 .. Len(Flat) : Flat[i] \in Registered
         /\ \A n \in Registered : \E i \in 1 .. Len(Flat) : Flat[i] = n
<1>1. Flat = Flatten(Lists(pages))
  BY DEF Flat, Lists
<1>2. Flat \in Seq(Names)
  <2>1. Lists(pages) \in Seq(Seq(Names))
    BY ListsFacts DEF Inv
  <2> QED BY <1>1, <2>1, FlattenFacts
<1>3. DOMAIN Flat = 1 .. Len(Flat)
  BY <1>2, LenProperties
<1>4. Len(Flat) \in Nat /\ Len(Flat) <= Cardinality(Names)
  BY <1>2, NamesFinite, ListedAtMostOnce DEF Inv, Listed
<1> QED BY <1>2, <1>3, <1>4 DEF Inv, Listed, Entries

(* Without a new page and with the same names registered the list stands.  *)
LEMMA ListKept ==
  ASSUME Inv, UNCHANGED pages, Registered' = Registered
  PROVE  Listed' /\ Flat' = Flat
<1>1. Flat' = Flat
  BY DEF Flat
<1> QED BY <1>1 DEF Inv, Listed

(* Whoever else acts: lifetimes that do not shrink, names that come last   *)
(* and fresh, leave a pass where it was.                                   *)
LEMMA WalkKept ==
  ASSUME Inv, UNCHANGED <<pass, gen>>,
         Len(Flat') \in Nat, Len(Flat) <= Len(Flat'),
         \A i \in 1 .. Len(Flat) : Flat'[i] = Flat[i],
         \A n \in Names : Covered(n) => until'[n] > started + Threshold,
         \A n \in Registered' \ Registered : until'[n] > started + Threshold
  PROVE  Walking'
<1>1. /\ Len(Flat) \in Nat
      /\ \A i \in 1 .. Len(Flat) : Flat[i] \in Registered /\ Flat[i] \in Names
  BY FlatFacts DEF Registered
<1>2. /\ cursor.offset \in Nat /\ \A c \in Cursors : c.offset \in Nat
      /\ UNCHANGED <<pc, cursor, batch, next, failed, started, gen>>
  BY DEF Inv, TypeOK, Cursors, pass
<1>3. ASSUME Reading PROVE Reading'
  <2> SUFFICES ASSUME pc = "read", cursor.gen = gen, Prefix(cursor.offset)
               PROVE  Prefix(cursor.offset)'
    BY <1>2, <1>3 DEF Reading
  <2>1. \A i \in 1 .. cursor.offset : i \in 1 .. Len(Flat)
    BY <1>1, <1>2 DEF Prefix
  <2>2. ASSUME failed = 0, NEW i \in 1 .. cursor.offset
        PROVE  until'[Flat'[i]] > started + Threshold
    <3>1. Covered(Flat[i]) /\ Flat'[i] = Flat[i] /\ Flat[i] \in Names
      BY <1>1, <2>1, <2>2 DEF Prefix
    <3> QED BY <3>1
  <2> QED BY <1>1, <1>2, <2>2 DEF Prefix, Covered
<1>4. ASSUME Sending PROVE Sending'
  <2> SUFFICES ASSUME pc = "send"
               PROVE  /\ next = <<>> /\ failed = 0 =>
                           \A n \in Registered' :
                             n \in Entries(batch) \/ until'[n] > started + Threshold
                      /\ \A c \in Cursors : next = <<c>> =>
                           /\ cursor.offset < c.offset /\ c.gen <= gen
                           /\ c.gen = gen =>
                                /\ c.offset <= Len(Flat')
                                /\ failed = 0 => \A i \in 1 .. c.offset :
                                                   \/ Flat'[i] \in Entries(batch)
                                                   \/ until'[Flat'[i]] > started + Threshold
    BY <1>2 DEF Sending, Covered
  <2>1. ASSUME next = <<>>, failed = 0, NEW n \in Registered'
        PROVE  n \in Entries(batch) \/ until'[n] > started + Threshold
    BY <1>4, <2>1 DEF Sending, Registered
  <2>2. ASSUME NEW c \in Cursors, next = <<c>>
        PROVE  /\ cursor.offset < c.offset /\ c.gen <= gen
               /\ c.gen = gen =>
                    /\ c.offset <= Len(Flat')
                    /\ failed = 0 => \A i \in 1 .. c.offset :
                                       \/ Flat'[i] \in Entries(batch)
                                       \/ until'[Flat'[i]] > started + Threshold
    <3>1. /\ cursor.offset < c.offset /\ c.gen <= gen
          /\ c.gen = gen =>
               /\ c.offset <= Len(Flat)
               /\ failed = 0 => \A i \in 1 .. c.offset :
                                  Flat[i] \in Entries(batch) \/ Covered(Flat[i])
      BY <1>4, <2>2 DEF Sending
    <3>2. ASSUME c.gen = gen
          PROVE  /\ c.offset <= Len(Flat')
                 /\ \A i \in 1 .. c.offset : Flat'[i] = Flat[i] /\ Flat[i] \in Names
      <4>1. c.offset <= Len(Flat) /\ c.offset \in Nat
        BY <1>2, <3>1, <3>2
      <4>2. \A i \in 1 .. c.offset : i \in 1 .. Len(Flat)
        BY <1>1, <4>1
      <4> QED BY <1>1, <4>1, <4>2
    <3> QED BY <3>1, <3>2
  <2> QED BY <2>1, <2>2
<1> QED BY <1>2, <1>3, <1>4 DEF Inv, Walking

(* A pass that has ended holds nothing. *)
LEMMA IdleWalk ==
  ASSUME Exit, gen' \in Nat
  PROVE  Walking'
BY DEF Exit, Walking, Reading, Sending, FirstCursor

-----------------------------------------------------------------------------
(* One lemma per kind of step. *)

(* A registration adds a fresh name at the end. *)
LEMMA RegisterKeeps ==
  ASSUME Inv, NEW n \in Names, Register(n)
  PROVE  Inv'
<1>1. /\ TypeOK /\ pages \in Seq(PageRecord) /\ until[n] = 0
      /\ UNCHANGED <<ledger, gen, pass, lastClean, failures>>
      /\ until' = [until EXCEPT ![n] = NewEntry]
  BY DEF Inv, Register
<1>2. /\ ledger \in Nat /\ Threshold \in Nat /\ started \in 0 .. ledger
      /\ lastClean \in 0 .. ledger /\ Furthest \in Nat
      /\ NewEntry \in 0 .. Furthest /\ NewEntry > ledger + Threshold
      /\ until \in [Names -> 0 .. Furthest]
  BY <1>1, Lifetimes, PassNumbers
<1>3. /\ pages' \in Seq(PageRecord) /\ \A p \in DOMAIN pages' : PageOK(pages'[p])
      /\ Flat' = Append(Flat, n)
  BY <1>1, RegisterPages
<1>4. Furthest' = Furthest /\ UNCHANGED <<pc, cursor, batch, next, failed, started>>
  BY <1>1 DEF Furthest, pass
<1>5. until' \in [Names -> 0 .. Furthest]
  BY <1>1, <1>2
<1>6. TypeOK'
  <2>1. \A p \in DOMAIN pages' : /\ pages'[p].names \in Seq(Names)
                                  /\ Len(pages'[p].names) <= ChunkSize
                                  /\ pages'[p].until \in 0 .. Furthest
    BY <1>3 DEF PageOK, PageRecord
  <2> QED BY <1>1, <1>4, <1>5, <2>1 DEF TypeOK
<1>7. Registered' = Registered \cup {n} /\ n \notin Registered
  BY <1>1, <1>2 DEF Registered
<1>8. Listed'
  <2>1. Flat \in Seq(Names) /\ n \notin Entries(Flat)
    BY <1>7, FlatFacts DEF Inv, Listed
  <2>2. /\ Entries(Flat') = Entries(Flat) \cup {n}
        /\ \A i, j \in DOMAIN Flat' : Flat'[i] = Flat'[j] => i = j
    BY <1>3, <2>1, AppendFacts DEF Inv, Listed
  <2> QED BY <1>7, <2>2 DEF Inv, Listed
<1>9. Walking'
  <2>1. /\ Len(Flat') \in Nat /\ Len(Flat) <= Len(Flat')
        /\ \A i \in 1 .. Len(Flat) : Flat'[i] = Flat[i]
    BY <1>3, FlatFacts, AppendProperties
  <2>2. \A m \in Names : until'[m] = until[m] \/ until'[m] > started + Threshold
    BY <1>1, <1>2
  <2>3. until'[n] > started + Threshold
    BY <1>1, <1>2
  <2> QED BY <1>1, <1>7, <2>1, <2>2, <2>3, WalkKept DEF Covered
<1>10. CleanPassProtects'
  <2>1. \A m \in Registered \cup {n} : until'[m] > lastClean + Threshold
    BY <1>1, <1>2, <1>7 DEF Inv, CleanPassProtects
  <2> QED BY <1>1, <1>7, <2>1 DEF CleanPassProtects
<1> QED BY <1>3, <1>6, <1>8, <1>9, <1>10 DEF Inv

Extending(X) ==
  until' = [m \in Names |-> IF m \in X THEN ExtendTtl(until[m]) ELSE until[m]]

(* Extending records shortens no life and changes nothing else.            *)
LEMMA Extended ==
  ASSUME Inv, NEW X \in SUBSET Registered, UNCHANGED ledger, Extending(X)
  PROVE  /\ until' \in [Names -> 0 .. Furthest] /\ Furthest' = Furthest
         /\ Registered' = Registered
         /\ \A m \in Names : until'[m] >= until[m]
         /\ \A m \in X : until'[m] > ledger + Threshold
<1>1. /\ ledger \in Nat /\ Furthest \in Nat /\ Threshold \in Nat
      /\ \A u \in 0 .. Furthest : /\ ExtendTtl(u) \in 0 .. Furthest
                                   /\ ExtendTtl(u) >= u /\ ExtendTtl(u) > ledger + Threshold
      /\ until \in [Names -> 0 .. Furthest]
  BY Lifetimes, PassNumbers DEF Inv
<1>2. \A m \in X : m \in Names /\ until[m] # 0
  BY DEF Registered
<1>3. \A m \in Names : until'[m] = IF m \in X THEN ExtendTtl(until[m]) ELSE until[m]
  BY DEF Extending
<1>4. ASSUME NEW m \in Names
      PROVE  /\ until'[m] \in 0 .. Furthest /\ until'[m] >= until[m]
             /\ until'[m] = 0 <=> until[m] = 0
             /\ m \in X => until'[m] > ledger + Threshold
  <2>1. until[m] \in 0 .. Furthest
    BY <1>1
  <2>2. CASE m \in X
    BY <1>1, <1>2, <1>3, <2>1, <2>2
  <2>3. CASE m \notin X
    BY <1>1, <1>3, <2>1, <2>3
  <2> QED BY <2>2, <2>3
<1>5. until' \in [Names -> 0 .. Furthest]
  <2>1. until' = [m \in Names |-> until'[m]]
    BY DEF Extending
  <2> QED BY <1>4, <2>1
<1>6. Registered' = Registered
  BY <1>4 DEF Registered
<1>7. Furthest' = Furthest
  BY DEF Furthest
<1> QED BY <1>2, <1>4, <1>5, <1>6, <1>7

(* The use of a record extends it. *)
LEMMA UseKeeps ==
  ASSUME Inv, NEW n \in Names, Use(n)
  PROVE  Inv'
<1>1. /\ n \in Registered /\ until \in [Names -> 0 .. Furthest]
      /\ UNCHANGED <<ledger, pages, gen, pass, lastClean, failures>>
      /\ until' = [until EXCEPT ![n] = ExtendTtl(until[n])]
  BY DEF Inv, TypeOK, Use
<1>2. Extending({n})
  BY <1>1 DEF Extending
<1>3. /\ until' \in [Names -> 0 .. Furthest] /\ Furthest' = Furthest
      /\ Registered' = Registered /\ \A m \in Names : until'[m] >= until[m]
  <2>1. {n} \in SUBSET Registered
    BY <1>1
  <2> QED BY <1>1, <1>2, <2>1, Extended
<1>4. TypeOK'
  BY <1>1, <1>3 DEF Inv, TypeOK, pass
<1>5. Listed' /\ Flat' = Flat
  BY <1>1, <1>3, ListKept
<1>6. \A m \in Names, b \in Nat : until[m] > b => until'[m] > b
  BY <1>1, <1>3
<1>7. started + Threshold \in Nat /\ lastClean + Threshold \in Nat
  BY KeeperAssumption DEF Inv, TypeOK
<1>8. Walking'
  BY <1>1, <1>3, <1>5, <1>6, <1>7, FlatFacts, WalkKept DEF Covered
<1>9. CleanPassProtects'
  BY <1>1, <1>3, <1>6, <1>7 DEF Inv, CleanPassProtects, Registered
<1> QED BY <1>1, <1>4, <1>5, <1>8, <1>9 DEF Inv

(* A removal outdates every cursor. *)
LEMMA RemoveKeeps ==
  ASSUME Inv, NEW n \in Names, Remove(n)
  PROVE  Inv'
<1>1. /\ TypeOK /\ pages \in Seq(PageRecord) /\ Listed
      /\ UNCHANGED <<ledger, pass, lastClean, failures>>
      /\ until' = [until EXCEPT ![n] = 0] /\ gen' = gen + 1 /\ gen < MaxRemovals
  BY DEF Inv, Remove
<1>2. /\ gen \in Nat /\ MaxRemovals \in Nat /\ cursor.gen \in Nat
      /\ \A c \in Cursors : c.gen \in Nat /\ until \in [Names -> 0 .. Furthest]
  BY <1>1, KeeperAssumption DEF TypeOK, Cursors
<1>3. /\ pages' \in Seq(PageRecord) /\ \A p \in DOMAIN pages' : PageOK(pages'[p])
      /\ Flat' = Without(Flat, {n})
  BY <1>1, RemovePages
<1>4. Furthest' = Furthest /\ UNCHANGED <<pc, cursor, batch, next, failed, started>>
  BY <1>1 DEF Furthest, pass
<1>5. until' \in [Names -> 0 .. Furthest]
  <2>1. until \in [Names -> 0 .. Furthest] /\ 0 \in 0 .. Furthest
    BY <1>1, Lifetimes DEF TypeOK
  <2> QED BY <1>1, <2>1
<1>6. TypeOK'
  <2>1. \A p \in DOMAIN pages' : /\ pages'[p].names \in Seq(Names)
                                  /\ Len(pages'[p].names) <= ChunkSize
                                  /\ pages'[p].until \in 0 .. Furthest
    BY <1>3 DEF PageOK, PageRecord
  <2>2. gen' \in 0 .. MaxRemovals
    BY <1>1, <1>2
  <2> QED BY <1>1, <1>4, <1>5, <2>1, <2>2 DEF TypeOK
<1>7. Registered' = Registered \ {n} /\ \A m \in Registered' : until'[m] = until[m]
  BY <1>1, <1>2 DEF Registered, TypeOK
<1>8. Listed'
  <2>1. Flat \in Seq(Names)
    BY FlatFacts
  <2>2. /\ Entries(Flat') = Entries(Flat) \ {n}
        /\ \A i, j \in DOMAIN Flat' : Flat'[i] = Flat'[j] => i = j
    <3>1. /\ Entries(Without(Flat, {n})) = Entries(Flat) \ {n}
          /\ (\A i, j \in DOMAIN Flat : Flat[i] = Flat[j] => i = j)
               => \A i, j \in DOMAIN Without(Flat, {n}) :
                    Without(Flat, {n})[i] = Without(Flat, {n})[j] => i = j
      BY <2>1, WithoutFacts
    <3> QED BY <1>1, <1>3, <3>1 DEF Listed
  <2> QED BY <1>1, <1>7, <2>2 DEF Listed
<1>9. Walking'
  <2>1. cursor.gen <= gen /\ failed <= cursor.offset /\ Sending
    BY DEF Inv, Walking
  <2>2. cursor.gen <= gen' /\ Reading'
    BY <1>1, <1>2, <1>4, <2>1 DEF Reading
  <2>3. \A c \in Cursors : pc = "send" /\ next = <<c>> =>
          cursor.offset < c.offset /\ c.gen <= gen' /\ c.gen # gen'
    BY <1>1, <1>2, <2>1 DEF Sending
  <2>4. pc = "send" /\ next = <<>> /\ failed = 0 =>
          \A m \in Registered' : m \in Entries(batch) \/ until'[m] > started + Threshold
    BY <1>7, <2>1 DEF Sending, Covered
  <2>5. Sending'
    BY <1>4, <2>3, <2>4 DEF Sending, Covered
  <2> QED BY <1>2, <1>4, <2>1, <2>2, <2>5 DEF Walking
<1>10. CleanPassProtects'
  BY <1>1, <1>7 DEF Inv, CleanPassProtects
<1> QED BY <1>3, <1>6, <1>8, <1>9, <1>10 DEF Inv

(* Time passes. *)
LEMMA CloseLedgerKeeps ==
  ASSUME Inv, CloseLedger
  PROVE  Inv'
<1>1. /\ UNCHANGED <<contract, pass, lastClean, failures>> /\ ledger' = ledger + 1
      /\ ledger \in Nat /\ ledger < MaxLedger /\ MaxLedger \in Nat /\ TypeOK
  BY KeeperAssumption DEF CloseLedger, Inv, TypeOK
<1>2. UNCHANGED <<until, pages, gen, pc, cursor, batch, next, failed, started>>
  BY <1>1 DEF contract, pass
<1>3. Furthest \in Nat /\ Furthest' = Furthest + 1
  BY <1>1, KeeperAssumption DEF Furthest
<1>4. \A u \in 0 .. Furthest : u \in 0 .. Furthest'
  BY <1>3
<1>5. TypeOK'
  <2>1. ledger' \in 0 .. MaxLedger /\ started' \in 0 .. ledger' /\ lastClean' \in 0 .. ledger'
    BY <1>1, <1>2 DEF TypeOK
  <2>2. until' \in [Names -> 0 .. Furthest']
    BY <1>1, <1>2, <1>4 DEF TypeOK
  <2>3. \A p \in DOMAIN pages' : pages'[p].until \in 0 .. Furthest'
    BY <1>1, <1>2, <1>4 DEF TypeOK
  <2> QED BY <1>1, <1>2, <2>1, <2>2, <2>3 DEF TypeOK
<1>6. Registered' = Registered
  BY <1>2 DEF Registered
<1>7. Listed' /\ Flat' = Flat
  BY <1>2, <1>6, ListKept
<1>8. Walking'
  BY <1>1, <1>2, <1>6, <1>7, FlatFacts, WalkKept DEF Covered
<1>9. CleanPassProtects'
  BY <1>1, <1>2, <1>6 DEF Inv, CleanPassProtects
<1> QED BY <1>2, <1>5, <1>7, <1>8, <1>9 DEF Inv

(* The end of a pass without a claim. *)
LEMMA AbortKeeps ==
  ASSUME Inv, Exit, UNCHANGED <<ledger, contract>>, failures' \in 0 .. MaxFailures,
         lastClean' = lastClean \/ (lastClean' = started /\ \A n \in Registered : Covered(n))
  PROVE  Inv'
<1>1. UNCHANGED <<ledger, until, pages, gen, started>> /\ TypeOK /\ gen \in Nat
  BY DEF contract, Exit, Inv, TypeOK
<1>2. Registered' = Registered /\ Furthest' = Furthest
  BY <1>1 DEF Registered, Furthest
<1>3. Walking'
  BY <1>1, IdleWalk
<1>4. Listed'
  BY <1>1, <1>2, ListKept
<1>5. TypeOK'
  <2>1. 0 \in Nat /\ 0 \in 0 .. MaxRemovals /\ 0 \in 0 .. Cardinality(Names)
    BY KeeperAssumption, NamesFinite
  <2>2. FirstCursor \in Cursors
    BY <2>1 DEF FirstCursor, Cursors
  <2>3. <<>> \in Seq(Names) /\ Len(<<>>) <= BatchSize
    BY KeeperAssumption
  <2>4. lastClean' \in 0 .. ledger
    BY <1>1 DEF TypeOK
  <2> QED BY <1>1, <1>2, <2>1, <2>2, <2>3, <2>4 DEF TypeOK, Exit
<1>6. CleanPassProtects'
  BY <1>1, <1>2 DEF Inv, CleanPassProtects, Covered
<1> QED BY <1>1, <1>3, <1>4, <1>5, <1>6 DEF Inv

(* A pass starts with nothing to show. *)
LEMMA StartKeeps ==
  ASSUME Inv, Start
  PROVE  Inv'
<1>1. /\ UNCHANGED <<ledger, until, pages, gen, lastClean, failures>> /\ TypeOK
      /\ gen \in Nat /\ ledger \in Nat
  BY DEF contract, Start, Inv, TypeOK
<1>2. Registered' = Registered /\ Furthest' = Furthest
  BY <1>1 DEF Registered, Furthest
<1>3. Listed' /\ Flat' = Flat /\ Len(Flat) \in Nat
  BY <1>1, <1>2, ListKept, FlatFacts
<1>4. Walking'
  BY <1>1, <1>3 DEF Start, Walking, Reading, Sending, Prefix, FirstCursor
<1>5. TypeOK'
  <2>1. 0 \in 0 .. MaxRemovals /\ 0 \in 0 .. Cardinality(Names)
    BY KeeperAssumption, NamesFinite
  <2>2. FirstCursor \in Cursors
    BY <2>1 DEF FirstCursor, Cursors
  <2>3. <<>> \in Seq(Names) /\ Len(<<>>) <= BatchSize
    BY KeeperAssumption
  <2> QED BY <1>1, <1>2, <2>1, <2>2, <2>3 DEF TypeOK, Start
<1>6. CleanPassProtects'
  BY <1>1, <1>2 DEF Inv, CleanPassProtects
<1> QED BY <1>1, <1>3, <1>4, <1>5, <1>6 DEF Inv

(* A page read after the prefix: what the pass holds is the longer prefix, *)
(* once the names on the page are extended.                                *)
LEMMA ReadPageKeeps ==
  ASSUME Inv, ReadPage
  PROVE  Inv'
<1> DEFINE o == cursor.offset
           e == WalkEnd
           names == SubSeq(Flat, o + 1, e)
           more == IF e < Len(Flat) THEN <<[offset |-> e, gen |-> gen]>> ELSE <<>>
<1>1. /\ UNCHANGED <<ledger, contract, failures>> /\ pc = "read" /\ Decodes(cursor)
      /\ TypeOK /\ Walking
      /\ \/ /\ names # <<>>
            /\ pc' = "send" /\ batch' = names /\ next' = more
            /\ UNCHANGED <<cursor, failed, started, lastClean>>
         \/ names = <<>> /\ Leave(failed)
  BY DEF ReadPage, Inv
<1>2. /\ UNCHANGED <<until, pages, gen>> /\ cursor.gen = gen /\ o <= Len(Flat)
      /\ o \in Nat /\ BatchSize \in Nat /\ BatchSize > 0 /\ failed \in Nat
  BY <1>1, KeeperAssumption DEF contract, Decodes, TypeOK, Cursors
<1>3. /\ Flat \in Seq(Names) /\ Len(Flat) \in Nat /\ Len(Flat) <= Cardinality(Names)
      /\ \A n \in Registered : \E i \in 1 .. Len(Flat) : Flat[i] = n
  BY FlatFacts
<1>4. /\ e \in Nat /\ o <= e /\ e <= Len(Flat) /\ e <= o + BatchSize
      /\ e = o => e = Len(Flat)
  BY <1>2, <1>3 DEF WalkEnd, Clamp
<1>5. failed = 0 => \A i \in 1 .. o : Covered(Flat[i])
  BY <1>1, <1>2 DEF Walking, Reading, Prefix
<1> HIDE DEF o, e
<1>6. /\ names \in Seq(Names) /\ Len(names) = e - o /\ DOMAIN names = 1 .. e - o
      /\ \A i \in 1 .. e - o : names[i] = Flat[o + i]
  BY <1>2, <1>3, <1>4, Slice
<1>7. \A i \in 1 .. e : i \in 1 .. o \/ Flat[i] \in Entries(names)
  <2> SUFFICES ASSUME NEW i \in 1 .. e, i > o PROVE Flat[i] \in Entries(names)
    BY <1>2
  <2>1. i - o \in 1 .. e - o /\ o + (i - o) = i
    BY <1>2, <1>4
  <2> HIDE DEF names
  <2> QED BY <1>6, <2>1 DEF Entries
<1>8. CASE names = <<>>
  <2>1. e = Len(Flat) /\ e = o
    <3> HIDE DEF names
    <3>1. Len(names) = 0
      BY <1>8
    <3> QED BY <1>2, <1>4, <1>6, <3>1
  <2>2. failed = 0 => \A n \in Registered : Covered(n)
    BY <1>3, <1>5, <2>1
  <2>3. Exit /\ lastClean' = IF failed = 0 THEN started ELSE lastClean
    BY <1>1, <1>8 DEF Leave, ExitsZero
  <2>4. failures' \in 0 .. MaxFailures
    BY <1>1 DEF TypeOK
  <2> QED BY <1>1, <2>2, <2>3, <2>4, AbortKeeps
<1>9. CASE names # <<>>
  <2>1. pc' = "send" /\ batch' = names /\ next' = more
        /\ UNCHANGED <<cursor, failed, started, lastClean>>
    BY <1>1, <1>9
  <2>2. o < e /\ Len(names) <= BatchSize
    <3>1. Len(names) # 0
      BY <1>6, <1>9, EmptySeq
    <3> HIDE DEF names
    <3> QED BY <1>2, <1>4, <1>6, <3>1
  <2> HIDE DEF names
  <2>3. /\ more = <<>> \/ more = <<[offset |-> e, gen |-> gen]>>
        /\ more = <<>> => e = Len(Flat)
        /\ [offset |-> e, gen |-> gen] \in Cursors
    BY <1>1, <1>3, <1>4, NamesFinite DEF TypeOK, Cursors
  <2>4. Registered' = Registered /\ Furthest' = Furthest
    BY <1>1, <1>2 DEF Registered, Furthest
  <2>5. Listed' /\ Flat' = Flat
    BY <1>2, <2>4, ListKept
  <2>6. TypeOK'
    BY <1>1, <1>2, <1>6, <2>1, <2>2, <2>3, <2>4 DEF TypeOK
  <2>7. failed = 0 => \A i \in 1 .. e : Flat[i] \in Entries(names) \/ Covered(Flat[i])
    BY <1>5, <1>7
  <2>8. Sending'
    <3>1. ASSUME next' = <<>>, failed = 0, NEW n \in Registered
          PROVE  n \in Entries(names) \/ Covered(n)
      <4>1. PICK i \in 1 .. Len(Flat) : Flat[i] = n
        BY <1>3
      <4> QED BY <2>1, <2>3, <2>7, <3>1, <4>1
    <3>2. ASSUME NEW c \in Cursors, next' = <<c>>
          PROVE  /\ o < c.offset /\ c.gen <= gen /\ c.offset <= Len(Flat)
                 /\ failed = 0 => \A i \in 1 .. c.offset :
                                    Flat[i] \in Entries(names) \/ Covered(Flat[i])
      <4>1. c = [offset |-> e, gen |-> gen]
        BY <2>1, <2>3, <3>2
      <4>2. c.offset = e /\ c.gen = gen /\ gen \in Nat
        BY <1>1, <4>1 DEF TypeOK
      <4> QED BY <1>4, <2>2, <2>7, <4>2
    <3> HIDE DEF more
    <3>3. /\ next' = <<>> /\ failed' = 0 =>
               \A n \in Registered' : n \in Entries(batch') \/ until'[n] > started' + Threshold
          /\ \A c \in Cursors : next' = <<c>> =>
               /\ cursor'.offset < c.offset /\ c.gen <= gen'
               /\ c.gen = gen' =>
                    /\ c.offset <= Len(Flat')
                    /\ failed' = 0 => \A i \in 1 .. c.offset :
                          \/ Flat'[i] \in Entries(batch')
                          \/ until'[Flat'[i]] > started' + Threshold
      BY <1>2, <2>1, <2>4, <2>5, <3>1, <3>2 DEF Covered, o
    <3> QED BY <3>3 DEF Sending, Covered
  <2>9. Walking'
    BY <1>1, <1>2, <2>1, <2>8 DEF Walking, Reading
  <2>10. CleanPassProtects'
    BY <1>2, <2>1, <2>4 DEF Inv, CleanPassProtects
  <2> QED BY <1>2, <2>5, <2>6, <2>9, <2>10 DEF Inv
<1> QED BY <1>8, <1>9

(* A batch that goes through covers the page; with it the prefix up to the *)
(* next cursor is covered, or everything.                                  *)
LEMMA SendKeeps ==
  ASSUME Inv, Send
  PROVE  Inv'
<1> DEFINE X == Entries(batch) \cap Registered
<1>1. /\ UNCHANGED <<ledger, pages, gen, failures>> /\ pc = "send" /\ Advance(next, failed)
      /\ TypeOK /\ Walking /\ Extending(X)
  BY DEF Send, Inv, Extending
<1>2. /\ ledger \in Nat /\ gen \in Nat /\ failed \in Nat /\ Threshold \in Nat
      /\ started \in 0 .. ledger /\ lastClean \in 0 .. ledger
      /\ next \in {<<>>} \cup {<<c>> : c \in Cursors}
      /\ \A c \in Cursors : c.offset \in Nat /\ c.gen \in Nat
      /\ cursor.offset \in Nat /\ until \in [Names -> 0 .. Furthest] /\ Furthest \in Nat
  BY <1>1, PassNumbers, Zenon
<1>3. /\ until' \in [Names -> 0 .. Furthest] /\ Furthest' = Furthest
      /\ Registered' = Registered /\ \A m \in Names : until'[m] >= until[m]
      /\ \A m \in X : until'[m] > ledger + Threshold
  BY <1>1, Extended
<1>4. \A m \in Registered : m \in Names /\ (m \in Entries(batch) \/ Covered(m)
                                              => until'[m] > started + Threshold)
  <2> SUFFICES ASSUME NEW m \in Registered
               PROVE  m \in Names /\ (m \in Entries(batch) \/ Covered(m)
                                         => until'[m] > started + Threshold)
    OBVIOUS
  <2>1. m \in Names /\ until'[m] >= until[m] /\ until'[m] \in Nat /\ until[m] \in Nat
    BY <1>2, <1>3 DEF Registered
  <2>2. CASE m \in Entries(batch)
    BY <1>2, <1>3, <2>1, <2>2
  <2>3. CASE Covered(m)
    BY <1>2, <2>1, <2>3 DEF Covered
  <2> QED BY <2>1, <2>2, <2>3
<1>5. Listed' /\ Flat' = Flat
  BY <1>1, <1>3, ListKept
<1>6. /\ Len(Flat) \in Nat /\ \A i \in 1 .. Len(Flat) : Flat[i] \in Registered
  BY FlatFacts
<1>7. \A m \in Registered' : until'[m] > lastClean + Threshold
  <2> SUFFICES ASSUME NEW m \in Registered PROVE until'[m] > lastClean + Threshold
    BY <1>3
  <2>1. until'[m] >= until[m] /\ until'[m] \in Nat /\ until[m] \in Nat
    BY <1>2, <1>3, <1>4
  <2>2. until[m] > lastClean + Threshold
    BY DEF Inv, CleanPassProtects
  <2> QED BY <1>2, <2>1, <2>2
<1>8. CASE next # <<>>
  <2>1. PICK c \in Cursors : next = <<c>>
    BY <1>2, <1>8
  <2>2. /\ cursor' = c /\ pc' = "read" /\ failed' = failed /\ batch' = <<>> /\ next' = <<>>
        /\ UNCHANGED <<started, lastClean>>
    BY <1>1, <1>8, <2>1 DEF Advance
  <2>3. /\ cursor.offset < c.offset /\ c.gen <= gen
        /\ c.gen = gen =>
             /\ c.offset <= Len(Flat)
             /\ failed = 0 => \A i \in 1 .. c.offset :
                                Flat[i] \in Entries(batch) \/ Covered(Flat[i])
    BY <1>1, <2>1 DEF Walking, Sending
  <2>4. TypeOK'
    <3>1. <<>> \in Seq(Names) /\ Len(<<>>) <= BatchSize
      BY KeeperAssumption
    <3> QED BY <1>1, <1>3, <2>2, <3>1 DEF TypeOK
  <2>5. Reading'
    <3> SUFFICES ASSUME c.gen = gen
                 PROVE  /\ c.offset <= Len(Flat)
                        /\ failed = 0 => \A i \in 1 .. c.offset :
                                            until'[Flat[i]] > started + Threshold
      BY <1>1, <1>5, <2>2 DEF Reading, Prefix, Covered
    <3>1. \A i \in 1 .. c.offset : i \in 1 .. Len(Flat)
      BY <1>2, <1>6, <2>3
    <3> QED BY <1>4, <1>6, <2>3, <3>1
  <2>6. Walking'
    <3>1. failed <= c.offset
      BY <1>1, <1>2, <2>3 DEF Walking
    <3>2. Sending'
      BY <2>2 DEF Sending
    <3> QED BY <1>1, <2>2, <2>3, <2>5, <3>1, <3>2 DEF Walking
  <2>7. CleanPassProtects'
    BY <1>7, <2>2 DEF CleanPassProtects
  <2> QED BY <1>1, <1>5, <2>4, <2>6, <2>7 DEF Inv
<1>9. CASE next = <<>>
  <2>1. Exit /\ lastClean' = IF failed = 0 THEN started ELSE lastClean
    BY <1>1, <1>9 DEF Advance, Leave, ExitsZero
  <2>2. TypeOK'
    <3>1. 0 \in 0 .. MaxRemovals /\ 0 \in 0 .. Cardinality(Names)
      BY KeeperAssumption, NamesFinite
    <3>2. FirstCursor \in Cursors
      BY <3>1 DEF FirstCursor, Cursors
    <3>3. <<>> \in Seq(Names) /\ Len(<<>>) <= BatchSize
      BY KeeperAssumption
    <3>4. lastClean' \in 0 .. ledger
      BY <1>2, <2>1
    <3> QED BY <1>1, <1>3, <2>1, <3>1, <3>2, <3>3, <3>4 DEF TypeOK, Exit
  <2>3. Walking'
    BY <1>1, <1>2, <2>1, IdleWalk
  <2>4. failed = 0 => \A m \in Registered : until'[m] > started + Threshold
    BY <1>1, <1>4, <1>9 DEF Walking, Sending
  <2>5. CleanPassProtects'
    BY <1>3, <1>7, <2>1, <2>4 DEF CleanPassProtects
  <2> QED BY <1>1, <1>5, <2>2, <2>3, <2>5 DEF Inv
<1> QED BY <1>8, <1>9

(* A batch that fails is counted, and the pass can no longer succeed.      *)
LEMMA SendFailsKeeps ==
  ASSUME Inv, SendFails
  PROVE  Inv'
<1>1. /\ UNCHANGED <<ledger, contract>> /\ pc = "send" /\ Advance(next, failed + 1)
      /\ TypeOK /\ Walking
      /\ \/ failures < MaxFailures /\ failures' = failures + 1
         \/ failures' = failures
  BY DEF SendFails, Inv
<1>2. /\ UNCHANGED <<until, pages, gen>> /\ failures' \in 0 .. MaxFailures
      /\ gen \in Nat /\ failed \in Nat /\ failed + 1 # 0
      /\ next \in {<<>>} \cup {<<c>> : c \in Cursors}
      /\ \A c \in Cursors : c.offset \in Nat /\ c.gen \in Nat
                            /\ c.offset <= Cardinality(Names)
      /\ cursor.offset \in Nat
  <2>1. failures \in 0 .. MaxFailures /\ MaxFailures \in Nat
    BY <1>1, KeeperAssumption DEF TypeOK
  <2>2. failures' \in 0 .. MaxFailures
    BY <1>1, <2>1
  <2> QED BY <1>1, <2>2, NamesFinite DEF TypeOK, Cursors, contract
<1>3. Registered' = Registered /\ Furthest' = Furthest
  BY <1>1, <1>2 DEF Registered, Furthest
<1>4. Listed' /\ Flat' = Flat
  BY <1>2, <1>3, ListKept
<1>5. CASE next # <<>>
  <2>1. PICK c \in Cursors : next = <<c>>
    BY <1>2, <1>5
  <2>2. /\ cursor' = c /\ pc' = "read" /\ failed' = failed + 1
        /\ batch' = <<>> /\ next' = <<>> /\ UNCHANGED <<started, lastClean>>
    BY <1>1, <1>5, <2>1 DEF Advance
  <2>3. /\ cursor.offset < c.offset /\ c.gen <= gen
        /\ c.gen = gen => c.offset <= Len(Flat)
    BY <1>1, <2>1 DEF Walking, Sending
  <2>4. failed + 1 <= c.offset /\ failed + 1 \in 0 .. Cardinality(Names)
    <3>1. failed <= cursor.offset
      BY <1>1 DEF Walking
    <3> QED BY <1>2, <2>3, <3>1, NamesFinite
  <2>5. TypeOK'
    <3>1. <<>> \in Seq(Names) /\ Len(<<>>) <= BatchSize
      BY KeeperAssumption
    <3> QED BY <1>1, <1>2, <1>3, <2>2, <2>4, <3>1 DEF TypeOK
  <2>6. Walking'
    <3>1. Reading'
      BY <1>2, <1>4, <2>2, <2>3 DEF Reading, Prefix
    <3>2. Sending'
      BY <2>2 DEF Sending
    <3> QED BY <1>2, <2>2, <2>3, <2>4, <3>1, <3>2 DEF Walking
  <2>7. CleanPassProtects'
    BY <1>2, <1>3, <2>2 DEF Inv, CleanPassProtects
  <2> QED BY <1>2, <1>4, <2>5, <2>6, <2>7 DEF Inv
<1>6. CASE next = <<>>
  <2>1. Exit /\ lastClean' = lastClean
    BY <1>1, <1>2, <1>6 DEF Advance, Leave, ExitsZero
  <2> QED BY <1>1, <1>2, <2>1, AbortKeeps
<1> QED BY <1>5, <1>6

-----------------------------------------------------------------------------
(* The theorems. *)

(* Before anything is registered there is nothing to protect.              *)
LEMMA InitInv == Init => Inv
<1> SUFFICES ASSUME Init PROVE Inv
  OBVIOUS
<1>1. /\ 0 \in Nat /\ 0 \in 0 .. MaxRemovals /\ 0 \in 0 .. MaxLedger
      /\ 0 \in 0 .. MaxFailures /\ 0 \in 0 .. Cardinality(Names)
  BY KeeperAssumption, NamesFinite
<1>2. Furthest \in Nat /\ 0 \in 0 .. Furthest
  BY KeeperAssumption DEF Furthest, Init
<1>3. FirstCursor \in Cursors
  BY <1>1 DEF FirstCursor, Cursors
<1>4. /\ <<>> \in Seq(Names) /\ Len(<<>>) <= BatchSize /\ DOMAIN <<>> = {}
      /\ <<>> \in Seq(PageRecord) /\ <<>> \in Seq(Seq(Names))
  BY KeeperAssumption
<1>5. TypeOK
  BY <1>1, <1>2, <1>3, <1>4 DEF Init, TypeOK
<1>6. Registered = {}
  BY DEF Init, Registered
<1>7. Flat = <<>>
  <2>1. Flat = Flatten(<<>>)
    BY <1>4 DEF Init, Flat
  <2>2. Slots(<<>>) = {}
    BY <1>4, SlotFacts
  <2>3. Len(Flatten(<<>>)) = 0 /\ Flatten(<<>>) \in Seq(Names)
    BY <1>4, <2>2, FlattenFacts, FS_EmptySet
  <2> QED BY <2>1, <2>3, EmptySeq, LenProperties
<1>8. Listed
  BY <1>4, <1>6, <1>7 DEF Listed, Entries
<1>9. Walking
  BY DEF Init, Walking, Reading, Sending, FirstCursor
<1> QED BY <1>4, <1>5, <1>6, <1>8, <1>9 DEF Inv, CleanPassProtects, Init

(* The inductive step. *)
LEMMA InvStep == Inv /\ [Next]_vars => Inv'
<1> SUFFICES ASSUME Inv, [Next]_vars PROVE Inv'
  OBVIOUS
<1>1. CASE Others
  BY <1>1, RegisterKeeps, UseKeeps, RemoveKeeps DEF Others
<1>2. CASE CloseLedger
  BY <1>2, CloseLedgerKeeps
<1>3. CASE Start
  BY <1>3, StartKeeps
<1>4. CASE ReadPage
  BY <1>4, ReadPageKeeps
<1>5. CASE ReadRefused
  <2>1. failures' \in 0 .. MaxFailures
    BY <1>5 DEF ReadRefused, Inv, TypeOK
  <2> QED BY <1>5, <2>1, AbortKeeps DEF ReadRefused, Abort
<1>6. CASE ReadFails
  <2>1. failures' \in 0 .. MaxFailures
    BY <1>6, KeeperAssumption DEF ReadFails, Inv, TypeOK
  <2> QED BY <1>6, <2>1, AbortKeeps DEF ReadFails, Abort
<1>7. CASE Send
  BY <1>7, SendKeeps
<1>8. CASE SendFails
  BY <1>8, SendFailsKeeps
<1>9. CASE UNCHANGED vars
  <2>1. UNCHANGED <<ledger, until, pages, gen, pc, cursor, batch, next, failed, started,
                    lastClean, failures>>
    BY <1>9 DEF vars, contract, pass
  <2>2. Registered' = Registered /\ Furthest' = Furthest
    BY <2>1 DEF Registered, Furthest
  <2>3. Listed' /\ Flat' = Flat
    BY <2>1, <2>2, ListKept
  <2>4. TypeOK'
    BY <2>1, <2>2 DEF Inv, TypeOK
  <2>5. Walking'
    BY <2>1, <2>2, <2>3 DEF Inv, Walking, Reading, Sending, Prefix, Covered
  <2>6. CleanPassProtects'
    BY <2>1, <2>2 DEF Inv, CleanPassProtects
  <2> QED BY <2>1, <2>3, <2>4, <2>5, <2>6 DEF Inv
<1> QED BY <1>1, <1>2, <1>3, <1>4, <1>5, <1>6, <1>7, <1>8, <1>9 DEF Next, KeeperStep

(* The lifetimes, the pages and what the keeper remembers stay within      *)
(* their types: no entry lives longer than one extension or the network's  *)
(* own lifetime from now, and the keeper never counts more failed batches  *)
(* than there are names.                                                   *)
THEOREM KeeperTypeCorrect == Spec => []TypeOK
<1>1. Inv => TypeOK
  BY DEF Inv
<1> QED BY <1>1, InitInv, InvStep, PTL DEF Spec

(* A pass of the keeper that exits 0 protects every record for the         *)
(* threshold, whatever was registered, used or removed while it walked and *)
(* whichever of its requests failed.                                       *)
THEOREM CleanPassesProtect == Spec => []CleanPassProtects
<1>1. Inv => CleanPassProtects
  BY DEF Inv
<1> QED BY <1>1, InitInv, InvStep, PTL DEF Spec

=============================================================================
