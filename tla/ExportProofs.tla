---------------------------- MODULE ExportProofs ----------------------------
(***************************************************************************)
(* Proofs about the paginated export: for every page limit, page size and  *)
(* number of usernames, the two entry points serve the same slices of the  *)
(* flat index, and a client that walks them while others write holds a     *)
(* prefix of it as long as its cursor is accepted.  And proofs about the   *)
(* Merkle tree of a page: its root proves the entries, and it is the tree  *)
(* that RFC 6962 splits from the top, for every number of entries.         *)
(***************************************************************************)
EXTENDS Export, RegistryProofs

(* What the registry keeps that the export rests on. *)
Sound == TypeOK /\ Consistent /\ PagesMatchIndex

-----------------------------------------------------------------------------
(* Pages. *)

(* Every requested limit comes down to a positive one. *)
LEMMA LimitFacts ==
  ASSUME NEW l \in PageLimits
  PROVE  EffectiveLimit(l) \in Nat \ {0}
BY LimitsAssumption DEF EffectiveLimit, Clamp

(* The flat index as the export sees it. *)
LEMMA IndexFacts ==
  ASSUME Sound
  PROVE  /\ index \in Seq(Keys) /\ Len(index) \in Nat /\ count = Len(index)
         /\ DOMAIN index = 1 .. Len(index) /\ Entries(index) = Live
         /\ Flatten(chunks) = index
         /\ \A i \in 1 .. Len(index) : rec[index[i]] # None
<1>1. index \in Seq(Keys) /\ DOMAIN index = 1 .. Len(index) /\ Entries(index) = Live
  BY LenProperties DEF Sound, TypeOK, Consistent, IndexMatchesRecords
<1>2. Len(index) \in Nat /\ count = Len(index)
  BY ListedOnce DEF Sound
<1>3. \A i \in 1 .. Len(index) : rec[index[i]] # None
  BY <1>1 DEF Entries, Live
<1> QED BY <1>1, <1>2, <1>3 DEF Sound, PagesMatchIndex

(* The public walk stops l entries on, or at the end: there is no dead     *)
(* entry on the way.                                                       *)
LEMMA WalkStops ==
  ASSUME Sound, NEW o \in Nat, o <= Len(index), NEW l \in Nat \ {0}
  PROVE  WalkEnd(index, o, l) = Clamp(o + l, Len(index))
<1> DEFINE n == Len(index)
           hits == {i \in o + 1 .. n : rec[index[i]] # None}
           full == {i \in hits : Rank(hits, i) = l}
<1>1. n \in Nat /\ \A i \in 1 .. n : rec[index[i]] # None
  BY IndexFacts
<1>2. hits = o + 1 .. n
  <2>1. \A i \in o + 1 .. n : i \in 1 .. n
    BY <1>1
  <2> QED BY <1>1, <2>1
<1> HIDE DEF n, hits
<1>3. ASSUME NEW i \in o + 1 .. n PROVE Rank(hits, i) = i - o
  <2>1. i \in Int /\ o + 1 \in Int /\ o + 1 <= i /\ i <= n
    BY <1>1
  <2>2. {j \in hits : j <= i} = o + 1 .. i
    BY <1>1, <1>2, <2>1
  <2>3. Cardinality(o + 1 .. i) = i - (o + 1) + 1
    BY <2>1, FS_Interval
  <2>4. Rank(hits, i) = Cardinality({j \in hits : j <= i})
    BY DEF Rank
  <2>5. i - (o + 1) + 1 = i - o
    BY <2>1
  <2> QED BY <2>2, <2>3, <2>4, <2>5
<1>4. full = {i \in o + 1 .. n : i - o = l}
  BY <1>2, <1>3
<1>5. WalkEnd(index, o, l) = IF full = {} THEN n ELSE CHOOSE i \in full : TRUE
  BY DEF WalkEnd, hits, n
<1> HIDE DEF full
<1>6. CASE o + l <= n
  <2>1. full = {o + l}
    BY <1>1, <1>4, <1>6
  <2> QED BY <1>5, <1>6, <2>1 DEF Clamp, n
<1>7. CASE ~(o + l <= n)
  <2>1. full = {}
    BY <1>1, <1>4, <1>7
  <2> QED BY <1>5, <1>7, <2>1 DEF Clamp, n
<1> QED BY <1>6, <1>7

(* A slice of the index and the bounds of a page. *)
LEMMA PageSlice ==
  ASSUME Sound, NEW o \in Nat, o <= Len(index), NEW l \in PageLimits
  PROVE  LET end == Clamp(o + EffectiveLimit(l), Len(index))
             s   == SubSeq(index, o + 1, end)
         IN  /\ end \in Nat /\ o <= end /\ end <= Len(index)
             /\ o = Len(index) <=> o = end
             /\ s \in Seq(Keys) /\ DOMAIN s = 1 .. end - o /\ Len(s) = end - o
             /\ \A i \in 1 .. end - o : s[i] = index[o + i]
             /\ Without(s, {k \in Entries(s) : rec[k] = None}) = s
<1> DEFINE end == Clamp(o + EffectiveLimit(l), Len(index))
           s == SubSeq(index, o + 1, end)
<1>1. EffectiveLimit(l) \in Nat \ {0} /\ Len(index) \in Nat /\ index \in Seq(Keys)
  BY LimitFacts, IndexFacts
<1>2. end \in Nat /\ o <= end /\ end <= Len(index) /\ (o = Len(index) <=> o = end)
  BY <1>1 DEF Clamp
<1> HIDE DEF end
<1>3. /\ s \in Seq(Keys) /\ DOMAIN s = 1 .. end - o /\ Len(s) = end - o
      /\ \A i \in 1 .. end - o : s[i] = index[o + i]
      /\ Entries(s) \subseteq Entries(index)
  <2> DEFINE n == end - o
  <2>1. index \in Seq(Keys) /\ end \in Nat /\ o <= end /\ end <= Len(index)
    BY <1>1, <1>2
  <2>2. /\ s \in Seq(Keys) /\ DOMAIN s = 1 .. n /\ Len(s) = n
        /\ \A i \in 1 .. n : s[i] = index[o + i]
        /\ Entries(s) \subseteq Entries(index)
    BY <2>1, Slice
  <2> QED BY <2>2
<1>4. Entries(s) \cap {k \in Entries(s) : rec[k] = None} = {}
  BY <1>3, IndexFacts DEF Live
<1> HIDE DEF s
<1>5. Without(s, {k \in Entries(s) : rec[k] = None}) = s
  BY <1>3, <1>4, WithoutNothing
<1> QED BY <1>2, <1>3, <1>5 DEF s, end

(* Both entry points serve the slice of the index from the offset on.      *)
LEMMA PageIsSlice ==
  ASSUME Sound, NEW o \in Nat, o <= Len(index), NEW l \in PageLimits,
         NEW api \in {"admin", "public"}
  PROVE  LET end == Clamp(o + EffectiveLimit(l), Len(index))
         IN  /\ NamesOf(Page(api, o, l)) = SubSeq(index, o + 1, end)
             /\ Page(api, o, l).next = IF end < Len(index) THEN EncodeCursor(end) ELSE None
<1> DEFINE end == Clamp(o + EffectiveLimit(l), Len(index))
           s == SubSeq(index, o + 1, end)
<1>1. /\ end \in Nat /\ o <= end /\ end <= Len(index)
      /\ o = Len(index) <=> o = end
      /\ s \in Seq(Keys) /\ DOMAIN s = 1 .. end - o
      /\ Without(s, {k \in Entries(s) : rec[k] = None}) = s
  BY PageSlice
<1>2. count = Len(index) /\ Len(index) \in Nat /\ Flatten(chunks) = index
  BY IndexFacts
<1>3. WalkEnd(index, o, EffectiveLimit(l)) = end
  BY LimitFacts, WalkStops
<1>4. s = [i \in DOMAIN s |-> s[i]]
  BY <1>1, LenProperties
<1> HIDE DEF end
<1>5. CASE o >= count
  <2>1. o = end /\ end = Len(index) /\ DOMAIN s = {}
    BY <1>1, <1>2, <1>5
  <2>2. Page(api, o, l) = EmptyPage
    BY <1>5 DEF Page, AdminPage, PublicPage
  <2>3. s = <<>>
    BY <1>1, <2>1, EmptySeq, LenProperties
  <2> HIDE DEF s
  <2>4. NamesOf(EmptyPage) = <<>> /\ EmptyPage.next = None
    BY DEF NamesOf, EmptyPage
  <2>5. NamesOf(Page(api, o, l)) = s
    BY <2>2, <2>3, <2>4
  <2>6. Page(api, o, l).next = IF end < Len(index) THEN EncodeCursor(end) ELSE None
    BY <1>2, <2>1, <2>2, <2>4
  <2> QED BY <2>5, <2>6 DEF s, end
<1>6. CASE ~(o >= count)
  <2>1. /\ NamesOf(AdminPage(o, l)) = s
        /\ AdminPage(o, l).next = IF end < Len(index) THEN EncodeCursor(end) ELSE None
    BY <1>1, <1>4, <1>6 DEF AdminPage, NamesOf, Exported, end
  <2>2. /\ NamesOf(PublicPage(o, l)) = s
        /\ PublicPage(o, l).next = IF end < Len(index) THEN EncodeCursor(end) ELSE None
    BY <1>1, <1>2, <1>3, <1>4, <1>6 DEF PublicPage, NamesOf, Exported
  <2> QED BY <2>1, <2>2 DEF Page, end
<1> QED BY <1>5, <1>6

(* The public and the admin export show the same usernames and hand out    *)
(* the same cursor at every offset and for every limit.                    *)
LEMMA SoundPagesAgree == Sound => ExportsAgree
<1> SUFFICES ASSUME Sound, NEW o \in 0 .. count, NEW l \in PageLimits
             PROVE  /\ NamesOf(AdminPage(o, l)) = NamesOf(PublicPage(o, l))
                    /\ AdminPage(o, l).next = PublicPage(o, l).next
  BY DEF ExportsAgree
<1>1. o \in Nat /\ o <= Len(index)
  BY IndexFacts
<1>2. /\ NamesOf(Page("admin", o, l)) = NamesOf(Page("public", o, l))
      /\ Page("admin", o, l).next = Page("public", o, l).next
  BY <1>1, PageIsSlice
<1> QED BY <1>2 DEF Page

-----------------------------------------------------------------------------
(* The other reads. *)

RegisteredRows(s) == Exported(s, LAMBDA r : r.addr)

FullRows(s) == Exported(s, LAMBDA r : r)

(* Rows for entries that are all registered. *)
LEMMA Rows ==
  ASSUME NEW s \in Seq(Keys), Entries(s) \subseteq Live
  PROVE  /\ RegisteredRows(s) = [i \in DOMAIN s |-> [name |-> s[i], record |-> rec[s[i]].addr]]
         /\ FullRows(s) = [i \in DOMAIN s |-> [name |-> s[i], record |-> rec[s[i]]]]
<1>1. Entries(s) \cap {k \in Entries(s) : rec[k] = None} = {}
  BY DEF Live
<1>2. Without(s, {k \in Entries(s) : rec[k] = None}) = s
  BY <1>1, WithoutNothing
<1> QED BY <1>2 DEF RegisteredRows, FullRows, Exported

(* Pages by offset, as many as the total asks for, cut the index up. *)
LEMMA WalkCuts ==
  ASSUME Sound, NEW l \in PageLimits
  PROVE  LET step == EffectiveLimit(l)
             N    == (GetStats.total + step - 1) \div step
         IN  /\ Cut(index, step) = [i \in 1 .. N |-> IndexPage((i - 1) * step, l)]
             /\ \A i \in 1 .. N : IndexPage((i - 1) * step, l) \in Seq(Keys)
             /\ \A i \in 1 .. N : Entries(IndexPage((i - 1) * step, l)) \subseteq Live
             /\ Cut(index, step) \in Seq(Seq(Keys)) /\ Flatten(Cut(index, step)) = index
<1> DEFINE step == EffectiveLimit(l)
           N == (GetStats.total + step - 1) \div step
           n == Len(index)
<1>1. /\ index \in Seq(Keys) /\ n \in Nat /\ GetStats.total = n /\ DOMAIN index = 1 .. n
      /\ Entries(index) = Live /\ step \in Nat \ {0}
  BY IndexFacts, LimitFacts DEF GetStats
<1>2. /\ N \in Nat /\ N = (n + step - 1) \div step
  <2> HIDE DEF step, n
  <2> QED BY <1>1, PageCount
<1>3. ASSUME NEW i \in 1 .. N
      PROVE  IndexPage((i - 1) * step, l)
               = SubSeq(index, (i - 1) * step + 1, IF i * step <= n THEN i * step ELSE n)
  <2>1. (i - 1) * step + step = i * step
    <3> HIDE DEF step, N
    <3> QED BY <1>1, <1>2
  <2>2. Clamp((i - 1) * step + step, n) = IF i * step <= n THEN i * step ELSE n
    BY <2>1 DEF Clamp
  <2> QED BY <2>2 DEF IndexPage
<1>4. Cut(index, step) = [i \in 1 .. N |-> IndexPage((i - 1) * step, l)]
  BY <1>2, <1>3 DEF Cut
<1>5. /\ Cut(index, step) \in Seq(Seq(Keys)) /\ Flatten(Cut(index, step)) = index
  <2> HIDE DEF step
  <2> QED BY <1>1, CutType, FlattenCut
<1>6. ASSUME NEW i \in 1 .. N
      PROVE  /\ IndexPage((i - 1) * step, l) \in Seq(Keys)
             /\ Entries(IndexPage((i - 1) * step, l)) \subseteq Live
  <2> DEFINE o == (i - 1) * step
             e == Clamp(o + step, n)
  <2>1. o \in Nat /\ o < n
    <3>1. i - 1 \in Nat /\ N - 1 \in Nat /\ i - 1 <= N - 1
      BY <1>2
    <3>2. n > (N - 1) * step
      <4> HIDE DEF step, n
      <4> QED BY <1>1, <1>2, PageCount
    <3> HIDE DEF step, N
    <3>3. o \in Nat /\ (N - 1) * step \in Nat /\ o <= (N - 1) * step
      BY <1>1, <3>1, PageStarts
    <3> QED BY <1>1, <3>2, <3>3
  <2> HIDE DEF o
  <2>2. e \in Nat /\ o <= e /\ e <= n
    BY <1>1, <2>1 DEF Clamp
  <2>3. IndexPage(o, l) = SubSeq(index, o + 1, e)
    BY DEF IndexPage
  <2> HIDE DEF e
  <2>4. SubSeq(index, o + 1, e) \in Seq(Keys) /\ Entries(SubSeq(index, o + 1, e)) \subseteq Live
    BY <1>1, <2>1, <2>2, Slice
  <2> QED BY <2>3, <2>4 DEF o
<1> QED BY <1>4, <1>5, <1>6

(* Walking the offsets until the total is reached lists every registration *)
(* and every flagged name once, in index order.                            *)
LEMMA WalksList ==
  ASSUME Sound, NEW l \in PageLimits
  PROVE  LET step == EffectiveLimit(l)
             N    == (GetStats.total + step - 1) \div step
         IN  /\ Flatten([i \in 1 .. N |-> RegisteredPage((i - 1) * step, l)]) = AllRegistered
             /\ Flatten([i \in 1 .. N |-> PendingReverifyPage((i - 1) * step, l)])
                  = Without(index, Keys \ reverify)
<1> DEFINE step == EffectiveLimit(l)
           N == (GetStats.total + step - 1) \div step
           page(i) == IndexPage((i - 1) * step, l)
           ch == Cut(index, step)
           row(k) == [name |-> k, record |-> rec[k].addr]
           g == [k \in Keys |-> row(k)]
<1>1. /\ ch = [i \in 1 .. N |-> page(i)]
      /\ \A i \in 1 .. N : page(i) \in Seq(Keys) /\ Entries(page(i)) \subseteq Live
      /\ ch \in Seq(Seq(Keys)) /\ Flatten(ch) = index
  BY WalkCuts
<1>2. index \in Seq(Keys) /\ Entries(index) = Live /\ DOMAIN index = 1 .. Len(index)
  BY IndexFacts
<1>3. /\ [i \in 1 .. N |-> RegisteredPage((i - 1) * step, l)]
           = [i \in 1 .. N |-> RegisteredRows(page(i))]
      /\ [i \in 1 .. N |-> PendingReverifyPage((i - 1) * step, l)]
           = [i \in 1 .. N |-> Without(page(i), Keys \ reverify)]
  BY DEF RegisteredPage, PendingReverifyPage, RegisteredRows
<1> HIDE DEF N, page, ch, step
<1>4. Flatten([i \in 1 .. N |-> Without(page(i), Keys \ reverify)])
        = Without(index, Keys \ reverify)
  <2>1. [i \in 1 .. N |-> Without(page(i), Keys \ reverify)]
          = [c \in DOMAIN ch |-> Without(ch[c], Keys \ reverify)]
    BY <1>1
  <2> QED BY <1>1, <2>1, FlattenWithout
<1>5. Flatten([i \in 1 .. N |-> RegisteredRows(page(i))]) = AllRegistered
  <2>1. \A i \in 1 .. N : RegisteredRows(page(i)) = [j \in DOMAIN page(i) |-> row(page(i)[j])]
    BY <1>1, Rows
  <2>2. \A i \in 1 .. N : \A j \in DOMAIN page(i) : page(i)[j] \in Keys
    BY <1>1, LenProperties, ElementOfSeq
  <2> DEFINE t == [i \in 1 .. N |-> RegisteredRows(page(i))]
  <2>3. Maps(ch, t, g)
    BY <1>1, <2>1, <2>2 DEF Maps
  <2>4. \A i \in DOMAIN index : index[i] \in Keys
    BY <1>2, ElementOfSeq
  <2>5. AllRegistered = [i \in DOMAIN index |-> g[index[i]]]
    BY <1>2, <2>4, Rows DEF AllRegistered, RegisteredRows
  <2> HIDE DEF g, t
  <2>6. Flatten(t) = [i \in DOMAIN Flatten(ch) |-> g[Flatten(ch)[i]]]
    <3>1. ch \in Seq(Seq(Keys))
      BY <1>1
    <3> QED BY <2>3, <3>1, FlattenMap
  <2> QED BY <1>1, <2>5, <2>6 DEF t
<1> QED BY <1>3, <1>4, <1>5 DEF N, step

(* Every other way of asking agrees with the list of all registrations. *)
LEMMA SoundReadsAgree == Sound => ReadsAgree
<1> SUFFICES ASSUME Sound PROVE ReadsAgree
  OBVIOUS
<1> DEFINE all == FullRows(index)
           row(i) == [name |-> index[i], record |-> rec[index[i]]]
<1>1. /\ index \in Seq(Keys) /\ Entries(index) = Live /\ DOMAIN index = 1 .. Len(index)
      /\ Len(index) \in Nat /\ count = Len(index)
      /\ \A i \in DOMAIN index : rec[index[i]] # None /\ index[i] \in Live
  BY IndexFacts DEF Entries
<1>2. all = [i \in DOMAIN index |-> row(i)]
  BY <1>1, Rows
<1>3. DOMAIN all = DOMAIN index /\ \A i \in DOMAIN index : all[i] = row(i)
  BY <1>2
<1>4. Len(all) = Len(index)
  BY <1>1, <1>2
<1> HIDE DEF all
<1>5. \A i \in DOMAIN index : all[i].name = index[i] /\ all[i].record = rec[index[i]]
  BY <1>3
<1>6. reverify \subseteq {all[i].name : i \in DOMAIN all}
  <2>1. reverify \subseteq Entries(index)
    BY <1>1 DEF Sound, Consistent, ReverifyFlagsAreLive
  <2> QED BY <1>3, <1>5, <2>1 DEF Entries
<1>7. ASSUME NEW n \in Names
      PROVE  LET rows == {i \in DOMAIN all : all[i].name = Canon[n]} IN
             /\ RecordProof(n).exists <=> Cardinality(rows) = 1
             /\ RecordProof(n).verified <=> GetAddressIfVerified(n) # None
             /\ \A i \in rows : RecordProof(n).verified <=> all[i].record.verified
  <2> DEFINE k == Canon[n]
             rows == {i \in DOMAIN all : all[i].name = k}
  <2>1. rows = {i \in DOMAIN index : index[i] \in {k}} /\ k \in Keys
    BY <1>3, <1>5, KeysFacts
  <2>2. /\ RecordProof(n).exists <=> k \in Live
        /\ RecordProof(n).verified <=> k \in Live /\ rec[k].verified
    BY <2>1 DEF RecordProof, Live
  <2>3. RecordProof(n).verified <=> GetAddressIfVerified(n) # None
    BY DEF RecordProof, GetAddressIfVerified
  <2>4. k \in Live <=> Cardinality(rows) = 1
    <3>1. CASE k \in Live
      <4>1. {k} \in SUBSET Live /\ Cardinality({k}) = 1
        BY <3>1, FS_Singleton
      <4> HIDE DEF rows, k
      <4> QED BY <2>1, <3>1, <4>1, ListedOnce DEF Sound
    <3>2. CASE k \notin Live
      <4>1. rows = {}
        BY <1>1, <2>1, <3>2
      <4> QED BY <3>2, <4>1, FS_EmptySet
    <3> QED BY <3>1, <3>2
  <2>5. \A i \in rows : all[i].record = rec[k] /\ k \in Live
    BY <1>1, <1>5, <2>1
  <2> QED BY <2>2, <2>3, <2>4, <2>5
<1>8. GetStats.total = Len(all)
  BY <1>1, <1>4 DEF GetStats
<1>9. GetStats.verified = Cardinality({i \in DOMAIN all : all[i].record.verified})
  <2>1. {i \in DOMAIN all : all[i].record.verified}
          = {i \in DOMAIN index : index[i] \in VerifiedKeys}
    BY <1>1, <1>3, <1>5 DEF VerifiedKeys, Live
  <2>2. VerifiedKeys \in SUBSET Live
    BY CountedSets DEF Sound
  <2>3. Cardinality({i \in DOMAIN index : index[i] \in VerifiedKeys}) = vcount
    BY <2>2, ListedOnce DEF Sound, Consistent, CountersMatchRecords
  <2> QED BY <2>1, <2>3 DEF GetStats
<1> QED BY <1>6, <1>7, <1>8, <1>9, WalksList DEF ReadsAgree, all, FullRows

-----------------------------------------------------------------------------
(* The client. *)

(* The client's side of the inductive invariant.  Whatever generation the  *)
(* registry has reached, `since' removals behind the cursor, the wrap at   *)
(* 2^32 included, tell how far; and as long as there were none the client  *)
(* holds the index up to its offset.                                       *)
ClientOK ==
  /\ got \in Seq(Keys) /\ done \in BOOLEAN
  /\ since \in Nat /\ since < GenModulus
  /\ cursor \in Cursor \cup {None}
  /\ ~done /\ cursor = None => got = <<>>
  /\ cursor # None =>
       /\ cursor.gen < GenModulus
       /\ gen = cursor.gen + since \/ gen = cursor.gen + since - GenModulus
       /\ since = 0 => /\ cursor.offset <= Len(index)
                       /\ got = SubSeq(index, 1, cursor.offset)

(* The contract accepts a cursor only when nothing was removed since it    *)
(* was issued: fewer than 2^32 removals never bring a generation back.     *)
LEMMA AcceptedIsFresh ==
  ASSUME TypeOK, ClientOK, cursor # None, Decodes(cursor)
  PROVE  /\ since = 0 /\ cursor.offset \in Nat /\ cursor.offset <= Len(index)
         /\ got = SubSeq(index, 1, cursor.offset)
<1>1. /\ gen \in Nat /\ gen < GenModulus /\ GenModulus \in Nat
      /\ since \in Nat /\ since < GenModulus /\ cursor.gen \in Nat
      /\ cursor.offset \in Nat /\ cursor.gen = gen
  BY NumbersAssumption DEF TypeOK, ClientOK, Cursor, Decodes
<1>2. since = 0
  BY <1>1 DEF ClientOK
<1> QED BY <1>1, <1>2 DEF ClientOK

(* How far the generation has moved between two values of it. *)
LEMMA GenDistance ==
  ASSUME NEW a \in Nat, NEW b \in Nat, NEW m \in Nat, a < m, b < m
  PROVE  LET d == (b - a) % m
         IN  d \in Nat /\ (d = 0 => a = b) /\ (b = a + d \/ b = a + d - m)
<1> DEFINE r == (b - a) % m
           q == (b - a) \div m
<1>1. r \in Int /\ 0 <= r /\ r < m /\ q \in Int /\ b - a = m * q + r
  OBVIOUS
<1> HIDE DEF r, q
<1>2. q = 0 \/ q = -1
  <2>1. CASE q >= 1
    <3>1. m * q >= m
      BY <2>1, <1>1
    <3> QED BY <1>1, <3>1
  <2>2. CASE q <= -2
    <3>1. m * q <= m * (-2)
      BY <2>2, <1>1
    <3> QED BY <1>1, <3>1
  <2> QED BY <1>1, <2>1, <2>2
<1>3. r = b - a \/ r = b - a + m
  BY <1>1, <1>2
<1>4. r \in Nat /\ (r = 0 => a = b) /\ (b = a + r \/ b = a + r - m)
  BY <1>1, <1>3
<1> QED BY <1>4 DEF r

(* An invocation of the contract leaves the client's prefix a prefix, or   *)
(* counts a removal.                                                       *)
LEMMA ContractStepKeepsClient ==
  ASSUME Sound, TypeOK', ClientOK, ContractStep
  PROVE  ClientOK'
<1>1. /\ gen \in Nat /\ gen < GenModulus /\ gen' \in Nat /\ gen' < GenModulus
      /\ GenModulus \in Nat /\ since \in Nat /\ since < GenModulus
      /\ UNCHANGED <<cursor, got, done>>
  BY NumbersAssumption DEF Sound, TypeOK, ClientOK, ContractStep
<1>2. CASE cursor = None
  BY <1>1, <1>2 DEF ClientOK, ContractStep
<1>3. CASE cursor # None
  <2> DEFINE d == (gen' - gen) % GenModulus
  <2>0. /\ d \in Nat /\ (d = 0 => gen' = gen)
        /\ gen' = gen + d \/ gen' = gen + d - GenModulus
    BY <1>1, GenDistance
  <2>1. since' = since + d /\ since' < GenModulus
    BY <1>3 DEF ContractStep
  <2> HIDE DEF d
  <2>2. since' \in Nat /\ (since' = 0 => since = 0 /\ gen' = gen)
    BY <1>1, <2>0, <2>1
  <2>3. cursor.gen \in Nat /\ cursor.gen < GenModulus /\ cursor.offset \in Nat
    BY <1>3 DEF ClientOK, Cursor
  <2>4. gen' = cursor.gen + since' \/ gen' = cursor.gen + since' - GenModulus
    <3>1. gen = cursor.gen + since \/ gen = cursor.gen + since - GenModulus
      BY <1>3 DEF ClientOK
    <3>2. cursor.gen + since' < GenModulus + GenModulus
      BY <1>1, <2>1, <2>2, <2>3
    <3> QED BY <1>1, <2>0, <2>1, <2>2, <2>3, <3>1, <3>2
  <2>5. ASSUME since' = 0
        PROVE  cursor.offset <= Len(index') /\ got = SubSeq(index', 1, cursor.offset)
    <3> DEFINE o == cursor.offset
    <3>1. since = 0 /\ gen' = gen
      BY <2>2, <2>5
    <3>2. /\ Len(index) <= Len(index')
          /\ \A i \in DOMAIN index : index'[i] = index[i]
      BY <3>1, GrowingIndex DEF Sound, ContractStep
    <3>3. /\ index \in Seq(Keys) /\ index' \in Seq(Keys) /\ o \in Nat
          /\ Len(index) \in Nat /\ Len(index') \in Nat
          /\ DOMAIN index = 1 .. Len(index)
          /\ o <= Len(index) /\ got = SubSeq(index, 1, o)
      BY <1>3, <2>3, <3>1, LenProperties DEF Sound, TypeOK, ClientOK
    <3> HIDE DEF o
    <3>4. /\ SubSeq(index, 0 + 1, o) \in Seq(Keys) /\ Len(SubSeq(index, 0 + 1, o)) = o - 0
          /\ \A i \in 1 .. o - 0 : SubSeq(index, 0 + 1, o)[i] = index[0 + i]
      BY <3>3, Slice
    <3>5. /\ SubSeq(index', 0 + 1, o) \in Seq(Keys) /\ Len(SubSeq(index', 0 + 1, o)) = o - 0
          /\ \A i \in 1 .. o - 0 : SubSeq(index', 0 + 1, o)[i] = index'[0 + i]
      <4>1. o <= Len(index')
        BY <3>2, <3>3
      <4> QED BY <3>3, <4>1, Slice
    <3>6. \A i \in 1 .. o - 0 : index'[0 + i] = index[0 + i]
      BY <3>2, <3>3
    <3>7. SubSeq(index, 0 + 1, o) = SubSeq(index', 0 + 1, o)
      BY <3>3, <3>4, <3>5, <3>6, SeqEqual
    <3>8. got = SubSeq(index', 1, o) /\ o <= Len(index')
      BY <3>2, <3>3, <3>7
    <3> QED BY <3>8 DEF o
  <2> QED BY <1>1, <1>3, <2>1, <2>2, <2>4, <2>5 DEF ClientOK
<1> QED BY <1>2, <1>3

(* A page continues the prefix; the last page completes it. *)
LEMMA PageKeepsClient ==
  ASSUME Sound, ClientOK, NEW l \in PageLimits, NEW api \in {"admin", "public"},
         ReadPage(api, l)
  PROVE  ClientOK' /\ (done' => got' = index)
<1> DEFINE o == Offset
           end == Clamp(o + EffectiveLimit(l), Len(index))
<1>1. /\ index \in Seq(Keys) /\ Len(index) \in Nat
  BY IndexFacts
<1>2. o \in Nat /\ o <= Len(index) /\ got = SubSeq(index, 1, o)
  <2>1. CASE cursor = None
    BY <1>1, <2>1, SliceJoin DEF Offset, ReadPage, ClientOK
  <2>2. CASE cursor # None
    BY <2>2, AcceptedIsFresh DEF Sound, Offset, ReadPage
  <2> QED BY <2>1, <2>2
<1> HIDE DEF o
<1>3. /\ NamesOf(Page(api, o, l)) = SubSeq(index, o + 1, end)
      /\ Page(api, o, l).next = IF end < Len(index) THEN EncodeCursor(end) ELSE None
  BY <1>2, PageIsSlice
<1>4. end \in Nat /\ o <= end /\ end <= Len(index)
  BY <1>1, <1>2, LimitFacts DEF Clamp
<1>5. /\ got' = got \o NamesOf(Page(api, o, l))
      /\ cursor' = Page(api, o, l).next /\ done' = (Page(api, o, l).next = None)
      /\ since' = 0 /\ UNCHANGED <<index, gen>>
  BY DEF ReadPage, o, vars, registry
<1> HIDE DEF end
<1>6. got' = SubSeq(index, 1, end)
  <2>1. got' = got \o NamesOf(Page(api, o, l))
    BY <1>5
  <2> QED BY <1>1, <1>2, <1>3, <1>4, <2>1, SliceJoin
<1>7. got' \in Seq(Keys) /\ (end = Len(index) => got' = index)
  <2>1. 0 \in Nat /\ 0 <= end
    BY <1>4
  <2>2. SubSeq(index, 0 + 1, end) \in Seq(Keys)
    BY <1>1, <1>4, <2>1, Slice
  <2>3. SubSeq(index, 1, Len(index)) = index
    BY <1>1, <1>4, SliceJoin
  <2> QED BY <1>6, <2>2, <2>3
<1>8. EncodeCursor(end) \in Cursor /\ EncodeCursor(end) # None
  BY <1>4, CursorAssumption DEF EncodeCursor, Cursor, Sound, TypeOK
<1>9. gen \in Nat /\ gen < GenModulus /\ GenModulus \in Nat
  BY NumbersAssumption DEF Sound, TypeOK
<1>10. CASE end < Len(index)
  <2>1. cursor' = EncodeCursor(end) /\ done' = FALSE
    BY <1>3, <1>5, <1>8, <1>10
  <2>2. cursor'.offset = end /\ cursor'.gen = gen
    BY <2>1 DEF EncodeCursor
  <2> QED BY <1>4, <1>5, <1>6, <1>7, <1>8, <1>9, <2>1, <2>2 DEF ClientOK
<1>11. CASE ~(end < Len(index))
  <2>1. cursor' = None /\ done' = TRUE
    BY <1>3, <1>5, <1>11
  <2>2. end = Len(index)
    BY <1>1, <1>4, <1>11
  <2> QED BY <1>5, <1>7, <1>9, <2>1, <2>2 DEF ClientOK
<1> QED BY <1>1, <1>4, <1>10, <1>11

(* No step, an invocation or the client's own, breaks what the client holds. *)
LEMMA ClientStepKeepsClient ==
  ASSUME Sound, TypeOK', ClientOK, [ExportNext]_<<vars, client>>
  PROVE  ClientOK' /\ (done' /\ ~done => got' = index /\ UNCHANGED rec)
<1>1. 0 < GenModulus /\ 0 \in Nat /\ <<>> \in Seq(Keys)
  BY NumbersAssumption
<1>2. CASE ContractStep
  BY <1>2, ContractStepKeepsClient DEF ContractStep
<1>3. ASSUME NEW api \in {"admin", "public"}, NEW l \in PageLimits, ReadPage(api, l)
      PROVE  ClientOK' /\ (done' /\ ~done => got' = index /\ UNCHANGED rec)
  BY <1>3, PageKeepsClient DEF ReadPage, vars, registry
<1>4. CASE RestartOnInvalidCursor
  BY <1>1, <1>4 DEF RestartOnInvalidCursor, ClientOK
<1>5. CASE NewExport
  BY <1>1, <1>5 DEF NewExport, ClientOK
<1>6. CASE UNCHANGED <<vars, client>>
  BY <1>6 DEF client, vars, registry, ClientOK
<1> QED BY <1>2, <1>3, <1>4, <1>5, <1>6 DEF ExportNext, ClientStep

-----------------------------------------------------------------------------
(* The theorems. *)

(* The clients only read: under them the registry behaves as it does       *)
(* alone, so whatever is proved of it holds here.                          *)
LEMMA ExportRunsRegistry == ExportSpec => Spec
<1>1. ExportInit => Init
  BY DEF ExportInit
<1>2. [ExportNext]_<<vars, client>> => [Next]_vars
  BY DEF ExportNext, ContractStep, ClientStep, ReadPage, RestartOnInvalidCursor, NewExport
<1> QED BY <1>1, <1>2, PTL DEF ExportSpec, Spec

(* What the client holds is right in every reachable state. *)
LEMMA ExportSound ==
  ASSUME CanonicalRenames
  PROVE  ExportSpec => [](Sound /\ ClientOK)
<1>1. ExportInit => ClientOK
  <2>1. 0 \in Nat /\ 0 < GenModulus /\ <<>> \in Seq(Keys)
    BY NumbersAssumption
  <2> QED BY <2>1 DEF ExportInit, ClientOK
<1>2. Sound /\ TypeOK' /\ ClientOK /\ [ExportNext]_<<vars, client>> => ClientOK'
  BY ClientStepKeepsClient
<1>3. /\ Sound => TypeOK
      /\ CountersMatchRecords /\ IndexMatchesRecords /\ ReverifyFlagsAreLive
           /\ EverCoversVerified /\ TypeOK /\ PagesMatchIndex => Sound
  BY DEF Sound, Consistent
<1> QED BY <1>1, <1>2, <1>3, ExportRunsRegistry, TypeCorrect, RegistryConsistent,
           PagesAgree, PTL
        DEF ExportSpec

(* A cursor the contract accepts stands for everything before it: through  *)
(* any registrations, renames, removals and compactions, for every page    *)
(* limit and with fewer than 2^32 removals behind one cursor, the client   *)
(* holds the index up to its offset.                                       *)
THEOREM CursorsMarkPrefixes ==
  ASSUME CanonicalRenames
  PROVE  ExportSpec => []AcceptedCursorMarksPrefix
<1>1. Sound /\ ClientOK => AcceptedCursorMarksPrefix
  BY AcceptedIsFresh DEF Sound, AcceptedCursorMarksPrefix
<1> QED BY <1>1, ExportSound, PTL

(* The client that sees the last page holds every registered username      *)
(* exactly once.                                                           *)
THEOREM FinishedExportsAreComplete ==
  ASSUME CanonicalRenames
  PROVE  ExportSpec => FinishedExportIsComplete
<1> DEFINE A == done' /\ ~done => /\ Entries(got') = Live
                                  /\ Len(got') = Cardinality(Live)
<1>1. Sound /\ TypeOK' /\ ClientOK /\ [ExportNext]_<<vars, client>> => A
  BY ClientStepKeepsClient, IndexFacts, ListedOnce DEF Sound
<1>2. Sound /\ TypeOK' /\ ClientOK /\ [ExportNext]_<<vars, client>> => [A]_<<vars, client>>
  BY <1>1
<1>3. Sound => TypeOK
  BY DEF Sound
<1> HIDE DEF A
<1> QED BY <1>2, <1>3, ExportSound, PTL DEF ExportSpec, FinishedExportIsComplete, A

(* Both entry points serve the same names and cursors, at every offset and *)
(* for every limit, after any calls.                                       *)
THEOREM ExportsServeTheSame ==
  ASSUME CanonicalRenames
  PROVE  ExportSpec => []ExportsAgree
BY SoundPagesAgree, ExportSound, PTL

(* Every way of reading agrees with the list of all registrations: walks   *)
(* by offset with any limit list each once, look-ups under any spelling    *)
(* tell what the list says, and the totals count it.                       *)
THEOREM ReadsTellTheSame ==
  ASSUME CanonicalRenames
  PROVE  ExportSpec => []ReadsAgree
BY SoundReadsAgree, ExportSound, PTL

-----------------------------------------------------------------------------
(* The Merkle tree of a page. *)

(* The levels of a tree are what the recursion says. *)
LEMMA LevelsUnroll ==
  ASSUME NEW leaves, Len(leaves) \in Nat
  PROVE  LET Level == Levels(leaves)
         IN  /\ Level[0] = leaves
             /\ \A h \in 1 .. Len(leaves) : Level[h] = NextLevel(Level[h - 1])
<1> DEFINE N == Len(leaves)
           Tree(f, m) == f = [h \in 0 .. m |-> IF h = 0 THEN leaves ELSE NextLevel(f[h - 1])]
           H == {m \in Nat : \E f : Tree(f, m)}
<1>1. 0 \in H
  <2> DEFINE f == [h \in 0 .. 0 |-> leaves]
  <2>1. Tree(f, 0)
    OBVIOUS
  <2> HIDE DEF f, Tree
  <2> QED BY <2>1
<1>2. ASSUME NEW m \in Nat, m \in H PROVE m + 1 \in H
  <2>1. PICK f : Tree(f, m)
    BY <1>2
  <2> DEFINE g == [h \in 0 .. m + 1 |-> IF h = 0 THEN leaves ELSE NextLevel(f[h - 1])]
  <2>2. \A h \in 0 .. m : g[h] = f[h]
    <3> SUFFICES ASSUME NEW h \in 0 .. m PROVE g[h] = f[h]
      OBVIOUS
    <3>1. f[h] = IF h = 0 THEN leaves ELSE NextLevel(f[h - 1])
      BY <2>1
    <3>2. h \in 0 .. m + 1
      OBVIOUS
    <3> QED BY <3>1, <3>2
  <2>3. \A h \in 0 .. m + 1 : h # 0 => g[h - 1] = f[h - 1]
    <3>1. \A h \in 0 .. m + 1 : h # 0 => h - 1 \in 0 .. m
      OBVIOUS
    <3> HIDE DEF g
    <3> QED BY <2>2, <3>1
  <2>4. Tree(g, m + 1)
    BY <2>3
  <2> HIDE DEF g, Tree
  <2> QED BY <2>4
<1>3. \E f : Tree(f, N)
  <2>1. Nat \subseteq H
    <3> HIDE DEF H
    <3> QED BY <1>1, <1>2, CountingUp
  <2> QED BY <2>1
<1> DEFINE f == CHOOSE f : Tree(f, N)
<1>4. Tree(f, N)
  BY <1>3
<1>5. Levels(leaves) = f
  BY DEF Levels
<1> HIDE DEF f
<1>6. f[0] = leaves /\ \A h \in 1 .. N : f[h] = NextLevel(f[h - 1])
  BY <1>4
<1> QED BY <1>5, <1>6

(* The step of a verifier from a node of one level to its parent. *)
Parent(below, level) ==
  LET sib == IF below.at % 2 = 1 THEN below.at + 1 ELSE below.at - 1
  IN [at   |-> (below.at + 1) \div 2,
      hash |-> CASE sib > Len(level) -> below.hash
                 [] sib \in below.at .. Len(level) -> NodeHash(below.hash, level[sib])
                 [] OTHER -> NodeHash(level[sib], below.hash)]

(* f holds the nodes a verifier passes on the way up. *)
Climbs(f, leaf, i, leaves) ==
  /\ f[0] = [at |-> i, hash |-> leaf]
  /\ \A h \in 1 .. Len(leaves) : f[h] = Parent(f[h - 1], Levels(leaves)[h - 1])
  /\ RootFromLeaf(leaf, i, leaves) = f[Len(leaves)].hash

(* The climb of a verifier is what the recursion says. *)
LEMMA ClimbUnrolls ==
  ASSUME NEW leaf, NEW i, NEW leaves, Len(leaves) \in Nat
  PROVE  \E f : Climbs(f, leaf, i, leaves)
<1> DEFINE N == Len(leaves)
           start == [at |-> i, hash |-> leaf]
           Path(f, m) ==
             f = [h \in 0 .. m |-> IF h = 0 THEN start
                                            ELSE Parent(f[h - 1], Levels(leaves)[h - 1])]
           H == {m \in Nat : \E f : Path(f, m)}
<1>1. 0 \in H
  <2> DEFINE f == [h \in 0 .. 0 |-> start]
  <2>1. Path(f, 0)
    OBVIOUS
  <2> HIDE DEF f, Path
  <2> QED BY <2>1
<1>2. ASSUME NEW m \in Nat, m \in H PROVE m + 1 \in H
  <2>1. PICK f : Path(f, m)
    BY <1>2
  <2> DEFINE g == [h \in 0 .. m + 1 |-> IF h = 0 THEN start
                                                 ELSE Parent(f[h - 1], Levels(leaves)[h - 1])]
  <2>2. \A h \in 0 .. m : g[h] = f[h]
    <3> SUFFICES ASSUME NEW h \in 0 .. m PROVE g[h] = f[h]
      OBVIOUS
    <3>1. f[h] = IF h = 0 THEN start ELSE Parent(f[h - 1], Levels(leaves)[h - 1])
      BY <2>1
    <3>2. h \in 0 .. m + 1
      OBVIOUS
    <3> QED BY <3>1, <3>2
  <2>3. \A h \in 0 .. m + 1 : h # 0 => g[h - 1] = f[h - 1]
    <3>1. \A h \in 0 .. m + 1 : h # 0 => h - 1 \in 0 .. m
      OBVIOUS
    <3> HIDE DEF g
    <3> QED BY <2>2, <3>1
  <2>4. Path(g, m + 1)
    BY <2>3
  <2> HIDE DEF g, Path
  <2> QED BY <2>4
<1>3. \E f : Path(f, N)
  <2>1. Nat \subseteq H
    <3> HIDE DEF H
    <3> QED BY <1>1, <1>2, CountingUp
  <2> QED BY <2>1
<1> DEFINE f == CHOOSE f : Path(f, N)
<1>4. Path(f, N)
  BY <1>3
<1>5. RootFromLeaf(leaf, i, leaves) = f[N].hash
  BY DEF RootFromLeaf, Parent
<1> HIDE DEF f
<1>6. f[0] = start /\ \A h \in 1 .. N : f[h] = Parent(f[h - 1], Levels(leaves)[h - 1])
  BY <1>4
<1>7. Climbs(f, leaf, i, leaves)
  BY <1>5, <1>6 DEF Climbs
<1> QED BY <1>7

IsList(s) == s \in Seq(Entries(s))

(* One pass halves a level, rounding up, and keeps one node as it is. *)
LEMMA NextLevelFacts ==
  ASSUME NEW level, IsList(level), Len(level) >= 1
  PROVE  LET n == (Len(level) + 1) \div 2
         IN  /\ Len(level) \in Nat /\ n \in Nat /\ n >= 1 /\ n <= Len(level)
             /\ Len(level) > 1 => n <= Len(level) - 1
             /\ IsList(NextLevel(level)) /\ Len(NextLevel(level)) = n
             /\ \A j \in 1 .. n :
                  NextLevel(level)[j] =
                    IF 2*j <= Len(level) THEN NodeHash(level[2*j - 1], level[2*j])
                                         ELSE level[2*j - 1]
<1> DEFINE n == (Len(level) + 1) \div 2
           next == NextLevel(level)
           node(j) == IF 2*j <= Len(level) THEN NodeHash(level[2*j - 1], level[2*j])
                                           ELSE level[2*j - 1]
<1>1. Len(level) \in Nat
  BY LenProperties DEF IsList
<1>2. /\ n \in Nat /\ n >= 1 /\ n <= Len(level)
      /\ Len(level) > 1 => n <= Len(level) - 1
  BY <1>1
<1>3. next = [j \in 1 .. n |-> node(j)]
  BY DEF NextLevel
<1> HIDE DEF n, node, next
<1>4. DOMAIN next = 1 .. n /\ \A j \in 1 .. n : next[j] = node(j)
  BY <1>3
<1>5. next \in [1 .. n -> Entries(next)]
  BY <1>3, <1>4 DEF Entries
<1>6. next \in Seq(Entries(next)) /\ Len(next) = n
  BY <1>2, <1>5
<1> QED BY <1>1, <1>2, <1>4, <1>6 DEF IsList, n, node, next

(* The levels shrink to a single node. *)
LEMMA LevelFacts ==
  ASSUME NEW leaves, IsList(leaves), Len(leaves) >= 1
  PROVE  LET Level == Levels(leaves)
         IN  /\ Len(leaves) \in Nat
             /\ \A h \in 0 .. Len(leaves) : /\ IsList(Level[h])
                                            /\ Len(Level[h]) \in Nat /\ Len(Level[h]) >= 1
             /\ Len(Level[Len(leaves)]) = 1
<1> DEFINE N == Len(leaves)
           Level == Levels(leaves)
           P(h) == /\ IsList(Level[h]) /\ Len(Level[h]) \in Nat /\ Len(Level[h]) >= 1
                   /\ h < N => Len(Level[h]) <= N - h
                   /\ h = N => Len(Level[h]) = 1
           G == {h \in Nat : h <= N => P(h)}
<1>1. N \in Nat
  BY LenProperties DEF IsList
<1>2. Level[0] = leaves /\ \A h \in 1 .. N : Level[h] = NextLevel(Level[h - 1])
  BY <1>1, LevelsUnroll
<1> HIDE DEF Level
<1>3. 0 \in G
  BY <1>1, <1>2
<1>4. ASSUME NEW h \in Nat, h \in G PROVE h + 1 \in G
  <2> SUFFICES ASSUME h + 1 <= N PROVE P(h + 1)
    OBVIOUS
  <2>1. P(h) /\ h < N
    BY <1>1, <1>4
  <2>2. Level[h + 1] = NextLevel(Level[h])
    <3>1. h + 1 \in 1 .. N /\ (h + 1) - 1 = h
      BY <1>1
    <3> QED BY <1>2, <3>1
  <2> DEFINE below == Level[h]
  <2>3. IsList(below) /\ Len(below) \in Nat /\ Len(below) >= 1 /\ Len(below) <= N - h
    BY <2>1
  <2> HIDE DEF below
  <2>4. /\ IsList(NextLevel(below)) /\ Len(NextLevel(below)) \in Nat
        /\ Len(NextLevel(below)) >= 1 /\ Len(NextLevel(below)) <= Len(below)
        /\ Len(below) > 1 => Len(NextLevel(below)) <= Len(below) - 1
    BY <2>3, NextLevelFacts
  <2>5. /\ h + 1 < N => Len(NextLevel(below)) <= N - (h + 1)
        /\ h + 1 = N => Len(NextLevel(below)) = 1
    <3> HIDE DEF N
    <3>1. N - h \in Nat /\ N - h >= 1 /\ (h + 1 < N => N - (h + 1) >= 1)
      BY <1>1, <2>1
    <3>2. CASE Len(below) > 1
      BY <1>1, <2>3, <2>4, <3>1, <3>2
    <3>3. CASE Len(below) = 1
      BY <1>1, <2>3, <2>4, <3>1, <3>3
    <3>4. Len(below) > 1 \/ Len(below) = 1
      <4> DEFINE k == Len(below)
      <4>1. k \in Nat /\ k >= 1
        BY <2>3
      <4> HIDE DEF k
      <4>2. k > 1 \/ k = 1
        BY <4>1
      <4> QED BY <4>2 DEF k
    <3> QED BY <3>2, <3>3, <3>4
  <2> QED BY <2>2, <2>4, <2>5 DEF below
<1>5. Nat \subseteq G
  <2> HIDE DEF G
  <2> QED BY <1>3, <1>4, CountingUp
<1>6. \A h \in 0 .. N : P(h)
  BY <1>1, <1>5
<1>7. Len(Level[N]) = 1
  <2>1. P(N)
    BY <1>1, <1>6
  <2> QED BY <1>1, <2>1
<1> QED BY <1>1, <1>6, <1>7 DEF Level

(* Where the parent of a node is, and its children. *)
LEMMA Halves ==
  ASSUME NEW p \in Nat, p >= 1
  PROVE  /\ (p + 1) \div 2 \in Nat /\ (p + 1) \div 2 >= 1
         /\ p % 2 = 1 => 2 * ((p + 1) \div 2) = p + 1
         /\ p % 2 # 1 => 2 * ((p + 1) \div 2) = p
  OBVIOUS

(* A verifier moves from a node to its parent, and hashes to what is there *)
(* exactly if it held what was below.                                      *)
LEMMA ParentFacts ==
  ASSUME NEW level, IsList(level), Len(level) >= 1,
         NEW below, below.at \in 1 .. Len(level)
  PROVE  LET up == Parent(below, level)
         IN  /\ up.at \in 1 .. Len(NextLevel(level))
             /\ up.hash = NextLevel(level)[up.at] <=> below.hash = level[below.at]
<1> DEFINE m == Len(level)
           n == (m + 1) \div 2
           p == below.at
           q == (p + 1) \div 2
           next == NextLevel(level)
           up == Parent(below, level)
<1>1. /\ m \in Nat /\ Len(next) = n /\ n \in Nat
      /\ \A j \in 1 .. n :
           next[j] = IF 2*j <= m THEN NodeHash(level[2*j - 1], level[2*j])
                                 ELSE level[2*j - 1]
  BY NextLevelFacts
<1>2. p \in Nat /\ p >= 1 /\ p <= m
  BY <1>1
<1>3. q \in 1 .. n
  BY <1>1, <1>2
<1>4. up.at = q
  BY DEF Parent
<1>9. /\ q \in Nat /\ p % 2 = 1 => 2*q = p + 1
      /\ p % 2 # 1 => 2*q = p
  <2> HIDE DEF p
  <2> QED BY <1>2, Halves
<1> HIDE DEF next
<1>5. ASSUME NEW a, NEW b, NEW c, NEW d
      PROVE  NodeHash(a, b) = NodeHash(c, d) <=> a = c /\ b = d
  BY DEF NodeHash
<1>6. CASE p % 2 = 1 /\ p + 1 > m
  <2>1. 2*q - 1 = p /\ ~(2*q <= m)
    BY <1>1, <1>2, <1>6, <1>9
  <2>2. next[q] = level[p]
    BY <1>1, <1>3, <2>1
  <2>3. up.hash = below.hash
    BY <1>6 DEF Parent
  <2> QED BY <1>1, <1>3, <1>4, <2>2, <2>3 DEF next
<1>7. CASE p % 2 = 1 /\ p + 1 <= m
  <2>1. 2*q = p + 1 /\ 2*q - 1 = p /\ 2*q <= m
    BY <1>1, <1>2, <1>7, <1>9
  <2>2. next[q] = NodeHash(level[p], level[p + 1])
    BY <1>1, <1>3, <2>1
  <2>3. ~(p + 1 > m) /\ p + 1 \in p .. m
    BY <1>1, <1>2, <1>7
  <2>4. up.hash = NodeHash(below.hash, level[p + 1])
    BY <1>7, <2>3 DEF Parent
  <2>5. up.hash = next[q] <=> below.hash = level[p]
    BY <1>5, <2>2, <2>4
  <2> QED BY <1>1, <1>3, <1>4, <2>5 DEF next
<1>8. CASE p % 2 # 1
  <2>1. 2*q = p /\ 2*q <= m
    BY <1>1, <1>2, <1>8, <1>9
  <2>2. next[q] = NodeHash(level[p - 1], level[p])
    BY <1>1, <1>3, <2>1
  <2>3. ~(p - 1 > m) /\ p - 1 \notin p .. m
    BY <1>1, <1>2
  <2>4. up.hash = NodeHash(level[p - 1], below.hash)
    BY <1>8, <2>3 DEF Parent
  <2>5. up.hash = next[q] <=> below.hash = level[p]
    BY <1>5, <2>2, <2>4
  <2> QED BY <1>1, <1>3, <1>4, <2>5 DEF next
<1> QED BY <1>1, <1>2, <1>6, <1>7, <1>8

(* For every page, every position and every leaf: a verifier who starts    *)
(* from the leaf at that position arrives at the root of the page, and     *)
(* whoever starts from anything else does not.                             *)
THEOREM ProofsReachRoot ==
  ASSUME NEW leaves, IsList(leaves), NEW i \in DOMAIN leaves, NEW leaf
  PROVE  RootFromLeaf(leaf, i, leaves) = RootOf(leaves) <=> leaf = leaves[i]
<1> DEFINE N == Len(leaves)
           Level == Levels(leaves)
<1>1. N \in Nat /\ DOMAIN leaves = 1 .. N /\ N >= 1
  BY LenProperties DEF IsList
<1>2. /\ \A h \in 0 .. N : IsList(Level[h]) /\ Len(Level[h]) \in Nat /\ Len(Level[h]) >= 1
      /\ Len(Level[N]) = 1
  BY <1>1, LevelFacts
<1>3. Level[0] = leaves /\ \A h \in 1 .. N : Level[h] = NextLevel(Level[h - 1])
  BY <1>1, LevelsUnroll
<1> PICK f : Climbs(f, leaf, i, leaves)
  BY <1>1, ClimbUnrolls
<1>4. /\ f[0] = [at |-> i, hash |-> leaf]
      /\ \A h \in 1 .. N : f[h] = Parent(f[h - 1], Level[h - 1])
      /\ RootFromLeaf(leaf, i, leaves) = f[N].hash
  BY DEF Climbs
<1> HIDE DEF Level
<1> DEFINE P(h) == /\ f[h].at \in 1 .. Len(Level[h])
                   /\ f[h].hash = Level[h][f[h].at] <=> leaf = leaves[i]
           G == {h \in Nat : h <= N => P(h)}
<1>5. 0 \in G
  BY <1>1, <1>3, <1>4
<1>6. ASSUME NEW h \in Nat, h \in G PROVE h + 1 \in G
  <2> SUFFICES ASSUME h + 1 <= N PROVE P(h + 1)
    OBVIOUS
  <2>1. h \in 0 .. N /\ h + 1 \in 1 .. N /\ (h + 1) - 1 = h /\ P(h)
    BY <1>1, <1>6
  <2>2. IsList(Level[h]) /\ Len(Level[h]) >= 1
    BY <1>2, <2>1
  <2>3. f[h + 1] = Parent(f[h], Level[h]) /\ Level[h + 1] = NextLevel(Level[h])
    BY <1>3, <1>4, <2>1
  <2> DEFINE level == Level[h]
             below == f[h]
  <2>4. /\ IsList(level) /\ Len(level) >= 1 /\ below.at \in 1 .. Len(level)
        /\ below.hash = level[below.at] <=> leaf = leaves[i]
    BY <2>1, <2>2
  <2> HIDE DEF level, below
  <2>5. /\ Parent(below, level).at \in 1 .. Len(NextLevel(level))
        /\ Parent(below, level).hash = NextLevel(level)[Parent(below, level).at]
             <=> below.hash = level[below.at]
    BY <2>4, ParentFacts
  <2> QED BY <2>3, <2>4, <2>5 DEF level, below
<1>7. P(N)
  <2>1. Nat \subseteq G
    <3> HIDE DEF G
    <3> QED BY <1>5, <1>6, CountingUp
  <2> QED BY <1>1, <2>1
<1>8. f[N].at = 1
  BY <1>1, <1>2, <1>7
<1>9. RootOf(leaves) = Level[N][1]
  <2>1. leaves # <<>>
    BY <1>1, EmptySeq
  <2> QED BY <2>1 DEF RootOf, Level
<1> QED BY <1>4, <1>7, <1>8, <1>9

Numbered(f) == \E n \in Nat : DOMAIN f = 1 .. n

(* The records of a page are a list, whatever the registry holds. *)
LEMMA PageIsList ==
  ASSUME TypeOK, NEW api \in {"admin", "public"}, NEW o \in Nat, NEW l \in PageLimits
  PROVE  Numbered(Page(api, o, l).records)
<1> SUFFICES \E n \in Nat : DOMAIN Page(api, o, l).records = 1 .. n
  BY DEF Numbered
<1> DEFINE lim == EffectiveLimit(l)
<1>1. lim \in Nat
  BY LimitsAssumption DEF EffectiveLimit, Clamp
<1> HIDE DEF lim
<1>2. ASSUME NEW s \in Seq(Keys), NEW e \in Nat, e <= Len(s), NEW X
      PROVE  \E n \in Nat : DOMAIN Without(SubSeq(s, o + 1, e), X) = 1 .. n
  <2>1. SubSeq(s, o + 1, e) \in Seq(Keys)
    BY <1>2, SubSeqProperties, LenProperties
  <2>2. Without(SubSeq(s, o + 1, e), X) \in Seq(Keys)
    BY <2>1, WithoutFacts
  <2> QED BY <2>2, LenProperties
<1>3. \E n \in Nat : DOMAIN EmptyPage.records = 1 .. n
  <2>1. DOMAIN EmptyPage.records = 1 .. 0
    BY DEF EmptyPage
  <2> QED BY <2>1
<1>4. CASE o >= count
  <2>1. Page(api, o, l) = EmptyPage
    BY <1>4 DEF Page, AdminPage, PublicPage
  <2> QED BY <1>3, <2>1
<1>5. CASE ~(o >= count) /\ api = "admin"
  <2> DEFINE e == Clamp(o + lim, Len(index))
             s == SubSeq(index, o + 1, e)
             X == {k \in Entries(s) : rec[k] = None}
  <2>1. index \in Seq(Keys) /\ e \in Nat /\ e <= Len(index)
    BY <1>1, LenProperties DEF TypeOK, Clamp
  <2>2. DOMAIN Page(api, o, l).records = DOMAIN Without(s, X)
    BY <1>5 DEF Page, AdminPage, Exported, lim
  <2> HIDE DEF e, X
  <2> QED BY <1>2, <2>1, <2>2
<1>6. CASE ~(o >= count) /\ api = "public"
  <2> DEFINE flat == Flatten(chunks)
             e == WalkEnd(flat, o, lim)
             s == SubSeq(flat, o + 1, e)
             X == {k \in Entries(s) : rec[k] = None}
  <2>1. flat \in Seq(Keys)
    BY FlattenFacts DEF TypeOK
  <2>2. DOMAIN Page(api, o, l).records = DOMAIN Without(s, X)
    BY <1>6 DEF Page, PublicPage, Exported, lim
  <2> HIDE DEF flat
  <2>3. Len(flat) \in Nat
    BY <2>1, LenProperties
  <2>4. e \in Nat /\ e <= Len(flat)
    <3> DEFINE full == {i \in {j \in o + 1 .. Len(flat) : rec[flat[j]] # None} :
                          Rank({j \in o + 1 .. Len(flat) : rec[flat[j]] # None}, i) = lim}
    <3>1. \A i \in full : i \in Nat /\ i <= Len(flat)
      BY <2>3
    <3>2. e = IF full = {} THEN Len(flat) ELSE CHOOSE i \in full : TRUE
      BY DEF WalkEnd
    <3> HIDE DEF full, e
    <3> QED BY <2>3, <3>1, <3>2
  <2> HIDE DEF e, X
  <2> QED BY <1>2, <2>1, <2>2, <2>4
<1> QED BY <1>4, <1>5, <1>6

(* The root of a page proves its entries and nothing else, for every       *)
(* number of records, cursor and limit: the siblings lead from an entry to *)
(* the root, and from the entry with its verified flag turned they do not. *)
THEOREM RootsProve == ExportSpec => []RootsProveEntries
<1>1. ASSUME TypeOK, NEW api \in {"admin", "public"}, NEW o \in 0 .. count, NEW l \in PageLimits
      PROVE  LET page   == Page(api, o, l)
                 root   == MerkleRoot(page)
                 Leaf(i, v) == LeafHash(page.records[i].name, page.records[i].record.addr, v)
                 leaves == [i \in DOMAIN page.records |-> Leaf(i, page.records[i].record.verified)]
             IN \A i \in DOMAIN leaves, v \in BOOLEAN :
                  (RootFromLeaf(Leaf(i, v), i, leaves) = root)
                    <=> (v = page.records[i].record.verified)
  <2>0. o \in Nat
    <3> SUFFICES count \in Nat
      OBVIOUS
    <3> QED BY <1>1 DEF TypeOK
  <2>1. Numbered(Page(api, o, l).records)
    BY <1>1, <2>0, PageIsList
  <2> DEFINE page == Page(api, o, l)
             Leaf(i, v) == LeafHash(page.records[i].name, page.records[i].record.addr, v)
             leaves == [i \in DOMAIN page.records |-> Leaf(i, page.records[i].record.verified)]
  <2>2. PICK n \in Nat : DOMAIN page.records = 1 .. n
    BY <2>1 DEF Numbered
  <2> HIDE DEF page
  <2>3. MerkleRoot(page) = RootOf(leaves)
    BY DEF MerkleRoot, RootOfRecords
  <2>4. DOMAIN leaves = 1 .. n
    BY <2>2
  <2>5. \A i \in 1 .. n : leaves[i] = Leaf(i, page.records[i].record.verified)
    BY <2>2
  <2>6. IsList(leaves)
    <3>1. leaves \in [1 .. n -> Entries(leaves)]
      BY <2>2 DEF Entries
    <3> HIDE DEF leaves
    <3> QED BY <3>1 DEF IsList
  <2>7. \A i, v, w : Leaf(i, v) = Leaf(i, w) <=> v = w
    BY DEF LeafHash
  <2> HIDE DEF leaves, Leaf
  <2>8. ASSUME NEW i \in DOMAIN leaves, NEW v \in BOOLEAN
        PROVE  RootFromLeaf(Leaf(i, v), i, leaves) = MerkleRoot(page)
                 <=> v = page.records[i].record.verified
    <3>1. RootFromLeaf(Leaf(i, v), i, leaves) = RootOf(leaves) <=> Leaf(i, v) = leaves[i]
      BY <2>6, ProofsReachRoot
    <3> QED BY <2>3, <2>4, <2>5, <2>7, <3>1
  <2> QED BY <2>8 DEF page, leaves, Leaf
<1>2. TypeOK => RootsProveEntries
  BY <1>1 DEF RootsProveEntries
<1> QED BY <1>2, ExportRunsRegistry, TypeCorrect, PTL

-----------------------------------------------------------------------------
(* The same tree top down. *)

(* The powers of two are what the recursion says. *)
LEMMA PowersUnroll ==
  ASSUME NEW n \in Nat
  PROVE  LET P == PowersOfTwo(n)
         IN  P[0] = 1 /\ \A e \in 1 .. n : P[e] = 2 * P[e - 1]
<1> DEFINE Pow(f, m) == f = [e \in 0 .. m |-> IF e = 0 THEN 1 ELSE 2 * f[e - 1]]
           G == {m \in Nat : \E f : Pow(f, m)}
<1>1. 0 \in G
  <2> DEFINE f == [e \in 0 .. 0 |-> 1]
  <2>1. Pow(f, 0)
    OBVIOUS
  <2> HIDE DEF f, Pow
  <2> QED BY <2>1
<1>2. ASSUME NEW m \in Nat, m \in G PROVE m + 1 \in G
  <2>1. PICK f : Pow(f, m)
    BY <1>2
  <2> DEFINE g == [e \in 0 .. m + 1 |-> IF e = 0 THEN 1 ELSE 2 * f[e - 1]]
  <2>2. \A e \in 0 .. m : g[e] = f[e]
    <3> SUFFICES ASSUME NEW e \in 0 .. m PROVE g[e] = f[e]
      OBVIOUS
    <3>1. f[e] = IF e = 0 THEN 1 ELSE 2 * f[e - 1]
      BY <2>1
    <3>2. e \in 0 .. m + 1
      OBVIOUS
    <3> QED BY <3>1, <3>2
  <2>3. \A e \in 0 .. m + 1 : e # 0 => g[e - 1] = f[e - 1]
    <3>1. \A e \in 0 .. m + 1 : e # 0 => e - 1 \in 0 .. m
      OBVIOUS
    <3> HIDE DEF g
    <3> QED BY <2>2, <3>1
  <2>4. Pow(g, m + 1)
    BY <2>3
  <2> HIDE DEF g, Pow
  <2> QED BY <2>4
<1>3. \E f : Pow(f, n)
  <2>1. Nat \subseteq G
    <3> HIDE DEF G
    <3> QED BY <1>1, <1>2, CountingUp
  <2> QED BY <2>1
<1> DEFINE f == CHOOSE f : Pow(f, n)
<1>4. Pow(f, n)
  BY <1>3
<1>5. PowersOfTwo(n) = f
  BY DEF PowersOfTwo
<1> HIDE DEF f
<1>6. f[0] = 1 /\ \A e \in 1 .. n : f[e] = 2 * f[e - 1]
  BY <1>4
<1> QED BY <1>5, <1>6

(* They grow, faster than their exponents. *)
LEMMA PowersGrow ==
  ASSUME NEW n \in Nat
  PROVE  LET P == PowersOfTwo(n)
         IN  /\ \A e \in 0 .. n : P[e] \in Nat /\ e < P[e]
             /\ \A e, d \in 0 .. n : d < e => 2 * P[d] <= P[e]
<1> DEFINE P == PowersOfTwo(n)
           Q(e) == /\ P[e] \in Nat /\ e < P[e]
                   /\ \A d \in 0 .. n : d < e => P[d] \in Nat /\ 2 * P[d] <= P[e]
           G == {e \in Nat : e <= n => Q(e)}
<1>1. P[0] = 1 /\ \A e \in 1 .. n : P[e] = 2 * P[e - 1]
  BY PowersUnroll
<1> HIDE DEF P
<1>2. 0 \in G
  BY <1>1
<1>3. ASSUME NEW e \in Nat, e \in G PROVE e + 1 \in G
  <2> SUFFICES ASSUME e + 1 <= n PROVE Q(e + 1)
    OBVIOUS
  <2>1. Q(e)
    BY <1>3
  <2>2. P[e + 1] = 2 * P[e]
    <3>1. e + 1 \in 1 .. n /\ (e + 1) - 1 = e
      OBVIOUS
    <3> QED BY <1>1, <3>1
  <2>3. P[e + 1] \in Nat /\ e + 1 < P[e + 1]
    BY <2>1, <2>2
  <2>4. ASSUME NEW d \in 0 .. n, d < e + 1 PROVE P[d] \in Nat /\ 2 * P[d] <= P[e + 1]
    <3>1. CASE d = e
      BY <2>1, <2>2, <3>1
    <3>2. CASE d < e
      <4>1. P[d] \in Nat /\ 2 * P[d] <= P[e]
        BY <2>1, <3>2
      <4> QED BY <2>1, <2>2, <4>1
    <3> QED BY <2>4, <3>1, <3>2
  <2> QED BY <2>3, <2>4
<1>4. Nat \subseteq G
  <2> HIDE DEF G
  <2> QED BY <1>2, <1>3, CountingUp
<1>5. \A e \in 0 .. n : Q(e)
  BY <1>4
<1> QED BY <1>5 DEF P

(* Every number of leaves from two on splits, and in one place only. *)
LEMMA SplitFacts ==
  ASSUME NEW n \in Nat, NEW m \in 2 .. n
  PROVE  LET P == PowersOfTwo(n)
         IN  /\ SplitAt(m, n) \in 1 .. m - 1
             /\ \A e \in 0 .. n : P[e] < m /\ m <= 2 * P[e] => SplitAt(m, n) = P[e]
<1> DEFINE P == PowersOfTwo(n)
           Splits(k, i) == k < i /\ i <= 2 * k
           H(i) == \E e \in 0 .. n : Splits(P[e], i)
           G == {i \in Nat : i + 2 <= n => H(i + 2)}
<1>1. P[0] = 1 /\ \A e \in 1 .. n : P[e] = 2 * P[e - 1]
  BY PowersUnroll
<1>2. \A e \in 0 .. n : P[e] \in Nat /\ e < P[e]
  BY PowersGrow
<1>3. \A e, d \in 0 .. n : d < e => 2 * P[d] <= P[e]
  BY PowersGrow
<1>4. SplitAt(m, n) = CHOOSE k \in {P[e] : e \in 0 .. n} : Splits(k, m)
  BY DEF SplitAt
<1> HIDE DEF P
<1>5. 0 \in G
  <2>1. Splits(P[0], 2)
    BY <1>1
  <2>2. 0 \in 0 .. n
    OBVIOUS
  <2> QED BY <2>1, <2>2
<1>6. ASSUME NEW i \in Nat, i \in G PROVE i + 1 \in G
  <2> SUFFICES ASSUME (i + 1) + 2 <= n PROVE H((i + 1) + 2)
    OBVIOUS
  <2>1. PICK e \in 0 .. n : Splits(P[e], i + 2)
    BY <1>6
  <2>2. P[e] \in Nat /\ e < P[e]
    BY <1>2
  <2>3. CASE (i + 1) + 2 <= 2 * P[e]
    <3>1. Splits(P[e], (i + 1) + 2)
      BY <2>1, <2>2, <2>3
    <3> QED BY <3>1
  <2>4. CASE (i + 1) + 2 > 2 * P[e]
    <3>1. i + 2 = 2 * P[e]
      BY <2>1, <2>2, <2>4
    <3>2. e + 1 \in 1 .. n /\ (e + 1) - 1 = e
      BY <2>1, <2>2
    <3>3. P[e + 1] = i + 2
      BY <1>1, <3>1, <3>2
    <3>4. Splits(P[e + 1], (i + 1) + 2)
      BY <3>3
    <3>5. e + 1 \in 0 .. n
      BY <3>2
    <3> QED BY <3>4, <3>5
  <2> QED BY <2>2, <2>3, <2>4
<1>7. H(m)
  <2>1. Nat \subseteq G
    <3> HIDE DEF G
    <3> QED BY <1>5, <1>6, CountingUp
  <2>2. m - 2 \in Nat /\ (m - 2) + 2 = m
    OBVIOUS
  <2> QED BY <2>1, <2>2
<1>8. SplitAt(m, n) \in {P[e] : e \in 0 .. n} /\ Splits(SplitAt(m, n), m)
  <2>1. \E k \in {P[e] : e \in 0 .. n} : Splits(k, m)
    BY <1>7
  <2> HIDE DEF Splits
  <2> QED BY <1>4, <2>1
<1>9. PICK d \in 0 .. n : SplitAt(m, n) = P[d]
  BY <1>8
<1>10. P[d] \in Nat /\ P[d] < m /\ m <= 2 * P[d]
  BY <1>2, <1>8, <1>9
<1>11. ASSUME NEW e \in 0 .. n, P[e] < m, m <= 2 * P[e] PROVE P[d] = P[e]
  <2>1. P[e] \in Nat
    BY <1>2
  <2>2. CASE d = e
    BY <2>2
  <2>3. CASE d < e
    <3>1. 2 * P[d] <= P[e]
      BY <1>3, <2>3
    <3> QED BY <1>10, <1>11, <2>1, <3>1
  <2>4. CASE e < d
    <3>1. 2 * P[e] <= P[d]
      BY <1>3, <2>4
    <3> QED BY <1>10, <1>11, <2>1, <3>1
  <2> QED BY <2>2, <2>3, <2>4
<1>12. SplitAt(m, n) \in 1 .. m - 1
  BY <1>9, <1>10
<1> QED BY <1>9, <1>11, <1>12 DEF P

(* H holds the hashes of the runs of leaves that the top-down tree has. *)
SplitTree(H, leaves) ==
  LET n == Len(leaves)
  IN  /\ SplitRoot(leaves) = H[<<1, n>>]
      /\ \A lo \in 1 .. n : H[<<lo, 1>>] = leaves[lo]
      /\ \A lo \in 1 .. n, m \in 2 .. n : lo + m <= n + 1 =>
           H[<<lo, m>>] = NodeHash(H[<<lo, SplitAt(m, n)>>],
                                   H[<<lo + SplitAt(m, n), m - SplitAt(m, n)>>])

(* The hashes of the top-down tree are what the recursion says. *)
LEMMA SplitUnrolls ==
  ASSUME NEW leaves, IsList(leaves), Len(leaves) >= 1
  PROVE  \E H : SplitTree(H, leaves)
<1> DEFINE n == Len(leaves)
           c(m) == SplitAt(m, n)
           Runs == {w \in (1 .. n) \X (1 .. n) : w[1] + w[2] <= n + 1}
           Upto(m) == {w \in Runs : w[2] <= m}
           Body(f, w) == IF w[2] = 1
                           THEN leaves[w[1]]
                           ELSE NodeHash(f[<<w[1], c(w[2])>>], f[<<w[1] + c(w[2]), w[2] - c(w[2])>>])
           Tree(f, D) == f = [w \in D |-> Body(f, w)]
           G == {m \in Nat : \E f : Tree(f, Upto(m))}
<1>1. n \in Nat /\ n >= 1 /\ leaves # <<>>
  BY LenProperties, EmptySeq DEF IsList
<1>2. \A m \in 2 .. n : c(m) \in 1 .. m - 1
  BY <1>1, SplitFacts
<1> HIDE DEF n, c
<1>3. ASSUME NEW w \in Runs, w[2] # 1
      PROVE  /\ <<w[1], c(w[2])>> \in Runs /\ <<w[1] + c(w[2]), w[2] - c(w[2])>> \in Runs
             /\ c(w[2]) < w[2] /\ w[2] - c(w[2]) < w[2]
  <2> DEFINE lo == w[1]
             m == w[2]
  <2>1. lo \in 1 .. n /\ m \in 1 .. n /\ lo + m <= n + 1 /\ m # 1
    BY <1>3
  <2> HIDE DEF lo, m
  <2>2. m \in 2 .. n
    BY <1>1, <2>1
  <2>3. c(m) \in 1 .. m - 1
    BY <1>2, <2>2
  <2>4. /\ c(m) \in 1 .. n /\ lo + c(m) <= n + 1
        /\ lo + c(m) \in 1 .. n /\ m - c(m) \in 1 .. n /\ (lo + c(m)) + (m - c(m)) <= n + 1
        /\ c(m) < m /\ m - c(m) < m
    <3> SUFFICES ASSUME NEW k \in 1 .. m - 1
                 PROVE  /\ k \in 1 .. n /\ lo + k <= n + 1
                        /\ lo + k \in 1 .. n /\ m - k \in 1 .. n /\ (lo + k) + (m - k) <= n + 1
                        /\ k < m /\ m - k < m
      BY <2>3
    <3> QED BY <1>1, <2>1
  <2> QED BY <2>1, <2>4 DEF lo, m
<1>4. 0 \in G
  <2> DEFINE f == [w \in Upto(0) |-> 0]
  <2>1. \A w \in Upto(0) : FALSE
    BY <1>1
  <2>2. Tree(f, Upto(0))
    <3> HIDE DEF Upto, Body
    <3> QED BY <2>1
  <2> HIDE DEF f, Tree
  <2> QED BY <2>2
<1>5. ASSUME NEW m \in Nat, m \in G PROVE m + 1 \in G
  <2>1. PICK f : Tree(f, Upto(m))
    BY <1>5
  <2> DEFINE g == [w \in Upto(m + 1) |-> Body(f, w)]
  <2>2. \A w \in Upto(m) : w \in Upto(m + 1) /\ g[w] = f[w]
    <3> SUFFICES ASSUME NEW w \in Upto(m) PROVE w \in Upto(m + 1) /\ g[w] = f[w]
      OBVIOUS
    <3>1. w \in Upto(m + 1)
      BY <1>1
    <3> HIDE DEF Upto, Body
    <3>2. f[w] = Body(f, w)
      BY <2>1
    <3>3. g[w] = Body(f, w)
      BY <3>1
    <3> QED BY <3>1, <3>2, <3>3
  <2>3. ASSUME NEW w \in Upto(m + 1) PROVE Body(g, w) = Body(f, w)
    <3>1. CASE w[2] = 1
      BY <3>1
    <3>2. CASE w[2] # 1
      <4> DEFINE a == <<w[1], c(w[2])>>
                 b == <<w[1] + c(w[2]), w[2] - c(w[2])>>
      <4>1. w \in Runs /\ w[2] <= m + 1 /\ w[2] \in Int
        BY <1>1
      <4>2. a \in Runs /\ b \in Runs /\ a[2] < w[2] /\ b[2] < w[2]
        BY <1>3, <3>2, <4>1
      <4>3. a[2] \in Int /\ b[2] \in Int
        BY <1>1, <4>2
      <4>4. a \in Upto(m) /\ b \in Upto(m)
        <5> HIDE DEF a, b, Runs
        <5> QED BY <4>1, <4>2, <4>3
      <4>5. g[a] = f[a] /\ g[b] = f[b]
        <5> HIDE DEF a, b, g, Upto
        <5> QED BY <2>2, <4>4
      <4>6. Body(g, w) = NodeHash(g[a], g[b]) /\ Body(f, w) = NodeHash(f[a], f[b])
        <5> HIDE DEF g
        <5> QED BY <3>2
      <4> HIDE DEF a, b, g, Body
      <4> QED BY <4>5, <4>6
    <3> QED BY <3>1, <3>2
  <2>4. Tree(g, Upto(m + 1))
    <3> HIDE DEF Body, Upto
    <3> QED BY <2>3
  <2> HIDE DEF g, Tree, Upto
  <2> QED BY <2>4
<1>6. \E f : Tree(f, Runs)
  <2>1. Nat \subseteq G
    <3> HIDE DEF G
    <3> QED BY <1>4, <1>5, CountingUp
  <2>2. Upto(n) = Runs
    BY <1>1
  <2>3. n \in G
    BY <1>1, <2>1
  <2> HIDE DEF Tree, Runs, Upto
  <2> QED BY <2>2, <2>3
<1> DEFINE f == CHOOSE f : Tree(f, Runs)
<1>7. Tree(f, Runs)
  <2> HIDE DEF Tree
  <2> QED BY <1>6
<1>8. SplitRoot(leaves) = f[<<1, n>>]
  BY <1>1 DEF SplitRoot, n, c
<1> HIDE DEF f
<1>9. ASSUME NEW w \in Runs PROVE f[w] = Body(f, w)
  <2> HIDE DEF Body, Runs
  <2> QED BY <1>7
<1>10. ASSUME NEW lo \in 1 .. n PROVE f[<<lo, 1>>] = leaves[lo]
  <2>1. <<lo, 1>> \in Runs
    BY <1>1
  <2> QED BY <1>9, <2>1
<1>11. ASSUME NEW lo \in 1 .. n, NEW m \in 2 .. n, lo + m <= n + 1
       PROVE  f[<<lo, m>>] = NodeHash(f[<<lo, c(m)>>], f[<<lo + c(m), m - c(m)>>])
  <2>1. <<lo, m>> \in Runs /\ m # 1
    BY <1>1, <1>11
  <2>2. f[<<lo, m>>] = Body(f, <<lo, m>>)
    BY <1>9, <2>1
  <2> QED BY <2>1, <2>2
<1>12. SplitTree(f, leaves)
  BY <1>8, <1>10, <1>11 DEF SplitTree, n, c
<1> QED BY <1>12

(* How many of n leaves are in a run of width w from lo on. *)
Run(lo, w, n) == IF lo + w <= n + 1 THEN w ELSE n + 1 - lo

(* The nodes of a level are the hashes of successive runs of w leaves, of  *)
(* which the last may be shorter.                                          *)
Covers(level, w, n, H) ==
  /\ n <= Len(level) * w
  /\ \A p \in 1 .. Len(level) : /\ (p - 1) * w + 1 <= n
                                /\ level[p] = H[<<(p - 1) * w + 1, Run((p - 1) * w + 1, w, n)>>]

(* Two successive nodes are the halves of what is twice as wide. *)
LEMMA CoversStep ==
  ASSUME NEW leaves, NEW H, SplitTree(H, leaves), Len(leaves) \in Nat,
         NEW e \in Nat, e < Len(leaves), NEW level, IsList(level), Len(level) >= 1,
         Covers(level, PowersOfTwo(Len(leaves))[e], Len(leaves), H)
  PROVE  Covers(NextLevel(level), PowersOfTwo(Len(leaves))[e + 1], Len(leaves), H)
<1> DEFINE n == Len(leaves)
           w == PowersOfTwo(n)[e]
           k == Len(level)
           q == (k + 1) \div 2
           next == NextLevel(level)
<1>1. n \in Nat /\ w \in Nat /\ w >= 1
  <2>1. e \in 0 .. n
    OBVIOUS
  <2>2. w \in Nat /\ e < w
    BY <2>1, PowersGrow
  <2> QED BY <2>2
<1>2. PowersOfTwo(n)[e + 1] = 2 * w
  <2>1. e + 1 \in 1 .. n /\ (e + 1) - 1 = e
    OBVIOUS
  <2> QED BY <2>1, PowersUnroll
<1>3. /\ k \in Nat /\ k >= 1 /\ q \in Nat /\ q >= 1 /\ Len(next) = q
      /\ \A p \in 1 .. q : next[p] = IF 2*p <= k THEN NodeHash(level[2*p - 1], level[2*p])
                                                 ELSE level[2*p - 1]
  BY NextLevelFacts
<1>4. /\ n <= k * w
      /\ \A p \in 1 .. k : /\ (p - 1) * w + 1 <= n
                           /\ level[p] = H[<<(p - 1) * w + 1, Run((p - 1) * w + 1, w, n)>>]
  BY DEF Covers
<1>5. \A lo \in 1 .. n, m \in 2 .. n : lo + m <= n + 1 =>
        H[<<lo, m>>] = NodeHash(H[<<lo, SplitAt(m, n)>>],
                                H[<<lo + SplitAt(m, n), m - SplitAt(m, n)>>])
  BY DEF SplitTree
<1>6. \A m \in 2 .. n : w < m /\ m <= 2 * w => SplitAt(m, n) = w
  <2>1. e \in 0 .. n
    OBVIOUS
  <2> QED BY <1>1, <2>1, SplitFacts
<1> HIDE DEF n, w, k, q, next
<1>7. k <= 2 * q /\ 2 * q <= k + 1
  BY <1>3 DEF q
<1>8. n <= q * (2 * w)
  <2>1. k * w <= (2 * q) * w
    <3>1. k * w \in Nat /\ (k + 1) * w = k * w + w
      BY <1>1, <1>3
    <3>2. CASE k = 2 * q
      BY <3>1, <3>2
    <3>3. CASE k + 1 = 2 * q
      <4>1. (2 * q) * w = k * w + w
        BY <3>1, <3>3
      <4> QED BY <1>1, <3>1, <4>1
    <3>4. k = 2 * q \/ k + 1 = 2 * q
      BY <1>3, <1>7
    <3> QED BY <3>2, <3>3, <3>4
  <2>2. (2 * q) * w = q * (2 * w)
    BY <1>1, <1>3
  <2>3. k * w \in Int /\ q * (2 * w) \in Int
    BY <1>1, <1>3
  <2> QED BY <1>1, <1>4, <2>1, <2>2, <2>3
<1>9. ASSUME NEW p \in 1 .. q
      PROVE  /\ (p - 1) * (2 * w) + 1 <= n
             /\ next[p] = H[<<(p - 1) * (2 * w) + 1, Run((p - 1) * (2 * w) + 1, 2 * w, n)>>]
  <2> DEFINE lo == (p - 1) * (2 * w) + 1
             i == 2 * p - 1
             j == 2 * p
  <2>1. p \in Nat /\ p >= 1 /\ i \in 1 .. k /\ i \in Nat /\ j \in Nat /\ j = i + 1
    BY <1>3, <1>7
  <2>2. (i - 1) * w = (p - 1) * (2 * w) /\ (p - 1) * (2 * w) \in Nat
    BY <1>1, <2>1
  <2>3. (j - 1) * w = (p - 1) * (2 * w) + w
    BY <1>1, <2>1
  <2>4. lo \in Nat /\ lo >= 1 /\ lo <= n
    <3>1. (i - 1) * w + 1 <= n
      <4> HIDE DEF i, j
      <4> QED BY <1>4, <2>1
    <3>2. (p - 1) * (2 * w) + 1 <= n
      BY <2>2, <3>1
    <3> QED BY <2>2, <3>2
  <2>5. level[i] = H[<<lo, Run(lo, w, n)>>]
    BY <1>4, <2>1, <2>2
  <2>6. CASE j <= k
    <3>1. j \in 1 .. k
      BY <1>3, <2>1, <2>6
    <3>2. (j - 1) * w + 1 = lo + w
      BY <1>1, <2>2, <2>3
    <3>3. lo + w <= n /\ level[j] = H[<<lo + w, Run(lo + w, w, n)>>]
      BY <1>4, <3>1, <3>2
    <3> DEFINE m == Run(lo, 2 * w, n)
    <3> HIDE DEF lo, i, j
    <3>4. Run(lo, w, n) = w
      BY <1>1, <2>4, <3>3 DEF Run
    <3>5. /\ m \in 2 .. n /\ w < m /\ m <= 2 * w /\ lo + m <= n + 1
          /\ Run(lo + w, w, n) = m - w
      BY <1>1, <2>4, <3>3 DEF Run
    <3> HIDE DEF m
    <3>6. H[<<lo, m>>] = NodeHash(H[<<lo, w>>], H[<<lo + w, m - w>>])
      <4>1. SplitAt(m, n) = w
        BY <1>6, <3>5
      <4>2. lo \in 1 .. n
        BY <1>1, <2>4
      <4> QED BY <1>5, <3>5, <4>1, <4>2
    <3>7. next[p] = NodeHash(level[i], level[j])
      BY <1>3, <2>6 DEF i, j
    <3>8. next[p] = H[<<lo, m>>]
      BY <2>5, <3>3, <3>4, <3>5, <3>6, <3>7
    <3> QED BY <2>4, <3>8 DEF lo, m
  <2>7. CASE ~(j <= k)
    <3>1. i = k
      BY <1>3, <2>1, <2>7
    <3>2. k * w = (k - 1) * w + w
      BY <1>1, <1>3
    <3>3. n + 1 <= lo + w
      <4>1. (k - 1) * w = (p - 1) * (2 * w)
        BY <2>2, <3>1
      <4>2. n <= (p - 1) * (2 * w) + w
        BY <1>4, <3>2, <4>1
      <4> QED BY <1>1, <2>2, <4>2
    <3> HIDE DEF lo, i, j
    <3>4. Run(lo, w, n) = Run(lo, 2 * w, n)
      BY <1>1, <2>4, <3>3 DEF Run
    <3>5. next[p] = level[i]
      BY <1>3, <2>7 DEF i, j
    <3>6. next[p] = H[<<lo, Run(lo, 2 * w, n)>>]
      BY <2>5, <3>4, <3>5
    <3> QED BY <2>4, <3>6 DEF lo
  <2> QED BY <2>6, <2>7
<1>10. Covers(next, 2 * w, n, H)
  BY <1>3, <1>8, <1>9 DEF Covers
<1> QED BY <1>2, <1>10 DEF n, w, next

(* The tree that root_of builds level by level is the one that splits the  *)
(* leaves after the largest power of two below their number, for every     *)
(* number of leaves.                                                       *)
THEOREM RootIsSplitRoot ==
  ASSUME NEW leaves, IsList(leaves)
  PROVE  RootOf(leaves) = SplitRoot(leaves)
<1> DEFINE n == Len(leaves)
           Level == Levels(leaves)
           P == PowersOfTwo(n)
<1>1. CASE leaves = <<>>
  BY <1>1 DEF RootOf, SplitRoot
<1>2. CASE leaves # <<>>
  <2>1. n \in Nat /\ n >= 1
    <3>1. n \in Nat
      BY LenProperties DEF IsList
    <3>2. n # 0
      BY <1>2, EmptySeq DEF IsList
    <3> QED BY <3>1, <3>2
  <2>2. PICK H : SplitTree(H, leaves)
    BY <2>1, SplitUnrolls
  <2>3. Level[0] = leaves /\ \A h \in 1 .. n : Level[h] = NextLevel(Level[h - 1])
    BY <2>1, LevelsUnroll
  <2>4. /\ \A h \in 0 .. n : IsList(Level[h]) /\ Len(Level[h]) \in Nat /\ Len(Level[h]) >= 1
        /\ Len(Level[n]) = 1
    BY <2>1, LevelFacts
  <2>5. P[0] = 1 /\ P[n] \in Nat /\ n < P[n]
    <3>1. P[0] = 1
      BY <2>1, PowersUnroll
    <3>2. n \in 0 .. n
      BY <2>1
    <3> QED BY <2>1, <3>1, <3>2, PowersGrow
  <2>6. \A lo \in 1 .. n : H[<<lo, 1>>] = leaves[lo]
    BY <2>2 DEF SplitTree
  <2>7. SplitRoot(leaves) = H[<<1, n>>]
    BY <2>2 DEF SplitTree
  <2>8. RootOf(leaves) = Level[n][1]
    BY <1>2 DEF RootOf
  <2> HIDE DEF Level, P, n
  <2> DEFINE G == {h \in Nat : h <= n => Covers(Level[h], P[h], n, H)}
  <2>9. 0 \in G
    <3>1. \A p \in 1 .. n : (p - 1) * 1 + 1 = p /\ p + 1 <= n + 1 /\ Run(p, 1, n) = 1
      BY <2>1 DEF Run
    <3>2. n <= n * 1
      BY <2>1
    <3>3. \A p \in 1 .. n : /\ (p - 1) * 1 + 1 <= n
                            /\ leaves[p] = H[<<(p - 1) * 1 + 1, Run((p - 1) * 1 + 1, 1, n)>>]
      BY <2>1, <2>6, <3>1
    <3>4. Covers(leaves, 1, n, H)
      BY <3>2, <3>3 DEF Covers, n
    <3> QED BY <2>3, <2>5, <3>4
  <2>10. ASSUME NEW h \in Nat, h \in G PROVE h + 1 \in G
    <3>1. ASSUME h + 1 <= n PROVE Covers(Level[h + 1], P[h + 1], n, H)
      <4>1. h \in 0 .. n /\ h < n /\ h + 1 \in 1 .. n /\ (h + 1) - 1 = h
        BY <2>1, <3>1
      <4>2. Covers(Level[h], P[h], n, H) /\ IsList(Level[h]) /\ Len(Level[h]) >= 1
        BY <2>1, <2>4, <2>10, <4>1
      <4>3. Level[h + 1] = NextLevel(Level[h])
        BY <2>3, <4>1
      <4>4. Covers(NextLevel(Level[h]), P[h + 1], n, H)
        BY <2>1, <2>2, <4>1, <4>2, CoversStep DEF n, P
      <4> QED BY <4>3, <4>4
    <3> QED BY <3>1
  <2>11. Covers(Level[n], P[n], n, H)
    <3>1. Nat \subseteq G
      <4> HIDE DEF G
      <4> QED BY <2>9, <2>10, CountingUp
    <3> QED BY <2>1, <3>1
  <2>12. Level[n][1] = H[<<(1 - 1) * P[n] + 1, Run((1 - 1) * P[n] + 1, P[n], n)>>]
    <3>1. 1 \in 1 .. Len(Level[n])
      BY <2>4
    <3> QED BY <2>11, <3>1 DEF Covers
  <2>13. (1 - 1) * P[n] + 1 = 1 /\ Run(1, P[n], n) = n
    BY <2>1, <2>5 DEF Run
  <2> QED BY <2>7, <2>8, <2>12, <2>13
<1> QED BY <1>1, <1>2

=============================================================================
