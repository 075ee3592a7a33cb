------------------------------- MODULE Export -------------------------------
(***************************************************************************)
(* The paginated export of the registry and a client that walks it while   *)
(* others register, rename and remove.                                     *)
(*                                                                         *)
(* Two entry points serve pages: get_registered_paginated (admin) slices   *)
(* the flat index and get_public_paginated walks the pages of the chunked  *)
(* index.  Both hand out the same opaque cursor, an offset with the index  *)
(* generation at issue time, and a client may mix them.  On InvalidCursor  *)
(* it throws away what it has and starts over, as docs/DASHBOARD_SYNC.md   *)
(* and the error's documentation tell it to.                               *)
(***************************************************************************)
EXTENDS Registry, Merkle

CONSTANTS
  PageLimits,    \* values clients pass as limit
  DefaultLimit,  \* DEFAULT_PAGE_LIMIT, what a limit of 0 means
  MaxLimit       \* MAX_PAGE_LIMIT, what larger limits are cut to

ASSUME LimitsAssumption ==
  /\ PageLimits \subseteq Nat
  /\ DefaultLimit \in Nat \ {0} /\ MaxLimit \in Nat \ {0}

Cursor == [offset : Nat, gen : Nat]

ASSUME CursorAssumption == None \notin Cursor

VARIABLES
  cursor,  \* the client's cursor, None before its first page
  got,     \* the usernames the client has collected since it last started
  done,    \* the client saw a page without next_cursor
  since    \* removals since the cursor was issued

client == <<cursor, got, done, since>>

-----------------------------------------------------------------------------
(* Pages. *)

Clamp(l, m) == IF l <= m THEN l ELSE m

EffectiveLimit(l) == IF l = 0 THEN DefaultLimit ELSE Clamp(l, MaxLimit)

EncodeCursor(o) == [offset |-> o, gen |-> gen]

DecodesAnyGen(c) == c.offset <= count  \* mutant: the generation is not compared

DecodesShort(c) == c.gen = gen /\ c.offset + 1 < count  \* mutant: off by one

Decodes(c) == c.gen = gen /\ c.offset <= count

(* What a page shows of a record: the public one hides the holder of an    *)
(* unverified name behind the burn address.                                *)
PublicRecordView(r) ==
  IF r.verified THEN r ELSE [r EXCEPT !.addr = ZeroAddress, !.payout = ZeroAddress]

(* mutant: the public walk counts entries instead of stopping at one *)
WalkedPast(flat, o, l) == Clamp(o + l + 1, Len(flat))

(* Where the public walk stops: behind the l-th live entry past offset o,  *)
(* or at the end of the last page.                                         *)
WalkEnd(flat, o, l) ==
  LET hits == {i \in o + 1 .. Len(flat) : rec[flat[i]] # None}
      full == {i \in hits : Rank(hits, i) = l}
  IN IF full = {} THEN Len(flat) ELSE CHOOSE i \in full : TRUE

(* The records behind the index entries s, in order. *)
Exported(s, View(_)) ==
  LET live == Without(s, {k \in Entries(s) : rec[k] = None})
  IN [i \in DOMAIN live |-> [name |-> live[i], record |-> View(rec[live[i]])]]

EmptyPage == [records |-> <<>>, next |-> None]

AdminPage(o, l) ==
  LET end == Clamp(o + EffectiveLimit(l), Len(index)) IN
  IF o >= count
    THEN EmptyPage
    ELSE [records |-> Exported(SubSeq(index, o + 1, end), LAMBDA r : r),
          next    |-> IF end < Len(index) THEN EncodeCursor(end) ELSE None]

PublicPage(o, l) ==
  LET flat == Flatten(chunks)
      end  == WalkEnd(flat, o, EffectiveLimit(l))
  IN IF o >= count
       THEN EmptyPage
       ELSE [records |-> Exported(SubSeq(flat, o + 1, end), PublicRecordView),
             next    |-> IF end < count THEN EncodeCursor(end) ELSE None]

Page(api, o, l) == IF api = "admin" THEN AdminPage(o, l) ELSE PublicPage(o, l)

(* mutant: over the stored records instead of the redacted ones *)
StoredRoot(page) ==
  RootOf([i \in DOMAIN page.records |->
            LET k == page.records[i].name IN LeafHash(k, rec[k].addr, rec[k].verified)])

(* The merkle_root of a page is over the records as the page shows them. *)
MerkleRoot(page) == RootOfRecords(page.records)

NamesOf(page) == [i \in DOMAIN page.records |-> page.records[i].name]

-----------------------------------------------------------------------------
(* The other reads. *)

FromNext(o, l) ==  \* mutant: pages start one entry late
  SubSeq(index, o + 2, Clamp(o + EffectiveLimit(l), Len(index)))

IndexPage(o, l) == SubSeq(index, o + 1, Clamp(o + EffectiveLimit(l), Len(index)))

RegisteredPage(o, l) == Exported(IndexPage(o, l), LAMBDA r : r.addr)

AllRegistered == Exported(index, LAMBDA r : r.addr)

(* Refused when l is above MAX_PAGE_LIMIT. *)
PendingReverifyPage(o, l) == Without(IndexPage(o, l), Keys \ reverify)

RecordProof(n) ==
  LET r == rec[Canon[n]] IN [exists |-> r # None, verified |-> r # None /\ r.verified]

(* None stands for NotRegistered and NotVerified: do not pay. *)
GetAddressIfVerified(n) ==
  LET r == rec[Canon[n]] IN IF r # None /\ r.verified THEN r ELSE None

GetStats == [total |-> count, verified |-> vcount, ever |-> ever]

-----------------------------------------------------------------------------
(* The client. *)

ExportInit ==
  /\ Init
  /\ cursor = None /\ got = <<>> /\ done = FALSE /\ since = 0

Offset == IF cursor = None THEN 0 ELSE cursor.offset

ReadPage(api, l) ==
  LET page == Page(api, Offset, l) IN
  /\ ~done
  /\ cursor # None => Decodes(cursor)
  /\ got' = got \o NamesOf(page)
  /\ cursor' = page.next
  /\ done' = (page.next = None)
  /\ since' = 0
  /\ UNCHANGED vars

ResumeFromStart ==  \* mutant: restarts without dropping what it has
  /\ ~done
  /\ cursor # None /\ ~Decodes(cursor)
  /\ cursor' = None /\ since' = 0
  /\ UNCHANGED <<vars, got, done>>

(* InvalidCursor: start over. *)
RestartOnInvalidCursor ==
  /\ ~done
  /\ cursor # None /\ ~Decodes(cursor)
  /\ cursor' = None /\ got' = <<>> /\ since' = 0
  /\ UNCHANGED <<vars, done>>

(* The next sync, once one has finished. *)
NewExport ==
  /\ done
  /\ cursor' = None /\ got' = <<>> /\ done' = FALSE /\ since' = 0
  /\ UNCHANGED vars

(* An invocation of the contract while the client waits.  Fewer than       *)
(* GenModulus removals happen while it does: 2^32 of them would bring the  *)
(* same generation back, which bump_index_generation accepts.              *)
ContractStep ==
  /\ Next
  /\ since' = IF cursor = None THEN 0 ELSE since + ((gen' - gen) % GenModulus)
  /\ since' < GenModulus
  /\ UNCHANGED <<cursor, got, done>>

ClientStep ==
  \/ \E api \in {"admin", "public"}, l \in PageLimits : ReadPage(api, l)
  \/ RestartOnInvalidCursor

ExportNext == ContractStep \/ ClientStep \/ NewExport

(* A client that is running issues its next request: nothing in the        *)
(* contract delays it, pauses included.  Nothing else is fair: nobody has  *)
(* to register, remove or start another export.                            *)
ExportSpec ==
  /\ ExportInit
  /\ [][ExportNext]_<<vars, client>>
  /\ WF_<<vars, client>>(ClientStep)

-----------------------------------------------------------------------------
(* Properties. *)

(* A cursor the contract still accepts stands for everything before it:    *)
(* the client holds exactly the entries of the flat index up to its        *)
(* offset, none skipped and none twice, through every registration,        *)
(* rename, removal and compaction since the first page and whichever of    *)
(* the two entry points served each page.                                  *)
AcceptedCursorMarksPrefix ==
  cursor # None /\ Decodes(cursor) => got = SubSeq(index, 1, cursor.offset)

(* When the client sees the last page it holds every registered username   *)
(* exactly once.                                                           *)
FinishedExportIsComplete ==
  [][done' /\ ~done => /\ Entries(got') = Live
                       /\ Len(got') = Cardinality(Live)]_<<vars, client>>

(* The two entry points agree at every offset a cursor can carry and for   *)
(* every limit: same usernames, same next cursor; so a cursor of one can   *)
(* be continued with the other.                                            *)
ExportsAgree ==
  \A o \in 0 .. count, l \in PageLimits :
    /\ NamesOf(AdminPage(o, l)) = NamesOf(PublicPage(o, l))
    /\ AdminPage(o, l).next = PublicPage(o, l).next

(* Every way of asking gives the same answer.  Pages by offset, taken      *)
(* until get_stats().total is reached, list every registration once, in    *)
(* the order of get_all_registered, and every name flagged for             *)
(* re-verification once; the look-ups of one name under any of its         *)
(* spellings tell what the full list says of it, and the totals count that *)
(* list.                                                                   *)
ReadsAgree ==
  LET all == Exported(index, LAMBDA r : r)
      Walk(Serve(_, _), l) ==
        LET step == EffectiveLimit(l)
        IN Flatten([i \in 1 .. (GetStats.total + step - 1) \div step |->
                      Serve((i - 1) * step, l)])
  IN /\ \A l \in PageLimits : Walk(RegisteredPage, l) = AllRegistered
     /\ \A l \in PageLimits : l <= MaxLimit =>
          Walk(PendingReverifyPage, l) = Without(index, Keys \ reverify)
     /\ reverify \subseteq {all[i].name : i \in DOMAIN all}
     /\ \A n \in Names :
          LET rows == {i \in DOMAIN all : all[i].name = Canon[n]} IN
          /\ RecordProof(n).exists <=> Cardinality(rows) = 1
          /\ RecordProof(n).verified <=> GetAddressIfVerified(n) # None
          /\ \A i \in rows : RecordProof(n).verified <=> all[i].record.verified
     /\ GetStats.total = Len(all)
     /\ GetStats.verified = Cardinality({i \in DOMAIN all : all[i].record.verified})

(* The root of a page proves its entries and nothing else, at every offset *)
(* a cursor can carry and for every limit: from each entry and the         *)
(* siblings of its position a verifier arrives at the root, from the entry *)
(* with the verified flag turned it does not, and the root a reader of the *)
(* public page can compute never needs an address the page hides.          *)
RootsProveEntries ==
  \A api \in {"admin", "public"}, o \in 0 .. count, l \in PageLimits :
    LET page   == Page(api, o, l)
        root   == MerkleRoot(page)
        Leaf(i, v) == LeafHash(page.records[i].name, page.records[i].record.addr, v)
        leaves == [i \in DOMAIN page.records |-> Leaf(i, page.records[i].record.verified)]
    IN \A i \in DOMAIN leaves, v \in BOOLEAN :
         (RootFromLeaf(Leaf(i, v), i, leaves) = root)
           <=> (v = page.records[i].record.verified)

(* A client that restarts on InvalidCursor finishes once removals stop,    *)
(* however often they sent it back before.                                 *)
ExportFinishes ==
  <>[][gen' = gen]_<<vars, client>> => []<>done

=============================================================================
