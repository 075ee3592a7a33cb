------------------------------- MODULE Keeper -------------------------------
(***************************************************************************)
(* Storage rent: every record and every page of the chunked index is a     *)
(* persistent entry that the network archives when its time to live runs   *)
(* out.  The contract extends an entry when a transaction reads or writes  *)
(* it; extend_registry_ttl lets anyone extend records; and the keeper      *)
(* script (scripts/ttl_keeper.sh), started by a timer, walks               *)
(* get_public_paginated and sends extend_registry_ttl page by page while   *)
(* others register, use and remove names.                                  *)
(*                                                                         *)
(* The registry is reduced to what decides about rent: which names are     *)
(* registered, on which page, and until which ledger each entry lives.     *)
(* rename is a removal and a registration here.                            *)
(***************************************************************************)
EXTENDS Listing

CONSTANTS
  Names,        \* usernames
  ChunkSize,    \* CHUNK_SIZE
  BatchSize,    \* the keeper's --batch-size
  Threshold,    \* TTL_THRESHOLD
  Bump,         \* TTL_BUMP
  NetworkTtl,   \* what the network gives a new persistent entry
  Interval,     \* KEEPER_INTERVAL: the timer starts the keeper this often
  MaxLedger,    \* bound on the ledger number
  MaxRemovals,  \* bound on removals, and so on the index generation
  MaxFailures   \* bound on failed requests of the keeper

ASSUME KeeperAssumption ==
  /\ IsFiniteSet(Names)
  /\ ChunkSize \in Nat \ {0} /\ BatchSize \in Nat \ {0}
  /\ Threshold \in Nat /\ Bump \in Nat /\ Threshold < Bump
  /\ NetworkTtl \in Nat /\ Interval \in Nat /\ MaxLedger \in Nat
  /\ MaxRemovals \in Nat /\ MaxFailures \in Nat

VARIABLES
  ledger,    \* the current ledger
  until,     \* last ledger in which a name's record lives, 0 without record
  pages,     \* the chunked index: names and last live ledger of each page
  gen,       \* INDEX_GEN_KEY
  pc,        \* the keeper: idle | read | send
  cursor,    \* its cursor: offset and generation
  batch,     \* the usernames of the page it has read
  next,      \* that page's next_cursor, as a one-element or empty sequence
  failed,    \* failed_batches
  started,   \* ledger in which the keeper was last started
  lastClean, \* start of the last pass that exited 0 (history)
  failures   \* failed requests so far

contract == <<until, pages, gen>>
pass == <<pc, cursor, batch, next, failed, started>>
vars == <<ledger, contract, pass, lastClean, failures>>

Cursors == [offset : 0 .. Cardinality(Names), gen : 0 .. MaxRemovals]

Furthest == ledger + (IF Bump >= NetworkTtl THEN Bump ELSE NetworkTtl)

TypeOK ==
  /\ ledger \in 0 .. MaxLedger
  /\ until \in [Names -> 0 .. Furthest]
  /\ \A p \in DOMAIN pages : /\ pages[p].names \in Seq(Names)
                             /\ Len(pages[p].names) <= ChunkSize
                             /\ pages[p].until \in 0 .. Furthest
  /\ gen \in 0 .. MaxRemovals
  /\ pc \in {"idle", "read", "send"}
  /\ cursor \in Cursors /\ batch \in Seq(Names) /\ Len(batch) <= BatchSize
  /\ next \in {<<>>} \cup {<<c>> : c \in Cursors}
  /\ failed \in 0 .. Cardinality(Names) /\ failures \in 0 .. MaxFailures
  /\ started \in 0 .. ledger
  /\ lastClean \in 0 .. ledger

-----------------------------------------------------------------------------
(* Time to live. *)

Registered == {n \in Names : until[n] # 0}

Alive(u) == ledger <= u

Accumulating(u) == IF u - ledger <= Threshold THEN u + Bump ELSE u  \* mutant

(* extend_ttl(key, TTL_THRESHOLD, TTL_BUMP) on an entry living until u: no *)
(* effect while more than the threshold remains.                           *)
ExtendTtl(u) == IF u - ledger <= Threshold THEN ledger + Bump ELSE u

(* set and extend_ttl on a new entry. *)
NewEntry == ExtendTtl(ledger + NetworkTtl)

Page(s, u) == [names |-> s, until |-> u]

Flat == Flatten([p \in DOMAIN pages |-> pages[p].names])

PagesOf(n) == {p \in DOMAIN pages : n \in Entries(pages[p].names)}

(* get_chunk extends a page it read unless it is empty. *)
Read(p) == IF p.names = <<>> THEN p ELSE [p EXCEPT !.until = ExtendTtl(@)]

-----------------------------------------------------------------------------
(* Transactions of others.  One that touches an archived entry fails.      *)

Register(n) ==
  LET last == Len(pages)
      full == last = 0 \/ Len(pages[last].names) >= ChunkSize
  IN /\ until[n] = 0
     /\ last > 0 => Alive(pages[last].until)
     /\ until' = [until EXCEPT ![n] = NewEntry]
     /\ pages' =
          IF full
            THEN Append([p \in DOMAIN pages |->
                           IF p = last THEN Read(pages[p]) ELSE pages[p]],
                        Page(<<n>>, NewEntry))
            ELSE [pages EXCEPT ![last] = Page(Append(@.names, n), ExtendTtl(@.until))]
     /\ UNCHANGED <<ledger, gen, pass, lastClean, failures>>

(* Any call that reads or rewrites the record of a registered name. *)
Use(n) ==
  /\ n \in Registered /\ Alive(until[n])
  /\ until' = [until EXCEPT ![n] = ExtendTtl(@)]
  /\ UNCHANGED <<ledger, pages, gen, pass, lastClean, failures>>

(* remove_from_index reads the pages up to the one that lists the name. *)
Remove(n) ==
  /\ n \in Registered /\ Alive(until[n]) /\ gen < MaxRemovals
  /\ \E q \in PagesOf(n) :
       /\ \A p \in 1 .. q : Alive(pages[p].until)
       /\ pages' = [p \in DOMAIN pages |->
            IF p > q THEN pages[p]
            ELSE IF p < q THEN Read(pages[p])
            ELSE Page(Without(pages[p].names, {n}),
                      ExtendTtl(pages[p].until))]
  /\ until' = [until EXCEPT ![n] = 0]
  /\ gen' = gen + 1
  /\ UNCHANGED <<ledger, pass, lastClean, failures>>

(* The timer is punctual: no ledger closes while a run is due.  A pass is  *)
(* short, but ledgers close during it.                                     *)
CloseLedger ==
  /\ ledger < MaxLedger
  /\ ledger - started < Interval
  /\ ledger' = ledger + 1
  /\ UNCHANGED <<contract, pass, lastClean, failures>>

-----------------------------------------------------------------------------
(* The keeper. *)

(* The first page is asked for with `--cursor 0', which the Stellar CLI    *)
(* turns into eight zero bytes: offset 0 of generation 0.                  *)
FirstCursor == [offset |-> 0, gen |-> 0]

Start ==
  /\ pc = "idle"
  /\ pc' = "read" /\ cursor' = FirstCursor /\ failed' = 0
  /\ batch' = <<>> /\ next' = <<>>
  /\ started' = ledger
  /\ UNCHANGED <<ledger, contract, lastClean, failures>>

Decodes(c) == c.gen = gen /\ c.offset <= Len(Flat)

Clamp(i, m) == IF i <= m THEN i ELSE m

WalkEnd == Clamp(cursor.offset + BatchSize, Len(Flat))

(* Everything the page read touches is alive: the pages up to the one      *)
(* where the walk ends and the records on the way.                         *)
Readable ==
  \A p \in DOMAIN pages :
    Len(Flatten([q \in 1 .. p - 1 |-> pages[q].names])) < WalkEnd
      => /\ Alive(pages[p].until)
         /\ \A i \in cursor.offset + 1 .. WalkEnd : Alive(until[Flat[i]])

AlwaysZero(f) == TRUE  \* mutant: exits 0 whatever failed

(* The exit status is 0 only if no batch failed. *)
ExitsZero(f) == f = 0

(* The process ends and its variables with it. *)
Exit ==
  /\ pc' = "idle" /\ cursor' = FirstCursor /\ batch' = <<>> /\ next' = <<>>
  /\ failed' = 0
  /\ UNCHANGED started

Abort == Exit /\ UNCHANGED lastClean

(* The end of the walk, after f failed batches. *)
Leave(f) ==
  /\ Exit
  /\ lastClean' = IF ExitsZero(f) THEN started ELSE lastClean

(* The end of the loop body, after f failed batches: follow next_cursor n  *)
(* or leave.                                                               *)
Advance(n, f) ==
  \/ /\ n # <<>>
     /\ cursor' = Head(n) /\ pc' = "read" /\ failed' = f
     /\ batch' = <<>> /\ next' = <<>>
     /\ UNCHANGED <<started, lastClean>>
  \/ n = <<>> /\ Leave(f)

(* get_public_paginated, by simulation: reading extends nothing. *)
ReadPage ==
  LET more == IF WalkEnd < Len(Flat)
                THEN <<[offset |-> WalkEnd, gen |-> gen]>> ELSE <<>>
      names == SubSeq(Flat, cursor.offset + 1, WalkEnd)
  IN /\ pc = "read" /\ Decodes(cursor) /\ Readable
     /\ \/ /\ names # <<>>
           /\ pc' = "send" /\ batch' = names /\ next' = more
           /\ UNCHANGED <<cursor, failed, started, lastClean>>
        \/ names = <<>> /\ Leave(failed)
     /\ UNCHANGED <<ledger, contract, failures>>

(* The call fails (InvalidCursor, an archived entry): set -e ends the run. *)
ReadRefused ==
  /\ pc = "read" /\ ~(Decodes(cursor) /\ Readable)
  /\ Abort
  /\ UNCHANGED <<ledger, contract, failures>>

ReadFails ==
  /\ pc = "read" /\ failures < MaxFailures
  /\ failures' = failures + 1
  /\ Abort
  /\ UNCHANGED <<ledger, contract>>

(* extend_registry_ttl: names removed since the page was read are skipped. *)
Send ==
  /\ pc = "send"
  /\ \A n \in Entries(batch) \cap Registered : Alive(until[n])
  /\ until' = [n \in Names |->
       IF n \in Entries(batch) \cap Registered THEN ExtendTtl(until[n]) ELSE until[n]]
  /\ Advance(next, failed)
  /\ UNCHANGED <<ledger, pages, gen, failures>>

(* A batch that fails is counted and the walk goes on. *)
SendFails ==
  /\ pc = "send"
  /\ \/ /\ failures < MaxFailures /\ failures' = failures + 1
     \/ /\ \E n \in Entries(batch) \cap Registered : ~Alive(until[n])
        /\ UNCHANGED failures
  /\ Advance(next, failed + 1)
  /\ UNCHANGED <<ledger, contract>>

-----------------------------------------------------------------------------
Init ==
  /\ ledger = 0 /\ until = [n \in Names |-> 0] /\ pages = <<>> /\ gen = 0
  /\ pc = "idle" /\ cursor = FirstCursor /\ batch = <<>> /\ next = <<>>
  /\ failed = 0 /\ started = 0 /\ lastClean = 0 /\ failures = 0

Others == \E n \in Names : Register(n) \/ Use(n) \/ Remove(n)

KeeperStep == Start \/ ReadPage \/ ReadRefused \/ ReadFails \/ Send \/ SendFails

Next == Others \/ CloseLedger \/ KeeperStep

Spec == Init /\ [][Next]_vars

-----------------------------------------------------------------------------
(* Properties. *)

(* A pass that exits 0 protects every record: whatever was registered,     *)
(* used or removed while it walked, no record present now, registered      *)
(* before, during or after the pass, is archived within TTL_THRESHOLD      *)
(* ledgers of the start of the last such pass.                             *)
CleanPassProtects == \A n \in Registered : until[n] > lastClean + Threshold

(* The playbook: a keeper started at least every KEEPER_INTERVAL keeps     *)
(* every record of the registry alive.                                     *)
RecordsStayAlive == \A n \in Registered : Alive(until[n])

=============================================================================
