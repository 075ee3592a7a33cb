---------------------------- MODULE IndexerProofs ----------------------------
(***************************************************************************)
(* The cursor file never runs ahead of the events file, and the events     *)
(* file has no more duplicates than the script has been killed, for any    *)
(* number of events, kills and failed requests and any page size, seen     *)
(* file and look-back, as long as a page fits in the seen file (the script *)
(* ships with 100 and 50000).                                              *)
(*                                                                         *)
(* The argument: Resume is the next event a script started now would ask   *)
(* for.  It never moves back, and no event further than a page behind it   *)
(* has been logged.  So the ids that are trimmed off the seen file, a page *)
(* or more older than the newest, are never asked for again.               *)
(***************************************************************************)
EXTENDS Indexer, FiniteSetTheorems, SequenceTheorems, TLAPS

Walking == pc \in {"events", "mark"}

(* The last event of the page that has been dealt with. *)
Done == mem.next - Len(mem.page)

(* What the script holds in memory at each of its steps. *)
Memory ==
  /\ pc \in {"down", "starting", "gaveup"} => mem = Blank
  /\ pc \in {"poll", "events", "mark"} =>
       /\ mem.cursor = disk.cursor
       /\ mem.cursor = None => mem.start = base /\ base >= 1
  /\ Walking =>
       /\ mem.appended + Len(mem.page) <= PageLimit
       /\ \A i \in DOMAIN mem.page : mem.page[i] = Done + i
  /\ pc = "mark" => mem.page # <<>> /\ Done + 1 \in Entries(log)

(* Nothing is behind the cursor, or behind the page's next event, that is  *)
(* not in the log.                                                         *)
Covered ==
  /\ Entries(seen) \subseteq Entries(log)
  /\ Walking => base .. Done \subseteq Entries(log)

CoverInv == TypeOK /\ Memory /\ Covered /\ CursorCoversLog

-----------------------------------------------------------------------------
(* The next event that a script started now would ask for. *)
Resume == IF disk.cursor = None THEN base ELSE disk.cursor + 1

(* Nothing is logged further than a page from where a script resumes. *)
Near ==
  /\ \A e \in Entries(log) : e < Resume + PageLimit
  /\ Walking =>
       /\ mem.next < Resume + PageLimit
       /\ \A e \in Entries(log) : e <= mem.next
       /\ Done + 1 >= Resume

Rising(s) == \A i, j \in DOMAIN s : i < j => s[i] < s[j]

(* The seen file is in order and, from where a script resumes, complete.   *)
Gapless ==
  /\ Rising(seen)
  /\ \A e \in Entries(seen) : Resume .. e \subseteq Entries(seen)
  /\ Walking => Resume .. Done \subseteq Entries(seen)

(* Some set of events that were once entered in the seen file: each        *)
(* accounts for one line of the log, and the others are due to kills.      *)
Accounts(marked) ==
  /\ Entries(seen) \subseteq marked
  /\ marked \subseteq Entries(log)
  /\ \A e \in marked \ Entries(seen) : e < Resume
  /\ Len(log) - Cardinality(marked) <= crashes + (IF pc = "mark" THEN 1 ELSE 0)
  /\ pc = "mark" => Done + 1 \notin marked

(* As long as every cold start learned the latest ledger. *)
Sighted ==
  /\ base <= 1 \/ base <= published - Lookback
  /\ Near /\ Gapless
  /\ \E marked \in SUBSET Entries(log) : Accounts(marked)

DupInv ==
  /\ CoverInv
  /\ pruned = 0 \/ pruned < published - Lookback
  /\ ~blind => Sighted

-----------------------------------------------------------------------------
(* Pages and the seen file. *)

(* A page holds the events from `from' on, at most PageLimit of them, and  *)
(* its next cursor stands behind the last of them.                         *)
LEMMA ServedFacts ==
  ASSUME NEW from \in Nat, from >= 1, published \in Nat
  PROVE  /\ Served(from) \in Seq(1 .. published)
         /\ Len(Served(from)) \in 0 .. PageLimit
         /\ NextCursor(Served(from)) \in 0 .. published
         /\ NextCursor(Served(from)) < from + PageLimit
         /\ from <= published =>
              NextCursor(Served(from)) - Len(Served(from)) = from - 1
         /\ from > published =>
              Len(Served(from)) = 0 /\ NextCursor(Served(from)) = published
         /\ \A i \in DOMAIN Served(from) :
              Served(from)[i] = NextCursor(Served(from)) - Len(Served(from)) + i
         /\ \A e \in 1 .. published :
              e < from + PageLimit => e <= NextCursor(Served(from))
<1> DEFINE last == IF from + PageLimit - 1 <= published THEN from + PageLimit - 1
                                                       ELSE published
           n == last - from + 1
           page == [i \in 1 .. n |-> from + i - 1]
<1>1. /\ PageLimit \in Nat /\ PageLimit >= 1 /\ Served(from) = page
      /\ last \in Int /\ n \in Int /\ n <= PageLimit /\ last <= published
  BY IndexerAssumption DEF Served
<1>2. CASE from > published
  <2>1. 1 .. n = {}
    BY <1>1, <1>2
  <2>2. page = <<>>
    BY <2>1
  <2> HIDE DEF page, n, last
  <2>3. Served(from) = <<>> /\ Len(Served(from)) = 0 /\ DOMAIN Served(from) = {}
    BY <1>1, <2>2
  <2>4. NextCursor(Served(from)) = published
    BY <2>3 DEF NextCursor
  <2> QED BY <1>1, <1>2, <2>3, <2>4
<1>3. CASE from <= published
  <2>1. /\ n \in Nat /\ n >= 1 /\ last = from + n - 1
        /\ \A e \in 1 .. published : e < from + PageLimit => e <= last
    BY <1>1, <1>3
  <2>2. \A i \in 1 .. n : from + i - 1 \in 1 .. published
    BY <1>1, <2>1
  <2> HIDE DEF n, last
  <2>3. /\ page \in Seq(1 .. published) /\ Len(page) = n /\ DOMAIN page = 1 .. n
        /\ page[n] = last
    BY <2>1, <2>2
  <2>4. page # <<>>
    BY <2>1, <2>3
  <2>5. NextCursor(page) = last
    BY <2>3, <2>4 DEF NextCursor
  <2>6. \A i \in 1 .. n : page[i] = last - n + i
    BY <2>1, <1>1
  <2> HIDE DEF page
  <2> QED BY <1>1, <1>3, <2>1, <2>3, <2>5, <2>6
<1> QED BY <1>2, <1>3

(* Trimming keeps the newest ids. *)
LEMMA TrimmedFacts ==
  ASSUME NEW S, NEW s \in Seq(S)
  PROVE  /\ Trimmed(s) \in Seq(S) /\ Len(Trimmed(s)) <= SeenMaxLines
         /\ Entries(Trimmed(s)) \subseteq Entries(s)
         /\ Len(s) <= SeenMaxLines => Trimmed(s) = s
         /\ Len(s) = SeenMaxLines + 1 =>
              /\ Len(Trimmed(s)) = SeenMaxLines
              /\ \A i \in 1 .. SeenMaxLines : Trimmed(s)[i] = s[i + 1]
<1>1. SeenMaxLines \in Nat /\ SeenMaxLines >= 1 /\ Len(s) \in Nat
  BY IndexerAssumption
<1>2. CASE Len(s) <= SeenMaxLines
  BY <1>1, <1>2 DEF Trimmed
<1>3. CASE Len(s) > SeenMaxLines
  <2> DEFINE m == Len(s) - SeenMaxLines + 1
  <2>1. Trimmed(s) = SubSeq(s, m, Len(s)) /\ m \in 1 .. Len(s) /\ m \in Nat
        /\ Len(s) - m + 1 = SeenMaxLines
    BY <1>1, <1>3 DEF Trimmed
  <2> HIDE DEF m
  <2>2. /\ Trimmed(s) \in Seq(S) /\ Len(Trimmed(s)) = SeenMaxLines
        /\ \A i \in 1 .. SeenMaxLines : Trimmed(s)[i] = s[m + i - 1]
    BY <1>1, <2>1, SubSeqProperties
  <2>3. DOMAIN Trimmed(s) = 1 .. SeenMaxLines /\ DOMAIN s = 1 .. Len(s)
    BY <2>2
  <2>4. \A i \in 1 .. SeenMaxLines : m + i - 1 \in DOMAIN s
    BY <1>1, <2>1, <2>3
  <2>5. Entries(Trimmed(s)) \subseteq Entries(s)
    BY <2>2, <2>3, <2>4 DEF Entries
  <2>6. Len(s) = SeenMaxLines + 1 => m = 2
    BY <1>1, <2>1
  <2> QED BY <1>1, <1>3, <2>2, <2>5, <2>6
<1> QED BY <1>1, <1>2, <1>3

(* Appending adds one line at the end. *)
LEMMA AppendLines ==
  ASSUME NEW n \in Nat, NEW s \in Seq(1 .. n), NEW e \in 1 .. n
  PROVE  /\ Append(s, e) \in Seq(1 .. n) /\ Len(Append(s, e)) = Len(s) + 1
         /\ Entries(Append(s, e)) = Entries(s) \cup {e}
         /\ \A i \in 1 .. Len(s) : Append(s, e)[i] = s[i]
         /\ Append(s, e)[Len(s) + 1] = e
<1> DEFINE S == 1 .. n
<1> HIDE DEF S
<1>1. s \in Seq(S) /\ e \in S
  BY DEF S
<1>2. /\ Append(s, e) \in Seq(S) /\ Len(Append(s, e)) = Len(s) + 1
      /\ \A i \in 1 .. Len(s) : Append(s, e)[i] = s[i]
      /\ Append(s, e)[Len(s) + 1] = e /\ Len(s) \in Nat
  BY <1>1, AppendProperties
<1>3. DOMAIN Append(s, e) = 1 .. Len(s) \cup {Len(s) + 1} /\ DOMAIN s = 1 .. Len(s)
  BY <1>1, <1>2
<1>4. Entries(Append(s, e)) = Entries(s) \cup {e}
  BY <1>2, <1>3 DEF Entries
<1> QED BY <1>2, <1>4 DEF S

(* Going on to the page's next event. *)
LEMMA PageAdvances ==
  ASSUME NEW S, NEW s \in Seq(S), NEW d \in Int, s # <<>>,
         \A i \in DOMAIN s : s[i] = d + i
  PROVE  /\ Head(s) = d + 1 /\ Head(s) \in S
         /\ Tail(s) \in Seq(S) /\ Len(Tail(s)) = Len(s) - 1 /\ Len(s) \in Nat \ {0}
         /\ \A i \in DOMAIN Tail(s) : Tail(s)[i] = d + 1 + i
<1>1. /\ Len(s) \in Nat \ {0} /\ Head(s) = s[1] /\ 1 \in DOMAIN s
      /\ Tail(s) \in Seq(S) /\ Len(Tail(s)) = Len(s) - 1
      /\ \A i \in 1 .. Len(Tail(s)) : Tail(s)[i] = s[i + 1] /\ i + 1 \in DOMAIN s
  BY HeadTailProperties, EmptySeq
<1>2. DOMAIN Tail(s) = 1 .. Len(Tail(s)) /\ s[1] \in S
  BY <1>1
<1> QED BY <1>1, <1>2

(* Sequences over fewer events are sequences over more. *)
LEMMA MoreEvents ==
  ASSUME NEW a \in Nat, NEW b \in Nat, a <= b
  PROVE  Seq(1 .. a) \subseteq Seq(1 .. b) /\ 0 .. a \subseteq 0 .. b
<1>1. 1 .. a \subseteq 1 .. b
  OBVIOUS
<1> QED BY <1>1, SeqMonotonic

-----------------------------------------------------------------------------
(* The cursor covers the log. *)

(* The numbers the script works with. *)
LEMMA ScriptNumbers ==
  ASSUME TypeOK
  PROVE  /\ published \in Nat /\ pruned \in Nat /\ crashes \in Nat /\ base \in Nat
         /\ log \in Seq(1 .. published) /\ seen \in Seq(1 .. published)
         /\ mem.page \in Seq(1 .. published) /\ Len(mem.page) \in Nat
         /\ mem.next \in Nat /\ mem.start \in Nat /\ mem.total \in Nat
         /\ mem.appended \in Nat /\ Done \in Int
         /\ mem.cursor # None => mem.cursor \in Nat
         /\ disk.cursor # None => disk.cursor \in Nat
         /\ Resume \in Nat
<1>1. /\ published \in Nat /\ pruned \in Nat /\ crashes \in Nat /\ base \in Nat
      /\ log \in Seq(1 .. published) /\ seen \in Seq(1 .. published)
  BY IndexerAssumption DEF TypeOK
<1>2. /\ mem.page \in Seq(1 .. published) /\ mem.next \in 0 .. published
      /\ mem.start \in Nat /\ mem.total \in Nat /\ mem.appended \in 0 .. PageLimit
      /\ mem.cursor \in 0 .. published \cup {None}
      /\ disk.cursor \in 0 .. published \cup {None}
  BY DEF TypeOK
<1>3. mem.next \in Nat /\ mem.appended \in Nat /\ Len(mem.page) \in Nat
  BY <1>1, <1>2
<1>4. /\ mem.cursor # None => mem.cursor \in Nat
      /\ disk.cursor # None => disk.cursor \in Nat
  BY <1>1, <1>2
<1>5. Done \in Int /\ Resume \in Nat
  BY <1>1, <1>3, <1>4 DEF Done, Resume
<1> QED BY <1>1, <1>2, <1>3, <1>4, <1>5

(* Publishing and forgetting events does not touch the script. *)
LEMMA ChainKeeps ==
  ASSUME CoverInv, PublishEvent \/ Prune
  PROVE  CoverInv'
<1>1. /\ UNCHANGED <<files, pc, mem, history, faults>>
      /\ published' \in Nat /\ published <= published'
      /\ published' \in 0 .. MaxEvents /\ pruned' \in 0 .. published'
  <2>1. /\ published \in Nat /\ pruned \in Nat /\ Lookback \in Nat /\ MaxEvents \in Nat
        /\ published \in 0 .. MaxEvents /\ pruned \in 0 .. published
    BY ScriptNumbers, IndexerAssumption DEF CoverInv, TypeOK
  <2>2. CASE PublishEvent
    BY <2>1, <2>2 DEF PublishEvent
  <2>3. CASE Prune
    BY <2>1, <2>3 DEF Prune
  <2> QED BY <2>2, <2>3
<1>2. /\ Seq(1 .. published) \subseteq Seq(1 .. published')
      /\ 0 .. published \subseteq 0 .. published'
  BY <1>1, ScriptNumbers, MoreEvents DEF CoverInv
<1>3. UNCHANGED <<log, seen, disk, pc, mem, base, blind, crashes, failures>>
  BY <1>1 DEF files, history, faults
<1>4. /\ log \in Seq(1 .. published') /\ seen \in Seq(1 .. published')
      /\ disk \in [cursor : 0 .. published' \cup {None}, count : Nat]
      /\ mem \in [cursor : 0 .. published' \cup {None}, start : Nat, total : Nat,
                  retries : 0 .. MaxRetries, page : Seq(1 .. published'),
                  next : 0 .. published', appended : 0 .. PageLimit]
  BY <1>2 DEF CoverInv, TypeOK
<1>5. TypeOK'
  BY <1>1, <1>3, <1>4 DEF CoverInv, TypeOK
<1>6. (Memory /\ Covered /\ CursorCoversLog)'
  BY <1>3 DEF CoverInv, Memory, Covered, CursorCoversLog, Walking, Done
<1> QED BY <1>5, <1>6 DEF CoverInv

(* A blank memory is of the right type. *)
LEMMA BlankFacts ==
  ASSUME published \in Nat
  PROVE  /\ Blank \in [cursor : 0 .. published \cup {None}, start : Nat, total : Nat,
                       retries : 0 .. MaxRetries, page : Seq(1 .. published),
                       next : 0 .. published, appended : 0 .. PageLimit]
         /\ Blank.page = <<>> /\ Blank.cursor = None
<1>1. <<>> \in Seq(1 .. published) /\ 0 \in 0 .. published /\ 0 \in 0 .. MaxRetries
      /\ 0 \in 0 .. PageLimit
  BY IndexerAssumption
<1> QED BY <1>1 DEF Blank

(* A stopped script holds nothing. *)
LEMMA StopKeeps ==
  ASSUME CoverInv, UNCHANGED <<chain, files, history>>, mem' = Blank,
         pc' \in {"down", "starting", "gaveup"},
         crashes' \in 0 .. MaxCrashes, failures' \in 0 .. MaxFailures
  PROVE  CoverInv'
<1>1. UNCHANGED <<published, pruned, log, seen, disk, base, blind>>
  BY DEF chain, files, history
<1>2. published \in Nat
  BY ScriptNumbers DEF CoverInv
<1>3. TypeOK'
  BY <1>1, <1>2, BlankFacts DEF CoverInv, TypeOK
<1>4. (Memory /\ Covered /\ CursorCoversLog)'
  BY <1>1 DEF CoverInv, Memory, Covered, CursorCoversLog, Walking
<1> QED BY <1>3, <1>4 DEF CoverInv

(* A script that is about to ask holds the stored cursor or, without one,  *)
(* the start ledger of its cold start.                                     *)
LEMMA PollKeeps ==
  ASSUME TypeOK, Entries(seen) \subseteq Entries(log),
         UNCHANGED <<chain, log, seen, crashes>>, pc' = "poll",
         disk' \in [cursor : 0 .. published \cup {None}, count : Nat],
         mem' \in [cursor : 0 .. published \cup {None}, start : Nat, total : Nat,
                   retries : 0 .. MaxRetries, page : Seq(1 .. published),
                   next : 0 .. published, appended : 0 .. PageLimit],
         mem'.cursor = disk'.cursor, base' \in 0 .. MaxEvents, blind' \in BOOLEAN,
         failures' \in 0 .. MaxFailures,
         disk'.cursor = None => mem'.start = base' /\ base' >= 1,
         disk'.cursor # None => base' .. disk'.cursor \subseteq Entries(log)
  PROVE  CoverInv'
<1>1. UNCHANGED <<published, pruned, log, seen>>
  BY DEF chain
<1>2. TypeOK'
  BY <1>1 DEF TypeOK
<1>3. (Memory /\ Covered /\ CursorCoversLog)'
  BY <1>1 DEF Memory, Covered, CursorCoversLog, Walking
<1> QED BY <1>2, <1>3 DEF CoverInv

(* A cold start begins at a ledger there may be. *)
LEMMA ColdStartFacts ==
  ASSUME TypeOK, NEW l \in 1 .. MaxEvents, ColdStart(l)
  PROVE  /\ base' = l /\ l \in Nat /\ l >= 1 /\ l \in 0 .. MaxEvents
         /\ blind' \in BOOLEAN /\ failures' \in 0 .. MaxFailures
         /\ ~blind' => ~blind /\ l = IF published - Lookback >= 1
                                       THEN published - Lookback ELSE 1
<1>1. failures \in 0 .. MaxFailures /\ blind \in BOOLEAN /\ MaxEvents \in Nat
      /\ MaxFailures \in Nat
  BY IndexerAssumption DEF TypeOK
<1>2. CASE /\ l = IF published - Lookback >= 1 THEN published - Lookback ELSE 1
           /\ base' = l /\ UNCHANGED <<blind, failures>>
  BY <1>1, <1>2
<1>3. CASE failures < MaxFailures /\ base' = l /\ blind' = TRUE /\ failures' = failures + 1
  BY <1>1, <1>3
<1> QED BY <1>2, <1>3 DEF ColdStart

(* The script asks for events from where it resumes. *)
LEMMA FirstFacts ==
  ASSUME CoverInv, pc = "poll"
  PROVE  First = Resume /\ First \in Nat /\ First >= 1
<1>1. /\ mem.cursor = disk.cursor
      /\ mem.cursor = None => mem.start = base /\ base >= 1
  BY DEF CoverInv, Memory
<1>2. /\ base \in Nat /\ mem.start \in Nat
      /\ mem.cursor # None => mem.cursor \in Nat
  BY ScriptNumbers DEF CoverInv
<1> QED BY <1>1, <1>2 DEF First, Resume

(* main up to the loop restores the cursor or starts cold. *)
LEMMA ReadStateKeeps ==
  ASSUME CoverInv, ReadState
  PROVE  CoverInv'
<1>1. /\ UNCHANGED <<chain, log, seen, disk, crashes>> /\ pc' = "poll" /\ TypeOK
      /\ Entries(seen) \subseteq Entries(log) /\ CursorCoversLog
  BY DEF ReadState, files, CoverInv, Covered
<1>2. /\ published \in Nat /\ disk \in [cursor : 0 .. published \cup {None}, count : Nat]
      /\ disk.count \in Nat /\ disk.cursor \in 0 .. published \cup {None}
      /\ base \in 0 .. MaxEvents /\ blind \in BOOLEAN /\ failures \in 0 .. MaxFailures
  BY <1>1, ScriptNumbers DEF TypeOK
<1> DEFINE Mem == [cursor : 0 .. published \cup {None}, start : Nat, total : Nat,
                   retries : 0 .. MaxRetries, page : Seq(1 .. published),
                   next : 0 .. published, appended : 0 .. PageLimit]
<1>3. Blank \in Mem /\ Blank.cursor = None
  BY <1>2, BlankFacts
<1>4. CASE disk.cursor = None
  <2>1. PICK l \in 1 .. MaxEvents :
               ColdStart(l) /\ mem' = [Blank EXCEPT !.total = disk.count, !.start = l]
    BY <1>4 DEF ReadState
  <2>2. /\ base' = l /\ l \in Nat /\ l >= 1 /\ l \in 0 .. MaxEvents
        /\ blind' \in BOOLEAN /\ failures' \in 0 .. MaxFailures
    BY <1>1, <2>1, ColdStartFacts
  <2>3. mem' \in Mem /\ mem'.cursor = None /\ mem'.start = l
    BY <1>2, <1>3, <2>1, <2>2
  <2>4. disk' = disk
    BY <1>1
  <2> HIDE DEF Mem
  <2> QED BY <1>1, <1>2, <1>4, <2>2, <2>3, <2>4, PollKeeps DEF Mem
<1>5. CASE disk.cursor # None
  <2>1. /\ mem' = [Blank EXCEPT !.total = disk.count, !.cursor = disk.cursor]
        /\ base' = base /\ blind' = blind /\ failures' = failures
    BY <1>5 DEF ReadState
  <2>2. mem' \in Mem /\ mem'.cursor = disk.cursor
    BY <1>2, <1>3, <2>1
  <2>3. disk' = disk
    BY <1>1
  <2>4. base' .. disk'.cursor \subseteq Entries(log)
    BY <1>1, <1>5, <2>1, <2>3 DEF CursorCoversLog
  <2> HIDE DEF Mem
  <2> QED BY <1>1, <1>2, <1>5, <2>1, <2>2, <2>3, <2>4, PollKeeps DEF Mem
<1> QED BY <1>4, <1>5

(* A refused cursor is forgotten. *)
LEMMA RejectedKeeps ==
  ASSUME CoverInv, CursorRejected
  PROVE  CoverInv'
<1>1. /\ UNCHANGED <<chain, log, seen, crashes>> /\ pc' = "poll" /\ TypeOK
      /\ Entries(seen) \subseteq Entries(log)
      /\ disk' = [cursor |-> None, count |-> mem.total]
  BY DEF CursorRejected, CoverInv, Covered
<1>2. PICK l \in 1 .. MaxEvents :
         /\ ColdStart(l)
         /\ mem' = [mem EXCEPT !.retries = 0, !.cursor = None, !.start = l]
  BY DEF CursorRejected
<1>3. /\ base' = l /\ l \in Nat /\ l >= 1 /\ l \in 0 .. MaxEvents
      /\ blind' \in BOOLEAN /\ failures' \in 0 .. MaxFailures
  BY <1>1, <1>2, ColdStartFacts
<1>4. /\ mem' \in [cursor : 0 .. published \cup {None}, start : Nat, total : Nat,
                   retries : 0 .. MaxRetries, page : Seq(1 .. published),
                   next : 0 .. published, appended : 0 .. PageLimit]
      /\ mem'.cursor = None /\ mem'.start = l
  <2>1. 0 \in 0 .. MaxRetries
    BY IndexerAssumption
  <2>2. mem \in [cursor : 0 .. published \cup {None}, start : Nat, total : Nat,
                 retries : 0 .. MaxRetries, page : Seq(1 .. published),
                 next : 0 .. published, appended : 0 .. PageLimit]
    BY <1>1 DEF TypeOK
  <2> QED BY <1>2, <1>3, <2>1, <2>2
<1>5. disk' \in [cursor : 0 .. published \cup {None}, count : Nat] /\ disk'.cursor = None
  BY <1>1, ScriptNumbers
<1> QED BY <1>1, <1>3, <1>4, <1>5, PollKeeps

(* A failed request changes nothing but the count of retries, which an     *)
(* answer resets.                                                          *)
LEMMA RetryKeeps ==
  ASSUME CoverInv, UNCHANGED <<chain, files, history, crashes>>,
         pc = "poll", pc' = "poll", failures' \in 0 .. MaxFailures,
         NEW r \in 0 .. MaxRetries, mem' = [mem EXCEPT !.retries = r]
  PROVE  CoverInv'
<1>1. /\ UNCHANGED <<log, seen, disk, base, blind>> /\ TypeOK
      /\ Entries(seen) \subseteq Entries(log) /\ CursorCoversLog
      /\ mem.cursor = disk.cursor
      /\ disk.cursor = None => mem.start = base /\ base >= 1
  BY DEF files, history, CoverInv, Covered, Memory
<1>2. /\ mem' \in [cursor : 0 .. published \cup {None}, start : Nat, total : Nat,
                   retries : 0 .. MaxRetries, page : Seq(1 .. published),
                   next : 0 .. published, appended : 0 .. PageLimit]
      /\ mem'.cursor = mem.cursor /\ mem'.start = mem.start
  BY <1>1 DEF TypeOK
<1>3. /\ disk' \in [cursor : 0 .. published \cup {None}, count : Nat]
      /\ base' \in 0 .. MaxEvents /\ blind' \in BOOLEAN
  BY <1>1 DEF TypeOK
<1>4. disk'.cursor # None => base' .. disk'.cursor \subseteq Entries(log)
  BY <1>1 DEF CursorCoversLog
<1> QED BY <1>1, <1>2, <1>3, <1>4, PollKeeps

(* A request that fails, and an answer that is an error. *)
LEMMA FailureKeeps ==
  ASSUME CoverInv, RequestFails \/ ErrorAnswer
  PROVE  CoverInv'
<1>1. /\ MaxRetries \in Nat /\ MaxRetries >= 1 /\ MaxFailures \in Nat
      /\ mem.retries \in 0 .. MaxRetries /\ failures \in 0 .. MaxFailures
      /\ crashes \in 0 .. MaxCrashes
  <2>1. MaxRetries \in Nat /\ MaxRetries >= 1 /\ MaxFailures \in Nat
    BY IndexerAssumption
  <2>2. /\ mem.retries \in 0 .. MaxRetries /\ failures \in 0 .. MaxFailures
        /\ crashes \in 0 .. MaxCrashes
    BY DEF CoverInv, TypeOK
  <2> QED BY <2>1, <2>2
<1>2. CASE RequestFails
  <2>1. /\ UNCHANGED <<chain, files, history, crashes>> /\ pc = "poll"
        /\ failures' \in 0 .. MaxFailures
    BY <1>1, <1>2 DEF RequestFails
  <2>2. CASE mem.retries + 1 >= MaxRetries
    <3>1. pc' = "gaveup" /\ mem' = Blank
      BY <1>2, <2>2 DEF RequestFails
    <3> QED BY <1>1, <2>1, <3>1, StopKeeps
  <2>3. CASE ~(mem.retries + 1 >= MaxRetries)
    <3>1. /\ pc' = "poll" /\ mem' = [mem EXCEPT !.retries = mem.retries + 1]
          /\ mem.retries + 1 \in 0 .. MaxRetries
      BY <1>1, <1>2, <2>3 DEF RequestFails
    <3> QED BY <2>1, <3>1, RetryKeeps
  <2> QED BY <2>2, <2>3
<1>3. CASE ErrorAnswer
  <2>1. /\ UNCHANGED <<chain, files, history, crashes>> /\ pc = "poll"
        /\ failures' \in 0 .. MaxFailures /\ crashes' = crashes
    BY <1>1, <1>3 DEF ErrorAnswer, faults
  <2>2. CASE MaxRetries <= 1
    <3>1. pc' = "gaveup" /\ mem' = Blank
      BY <1>3, <2>2 DEF ErrorAnswer
    <3> QED BY <1>1, <2>1, <3>1, StopKeeps
  <2>3. CASE ~(MaxRetries <= 1)
    <3>1. /\ pc' = "poll" /\ mem' = [mem EXCEPT !.retries = 1]
          /\ 1 \in 0 .. MaxRetries
      BY <1>1, <1>3, <2>3 DEF ErrorAnswer
    <3> QED BY <2>1, <3>1, RetryKeeps
  <2> QED BY <2>2, <2>3
<1> QED BY <1>2, <1>3

-----------------------------------------------------------------------------
(* The steps through a page. *)

(* A page that arrives continues where the log is covered. *)
LEMMA PageArrivesKeeps ==
  ASSUME CoverInv, PageArrives
  PROVE  CoverInv'
<1> DEFINE page == Served(First)
<1>1. /\ UNCHANGED <<published, pruned, log, seen, disk, base, blind, crashes, failures>>
      /\ pc = "poll" /\ pc' = "events" /\ TypeOK
      /\ mem' = [mem EXCEPT !.retries = 0, !.page = page, !.next = NextCursor(page),
                            !.appended = 0]
  BY DEF PageArrives, chain, files, history, faults, CoverInv
<1>2. /\ First \in Nat /\ First >= 1 /\ First = Resume /\ published \in Nat
      /\ base \in Nat
      /\ disk.cursor # None => disk.cursor \in Nat
  BY <1>1, FirstFacts, ScriptNumbers
<1>3. /\ page \in Seq(1 .. published) /\ Len(page) \in 0 .. PageLimit
      /\ NextCursor(page) \in 0 .. published
      /\ First <= published => NextCursor(page) - Len(page) = First - 1
      /\ First > published => Len(page) = 0 /\ NextCursor(page) = published
      /\ \A i \in DOMAIN page : page[i] = NextCursor(page) - Len(page) + i
  BY <1>2, ServedFacts
<1> HIDE DEF page
<1>4. /\ mem'.page = page /\ mem'.next = NextCursor(page) /\ mem'.appended = 0
      /\ mem'.cursor = mem.cursor /\ mem'.start = mem.start
      /\ Done' = NextCursor(page) - Len(page)
  BY <1>1 DEF TypeOK, Done
<1>5. TypeOK'
  <2>1. 0 \in 0 .. MaxRetries /\ 0 \in 0 .. PageLimit
    BY IndexerAssumption
  <2>2. mem' \in [cursor : 0 .. published \cup {None}, start : Nat, total : Nat,
                  retries : 0 .. MaxRetries, page : Seq(1 .. published),
                  next : 0 .. published, appended : 0 .. PageLimit]
    BY <1>1, <1>3, <2>1 DEF TypeOK
  <2> QED BY <1>1, <2>2 DEF TypeOK
<1>6. Memory'
  <2>1. mem'.appended + Len(mem'.page) <= PageLimit
    BY <1>3, <1>4, IndexerAssumption
  <2> QED BY <1>1, <1>3, <1>4, <2>1 DEF Memory, CoverInv
<1>7. base .. NextCursor(page) - Len(page) \subseteq Entries(log)
  <2>1. disk.cursor # None => base .. disk.cursor \subseteq Entries(log)
    BY DEF CoverInv, CursorCoversLog
  <2>2. NextCursor(page) - Len(page) < First /\ NextCursor(page) - Len(page) \in Int
    BY <1>2, <1>3
  <2>3. base .. NextCursor(page) - Len(page) \subseteq base .. First - 1
    BY <1>2, <2>2
  <2>4. base .. First - 1 \subseteq Entries(log)
    <3>1. CASE disk.cursor = None
      <4>1. base .. First - 1 = {}
        BY <1>2, <3>1 DEF Resume
      <4> QED BY <4>1
    <3>2. CASE disk.cursor # None
      <4>1. First - 1 = disk.cursor
        BY <1>2, <3>2 DEF Resume
      <4> QED BY <2>1, <3>2, <4>1
    <3> QED BY <3>1, <3>2
  <2> QED BY <2>3, <2>4
<1>8. (Covered /\ CursorCoversLog)'
  BY <1>1, <1>4, <1>7 DEF Covered, CursorCoversLog, CoverInv
<1> QED BY <1>5, <1>6, <1>8 DEF CoverInv

(* The page's next event, and what is left of the page. *)
LEMMA NextEvent ==
  ASSUME CoverInv, Walking, mem.page # <<>>
  PROVE  /\ Head(mem.page) = Done + 1 /\ Done + 1 \in 1 .. published
         /\ Tail(mem.page) \in Seq(1 .. published)
         /\ Len(mem.page) \in Nat \ {0} /\ Len(Tail(mem.page)) = Len(mem.page) - 1
         /\ \A i \in DOMAIN Tail(mem.page) : Tail(mem.page)[i] = Done + 1 + i
<1>1. mem.page \in Seq(1 .. published) /\ Done \in Int
  BY ScriptNumbers DEF CoverInv
<1>2. \A i \in DOMAIN mem.page : mem.page[i] = Done + i
  BY DEF CoverInv, Memory
<1> DEFINE S == 1 .. published
           s == mem.page
           d == Done
<1> HIDE DEF S, s, d
<1>3. s \in Seq(S) /\ d \in Int /\ s # <<>> /\ \A i \in DOMAIN s : s[i] = d + i
  BY <1>1, <1>2 DEF S, s, d
<1>4. /\ Head(s) = d + 1 /\ Head(s) \in S
      /\ Tail(s) \in Seq(S) /\ Len(Tail(s)) = Len(s) - 1 /\ Len(s) \in Nat \ {0}
      /\ \A i \in DOMAIN Tail(s) : Tail(s)[i] = d + 1 + i
  BY <1>3, PageAdvances
<1> QED BY <1>4 DEF S, s, d

(* The page's next event is in the log: the walk goes on behind it.        *)
LEMMA WalkOn ==
  ASSUME CoverInv, UNCHANGED <<chain, log, disk, history, faults>>,
         Walking, pc' = "events", mem.page # <<>>, Done + 1 \in Entries(log),
         seen' \in Seq(1 .. published), Len(seen') <= SeenMaxLines,
         Entries(seen') \subseteq Entries(log),
         NEW n \in 0 .. 1,
         mem' = [mem EXCEPT !.page = Tail(mem.page), !.appended = mem.appended + n]
  PROVE  CoverInv' /\ Done' = Done + 1 /\ mem'.next = mem.next
         /\ mem'.page = Tail(mem.page)
<1>1. /\ UNCHANGED <<published, pruned, log, disk, base, blind, crashes, failures>> /\ TypeOK
  BY DEF chain, history, faults, CoverInv
<1>2. /\ Head(mem.page) = Done + 1 /\ Tail(mem.page) \in Seq(1 .. published)
      /\ Len(mem.page) \in Nat /\ Len(Tail(mem.page)) = Len(mem.page) - 1
      /\ \A i \in DOMAIN Tail(mem.page) : Tail(mem.page)[i] = Done + 1 + i
      /\ Len(mem.page) >= 1
  BY NextEvent
<1>3. /\ mem.appended + Len(mem.page) <= PageLimit /\ mem.cursor = disk.cursor
      /\ mem.cursor = None => mem.start = base /\ base >= 1
      /\ base .. Done \subseteq Entries(log)
      /\ mem.appended \in Nat /\ base \in Nat /\ mem.next \in Nat /\ Done \in Int
      /\ PageLimit \in Nat
  BY ScriptNumbers, IndexerAssumption DEF CoverInv, Memory, Covered, Walking
<1>4. /\ mem'.page = Tail(mem.page) /\ mem'.next = mem.next
      /\ mem'.appended = mem.appended + n
      /\ mem'.cursor = mem.cursor /\ mem'.start = mem.start
  BY <1>1 DEF TypeOK
<1>5. mem.appended + n \in 0 .. PageLimit /\ mem.appended + n + (Len(mem.page) - 1) <= PageLimit
  <2>1. \A k, m, a \in Nat : k + m <= a /\ m >= 1 =>
          k + n \in 0 .. a /\ k + n + (m - 1) <= a
    OBVIOUS
  <2> QED BY <1>2, <1>3, <2>1
<1>6. Done' = Done + 1
  BY <1>2, <1>3, <1>4 DEF Done
<1>7. TypeOK'
  <2>1. mem' \in [cursor : 0 .. published \cup {None}, start : Nat, total : Nat,
                  retries : 0 .. MaxRetries, page : Seq(1 .. published),
                  next : 0 .. published, appended : 0 .. PageLimit]
    BY <1>1, <1>2, <1>5 DEF TypeOK
  <2> QED BY <1>1, <2>1 DEF TypeOK
<1>8. Memory'
  BY <1>1, <1>2, <1>3, <1>4, <1>5, <1>6 DEF Memory
<1>9. base .. Done + 1 \subseteq Entries(log)
  BY <1>3
<1>10. (Covered /\ CursorCoversLog)'
  BY <1>1, <1>6, <1>9 DEF Covered, CursorCoversLog, CoverInv
<1> QED BY <1>4, <1>6, <1>7, <1>8, <1>10 DEF CoverInv

(* An event in the seen file is in the log already. *)
LEMMA SkipKeeps ==
  ASSUME CoverInv, SkipSeen
  PROVE  CoverInv' /\ Done' = Done + 1 /\ mem'.next = mem.next
         /\ mem'.page = Tail(mem.page)
<1>1. /\ UNCHANGED <<chain, log, seen, disk, history, faults>> /\ Walking
      /\ pc' = "events" /\ mem.page # <<>> /\ Head(mem.page) \in Entries(seen)
      /\ mem' = [mem EXCEPT !.page = Tail(mem.page)] /\ TypeOK
  BY DEF SkipSeen, HaveSeen, files, Walking, CoverInv
<1>2. Done + 1 \in Entries(log)
  BY <1>1, NextEvent DEF CoverInv, Covered
<1>3. mem' = [mem EXCEPT !.page = Tail(mem.page), !.appended = mem.appended + 0]
  <2>1. mem.appended \in Nat
    BY <1>1, ScriptNumbers
  <2>2. mem.appended + 0 = mem.appended
    BY <2>1
  <2>3. mem \in [cursor : 0 .. published \cup {None}, start : Nat, total : Nat,
                 retries : 0 .. MaxRetries, page : Seq(1 .. published),
                 next : 0 .. published, appended : 0 .. PageLimit]
    BY <1>1 DEF TypeOK
  <2> QED BY <1>1, <2>2, <2>3
<1>4. seen' \in Seq(1 .. published) /\ Len(seen') <= SeenMaxLines
      /\ Entries(seen') \subseteq Entries(log)
  BY <1>1 DEF CoverInv, Covered, TypeOK
<1>5. 0 \in 0 .. 1
  OBVIOUS
<1> QED BY <1>1, <1>2, <1>3, <1>4, <1>5, WalkOn

(* Appending an event covers it. *)
LEMMA AppendKeeps ==
  ASSUME CoverInv, AppendEvent
  PROVE  /\ CoverInv' /\ Len(log') = Len(log) + 1
         /\ Entries(log') = Entries(log) \cup {Done + 1}
<1>1. /\ UNCHANGED <<published, pruned, seen, disk, mem, base, blind, crashes, failures>>
      /\ pc = "events" /\ Walking /\ pc' = "mark" /\ mem.page # <<>> /\ TypeOK
      /\ log' = Append(log, Head(mem.page))
  BY DEF AppendEvent, chain, history, faults, Walking, CoverInv
<1>2. Head(mem.page) = Done + 1 /\ Done + 1 \in 1 .. published /\ log \in Seq(1 .. published)
      /\ published \in Nat
  BY <1>1, NextEvent, ScriptNumbers
<1>3. /\ log' \in Seq(1 .. published) /\ Len(log') = Len(log) + 1
      /\ Entries(log') = Entries(log) \cup {Done + 1}
  BY <1>1, <1>2, AppendLines
<1>4. TypeOK'
  BY <1>1, <1>3 DEF TypeOK
<1>5. Memory'
  BY <1>1, <1>3 DEF Memory, Walking, Done, CoverInv
<1>6. (Covered /\ CursorCoversLog)'
  BY <1>1, <1>3 DEF Covered, CursorCoversLog, Walking, Done, CoverInv
<1> QED BY <1>3, <1>4, <1>5, <1>6 DEF CoverInv

(* An event that was appended is entered in the seen file. *)
LEMMA MarkKeeps ==
  ASSUME CoverInv, MarkSeen
  PROVE  CoverInv' /\ Done' = Done + 1 /\ mem'.next = mem.next
         /\ mem'.page = Tail(mem.page)
<1>1. /\ UNCHANGED <<chain, log, disk, history, faults>> /\ Walking /\ pc = "mark"
      /\ pc' = "events" /\ seen' = Trimmed(Append(seen, Head(mem.page)))
      /\ mem' = [mem EXCEPT !.page = Tail(mem.page), !.appended = mem.appended + 1]
  BY DEF MarkSeen, Walking
<1>2. mem.page # <<>> /\ Done + 1 \in Entries(log) /\ Entries(seen) \subseteq Entries(log)
  BY <1>1 DEF CoverInv, Memory, Covered
<1>3. Head(mem.page) = Done + 1 /\ Done + 1 \in 1 .. published /\ seen \in Seq(1 .. published)
      /\ published \in Nat
  BY <1>1, <1>2, NextEvent, ScriptNumbers DEF CoverInv
<1>4. /\ Append(seen, Done + 1) \in Seq(1 .. published)
      /\ Entries(Append(seen, Done + 1)) = Entries(seen) \cup {Done + 1}
  BY <1>3, AppendLines
<1>5. /\ seen' \in Seq(1 .. published) /\ Len(seen') <= SeenMaxLines
      /\ Entries(seen') \subseteq Entries(seen) \cup {Done + 1}
  BY <1>1, <1>3, <1>4, TrimmedFacts
<1> QED BY <1>1, <1>2, <1>5, WalkOn

(* The cursor is written when the page is covered. *)
LEMMA WriteKeeps ==
  ASSUME CoverInv, WriteCursor
  PROVE  CoverInv'
<1>1. /\ UNCHANGED <<chain, log, seen, history, faults>> /\ pc = "events" /\ Walking
      /\ mem.page = <<>> /\ pc' = "poll" /\ TypeOK
      /\ disk' = [cursor |-> mem.next, count |-> mem.total + mem.appended]
      /\ mem' = [Blank EXCEPT !.cursor = mem.next, !.total = mem.total + mem.appended]
  BY DEF WriteCursor, PageDone, Walking, CoverInv
<1>2. /\ published \in Nat /\ mem.next \in Nat /\ mem.total + mem.appended \in Nat
      /\ mem.next \in 0 .. published /\ mem.next # None
  <2>1. mem.next \in Nat /\ mem.total \in Nat /\ mem.appended \in Nat /\ published \in Nat
    BY <1>1, ScriptNumbers
  <2>2. mem.next \in 0 .. published
    BY <1>1 DEF TypeOK
  <2> QED BY <2>1, <2>2, IndexerAssumption
<1>3. /\ mem' \in [cursor : 0 .. published \cup {None}, start : Nat, total : Nat,
                   retries : 0 .. MaxRetries, page : Seq(1 .. published),
                   next : 0 .. published, appended : 0 .. PageLimit]
      /\ mem'.cursor = mem.next
  BY <1>1, <1>2, BlankFacts
<1>4. /\ disk' \in [cursor : 0 .. published \cup {None}, count : Nat]
      /\ disk'.cursor = mem.next
  BY <1>1, <1>2
<1>5. base .. mem.next \subseteq Entries(log) /\ Entries(seen) \subseteq Entries(log)
  <2>1. Done = mem.next
    BY <1>1, <1>2 DEF Done
  <2> QED BY <1>1, <2>1 DEF CoverInv, Covered
<1>6. /\ base' = base /\ blind' = blind /\ failures' = failures /\ crashes' = crashes
      /\ base \in 0 .. MaxEvents /\ blind \in BOOLEAN /\ failures \in 0 .. MaxFailures
  BY <1>1 DEF history, faults, TypeOK
<1> QED BY <1>1, <1>2, <1>3, <1>4, <1>5, <1>6, PollKeeps

(* Every step keeps the log covered. *)
LEMMA CoverStep ==
  ASSUME CoverInv, [Next]_vars
  PROVE  CoverInv'
<1>1. CASE PublishEvent \/ Prune
  BY <1>1, ChainKeeps
<1>2. CASE Start
  <2>1. /\ UNCHANGED <<chain, files, history>> /\ pc' = "starting" /\ mem' = mem
        /\ crashes' = crashes /\ failures' = failures /\ mem = Blank
    BY <1>2 DEF Start, faults, CoverInv, Memory
  <2>2. crashes' \in 0 .. MaxCrashes /\ failures' \in 0 .. MaxFailures
    BY <2>1 DEF CoverInv, TypeOK
  <2> QED BY <2>1, <2>2, StopKeeps
<1>3. CASE Crash
  <2>1. /\ UNCHANGED <<chain, files, history>> /\ pc' = "down" /\ mem' = Blank
        /\ crashes' = crashes + 1 /\ failures' = failures /\ crashes < MaxCrashes
    BY <1>3 DEF Crash
  <2>2. crashes \in 0 .. MaxCrashes /\ failures \in 0 .. MaxFailures /\ MaxCrashes \in Nat
    <3>1. crashes \in 0 .. MaxCrashes /\ failures \in 0 .. MaxFailures
      BY DEF CoverInv, TypeOK
    <3> QED BY <3>1, IndexerAssumption
  <2>3. crashes' \in 0 .. MaxCrashes /\ failures' \in 0 .. MaxFailures
    BY <2>1, <2>2
  <2> QED BY <2>1, <2>3, StopKeeps
<1>4. CASE ReadState
  BY <1>4, ReadStateKeeps
<1>5. CASE CursorRejected
  BY <1>5, RejectedKeeps
<1>6. CASE RequestFails \/ ErrorAnswer
  BY <1>6, FailureKeeps
<1>7. CASE PageArrives
  BY <1>7, PageArrivesKeeps
<1>8. CASE SkipSeen
  BY <1>8, SkipKeeps
<1>9. CASE AppendEvent
  BY <1>9, AppendKeeps
<1>10. CASE MarkSeen
  BY <1>10, MarkKeeps
<1>11. CASE WriteCursor
  BY <1>11, WriteKeeps
<1>12. CASE UNCHANGED vars
  <2>1. UNCHANGED <<published, pruned, log, seen, disk, pc, mem, base, blind, crashes,
                    failures>>
    BY <1>12 DEF vars, chain, files, history, faults
  <2>2. TypeOK'
    BY <2>1 DEF CoverInv, TypeOK
  <2>3. (Memory /\ Covered /\ CursorCoversLog)'
    BY <2>1 DEF CoverInv, Memory, Covered, CursorCoversLog, Walking, Done
  <2> QED BY <2>2, <2>3 DEF CoverInv
<1> QED
  BY <1>1, <1>2, <1>3, <1>4, <1>5, <1>6, <1>7, <1>8, <1>9, <1>10, <1>11, <1>12
     DEF Next, Step

(* Before anything has happened. *)
LEMMA CoverInit ==
  ASSUME Init
  PROVE  CoverInv
<1>1. /\ published = 0 /\ pruned = 0 /\ log = <<>> /\ seen = <<>>
      /\ disk = [cursor |-> None, count |-> 0] /\ pc = "down" /\ mem = Blank
      /\ base = 0 /\ blind = FALSE /\ crashes = 0 /\ failures = 0
  BY DEF Init
<1>2. /\ <<>> \in Seq(1 .. published) /\ Len(<<>>) = 0 /\ DOMAIN <<>> = {}
      /\ published \in Nat
  BY <1>1
<1>3. 0 \in 0 .. MaxEvents /\ 0 <= SeenMaxLines /\ 0 \in 0 .. MaxCrashes
      /\ 0 \in 0 .. MaxFailures
  BY IndexerAssumption
<1>4. Blank \in [cursor : 0 .. published \cup {None}, start : Nat, total : Nat,
                 retries : 0 .. MaxRetries, page : Seq(1 .. published),
                 next : 0 .. published, appended : 0 .. PageLimit]
  BY <1>2, BlankFacts
<1>5. TypeOK
  <2>1. disk \in [cursor : 0 .. published \cup {None}, count : Nat]
    BY <1>1
  <2>2. published \in 0 .. MaxEvents /\ pruned \in 0 .. published
    BY <1>1, <1>3
  <2>3. log \in Seq(1 .. published) /\ seen \in Seq(1 .. published)
        /\ Len(seen) <= SeenMaxLines
    BY <1>1, <1>2, <1>3
  <2> QED BY <1>1, <1>3, <1>4, <2>1, <2>2, <2>3 DEF TypeOK
<1>6. Memory /\ Covered /\ CursorCoversLog
  BY <1>1, <1>2 DEF Memory, Covered, CursorCoversLog, Walking, Entries
<1> QED BY <1>5, <1>6 DEF CoverInv

(* The script's files and memory, the published events and the bookkeeping *)
(* stay within their types: the events file and the seen file only ever    *)
(* hold published events, the seen file stays within SEEN_MAX_LINES, and   *)
(* what is counted as appended never exceeds a page.                       *)
THEOREM IndexerTypeCorrect == Spec => []TypeOK
<1>1. Init => CoverInv
  BY CoverInit
<1>2. CoverInv /\ [Next]_vars => CoverInv'
  BY CoverStep
<1>3. CoverInv => TypeOK
  BY DEF CoverInv
<1> QED BY <1>1, <1>2, <1>3, PTL DEF Spec

(* The cursor file never runs ahead of the events file (write_cursor only  *)
(* after every event of the page was appended, or found in the seen file): *)
(* a restart resumes without a gap, whenever the script was killed and     *)
(* whichever requests failed.                                              *)
THEOREM CursorNeverAhead == Spec => []CursorCoversLog
<1>1. Init => CoverInv
  BY CoverInit
<1>2. CoverInv /\ [Next]_vars => CoverInv'
  BY CoverStep
<1>3. CoverInv => CursorCoversLog
  BY DEF CoverInv
<1> QED BY <1>1, <1>2, <1>3, PTL DEF Spec

-----------------------------------------------------------------------------
(* Duplicates need kills. *)

(* A page fits in the seen file: 100 and 50000 as the script ships. *)
WindowFits == PageLimit <= SeenMaxLines

Below(s, b) == \A i \in DOMAIN s : s[i] < b

(* The lines of a file are event numbers. *)
LEMMA LinesAreEvents ==
  ASSUME NEW n \in Nat, NEW s \in Seq(1 .. n)
  PROVE  \A i \in 1 .. Len(s) : s[i] \in 1 .. n /\ s[i] \in Nat
<1> DEFINE S == 1 .. n
<1> HIDE DEF S
<1>1. s \in Seq(S)
  BY DEF S
<1>2. \A i \in 1 .. Len(s) : s[i] \in S
  BY <1>1, ElementOfSeq
<1> QED BY <1>2 DEF S

(* How many numbers there are from one on. *)
LEMMA WindowSize ==
  ASSUME NEW a \in Nat, NEW k \in Nat
  PROVE  IsFiniteSet(a .. a + k - 1) /\ Cardinality(a .. a + k - 1) = k
<1> DEFINE b == a + k - 1
<1>1. a \in Int /\ b \in Int /\ (IF a > b THEN 0 ELSE b - a + 1) = k
  OBVIOUS
<1> HIDE DEF b
<1>2. IsFiniteSet(a .. b) /\ Cardinality(a .. b) = k
  BY <1>1, FS_Interval
<1> QED BY <1>2 DEF b

(* Numbers over less than a page are fewer than the seen file holds.       *)
LEMMA TrimmedIsOld ==
  ASSUME WindowFits, NEW R \in Nat, NEW n \in Nat, NEW s \in Seq(1 .. n),
         Rising(s), Below(s, R + PageLimit),
         Len(s) <= SeenMaxLines + 1
  PROVE  /\ Rising(Trimmed(s))
         /\ \A e \in Entries(s) : e >= R => e \in Entries(Trimmed(s))
<1>1. /\ SeenMaxLines \in Nat /\ SeenMaxLines >= 1 /\ PageLimit \in Nat
      /\ PageLimit <= SeenMaxLines /\ Len(s) \in Nat /\ DOMAIN s = 1 .. Len(s)
  BY IndexerAssumption DEF WindowFits
<1>2. CASE Len(s) <= SeenMaxLines
  <2>1. Trimmed(s) = s
    BY <1>2, TrimmedFacts
  <2> QED BY <2>1
<1>3. CASE Len(s) = SeenMaxLines + 1
  <2> DEFINE t == Trimmed(s)
  <2>1. /\ t \in Seq(1 .. n) /\ Len(t) = SeenMaxLines
        /\ \A i \in 1 .. SeenMaxLines : t[i] = s[i + 1]
    BY <1>3, TrimmedFacts
  <2> HIDE DEF t
  <2>2. DOMAIN t = 1 .. SeenMaxLines /\ DOMAIN s = 1 .. SeenMaxLines + 1
    BY <1>1, <1>3, <2>1
  <2>3. ASSUME NEW i \in DOMAIN t, NEW j \in DOMAIN t, i < j
        PROVE  t[i] < t[j]
    <3>1. /\ i \in 1 .. SeenMaxLines /\ j \in 1 .. SeenMaxLines
          /\ t[i] = s[i + 1] /\ t[j] = s[j + 1]
      BY <2>1, <2>2
    <3>2. /\ i + 1 \in 1 .. SeenMaxLines + 1 /\ j + 1 \in 1 .. SeenMaxLines + 1
          /\ i + 1 < j + 1
      <4>1. \A k \in Nat : \A a, b \in 1 .. k : a < b =>
              a + 1 \in 1 .. k + 1 /\ b + 1 \in 1 .. k + 1 /\ a + 1 < b + 1
        OBVIOUS
      <4> QED BY <1>1, <2>3, <3>1, <4>1
    <3> QED BY <2>2, <3>1, <3>2 DEF Rising
  <2>4. s[1] < R
    <3> SUFFICES ASSUME ~(s[1] < R)
                 PROVE  FALSE
      OBVIOUS
    <3> DEFINE D == 1 .. SeenMaxLines + 1
               W == R .. R + PageLimit - 1
    <3>1. \A i \in D : s[i] \in Nat
      <4>1. \A i \in 1 .. Len(s) : s[i] \in Nat
        BY LinesAreEvents
      <4> QED BY <1>3, <4>1
    <3>2. ASSUME NEW i \in D
          PROVE  s[i] \in W
      <4>1. /\ 1 \in DOMAIN s /\ i \in DOMAIN s /\ i \in Nat /\ i >= 1
            /\ s[1] \in Nat /\ s[i] \in Nat
        <5>1. i \in 1 .. SeenMaxLines + 1 /\ 1 \in 1 .. SeenMaxLines + 1
          BY <1>1
        <5> QED BY <2>2, <3>1, <5>1
      <4>2. s[1] >= R /\ s[i] < R + PageLimit
        BY <4>1 DEF Below
      <4>3. s[i] >= s[1]
        <5>1. CASE i = 1
          BY <4>1, <5>1
        <5>2. CASE i # 1
          <6>1. 1 < i
            BY <4>1, <5>2
          <6>2. s[1] < s[i]
            BY <4>1, <6>1 DEF Rising
          <6> QED BY <4>1, <6>2
        <5> QED BY <5>1, <5>2
      <4> QED BY <1>1, <4>1, <4>2, <4>3
    <3>3. /\ IsFiniteSet(D) /\ Cardinality(D) = SeenMaxLines + 1
          /\ IsFiniteSet(W) /\ Cardinality(W) = PageLimit
      <4>1. 1 + (SeenMaxLines + 1) - 1 = SeenMaxLines + 1 /\ SeenMaxLines + 1 \in Nat
        BY <1>1
      <4>2. /\ IsFiniteSet(1 .. 1 + (SeenMaxLines + 1) - 1)
            /\ Cardinality(1 .. 1 + (SeenMaxLines + 1) - 1) = SeenMaxLines + 1
        BY <4>1, WindowSize
      <4>3. IsFiniteSet(W) /\ Cardinality(W) = PageLimit
        BY <1>1, WindowSize
      <4> QED BY <4>1, <4>2, <4>3
    <3> DEFINE f == [i \in D |-> s[i]]
    <3>4. f \in [D -> W]
      BY <3>2
    <3>5. Cardinality(W) < Cardinality(D)
      BY <1>1, <3>3
    <3> HIDE DEF D, W, f
    <3>6. \E x, y \in D : x # y /\ f[x] = f[y]
      BY <3>3, <3>4, <3>5, FS_PigeonHole
    <3>7. PICK x, y \in 1 .. SeenMaxLines + 1 : x # y /\ s[x] = s[y]
      BY <3>6 DEF D, f
    <3>8. /\ x \in Nat /\ y \in Nat /\ x \in DOMAIN s /\ y \in DOMAIN s
          /\ s[x] \in Nat /\ s[y] \in Nat
      BY <1>1, <2>2, <3>1, <3>7 DEF D
    <3>9. CASE x < y
      BY <3>7, <3>8, <3>9 DEF Rising
    <3>10. CASE y < x
      BY <3>7, <3>8, <3>10 DEF Rising
    <3> QED BY <3>7, <3>8, <3>9, <3>10
  <2>5. ASSUME NEW e \in Entries(s), e >= R
        PROVE  e \in Entries(t)
    <3>1. PICK i \in 1 .. SeenMaxLines + 1 : e = s[i]
      BY <2>2 DEF Entries
    <3>2. i # 1
      <4>1. CASE i = 1
        <5>1. s[1] \in 1 .. n
          BY <1>1, <2>2
        <5> QED BY <2>4, <2>5, <3>1, <4>1, <5>1
      <4> QED BY <4>1
    <3>3. i - 1 \in 1 .. SeenMaxLines /\ (i - 1) + 1 = i
      BY <1>1, <3>1, <3>2
    <3>4. t[i - 1] = e
      BY <2>1, <3>1, <3>3
    <3> QED BY <2>2, <3>3, <3>4 DEF Entries
  <2> QED BY <2>3, <2>5 DEF t, Rising
<1>4. Len(s) <= SeenMaxLines \/ Len(s) = SeenMaxLines + 1
  <2>1. \A a, b \in Nat : a <= b + 1 => a <= b \/ a = b + 1
    OBVIOUS
  <2> QED BY <1>1, <2>1
<1> QED BY <1>2, <1>3, <1>4

(* The log holds finitely many events, so a part of it has a size. *)
LEMMA LogFinite ==
  ASSUME TypeOK, NEW marked \in SUBSET Entries(log)
  PROVE  /\ IsFiniteSet(Entries(log)) /\ IsFiniteSet(marked)
         /\ Cardinality(marked) \in Nat
         /\ Cardinality(marked) <= Cardinality(Entries(log))
         /\ Cardinality(Entries(log)) \in Nat
         /\ \A e \in Entries(log) : e \in 1 .. published /\ e \in Nat
         /\ Len(log) \in Nat
<1>1. published \in Nat /\ log \in Seq(1 .. published)
  BY ScriptNumbers
<1>2. DOMAIN log = 1 .. Len(log) /\ Len(log) \in Nat
  BY <1>1
<1>3. \A e \in Entries(log) : e \in 1 .. published /\ e \in Nat
  BY <1>1, <1>2, LinesAreEvents DEF Entries
<1>4. IsFiniteSet(1 .. published)
  BY <1>1, FS_Interval
<1>5. IsFiniteSet(Entries(log))
  BY <1>3, <1>4, FS_Subset
<1> QED BY <1>2, <1>3, <1>5, FS_Subset, FS_CardinalityType

(* A script that is not inside a page, and resumes no earlier than before. *)
LEMMA RestsSighted ==
  ASSUME CoverInv, Sighted, UNCHANGED <<log, seen>>, Resume' \in Nat, crashes' \in Nat,
         base' <= 1 \/ base' <= published' - Lookback, Resume <= Resume', ~Walking',
         crashes <= crashes', pc = "mark" => crashes + 1 <= crashes'
  PROVE  Sighted'
<1>1. /\ Resume \in Nat /\ Resume' \in Nat /\ crashes \in Nat /\ crashes' \in Nat
      /\ PageLimit \in Nat /\ pc' # "mark" /\ TypeOK
  BY ScriptNumbers, IndexerAssumption DEF CoverInv, Walking
<1>2. \A e \in Entries(log) : e \in Nat
  BY <1>1, LogFinite
<1>3. Near'
  <2>1. \A e \in Entries(log) : e < Resume' + PageLimit
    BY <1>1, <1>2 DEF Sighted, Near
  <2> QED BY <2>1 DEF Near
<1>4. Gapless'
  <2>1. ASSUME NEW e \in Entries(seen)
        PROVE  Resume' .. e \subseteq Entries(seen)
    <3>1. Resume .. e \subseteq Entries(seen) /\ e \in Nat
      BY <1>2 DEF Sighted, Gapless, CoverInv, Covered
    <3>2. Resume' .. e \subseteq Resume .. e
      BY <1>1, <3>1
    <3> QED BY <3>1, <3>2
  <2>2. Rising(seen)
    BY DEF Sighted, Gapless
  <2> QED BY <2>1, <2>2 DEF Gapless, Rising
<1>5. PICK marked \in SUBSET Entries(log) : Accounts(marked)
  BY DEF Sighted
<1>6. /\ Entries(seen) \subseteq marked /\ \A e \in marked \ Entries(seen) : e < Resume
      /\ Len(log) - Cardinality(marked) <= crashes + (IF pc = "mark" THEN 1 ELSE 0)
  BY <1>5 DEF Accounts
<1>7. Cardinality(marked) \in Nat /\ Len(log) \in Nat
  BY <1>1, <1>5, LogFinite
<1>8. \A e \in marked \ Entries(seen) : e < Resume'
  BY <1>1, <1>2, <1>5, <1>6
<1>9. Len(log) - Cardinality(marked) <= crashes'
  <2>1. CASE pc = "mark"
    BY <1>1, <1>6, <1>7, <2>1
  <2>2. CASE pc # "mark"
    BY <1>1, <1>6, <1>7, <2>2
  <2> QED BY <2>1, <2>2
<1>10. (Accounts(marked))'
  <2>1. Len(log) - Cardinality(marked) <= crashes' + 0
    BY <1>1, <1>9
  <2> QED BY <1>1, <1>5, <1>6, <1>8, <2>1 DEF Accounts
<1> QED BY <1>3, <1>4, <1>10 DEF Sighted

(* Nothing the accounts are about has changed. *)
LEMMA ChainSighted ==
  ASSUME CoverInv, Sighted, published \in Nat, published' \in Nat, published <= published',
         UNCHANGED <<log, seen, disk, pc, mem, base, crashes>>
  PROVE  Sighted'
<1>1. base \in Nat /\ Lookback \in Nat
  BY ScriptNumbers, IndexerAssumption DEF CoverInv
<1>2. base' <= 1 \/ base' <= published' - Lookback
  <2>1. base <= 1 \/ base <= published - Lookback
    BY DEF Sighted
  <2>2. published - Lookback <= published' - Lookback /\ published - Lookback \in Int
        /\ published' - Lookback \in Int
    <3>1. \A a, b, c \in Nat : a <= b => /\ a - c <= b - c
                                         /\ a - c \in Int /\ b - c \in Int
      OBVIOUS
    <3> QED BY <1>1, <3>1
  <2>3. base' = base
    OBVIOUS
  <2>4. \A a, b \in Int : base <= a /\ a <= b => base <= b
    BY <1>1
  <2> QED BY <2>1, <2>2, <2>3, <2>4
<1>3. Near' /\ Gapless'
  BY DEF Sighted, Near, Gapless, Rising, Resume, Walking, Done
<1>4. PICK marked \in SUBSET Entries(log) : Accounts(marked)
  BY DEF Sighted
<1>5. (Accounts(marked))'
  BY <1>4 DEF Accounts, Resume, Done
<1> QED BY <1>2, <1>3, <1>4, <1>5 DEF Sighted

(* A page is asked for from where the script resumes, and reaches as far   *)
(* as the log does.                                                        *)
LEMMA PageArrivesSighted ==
  ASSUME CoverInv, Sighted, PageArrives
  PROVE  Sighted'
<1> DEFINE page == Served(First)
<1>1. /\ UNCHANGED <<published, pruned, log, seen, disk, base, blind, crashes, failures>>
      /\ pc = "poll" /\ pc' = "events" /\ TypeOK
      /\ mem' = [mem EXCEPT !.retries = 0, !.page = page, !.next = NextCursor(page),
                            !.appended = 0]
  BY DEF PageArrives, chain, files, history, faults, CoverInv
<1>2. /\ First \in Nat /\ First >= 1 /\ First = Resume /\ published \in Nat
      /\ base \in Nat /\ Lookback \in Nat /\ PageLimit \in Nat
  BY <1>1, FirstFacts, ScriptNumbers, IndexerAssumption
<1>3. /\ Len(page) \in 0 .. PageLimit /\ NextCursor(page) \in 0 .. published
      /\ NextCursor(page) < First + PageLimit
      /\ First <= published => NextCursor(page) - Len(page) = First - 1
      /\ First > published => Len(page) = 0 /\ NextCursor(page) = published
      /\ \A e \in 1 .. published : e < First + PageLimit => e <= NextCursor(page)
  BY <1>2, ServedFacts
<1> HIDE DEF page
<1>4. /\ mem'.next = NextCursor(page) /\ Done' = NextCursor(page) - Len(page)
      /\ Resume' = Resume
  BY <1>1 DEF TypeOK, Done, Resume
<1>5. Resume <= published + 1
  <2>1. CASE disk.cursor = None
    BY <1>2, <2>1 DEF Resume, Sighted
  <2>2. CASE disk.cursor # None
    <3>1. disk.cursor \in 0 .. published
      BY <1>1, <2>2 DEF TypeOK
    <3> QED BY <1>2, <2>2, <3>1 DEF Resume
  <2> QED BY <2>1, <2>2
<1>6. Done' + 1 >= Resume /\ Done' < Resume /\ Done' \in Int
  BY <1>2, <1>3, <1>4, <1>5
<1>7. \A e \in Entries(log) : e <= NextCursor(page)
  BY <1>1, <1>2, <1>3, LogFinite DEF Sighted, Near
<1>8. Near'
  BY <1>1, <1>2, <1>3, <1>4, <1>6, <1>7 DEF Near, Sighted
<1>9. Gapless'
  <2>1. Resume .. Done' = {}
    BY <1>2, <1>6
  <2> QED BY <1>1, <1>4, <2>1 DEF Gapless, Rising, Sighted
<1>10. PICK marked \in SUBSET Entries(log) : Accounts(marked)
  BY DEF Sighted
<1>11. (Accounts(marked))'
  BY <1>1, <1>4, <1>10 DEF Accounts
<1> QED BY <1>1, <1>8, <1>9, <1>10, <1>11 DEF Sighted

(* An event in the seen file is passed over. *)
LEMMA SkipSighted ==
  ASSUME CoverInv, Sighted, SkipSeen
  PROVE  Sighted'
<1>1. /\ UNCHANGED <<published, log, seen, disk, base, crashes>> /\ Walking
      /\ pc = "events" /\ pc' = "events"
      /\ mem.page # <<>> /\ Head(mem.page) \in Entries(seen) /\ TypeOK
  BY DEF SkipSeen, HaveSeen, chain, files, history, faults, Walking, CoverInv
<1>2. Done' = Done + 1 /\ mem'.next = mem.next
  BY SkipKeeps
<1>3. Done + 1 \in Entries(seen) /\ Done \in Int /\ Resume \in Nat /\ Resume' = Resume
  BY <1>1, NextEvent, ScriptNumbers DEF Resume
<1>4. Near'
  BY <1>1, <1>2, <1>3 DEF Near, Sighted
<1>5. Gapless'
  <2>1. Resume .. Done + 1 \subseteq Entries(seen)
    BY <1>1, <1>3 DEF Gapless, Sighted
  <2> QED BY <1>1, <1>2, <1>3, <2>1 DEF Gapless, Rising, Sighted
<1>6. PICK marked \in SUBSET Entries(log) : Accounts(marked)
  BY DEF Sighted
<1>7. (Accounts(marked))'
  BY <1>1, <1>3, <1>6 DEF Accounts
<1> QED BY <1>1, <1>4, <1>5, <1>6, <1>7 DEF Sighted

(* Only an event that was never entered in the seen file is appended: what *)
(* was trimmed off it is behind the script.                                *)
LEMMA AppendSighted ==
  ASSUME CoverInv, Sighted, AppendEvent
  PROVE  Sighted'
<1>1. /\ UNCHANGED <<published, seen, disk, mem, base, crashes>> /\ Walking /\ Walking'
      /\ pc = "events" /\ pc' = "mark"
      /\ mem.page # <<>> /\ Head(mem.page) \notin Entries(seen) /\ TypeOK
  BY DEF AppendEvent, HaveSeen, chain, history, faults, Walking, CoverInv
<1>2. Len(log') = Len(log) + 1 /\ Entries(log') = Entries(log) \cup {Done + 1}
  BY AppendKeeps
<1>3. /\ Done + 1 \notin Entries(seen) /\ Done \in Int /\ Resume \in Nat
      /\ Resume' = Resume /\ Done' = Done /\ mem.next \in Nat
      /\ Len(mem.page) \in Nat \ {0} /\ PageLimit \in Nat
  BY <1>1, NextEvent, ScriptNumbers, IndexerAssumption DEF Resume, Done
<1>4. Done + 1 <= mem.next /\ mem.next < Resume + PageLimit /\ Done + 1 >= Resume
  BY <1>1, <1>3 DEF Done, Near, Sighted
<1>5. Near'
  BY <1>1, <1>2, <1>3, <1>4 DEF Near, Sighted
<1>6. Gapless'
  BY <1>1, <1>3 DEF Gapless, Rising, Sighted
<1>7. PICK marked \in SUBSET Entries(log) : Accounts(marked)
  BY DEF Sighted
<1>8. /\ Entries(seen) \subseteq marked /\ \A e \in marked \ Entries(seen) : e < Resume
      /\ Len(log) - Cardinality(marked) <= crashes + (IF pc = "mark" THEN 1 ELSE 0)
  BY <1>7 DEF Accounts
<1>9. Done + 1 \notin marked
  BY <1>3, <1>4, <1>8
<1>10. Cardinality(marked) \in Nat /\ Len(log) \in Nat /\ crashes \in Nat
  BY <1>1, <1>7, LogFinite, ScriptNumbers
<1>11. Len(log') - Cardinality(marked) <= crashes + 1
  BY <1>1, <1>2, <1>8, <1>10
<1>12. (Accounts(marked))'
  BY <1>1, <1>2, <1>3, <1>7, <1>8, <1>9, <1>11 DEF Accounts
<1> QED BY <1>1, <1>2, <1>5, <1>6, <1>7, <1>12 DEF Sighted

(* The event is entered in the seen file behind all the others; the one    *)
(* that is trimmed off for it is a page behind.                            *)
LEMMA MarkSighted ==
  ASSUME WindowFits, CoverInv, Sighted, MarkSeen
  PROVE  Sighted'
<1> DEFINE p == Done + 1
           long == Append(seen, p)
<1>1. /\ UNCHANGED <<published, log, disk, base, crashes>> /\ Walking
      /\ pc = "mark" /\ pc' = "events" /\ seen' = Trimmed(Append(seen, Head(mem.page)))
      /\ mem.page # <<>> /\ p \in Entries(log) /\ TypeOK
      /\ Entries(seen) \subseteq Entries(log)
  BY DEF MarkSeen, chain, history, faults, Walking, CoverInv, Memory, Covered
<1>2. Done' = p /\ mem'.next = mem.next
  BY MarkKeeps
<1>3. /\ Head(mem.page) = p /\ p \in 1 .. published /\ published \in Nat
      /\ seen \in Seq(1 .. published) /\ Done \in Int /\ Resume \in Nat /\ Resume' = Resume
      /\ mem.next \in Nat /\ Len(seen) \in Nat
  BY <1>1, NextEvent, ScriptNumbers DEF Resume
<1>4. /\ p >= Resume /\ p <= mem.next /\ mem.next < Resume + PageLimit
      /\ \A e \in Entries(log) : e < Resume + PageLimit
  <2>1. Len(mem.page) \in Nat \ {0}
    BY <1>1, NextEvent
  <2> QED BY <1>1, <1>3, <2>1 DEF Done, Near, Sighted
<1>5. /\ Rising(seen) /\ \A e \in Entries(seen) : Resume .. e \subseteq Entries(seen)
      /\ Resume .. Done \subseteq Entries(seen)
  BY <1>1 DEF Gapless, Sighted
<1>6. PICK marked \in SUBSET Entries(log) : Accounts(marked)
  BY DEF Sighted
<1>7. /\ Entries(seen) \subseteq marked /\ \A e \in marked \ Entries(seen) : e < Resume
      /\ Len(log) - Cardinality(marked) <= crashes + 1 /\ p \notin marked
  BY <1>1, <1>6 DEF Accounts
<1> HIDE DEF p
<1>8. /\ long \in Seq(1 .. published) /\ Len(long) = Len(seen) + 1
      /\ Entries(long) = Entries(seen) \cup {p}
      /\ \A i \in 1 .. Len(seen) : long[i] = seen[i]
      /\ long[Len(seen) + 1] = p
  BY <1>3, AppendLines
<1> HIDE DEF long
<1>9. seen' = Trimmed(long)
  BY <1>1, <1>3 DEF long
<1>10. \A e \in Entries(seen) : e < p /\ e \in Nat
  <2> SUFFICES ASSUME NEW e \in Entries(seen)
               PROVE  e < p /\ e \in Nat
    OBVIOUS
  <2>1. e \in Nat /\ e # p
    BY <1>1, <1>7, LogFinite
  <2>2. ~(e > p)
    <3>1. e > p => p \in Resume .. e
      BY <1>3, <1>4, <2>1
    <3> QED BY <1>5, <1>7, <3>1
  <2> QED BY <1>3, <2>1, <2>2
<1>11. Rising(long)
  <2> SUFFICES ASSUME NEW i \in 1 .. Len(seen) + 1, NEW j \in 1 .. Len(seen) + 1, i < j
               PROVE  long[i] < long[j]
    BY <1>8 DEF Rising
  <2>1. i \in 1 .. Len(seen) /\ long[i] = seen[i] /\ seen[i] \in Entries(seen)
    <3>1. \A k \in Nat : \A a, b \in 1 .. k + 1 : a < b => a \in 1 .. k
      OBVIOUS
    <3>2. i \in 1 .. Len(seen)
      BY <1>3, <3>1
    <3>3. DOMAIN seen = 1 .. Len(seen)
      BY <1>3
    <3> QED BY <1>8, <3>2, <3>3 DEF Entries
  <2>2. CASE j = Len(seen) + 1
    BY <1>8, <1>10, <2>1, <2>2
  <2>3. CASE j # Len(seen) + 1
    <3>1. j \in 1 .. Len(seen) /\ long[j] = seen[j]
      <4>1. \A k \in Nat : \A m \in 1 .. k + 1 : m # k + 1 => m \in 1 .. k
        OBVIOUS
      <4> QED BY <1>3, <1>8, <2>3, <4>1
    <3>2. seen[i] < seen[j]
      BY <1>3, <1>5, <2>1, <3>1 DEF Rising
    <3> QED BY <2>1, <3>1, <3>2
  <2> QED BY <2>2, <2>3
<1>12. Below(long, Resume + PageLimit)
  <2>1. \A e \in Entries(long) : e < Resume + PageLimit
    BY <1>1, <1>4, <1>8
  <2> QED BY <2>1 DEF Below, Entries
<1>13. Len(long) <= SeenMaxLines + 1
  BY <1>1, <1>3, <1>8, IndexerAssumption DEF TypeOK
<1>14. /\ Rising(Trimmed(long))
       /\ \A e \in Entries(long) : e >= Resume => e \in Entries(Trimmed(long))
  BY <1>3, <1>8, <1>11, <1>12, <1>13, TrimmedIsOld
<1>15. Entries(Trimmed(long)) \subseteq Entries(long)
  BY <1>8, TrimmedFacts
<1>16. Near'
  BY <1>1, <1>2, <1>3, <1>4 DEF Near, Sighted
<1>17. Gapless'
  <2>1. ASSUME NEW e \in Entries(long), NEW q \in Resume .. e
        PROVE  q \in Entries(Trimmed(long))
    <3>1. q \in Int /\ q >= Resume
      BY <1>3
    <3>2. q \in Entries(long)
      <4>1. CASE e \in Entries(seen)
        BY <1>5, <1>8, <4>1
      <4>2. CASE e = p
        <5>1. q = p \/ q \in Resume .. Done
          BY <1>3, <4>2 DEF p
        <5> QED BY <1>5, <1>8, <5>1
      <4> QED BY <1>8, <4>1, <4>2
    <3> QED BY <1>14, <3>1, <3>2
  <2>2. \A e \in Entries(seen') : Resume' .. e \subseteq Entries(seen')
    BY <1>3, <1>9, <1>15, <2>1
  <2>3. Resume' .. Done' \subseteq Entries(seen')
    <3>1. p \in Entries(long)
      BY <1>8
    <3> QED BY <1>2, <1>3, <1>9, <2>1, <3>1
  <2> QED BY <1>9, <1>14, <2>2, <2>3 DEF Gapless, Rising
<1>18. PICK more : more = marked \cup {p}
  OBVIOUS
<1>19. /\ Cardinality(marked) \in Nat /\ IsFiniteSet(marked) /\ Len(log) \in Nat
       /\ crashes \in Nat
  BY <1>1, <1>6, LogFinite, ScriptNumbers
<1>20. Cardinality(more) = Cardinality(marked) + 1
  BY <1>7, <1>19, <1>18, FS_AddElement
<1>21. more \in SUBSET Entries(log) /\ Entries(seen') \subseteq more
  BY <1>1, <1>6, <1>7, <1>8, <1>9, <1>15, <1>18
<1>22. ASSUME NEW e \in more, e \notin Entries(seen')
       PROVE  e < Resume
  <2>1. CASE e \in Entries(long)
    <3>1. ~(e >= Resume)
      BY <1>9, <1>14, <1>22, <2>1
    <3>2. e \in Nat
      BY <1>1, <1>21, LogFinite
    <3> QED BY <1>3, <3>1, <3>2
  <2>2. CASE e \notin Entries(long)
    BY <1>7, <1>8, <1>18, <1>22, <2>2
  <2> QED BY <2>1, <2>2
<1>23. Len(log) - Cardinality(more) <= crashes + 0
  BY <1>7, <1>19, <1>20
<1>24. (Accounts(more))'
  BY <1>1, <1>3, <1>21, <1>22, <1>23 DEF Accounts
<1> QED BY <1>1, <1>16, <1>17, <1>21, <1>24 DEF Sighted

(* Every step keeps the accounts, unless a cold start goes blind. *)
LEMMA DupStep ==
  ASSUME WindowFits, DupInv, [Next]_vars
  PROVE  DupInv'
<1>1. CoverInv /\ CoverInv' /\ (pruned = 0 \/ pruned < published - Lookback)
  BY CoverStep DEF DupInv
<1>2. /\ published \in Nat /\ pruned \in Nat /\ crashes \in Nat /\ Resume \in Nat
      /\ base \in Nat /\ Lookback \in Nat /\ TypeOK
      /\ disk.cursor # None => disk.cursor \in Nat
  BY <1>1, ScriptNumbers, IndexerAssumption DEF CoverInv
<1>3. /\ published' \in Nat /\ pruned' \in Nat /\ crashes' \in Nat /\ base' \in Nat
      /\ disk'.cursor # None => disk'.cursor \in Nat
  <2>1. /\ published' \in 0 .. MaxEvents /\ pruned' \in 0 .. published'
        /\ crashes' \in 0 .. MaxCrashes /\ base' \in 0 .. MaxEvents
        /\ disk'.cursor \in 0 .. published' \cup {None}
    BY <1>1 DEF CoverInv, TypeOK
  <2>2. MaxEvents \in Nat /\ MaxCrashes \in Nat
    BY IndexerAssumption
  <2>3. published' \in Nat
    BY <2>1, <2>2
  <2> QED BY <2>1, <2>2, <2>3
<1>4. Resume' \in Nat
  BY <1>3 DEF Resume
<1>5. (pruned = 0 \/ pruned < published - Lookback)'
  <2>1. CASE PublishEvent
    BY <1>1, <1>2, <2>1 DEF PublishEvent
  <2>2. CASE Prune
    BY <1>2, <2>2 DEF Prune
  <2>3. CASE ~PublishEvent /\ ~Prune
    <3>1. UNCHANGED chain
      BY <2>3 DEF Next, Step, vars, Start, ReadState, PageArrives, CursorRejected,
           ErrorAnswer, SkipSeen, AppendEvent, MarkSeen, WriteCursor, RequestFails, Crash
    <3> QED BY <1>1, <3>1 DEF chain
  <2> QED BY <2>1, <2>2, <2>3
<1>6. ASSUME ~blind'
      PROVE  Sighted'
  <2>1. ~blind
    <3>1. \A l \in 1 .. MaxEvents : ColdStart(l) => ~blind
      BY <1>2, <1>6, ColdStartFacts
    <3>2. CASE ReadState
      <4>1. blind' = blind \/ \E l \in 1 .. MaxEvents : ColdStart(l)
        BY <3>2 DEF ReadState
      <4> QED BY <1>6, <3>1, <4>1
    <3>3. CASE CursorRejected
      BY <3>1, <3>3 DEF CursorRejected
    <3>4. CASE ~ReadState /\ ~CursorRejected
      <4>1. UNCHANGED history
        BY <3>4 DEF Next, Step, vars, Start, PageArrives, ErrorAnswer, SkipSeen, Prune,
             AppendEvent, MarkSeen, WriteCursor, RequestFails, Crash, PublishEvent
      <4> QED BY <1>6, <4>1 DEF history
    <3> QED BY <3>2, <3>3, <3>4
  <2>2. Sighted
    BY <2>1 DEF DupInv
  <2>3. base <= 1 \/ base <= published - Lookback
    BY <2>2 DEF Sighted
  <2>4. CASE PublishEvent \/ Prune
    <3>1. /\ UNCHANGED <<log, seen, disk, pc, mem, base, crashes>>
          /\ published <= published'
      BY <1>2, <2>4 DEF PublishEvent, Prune, files, history, faults
    <3> QED BY <1>1, <1>2, <1>3, <2>2, <3>1, ChainSighted
  <2>5. CASE UNCHANGED vars
    <3>1. /\ UNCHANGED <<log, seen, disk, pc, mem, base, crashes>>
          /\ published <= published'
      BY <1>2, <2>5 DEF vars, chain, files, history, faults
    <3> QED BY <1>1, <1>2, <1>3, <2>2, <3>1, ChainSighted
  <2>6. CASE Start \/ RequestFails \/ ErrorAnswer
    <3>1. /\ UNCHANGED <<published, log, seen, disk, base, crashes>>
          /\ ~Walking' /\ pc # "mark"
      BY <2>6 DEF Start, RequestFails, ErrorAnswer, chain, files, history, faults, Walking
    <3>2. Resume' = Resume
      BY <3>1 DEF Resume
    <3> QED BY <1>1, <1>2, <1>3, <1>4, <2>2, <2>3, <3>1, <3>2, RestsSighted
  <2>7. CASE Crash
    <3>1. /\ UNCHANGED <<published, log, seen, disk, base>> /\ ~Walking'
          /\ crashes' = crashes + 1
      BY <2>7 DEF Crash, chain, files, history, Walking
    <3>2. Resume' = Resume /\ crashes <= crashes' /\ crashes + 1 <= crashes'
      BY <1>2, <3>1 DEF Resume
    <3> QED BY <1>1, <1>2, <1>3, <1>4, <2>2, <2>3, <3>1, <3>2, RestsSighted
  <2>8. CASE ReadState
    <3>1. /\ UNCHANGED <<published, log, seen, disk, crashes>> /\ ~Walking' /\ pc # "mark"
      BY <2>8 DEF ReadState, chain, files, Walking
    <3>2. /\ base' <= 1 \/ base' <= published' - Lookback
          /\ Resume <= Resume'
      <4>1. CASE disk.cursor = None
        <5>1. PICK l \in 1 .. MaxEvents : ColdStart(l)
          BY <2>8, <4>1 DEF ReadState
        <5>2. base' = IF published - Lookback >= 1 THEN published - Lookback ELSE 1
          BY <1>2, <1>6, <5>1, ColdStartFacts
        <5> QED BY <1>2, <2>3, <3>1, <4>1, <5>2 DEF Resume
      <4>2. CASE disk.cursor # None
        <5>1. base' = base
          BY <2>8, <4>2 DEF ReadState
        <5> QED BY <1>2, <2>3, <3>1, <4>2, <5>1 DEF Resume
      <4> QED BY <4>1, <4>2
    <3> QED BY <1>1, <1>2, <1>3, <1>4, <2>2, <3>1, <3>2, RestsSighted
  <2>9. CASE CursorRejected
    <3>1. /\ UNCHANGED <<published, pruned, log, seen, crashes>> /\ ~Walking' /\ pc # "mark"
          /\ pc = "poll" /\ mem.cursor # None /\ mem.cursor < pruned
          /\ disk' = [cursor |-> None, count |-> mem.total]
      BY <2>9 DEF CursorRejected, chain, Walking
    <3>2. PICK l \in 1 .. MaxEvents : ColdStart(l)
      BY <2>9 DEF CursorRejected
    <3>3. base' = IF published - Lookback >= 1 THEN published - Lookback ELSE 1
      BY <1>2, <1>6, <3>2, ColdStartFacts
    <3>4. disk.cursor = mem.cursor
      BY <1>1, <3>1 DEF CoverInv, Memory
    <3>5. Resume' = base' /\ Resume = disk.cursor + 1 /\ disk.cursor \in Nat
      BY <1>2, <3>1, <3>4 DEF Resume
    <3>6. disk.cursor < pruned /\ pruned < published - Lookback
      BY <1>1, <1>2, <3>1, <3>4, <3>5
    <3>7. base' = published - Lookback /\ Resume <= Resume'
      BY <1>2, <3>3, <3>5, <3>6
    <3>8. base' <= 1 \/ base' <= published' - Lookback
      BY <1>2, <3>1, <3>7
    <3> QED BY <1>1, <1>2, <1>3, <1>4, <2>2, <3>1, <3>7, <3>8, RestsSighted
  <2>10. CASE WriteCursor
    <3>1. /\ UNCHANGED <<published, log, seen, base, crashes>> /\ ~Walking' /\ Walking
          /\ pc # "mark" /\ mem.page = <<>> /\ disk'.cursor = mem.next
      BY <2>10 DEF WriteCursor, PageDone, chain, history, faults, Walking
    <3>2. mem.next \in Nat /\ mem.next # None
      BY <1>2, ScriptNumbers, IndexerAssumption
    <3>3. Done = mem.next /\ Done + 1 >= Resume
      BY <2>2, <3>1, <3>2 DEF Done, Sighted, Near
    <3>4. Resume <= Resume'
      BY <1>2, <3>1, <3>2, <3>3 DEF Resume
    <3>5. base' <= 1 \/ base' <= published' - Lookback
      BY <2>3, <3>1
    <3> QED BY <1>1, <1>2, <1>3, <1>4, <2>2, <3>1, <3>4, <3>5, RestsSighted
  <2>11. CASE PageArrives
    BY <1>1, <2>2, <2>11, PageArrivesSighted
  <2>12. CASE SkipSeen
    BY <1>1, <2>2, <2>12, SkipSighted
  <2>13. CASE AppendEvent
    BY <1>1, <2>2, <2>13, AppendSighted
  <2>14. CASE MarkSeen
    BY <1>1, <2>2, <2>14, MarkSighted
  <2> QED
    BY <2>4, <2>5, <2>6, <2>7, <2>8, <2>9, <2>10, <2>11, <2>12, <2>13, <2>14 DEF Next, Step
<1> QED BY <1>1, <1>5, <1>6 DEF DupInv

(* Before anything has happened there is nothing to account for. *)
LEMMA DupInit ==
  ASSUME Init
  PROVE  DupInv
<1>1. /\ CoverInv /\ pruned = 0 /\ log = <<>> /\ seen = <<>> /\ pc = "down"
      /\ disk = [cursor |-> None, count |-> 0] /\ base = 0 /\ crashes = 0
  BY CoverInit DEF Init
<1>2. /\ Entries(log) = {} /\ Entries(seen) = {} /\ DOMAIN seen = {} /\ Len(log) = 0
      /\ Resume = 0
  BY <1>1 DEF Entries, Resume
<1>3. Near /\ Gapless
  BY <1>1, <1>2 DEF Near, Gapless, Rising, Walking
<1>4. Accounts({})
  <2>1. Cardinality({}) = 0
    BY FS_EmptySet
  <2> QED BY <1>1, <1>2, <2>1 DEF Accounts
<1>5. \E marked \in SUBSET Entries(log) : Accounts(marked)
  BY <1>4
<1> QED BY <1>1, <1>3, <1>5 DEF DupInv, Sighted

(* As many lines as events were entered in the seen file, one line for     *)
(* each kill, and one that is about to be entered.                         *)
LEMMA DupCount ==
  ASSUME DupInv
  PROVE  DuplicatesNeedCrashes
<1> SUFFICES ASSUME ~blind
             PROVE  Len(log) - Cardinality(Entries(log)) <= crashes
  BY DEF DuplicatesNeedCrashes
<1>1. TypeOK /\ Memory /\ Sighted
  BY DEF DupInv, CoverInv
<1>2. PICK marked \in SUBSET Entries(log) : Accounts(marked)
  BY <1>1 DEF Sighted
<1>3. /\ Cardinality(marked) \in Nat /\ IsFiniteSet(marked) /\ Len(log) \in Nat
      /\ Cardinality(marked) <= Cardinality(Entries(log)) /\ crashes \in Nat
      /\ Cardinality(Entries(log)) \in Nat
  BY <1>1, <1>2, LogFinite, ScriptNumbers
<1>4. CASE pc = "mark"
  <2>1. /\ Done + 1 \in Entries(log) /\ Done + 1 \notin marked
        /\ Len(log) - Cardinality(marked) <= crashes + 1
    BY <1>1, <1>2, <1>4 DEF Accounts, Memory
  <2>2. Cardinality(marked \cup {Done + 1}) = Cardinality(marked) + 1
    BY <1>3, <2>1, FS_AddElement
  <2>3. Cardinality(marked \cup {Done + 1}) <= Cardinality(Entries(log))
    BY <1>1, <1>2, <2>1, LogFinite
  <2> QED BY <1>3, <2>1, <2>2, <2>3
<1>5. CASE pc # "mark"
  <2>1. Len(log) - Cardinality(marked) <= crashes + 0
    BY <1>2, <1>5 DEF Accounts
  <2> QED BY <1>3, <2>1
<1> QED BY <1>4, <1>5

(* If a page fits in the seen file, the events file has no more duplicates *)
(* than the script has been killed, although ids are trimmed off the seen  *)
(* file, windows are read again after a kill and a refused cursor starts   *)
(* the script anew; unless a cold start could not learn the latest ledger  *)
(* and went back to the first one.                                         *)
THEOREM DuplicatesAreKills == WindowFits => (Spec => []DuplicatesNeedCrashes)
<1> SUFFICES ASSUME WindowFits
             PROVE  Spec => []DuplicatesNeedCrashes
  OBVIOUS
<1>1. Init => DupInv
  BY DupInit
<1>2. DupInv /\ [Next]_vars => DupInv'
  BY DupStep
<1>3. DupInv => DuplicatesNeedCrashes
  BY DupCount
<1> QED BY <1>1, <1>2, <1>3, PTL DEF Spec

=============================================================================
