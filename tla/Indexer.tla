------------------------------ MODULE Indexer ------------------------------
(***************************************************************************)
(* The reference event indexer (scripts/event_indexer.sh): a process that  *)
(* polls the RPC's getEvents, appends every event to a log file, remembers *)
(* the ids it has written in a bounded seen file and, after each page,     *)
(* replaces its cursor file.  The process may be killed between any two of *)
(* its writes and is started again; requests fail; the RPC forgets old     *)
(* events and refuses a cursor that points at them.                        *)
(*                                                                         *)
(* Events are numbered in the order the contract published them, one to a  *)
(* ledger; event e happens in ledger e.  A cursor c stands behind event c. *)
(***************************************************************************)
EXTENDS Integers, Sequences, FiniteSets

CONSTANTS
  MaxEvents,       \* bound on the events published
  PageLimit,       \* PAGE_LIMIT
  SeenMaxLines,    \* SEEN_MAX_LINES
  Lookback,        \* LOOKBACK
  MaxRetries,      \* MAX_RETRIES
  MaxCrashes,      \* bound on kills
  MaxFailures,     \* bound on failed requests
  None             \* the empty string: no cursor

ASSUME IndexerAssumption ==
  /\ MaxEvents \in Nat /\ PageLimit \in Nat \ {0} /\ SeenMaxLines \in Nat \ {0}
  /\ Lookback \in Nat /\ MaxRetries \in Nat \ {0}
  /\ MaxCrashes \in Nat /\ MaxFailures \in Nat
  /\ None \notin Nat

VARIABLES
  published,  \* events so far; also the RPC's latest ledger
  pruned,     \* events the RPC no longer serves
  log,        \* events file: event numbers, one per line
  seen,       \* seen file
  disk,       \* cursor file: cursor and event_count
  pc,         \* down | starting | poll | events | mark | gaveup
  mem,        \* the script's variables
  base,       \* start ledger of the last cold start (history)
  blind,      \* a cold start did not learn the latest ledger (history)
  crashes,    \* kills so far
  failures    \* failed requests so far

chain == <<published, pruned>>
files == <<log, seen, disk>>
faults == <<crashes, failures>>
history == <<base, blind>>
vars == <<chain, files, pc, mem, history, faults>>

Entries(s) == {s[i] : i \in DOMAIN s}

Blank == [cursor |-> None, start |-> 0, total |-> 0, retries |-> 0,
          page |-> <<>>, next |-> 0, appended |-> 0]

TypeOK ==
  /\ published \in 0 .. MaxEvents /\ pruned \in 0 .. published
  /\ log \in Seq(1 .. published) /\ seen \in Seq(1 .. published)
  /\ Len(seen) <= SeenMaxLines
  /\ disk \in [cursor : 0 .. published \cup {None}, count : Nat]
  /\ pc \in {"down", "starting", "poll", "events", "mark", "gaveup"}
  /\ mem \in [cursor : 0 .. published \cup {None}, start : Nat, total : Nat,
              retries : 0 .. MaxRetries, page : Seq(1 .. published),
              next : 0 .. published, appended : 0 .. PageLimit]
  /\ base \in 0 .. MaxEvents /\ blind \in BOOLEAN
  /\ crashes \in 0 .. MaxCrashes /\ failures \in 0 .. MaxFailures

Init ==
  /\ published = 0 /\ pruned = 0
  /\ log = <<>> /\ seen = <<>> /\ disk = [cursor |-> None, count |-> 0]
  /\ pc = "down" /\ mem = Blank
  /\ base = 0 /\ blind = FALSE
  /\ crashes = 0 /\ failures = 0

-----------------------------------------------------------------------------
(* The contract and the RPC. *)

PublishEvent ==
  /\ published < MaxEvents
  /\ published' = published + 1
  /\ UNCHANGED <<pruned, files, pc, mem, history, faults>>

(* The retention window is longer than LOOKBACK. *)
Prune ==
  /\ pruned + 1 < published - Lookback
  /\ pruned' = pruned + 1
  /\ UNCHANGED <<published, files, pc, mem, history, faults>>

(* getEvents from behind a cursor, or from a start ledger. *)
Served(from) ==
  LET last == IF from + PageLimit - 1 <= published THEN from + PageLimit - 1 ELSE published
  IN [i \in 1 .. last - from + 1 |-> from + i - 1]

First == IF mem.cursor = None THEN mem.start ELSE mem.cursor + 1

(* Behind the last event served, or at the head. *)
NextCursor(page) == IF page = <<>> THEN published ELSE page[Len(page)]

-----------------------------------------------------------------------------
(* The script. *)

(* cold_start_ledger; when getLatestLedger fails it starts from ledger 1. *)
ColdStart(l) ==
  \/ /\ l = IF published - Lookback >= 1 THEN published - Lookback ELSE 1
     /\ base' = l
     /\ UNCHANGED <<blind, failures>>
  \/ /\ failures < MaxFailures
     /\ l = 1
     /\ base' = l /\ blind' = TRUE
     /\ failures' = failures + 1

Start ==
  /\ pc \in {"down", "gaveup"}
  /\ pc' = "starting"
  /\ UNCHANGED <<chain, files, mem, history, faults>>

(* main up to the loop. *)
ReadState ==
  /\ pc = "starting"
  /\ pc' = "poll"
  /\ \/ /\ disk.cursor = None
        /\ \E l \in 1 .. MaxEvents :
             /\ ColdStart(l)
             /\ mem' = [Blank EXCEPT !.total = disk.count, !.start = l]
     \/ /\ disk.cursor # None
        /\ mem' = [Blank EXCEPT !.total = disk.count, !.cursor = disk.cursor]
        /\ UNCHANGED <<base, blind, failures>>
  /\ UNCHANGED <<chain, files, crashes>>

(* The request itself fails: back off, give up after MAX_RETRIES of them. *)
RequestFails ==
  /\ pc = "poll" /\ failures < MaxFailures
  /\ failures' = failures + 1
  /\ IF mem.retries + 1 >= MaxRetries
       THEN pc' = "gaveup" /\ mem' = Blank
       ELSE pc' = "poll" /\ mem' = [mem EXCEPT !.retries = @ + 1]
  /\ UNCHANGED <<chain, files, history, crashes>>

(* A page arrives: process_response walks its events. *)
PageArrives ==
  /\ pc = "poll" /\ First > pruned
  /\ mem' = [mem EXCEPT !.retries = 0, !.page = Served(First),
                        !.next = NextCursor(Served(First)), !.appended = 0]
  /\ pc' = "events"
  /\ UNCHANGED <<chain, files, history, faults>>

RetryRejected ==  \* mutant: a refused cursor is sent again
  /\ pc = "poll" /\ mem.cursor # None /\ mem.cursor < pruned
  /\ mem' = [mem EXCEPT !.retries = 1]
  /\ UNCHANGED <<chain, files, pc, history, faults>>

(* The RPC refuses a cursor it has pruned: cold start. *)
CursorRejected ==
  /\ pc = "poll" /\ mem.cursor # None /\ mem.cursor < pruned
  /\ \E l \in 1 .. MaxEvents :
       /\ ColdStart(l)
       /\ mem' = [mem EXCEPT !.retries = 0, !.cursor = None, !.start = l]
  /\ disk' = [cursor |-> None, count |-> mem.total]
  /\ UNCHANGED <<chain, log, seen, pc, crashes>>

(* The RPC answers with any other error, here a start ledger it no longer  *)
(* has.  The answer has already reset `retries', so this counts to one     *)
(* every time.                                                             *)
ErrorAnswer ==
  /\ pc = "poll" /\ mem.cursor = None /\ mem.start <= pruned
  /\ IF MaxRetries <= 1
       THEN pc' = "gaveup" /\ mem' = Blank
       ELSE pc' = "poll" /\ mem' = [mem EXCEPT !.retries = 1]
  /\ UNCHANGED <<chain, files, history, faults>>

NeverSeen(e) == FALSE  \* mutant: every event of the page is new

HaveSeen(e) == e \in Entries(seen)

SkipSeen ==
  /\ pc = "events" /\ mem.page # <<>> /\ HaveSeen(Head(mem.page))
  /\ mem' = [mem EXCEPT !.page = Tail(@)]
  /\ UNCHANGED <<chain, files, pc, history, faults>>

AppendEvent ==
  /\ pc = "events" /\ mem.page # <<>> /\ ~HaveSeen(Head(mem.page))
  /\ log' = Append(log, Head(mem.page))
  /\ pc' = "mark"
  /\ UNCHANGED <<chain, seen, disk, mem, history, faults>>

TrimNothing(s) == s  \* mutant: the seen file grows

Trimmed(s) ==
  IF Len(s) > SeenMaxLines THEN SubSeq(s, Len(s) - SeenMaxLines + 1, Len(s)) ELSE s

MarkSeen ==
  /\ pc = "mark"
  /\ seen' = Trimmed(Append(seen, Head(mem.page)))
  /\ mem' = [mem EXCEPT !.page = Tail(@), !.appended = @ + 1]
  /\ pc' = "events"
  /\ UNCHANGED <<chain, log, disk, history, faults>>

PageStarted == pc = "events"  \* mutant: the cursor is saved before the events are

PageDone == pc = "events" /\ mem.page = <<>>

(* write_cursor, an atomic replacement of the file. *)
WriteCursor ==
  /\ PageDone
  /\ disk' = [cursor |-> mem.next, count |-> mem.total + mem.appended]
  /\ mem' = [Blank EXCEPT !.cursor = mem.next, !.total = mem.total + mem.appended]
  /\ pc' = "poll"
  /\ UNCHANGED <<chain, log, seen, history, faults>>

(* kill -9, power loss: what is not in a file is gone.  (SIGTERM lets the  *)
(* page finish first: the same step, at "poll".)                           *)
Crash ==
  /\ pc \notin {"down", "gaveup"} /\ crashes < MaxCrashes
  /\ crashes' = crashes + 1
  /\ pc' = "down" /\ mem' = Blank
  /\ UNCHANGED <<chain, files, history, failures>>

Step ==
  \/ Start \/ ReadState
  \/ PageArrives \/ CursorRejected \/ ErrorAnswer
  \/ SkipSeen \/ AppendEvent \/ MarkSeen
  \/ WriteCursor

Next == Step \/ RequestFails \/ Crash \/ PublishEvent \/ Prune

(* A running script takes its next step and a stopped one is started again *)
(* (it is meant for a supervisor or cron); requests fail, and the process  *)
(* is killed, finitely often.                                              *)
Spec == Init /\ [][Next]_vars /\ WF_vars(Step)

-----------------------------------------------------------------------------
(* Properties. *)

(* The cursor file never runs ahead of the log: whatever was killed when,  *)
(* every event from the last cold start up to the stored cursor is in the  *)
(* events file, so a restart resumes without a gap.                        *)
CursorCoversLog ==
  disk.cursor # None => base .. disk.cursor \subseteq Entries(log)

(* The seen file keeps the log nearly free of duplicates: a line is        *)
(* written twice only when the process was killed between the append and   *)
(* the entry in the seen file, so there are no more duplicates than kills, *)
(* although the seen file is trimmed and pages and windows are re-read.    *)
(* (Unless a cold start went all the way back to ledger 1 because it could *)
(* not ask for the latest one: then the seen file may be too short.)       *)
DuplicatesNeedCrashes ==
  ~blind => Len(log) - Cardinality(Entries(log)) <= crashes

(* Asking for a start ledger the RPC has dropped since it was chosen. *)
Stuck == pc = "poll" /\ mem.cursor = None /\ mem.start <= pruned

(* Every event is logged in the end, through crashes, failed requests and  *)
(* a pruned cursor, unless it fell before a cold start or the script is    *)
(* stuck on a start ledger that was pruned under it.                       *)
EventsReachLog ==
  \A e \in 1 .. MaxEvents :
    published >= e ~> (e \in Entries(log) \/ e < base \/ Stuck)

(* The header of the script: MAX_RETRIES is the number of "consecutive RPC *)
(* failures tolerated before giving up".  A script whose every request is  *)
(* answered with an error does not go on asking for ever.                  *)
GivesUpOnErrors == []<>~Stuck

=============================================================================
