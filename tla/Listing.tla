------------------------------ MODULE Listing ------------------------------
(***************************************************************************)
(* Sequences the way the storage helpers treat them: loops that copy the   *)
(* entries they keep into a new vector, and lists cut into pages and read  *)
(* page by page.  Both are spelled out by the rank of a position rather    *)
(* than with SelectSeq and FlattenSeq, whose recursive definitions the     *)
(* proof system cannot reason about.                                       *)
(***************************************************************************)
EXTENDS Integers, Sequences, FiniteSets

Entries(s) == {s[i] : i \in DOMAIN s}

-----------------------------------------------------------------------------
(* Filters. *)

(* mutant: the filter loop stops one entry short *)
KeptTail(s, X) == {i \in DOMAIN s : s[i] \notin X \/ i = Len(s)}

(* The positions of s outside X: what the filter loops of                  *)
(* remove_from_index leave.                                                *)
Kept(s, X) == {i \in DOMAIN s : s[i] \notin X}

Rank(K, i) == Cardinality({j \in K : j <= i})

(* The entries of s outside X, in order. *)
Without(s, X) ==
  LET kept == Kept(s, X)
  IN [r \in 1 .. Cardinality(kept) |-> s[CHOOSE i \in kept : Rank(kept, i) = r]]

-----------------------------------------------------------------------------
(* Pages. *)

(* A slot is a page and a position on it; slots are read in page order. *)
Slots(ch) == UNION {{c} \X DOMAIN ch[c] : c \in DOMAIN ch}

ReadBy(p, q) == p[1] < q[1] \/ (p[1] = q[1] /\ p[2] <= q[2])

SlotNumber(S, p) == Cardinality({q \in S : ReadBy(q, p)})

(* The list on the pages ch. *)
Flatten(ch) ==
  LET slots == Slots(ch)
      slot(i) == CHOOSE p \in slots : SlotNumber(slots, p) = i
  IN [i \in 1 .. Cardinality(slots) |-> LET p == slot(i) IN ch[p[1]][p[2]]]

(* The list s on pages of the given size. *)
Cut(s, size) ==
  [c \in 1 .. (Len(s) + size - 1) \div size |->
     SubSeq(s, (c - 1) * size + 1, IF c * size <= Len(s) THEN c * size ELSE Len(s))]

=============================================================================
