----------------------------- MODULE Usernames -----------------------------
(***************************************************************************)
(* The username rules of utils.rs: which spellings register accepts, how   *)
(* two spellings are compared, and the fold that turns a spelling into the *)
(* storage key.  They stand for the constants Names and Canon of Registry. *)
(*                                                                         *)
(* A username is a sequence of bytes.  Only the kinds of byte the code     *)
(* tells apart are kept: letters in both cases, digits, hyphen,            *)
(* underscore, other ASCII and the bytes of multi-byte characters.  The    *)
(* two lengths are parameters, so that both are reached by short names.    *)
(***************************************************************************)
EXTENDS Integers, Sequences

SU == INSTANCE SequencesExt

Upper == {"A", "B"}
Lower == [b \in Upper |-> IF b = "A" THEN "a" ELSE "b"]
Alphanumeric == Upper \cup {Lower[b] : b \in Upper} \cup {"1"}

(* make_ascii_lowercase on one byte *)
LowerByte(b) == IF b \in Upper THEN Lower[b] ELSE b

Buffered(s, buf) == Len(s) # 0 /\ Len(s) <= buf

(* The walk of is_valid_github_username: the previous byte was a hyphen,   *)
(* and everything so far was acceptable.                                   *)
WalkByte(w, b) ==
  [hyphen |-> b = "-",
   ok     |-> w.ok /\ IF b = "-" THEN ~w.hyphen ELSE b \in Alphanumeric \cup {"_"}]

IsValidGithubUsername(s, max, buf) ==
  /\ Len(s) <= max
  /\ Buffered(s, buf)
  /\ s[1] \in Alphanumeric /\ s[Len(s)] \in Alphanumeric
  /\ SU!FoldLeft(WalkByte, [hyphen |-> FALSE, ok |-> TRUE], s).ok

EqIgnoreAsciiCase(s, t, buf) ==
  /\ Len(s) = Len(t)
  /\ \/ s = <<>>
     \/ /\ Buffered(s, buf)
        /\ \A i \in DOMAIN s : LowerByte(s[i]) = LowerByte(t[i])

CanonicalizeUsername(s, buf) ==
  IF Buffered(s, buf) THEN [i \in DOMAIN s |-> LowerByte(s[i])] ELSE s

-----------------------------------------------------------------------------
(* The rules as the documentation states them, for comparison. *)

DocumentedlyValid(s, max) ==
  /\ Len(s) \in 1 .. max
  /\ \A i \in DOMAIN s : s[i] \in Alphanumeric \cup {"-", "_"}
  /\ {s[1], s[Len(s)]} \subseteq Alphanumeric
  /\ ~ \E i \in 1 .. Len(s) - 1 : s[i] = "-" /\ s[i + 1] = "-"

=============================================================================
