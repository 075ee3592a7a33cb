-------------------------- MODULE AbstractRegistry --------------------------
(***************************************************************************)
(* What the registry promises the dashboard and the payout scripts, with   *)
(* no counters, indexes, timers or roles: a binding of usernames to        *)
(* holders and the set of usernames somebody vouched for.                  *)
(*                                                                         *)
(*   - a username has at most one holder, never the burn address;          *)
(*   - vouching is for one holder of one name: it ends when the holder     *)
(*     changes, when the name moves and when the name is released;         *)
(*   - a name that is taken is not taken over by moving another onto it;   *)
(*   - nothing changes while the registry is closed.                       *)
(***************************************************************************)
CONSTANTS
  Usernames,  \* folded usernames
  Holders,    \* addresses a username may be bound to
  Nobody      \* no holder

VARIABLES
  holder,   \* the holder of each username, or Nobody
  vouched,  \* the usernames vouched for
  open      \* not paused

Bound == {u \in Usernames : holder[u] # Nobody}

Init ==
  /\ holder = [u \in Usernames |-> Nobody]
  /\ vouched = {}
  /\ open \in BOOLEAN

Claim(u, h) ==
  /\ u \notin Bound
  /\ holder' = [holder EXCEPT ![u] = h]
  /\ UNCHANGED vouched

Transfer(u, h) ==
  /\ u \in Bound /\ holder[u] # h
  /\ holder' = [holder EXCEPT ![u] = h]
  /\ vouched' = vouched \ {u}

Vouch(U) ==
  /\ U \subseteq Bound
  /\ vouched' = vouched \cup U
  /\ UNCHANGED holder

Withdraw(u) ==
  /\ vouched' = vouched \ {u}
  /\ UNCHANGED holder

Release(U) ==
  /\ holder' = [u \in Usernames |-> IF u \in U THEN Nobody ELSE holder[u]]
  /\ vouched' = vouched \ U

Move(u, v) ==
  /\ u \in Bound /\ v \notin Bound
  /\ holder' = [holder EXCEPT ![u] = Nobody, ![v] = holder[u]]
  /\ vouched' = vouched \ {u}

Operate ==
  /\ open
  /\ UNCHANGED open
  /\ \/ \E u \in Usernames, h \in Holders : Claim(u, h) \/ Transfer(u, h)
     \/ \E u \in Usernames : Withdraw(u)
     \/ \E U \in SUBSET Usernames : Vouch(U) \/ Release(U)
     \/ \E u, v \in Usernames : Move(u, v)

OpenOrClose ==
  /\ open' \in BOOLEAN
  /\ UNCHANGED <<holder, vouched>>

Next == Operate \/ OpenOrClose

Spec == Init /\ [][Next]_<<holder, vouched, open>>

=============================================================================
