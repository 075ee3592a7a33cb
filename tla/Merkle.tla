------------------------------- MODULE Merkle -------------------------------
(***************************************************************************)
(* The Merkle tree over one export page (src/merkle.rs).  SHA-256 is       *)
(* modelled as free constructors: two hashes are equal only when they were *)
(* made of equal parts, and the domain prefixes keep leaves and nodes      *)
(* apart.                                                                  *)
(***************************************************************************)
EXTENDS Integers, Sequences

LeafHash(n, a, v) == <<"leaf", n, a, v>>

NodeHash(left, right) == <<"node", left, right>>

(* The all-zero sentinel. *)
EmptyRoot == <<"zero">>

(* One pass of root_of: pairs are hashed, an odd node out moves up as is. *)
NextLevel(level) ==
  [i \in 1 .. (Len(level) + 1) \div 2 |->
     IF 2*i <= Len(level) THEN NodeHash(level[2*i - 1], level[2*i]) ELSE level[2*i - 1]]

(* The levels from the leaves up; one node alone stays where it is, so the *)
(* last of Len(leaves) passes has finished.                                *)
Levels(leaves) ==
  LET Level[h \in 0 .. Len(leaves)] ==
        IF h = 0 THEN leaves ELSE NextLevel(Level[h - 1])
  IN Level

RootOf(leaves) ==
  IF leaves = <<>> THEN EmptyRoot ELSE Levels(leaves)[Len(leaves)][1]

RootOfRecords(records) ==
  RootOf([i \in DOMAIN records |->
            LeafHash(records[i].name, records[i].record.addr, records[i].record.verified)])

-----------------------------------------------------------------------------
(* What off-chain tooling rebuilds from the format described in merkle.rs. *)

(* The hash a verifier arrives at from `leaf' at position i with the       *)
(* siblings of the page's tree: a node without a sibling moves up.         *)
RootFromLeaf(leaf, i, leaves) ==
  LET Sibling(p) == IF p % 2 = 1 THEN p + 1 ELSE p - 1
      Climb[h \in 0 .. Len(leaves)] ==
        IF h = 0
          THEN [at |-> i, hash |-> leaf]
          ELSE LET below == Climb[h - 1]
                   level == Levels(leaves)[h - 1]
                   sib   == Sibling(below.at)
               IN [at   |-> (below.at + 1) \div 2,
                   hash |-> CASE sib > Len(level) -> below.hash
                              [] sib \in below.at .. Len(level) ->
                                   NodeHash(below.hash, level[sib])
                              [] OTHER -> NodeHash(level[sib], below.hash)]
  IN Climb[Len(leaves)].hash

PowersOfTwo(n) ==
  LET Pow[e \in 0 .. n] == IF e = 0 THEN 1 ELSE 2 * Pow[e - 1]
  IN Pow

(* The largest power of two below m, for m up to n. *)
SplitAt(m, n) ==
  CHOOSE k \in {PowersOfTwo(n)[e] : e \in 0 .. n} : k < m /\ m <= 2*k

(* The same tree top down: every node splits its leaves after the largest  *)
(* power of two below their number, as in RFC 6962.                        *)
SplitRoot(leaves) ==
  LET n == Len(leaves)
      Runs == {w \in (1 .. n) \X (1 .. n) : w[1] + w[2] <= n + 1}
      Hash[w \in Runs] ==  \* of the w[2] leaves from w[1] on
        IF w[2] = 1
          THEN leaves[w[1]]
          ELSE NodeHash(Hash[<<w[1], SplitAt(w[2], n)>>],
                        Hash[<<w[1] + SplitAt(w[2], n), w[2] - SplitAt(w[2], n)>>])
  IN IF leaves = <<>> THEN EmptyRoot ELSE Hash[<<1, n>>]

=============================================================================
