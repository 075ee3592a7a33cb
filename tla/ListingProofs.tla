--------------------------- MODULE ListingProofs ---------------------------
(***************************************************************************)
(* Facts about filtered and paged lists, for every list.                   *)
(***************************************************************************)
EXTENDS Listing, FiniteSetTheorems, SequenceTheorems, TLAPS

(* Positions are counted from 1. *)
LEMMA PositionsCounted == \A n \in Nat : IsFiniteSet(1 .. n) /\ Cardinality(1 .. n) = n
  BY FS_Interval

-----------------------------------------------------------------------------
(* Counting. *)

(* Rank numbers the members of a finite set of positions from 1, in order, *)
(* and reaches every number up to the size of the set.                     *)
LEMMA RankNumbers ==
  ASSUME NEW K, K \subseteq Nat, IsFiniteSet(K)
  PROVE  /\ Cardinality(K) \in Nat
         /\ \A i \in K : Rank(K, i) \in 1 .. Cardinality(K)
         /\ \A i, j \in K : i < j => Rank(K, i) < Rank(K, j)
         /\ \A r \in 1 .. Cardinality(K) : \E i \in K : Rank(K, i) = r
<1> DEFINE Upto(i) == {j \in K : j <= i}
           f == [i \in K |-> Rank(K, i)]
<1>1. \A i \in K : IsFiniteSet(Upto(i)) /\ Cardinality(Upto(i)) \in Nat
  BY FS_Subset, FS_CardinalityType
<1>2. Cardinality(K) \in Nat
  BY FS_CardinalityType
<1>3. ASSUME NEW i \in K PROVE Rank(K, i) \in 1 .. Cardinality(K)
  <2>1. Cardinality(Upto(i)) <= Cardinality(K)
    BY FS_Subset
  <2>2. Cardinality(Upto(i)) # 0
    <3>1. i \in Upto(i)
      OBVIOUS
    <3> QED BY <3>1, <1>1, FS_EmptySet
  <2> QED BY <1>1, <1>2, <2>1, <2>2 DEF Rank
<1>4. ASSUME NEW i \in K, NEW j \in K, i < j PROVE Rank(K, i) < Rank(K, j)
  <2>1. Upto(i) \in SUBSET Upto(j)
    <3>1. \A x \in K : x \in Nat
      OBVIOUS
    <3>2. \A x \in K : x <= i => x <= j
      BY <1>4, <3>1
    <3> QED BY <3>2
  <2>2. Upto(i) # Upto(j)
    <3>1. j \in Upto(j) /\ j \notin Upto(i)
      BY <1>4
    <3> QED BY <3>1
  <2>3. /\ Cardinality(Upto(i)) <= Cardinality(Upto(j))
        /\ Cardinality(Upto(j)) = Cardinality(Upto(i)) => Upto(j) = Upto(i)
    BY <1>1, <2>1, FS_Subset
  <2> QED BY <1>1, <2>2, <2>3 DEF Rank
<1>5. f \in Injection(K, 1 .. Cardinality(K))
  <2>1. f \in [K -> 1 .. Cardinality(K)]
    BY <1>3
  <2>2. ASSUME NEW i \in K, NEW j \in K, f[i] = f[j] PROVE i = j
    <3>1. Rank(K, i) \in Nat /\ Rank(K, j) \in Nat
      BY <1>2, <1>3
    <3>2. Rank(K, i) = Rank(K, j)
      BY <2>2
    <3>3. ~(i < j) /\ ~(j < i)
      BY <1>4, <3>1, <3>2
    <3> QED BY <3>3
  <2> QED BY <2>1, <2>2 DEF Injection, IsInjective
<1>6. f \in Surjection(K, 1 .. Cardinality(K))
  <2>1. /\ IsFiniteSet(1 .. Cardinality(K))
        /\ Cardinality(1 .. Cardinality(K)) = Cardinality(K)
    BY <1>2, FS_Interval
  <2> HIDE DEF f
  <2> QED BY <1>5, <2>1, FS_Injection
<1>7. \A r \in 1 .. Cardinality(K) : \E i \in K : Rank(K, i) = r
  BY <1>6 DEF Surjection
<1> QED BY <1>2, <1>3, <1>4, <1>7

(* Induction, by the least counterexample: the members of a set are the    *)
(* numbers for which a statement holds.                                    *)
LEMMA CountingUp ==
  ASSUME NEW G, 0 \in G, \A n \in Nat : n \in G => n + 1 \in G
  PROVE  Nat \subseteq G
<1> SUFFICES ASSUME NEW n \in Nat, n \notin G PROVE FALSE
  OBVIOUS
<1> DEFINE K == {i \in 0 .. n : i \notin G}
<1>1. K \subseteq Nat /\ n \in K
  OBVIOUS
<1>2. IsFiniteSet(K)
  <2>1. IsFiniteSet(0 .. n)
    BY FS_Interval
  <2> QED BY <2>1, FS_Subset
<1>3. PICK i \in K : Rank(K, i) = 1
  <2> HIDE DEF K
  <2>1. Cardinality(K) \in Nat /\ Cardinality(K) # 0
    BY <1>1, <1>2, FS_CardinalityType, FS_EmptySet
  <2>2. 1 \in 1 .. Cardinality(K)
    BY <2>1
  <2> QED BY <1>1, <1>2, <2>2, RankNumbers
<1>4. i \in Nat /\ i # 0
  OBVIOUS
<1>5. i - 1 \in Nat /\ (i - 1) + 1 = i
  BY <1>4
<1>6. i - 1 \in K /\ i - 1 < i
  BY <1>4, <1>5
<1>7. Rank(K, i - 1) \in 1 .. Cardinality(K) /\ Rank(K, i - 1) < Rank(K, i)
  <2> HIDE DEF K
  <2>1. i \in K /\ i - 1 \in K /\ i - 1 < i
    BY <1>6
  <2> QED BY <1>1, <1>2, <2>1, RankNumbers
<1> QED BY <1>2, <1>3, <1>7, FS_CardinalityType

(* The same over the subsets of a finite set, one member at a time. *)
LEMMA TakingAway ==
  ASSUME NEW E, IsFiniteSet(E), NEW G, {} \in G,
         \A S \in SUBSET E : S # {} /\ (\A e \in S : S \ {e} \in G) => S \in G
  PROVE  SUBSET E \subseteq G
<1> DEFINE H == {n \in Nat : \A S \in SUBSET E : Cardinality(S) = n => S \in G}
<1>1. \A S \in SUBSET E : IsFiniteSet(S) /\ Cardinality(S) \in Nat
  BY FS_Subset, FS_CardinalityType
<1>2. 0 \in H
  BY <1>1, FS_EmptySet
<1>3. ASSUME NEW n \in Nat, n \in H PROVE n + 1 \in H
  <2> SUFFICES ASSUME NEW S \in SUBSET E, Cardinality(S) = n + 1 PROVE S \in G
    OBVIOUS
  <2>1. S # {}
    <3>1. Cardinality(S) # 0
      OBVIOUS
    <3> QED BY <3>1, FS_EmptySet
  <2>2. ASSUME NEW e \in S PROVE S \ {e} \in G
    <3>1. Cardinality(S \ {e}) = n /\ S \ {e} \in SUBSET E
      BY <1>1, FS_RemoveElement
    <3> QED BY <1>3, <3>1
  <2> QED BY <2>1, <2>2
<1>4. Nat \subseteq H
  <2> HIDE DEF H
  <2> QED BY <1>2, <1>3, CountingUp
<1> QED BY <1>1, <1>4

-----------------------------------------------------------------------------
(* The filter loops. *)

(* Filtering a sequence keeps its type, drops exactly the entries of X,    *)
(* and creates no duplicates.                                              *)
LEMMA WithoutFacts ==
  ASSUME NEW S, NEW s \in Seq(S), NEW X
  PROVE  /\ Without(s, X) \in Seq(S)
         /\ Entries(Without(s, X)) = Entries(s) \ X
         /\ (\A i, j \in DOMAIN s : s[i] = s[j] => i = j)
              => \A i, j \in DOMAIN Without(s, X) :
                   Without(s, X)[i] = Without(s, X)[j] => i = j
<1> DEFINE K == Kept(s, X)
           pick(r) == CHOOSE i \in K : Rank(K, i) = r
           t == Without(s, X)
<1>1. K \subseteq DOMAIN s /\ DOMAIN s = 1 .. Len(s) /\ Len(s) \in Nat
  BY LenProperties DEF Kept
<1>2. IsFiniteSet(K) /\ K \subseteq Nat
  <2>1. IsFiniteSet(1 .. Len(s))
    BY <1>1, FS_Interval
  <2> QED BY <1>1, <2>1, FS_Subset
<1> HIDE DEF K
<1>3. \A r \in 1 .. Cardinality(K) : pick(r) \in K /\ Rank(K, pick(r)) = r
  BY <1>2, RankNumbers
<1>4. /\ Cardinality(K) \in Nat
      /\ \A i \in K : Rank(K, i) \in 1 .. Cardinality(K)
  BY <1>2, RankNumbers
<1>5. \A i, j \in K : i < j => Rank(K, i) < Rank(K, j)
  BY <1>2, RankNumbers
<1>6. t = [r \in 1 .. Cardinality(K) |-> s[pick(r)]]
  BY DEF K, Without
<1> HIDE DEF t, pick
<1>7. \A i \in K : pick(Rank(K, i)) = i
  <2> SUFFICES ASSUME NEW i \in K PROVE pick(Rank(K, i)) = i
    OBVIOUS
  <2>1. /\ pick(Rank(K, i)) \in K
        /\ Rank(K, pick(Rank(K, i))) = Rank(K, i)
    BY <1>3, <1>4
  <2>2. /\ pick(Rank(K, i)) \in Nat /\ i \in Nat
        /\ Rank(K, i) \in Nat
    <3>1. pick(Rank(K, i)) \in Nat /\ i \in Nat
      BY <1>2, <2>1
    <3>2. Rank(K, i) \in 1 .. Cardinality(K) /\ Cardinality(K) \in Nat
      BY <1>4
    <3> QED BY <3>1, <3>2
  <2>3. ~(pick(Rank(K, i)) < i) /\ ~(i < pick(Rank(K, i)))
    BY <1>5, <2>1, <2>2
  <2> QED BY <2>2, <2>3
<1>8. \A r \in 1 .. Cardinality(K) : t[r] = s[pick(r)] /\ s[pick(r)] \in S
  BY <1>1, <1>3, <1>6, ElementOfSeq
<1>9. DOMAIN t = 1 .. Cardinality(K)
  BY <1>6
<1>10. t \in Seq(S)
  BY <1>4, <1>6, <1>8
<1>11. Entries(t) = Entries(s) \ X
  <2>1. ASSUME NEW r \in DOMAIN t PROVE t[r] \in Entries(s) \ X
    <3>1. pick(r) \in K
      BY <1>3, <1>9
    <3> QED BY <1>1, <1>8, <1>9, <3>1 DEF Entries, K, Kept
  <2>2. ASSUME NEW i \in DOMAIN s, s[i] \notin X PROVE s[i] \in Entries(t)
    <3>1. i \in K
      BY <2>2 DEF K, Kept
    <3>2. Rank(K, i) \in DOMAIN t /\ t[Rank(K, i)] = s[i]
      BY <1>4, <1>7, <1>8, <1>9, <3>1
    <3> QED BY <3>2 DEF Entries
  <2> QED BY <2>1, <2>2 DEF Entries
<1>12. ASSUME \A i, j \in DOMAIN s : s[i] = s[j] => i = j,
              NEW i \in DOMAIN t, NEW j \in DOMAIN t, t[i] = t[j]
       PROVE  i = j
  <2>1. pick(i) \in DOMAIN s /\ pick(j) \in DOMAIN s /\ s[pick(i)] = s[pick(j)]
    BY <1>1, <1>3, <1>8, <1>9, <1>12
  <2>2. pick(i) = pick(j)
    BY <1>12, <2>1
  <2> QED BY <1>3, <1>9, <2>2
<1> QED BY <1>10, <1>11, <1>12 DEF t

(* Where a kept entry goes. *)
LEMMA WithoutRanks ==
  ASSUME NEW S, NEW s \in Seq(S), NEW X
  PROVE  /\ Kept(s, X) \subseteq DOMAIN s /\ Kept(s, X) \subseteq Nat
         /\ IsFiniteSet(Kept(s, X)) /\ Cardinality(Kept(s, X)) \in Nat
         /\ DOMAIN Without(s, X) = 1 .. Cardinality(Kept(s, X))
         /\ Len(Without(s, X)) = Cardinality(Kept(s, X))
         /\ \A i \in Kept(s, X) : Without(s, X)[Rank(Kept(s, X), i)] = s[i]
         /\ \A i, j \in Kept(s, X) : Rank(Kept(s, X), i) = Rank(Kept(s, X), j) => i = j
<1> DEFINE K == Kept(s, X)
           pick(r) == CHOOSE i \in K : Rank(K, i) = r
<1>1. K \subseteq DOMAIN s /\ DOMAIN s = 1 .. Len(s) /\ Len(s) \in Nat
  BY LenProperties DEF Kept
<1>2. IsFiniteSet(K) /\ K \subseteq Nat
  <2>1. IsFiniteSet(1 .. Len(s))
    BY <1>1, PositionsCounted
  <2> QED BY <1>1, <2>1, FS_Subset
<1>3. Without(s, X) = [r \in 1 .. Cardinality(K) |-> s[pick(r)]]
  BY DEF Without
<1> HIDE DEF K
<1>4. /\ Cardinality(K) \in Nat
      /\ \A i \in K : Rank(K, i) \in 1 .. Cardinality(K)
      /\ \A i, j \in K : i < j => Rank(K, i) < Rank(K, j)
  BY <1>2, RankNumbers
<1>5. \A i, j \in K : Rank(K, i) = Rank(K, j) => i = j
  <2> SUFFICES ASSUME NEW i \in K, NEW j \in K, Rank(K, i) = Rank(K, j) PROVE i = j
    OBVIOUS
  <2>1. i \in Nat /\ j \in Nat /\ Rank(K, i) \in 1 .. Cardinality(K)
    BY <1>2, <1>4
  <2>2. ~(i < j) /\ ~(j < i)
    BY <1>4, <2>1
  <2> QED BY <2>1, <2>2
<1>6. \A i \in K : pick(Rank(K, i)) = i
  BY <1>5
<1> HIDE DEF pick
<1>7. \A i \in K : Without(s, X)[Rank(K, i)] = s[i]
  BY <1>3, <1>4, <1>6
<1>8. DOMAIN Without(s, X) = 1 .. Cardinality(K) /\ Len(Without(s, X)) = Cardinality(K)
  <2>1. DOMAIN Without(s, X) = 1 .. Cardinality(K)
    BY <1>3
  <2>2. Without(s, X) \in Seq(S)
    BY WithoutFacts
  <2> QED BY <1>4, <2>1, <2>2, LenProperties
<1> QED BY <1>1, <1>2, <1>4, <1>5, <1>7, <1>8 DEF K

(* Only what the sequence contains matters of the set to drop. *)
LEMMA WithoutSame ==
  ASSUME NEW s, NEW X, NEW Y, Entries(s) \cap X = Entries(s) \cap Y
  PROVE  Without(s, X) = Without(s, Y)
<1>1. Kept(s, X) = Kept(s, Y)
  BY DEF Kept, Entries
<1> QED BY <1>1 DEF Without

(* Filtering out what a sequence does not contain leaves it as it is. *)
LEMMA WithoutNothing ==
  ASSUME NEW S, NEW s \in Seq(S), NEW X, Entries(s) \cap X = {}
  PROVE  Without(s, X) = s
<1>1. DOMAIN s = 1 .. Len(s) /\ Len(s) \in Nat
  BY LenProperties
<1>2. Kept(s, X) = 1 .. Len(s)
  BY <1>1 DEF Kept, Entries
<1>3. Cardinality(1 .. Len(s)) = Len(s)
  BY <1>1, FS_Interval
<1>4. ASSUME NEW i \in 1 .. Len(s) PROVE Rank(1 .. Len(s), i) = i
  <2>1. {j \in 1 .. Len(s) : j <= i} = 1 .. i
    BY <1>1
  <2>2. Cardinality(1 .. i) = i
    BY <1>1, FS_Interval
  <2> QED BY <2>1, <2>2 DEF Rank
<1> DEFINE pick(r) == CHOOSE i \in 1 .. Len(s) : Rank(1 .. Len(s), i) = r
<1>5. \A r \in 1 .. Len(s) : pick(r) = r
  BY <1>4
<1>6. Without(s, X) = [r \in 1 .. Len(s) |-> s[pick(r)]]
  BY <1>2, <1>3 DEF Without
<1> HIDE DEF pick
<1> QED BY <1>1, <1>5, <1>6

(* A filtered list is no longer than the list. *)
LEMMA WithoutShorter ==
  ASSUME NEW S, NEW s \in Seq(S), NEW X
  PROVE  Len(Without(s, X)) <= Len(s)
<1> DEFINE K == Kept(s, X)
<1>1. Len(s) \in Nat /\ DOMAIN s = 1 .. Len(s)
  BY LenProperties
<1>2. /\ K \subseteq DOMAIN s /\ IsFiniteSet(K) /\ Cardinality(K) \in Nat
      /\ Len(Without(s, X)) = Cardinality(K)
  BY WithoutRanks
<1> HIDE DEF K
<1>3. Cardinality(K) <= Len(s)
  BY <1>1, <1>2, PositionsCounted, FS_Subset
<1> QED BY <1>2, <1>3

(* A list without repetition is no longer than the set it draws from. *)
LEMMA ListedAtMostOnce ==
  ASSUME NEW S, NEW s \in Seq(S), IsFiniteSet(S),
         \A i, j \in DOMAIN s : s[i] = s[j] => i = j
  PROVE  Len(s) \in Nat /\ Len(s) <= Cardinality(S)
<1> DEFINE f == [i \in DOMAIN s |-> s[i]]
<1>1. Len(s) \in Nat /\ DOMAIN s = 1 .. Len(s)
  BY LenProperties
<1>2. IsFiniteSet(DOMAIN s) /\ Cardinality(DOMAIN s) = Len(s)
  BY <1>1, PositionsCounted
<1>3. f \in Injection(DOMAIN s, S)
  <2>1. \A i \in DOMAIN s : s[i] \in S
    BY <1>1, ElementOfSeq
  <2> QED BY <2>1 DEF Injection, IsInjective
<1> HIDE DEF f
<1>4. Cardinality(DOMAIN s) <= Cardinality(S)
  BY <1>2, <1>3, FS_Injection
<1> QED BY <1>1, <1>2, <1>4

(* A sequence with one more entry that it did not have. *)
LEMMA AppendFacts ==
  ASSUME NEW S, NEW s \in Seq(S), NEW k \in S
  PROVE  /\ Append(s, k) \in Seq(S)
         /\ Entries(Append(s, k)) = Entries(s) \cup {k}
         /\ (\A i, j \in DOMAIN s : s[i] = s[j] => i = j) /\ k \notin Entries(s)
              => \A i, j \in DOMAIN Append(s, k) :
                   Append(s, k)[i] = Append(s, k)[j] => i = j
<1> DEFINE t == Append(s, k)
<1>1. /\ t \in Seq(S) /\ Len(t) = Len(s) + 1 /\ Len(s) \in Nat
      /\ \A i \in 1 .. Len(s) : t[i] = s[i]
      /\ t[Len(s) + 1] = k
      /\ DOMAIN s = 1 .. Len(s) /\ DOMAIN t = 1 .. Len(s) + 1
  BY AppendProperties, LenProperties
<1> HIDE DEF t
<1>2. \A i \in DOMAIN t : i \in DOMAIN s \/ i = Len(s) + 1
  BY <1>1
<1>3. Entries(t) = Entries(s) \cup {k}
  <2>1. \A i \in DOMAIN t : t[i] \in Entries(s) \cup {k}
    BY <1>1, <1>2 DEF Entries
  <2>2. \A i \in DOMAIN s : s[i] \in Entries(t)
    BY <1>1 DEF Entries
  <2>3. k \in Entries(t)
    BY <1>1 DEF Entries
  <2> QED BY <2>1, <2>2, <2>3 DEF Entries
<1>4. ASSUME \A i, j \in DOMAIN s : s[i] = s[j] => i = j, k \notin Entries(s),
             NEW i \in DOMAIN t, NEW j \in DOMAIN t, t[i] = t[j]
      PROVE  i = j
  <2>1. \A x \in DOMAIN s : t[x] = s[x] /\ s[x] # k
    BY <1>1, <1>4 DEF Entries
  <2>2. (i \in DOMAIN s \/ i = Len(s) + 1) /\ (j \in DOMAIN s \/ j = Len(s) + 1)
    BY <1>2
  <2> QED BY <1>1, <1>4, <2>1, <2>2
<1> QED BY <1>1, <1>3, <1>4 DEF t

-----------------------------------------------------------------------------
(* Pages. *)

(* Cutting a list into pages makes pages of its entries. *)
LEMMA CutType ==
  ASSUME NEW S, NEW s \in Seq(S), NEW size \in Nat \ {0}
  PROVE  Cut(s, size) \in Seq(Seq(S))
<1> DEFINE N == (Len(s) + size - 1) \div size
           last(c) == IF c * size <= Len(s) THEN c * size ELSE Len(s)
           page(c) == SubSeq(s, (c - 1) * size + 1, last(c))
<1>1. Len(s) \in Nat /\ size \in Nat /\ size > 0
  BY LenProperties
<1>2. N \in Nat
  BY <1>1, SMT
<1>3. ASSUME NEW c \in 1 .. N PROVE page(c) \in Seq(S)
  <2>1. (c - 1) * size \in Nat /\ c * size \in Nat
    BY <1>1, <1>2
  <2>2. last(c) \in Int /\ last(c) <= Len(s) /\ (c - 1) * size + 1 \in Int
    BY <1>1, <2>1
  <2>3. \A i \in (c - 1) * size + 1 .. last(c) : i \in 1 .. Len(s)
    BY <1>1, <2>1, <2>2
  <2>4. \A i \in (c - 1) * size + 1 .. last(c) : s[i] \in S
    BY <2>3, ElementOfSeq
  <2> QED BY <2>2, <2>4, SubSeqProperties
<1>4. Cut(s, size) = [c \in 1 .. N |-> page(c)]
  BY DEF Cut
<1> HIDE DEF N, page
<1> QED BY <1>2, <1>3, <1>4

(* The slots of finitely many finite pages are finitely many, and page     *)
(* order is a total order of them.                                         *)
LEMMA SlotFacts ==
  ASSUME NEW S, NEW ch \in Seq(Seq(S))
  PROVE  /\ IsFiniteSet(Slots(ch)) /\ Cardinality(Slots(ch)) \in Nat
         /\ \A c, i : <<c, i>> \in Slots(ch) <=> c \in DOMAIN ch /\ i \in DOMAIN ch[c]
         /\ \A p \in Slots(ch) : /\ p = <<p[1], p[2]>> /\ p[1] \in Nat /\ p[2] \in Nat
                                 /\ p[1] \in DOMAIN ch /\ p[2] \in DOMAIN ch[p[1]]
                                 /\ ch[p[1]][p[2]] \in S
         /\ \A p, q \in Slots(ch) : ReadBy(p, q) \/ ReadBy(q, p)
         /\ \A p, q \in Slots(ch) : ReadBy(p, q) /\ ReadBy(q, p) => p = q
         /\ \A p, q, r \in Slots(ch) : ReadBy(p, q) /\ ReadBy(q, r) => ReadBy(p, r)
<1> DEFINE Column(c) == {c} \X DOMAIN ch[c]
<1>1. DOMAIN ch = 1 .. Len(ch) /\ Len(ch) \in Nat
  BY LenProperties
<1>2. \A c \in DOMAIN ch : /\ ch[c] \in Seq(S) /\ Len(ch[c]) \in Nat
                           /\ DOMAIN ch[c] = 1 .. Len(ch[c])
  BY <1>1, ElementOfSeq, LenProperties
<1>3. \A c, i : <<c, i>> \in Slots(ch) <=> c \in DOMAIN ch /\ i \in DOMAIN ch[c]
  BY DEF Slots
<1>4. ASSUME NEW p \in Slots(ch)
      PROVE  /\ p = <<p[1], p[2]>> /\ p[1] \in Nat /\ p[2] \in Nat
             /\ p[1] \in DOMAIN ch /\ p[2] \in DOMAIN ch[p[1]]
             /\ ch[p[1]][p[2]] \in S
  <2>1. PICK c \in DOMAIN ch : p \in {c} \X DOMAIN ch[c]
    BY DEF Slots
  <2>2. p = <<p[1], p[2]>> /\ p[1] = c /\ p[2] \in DOMAIN ch[c]
    BY <2>1
  <2>3. c \in Nat /\ p[2] \in Nat
    BY <1>1, <1>2, <2>2
  <2>4. ch[c][p[2]] \in S
    BY <1>2, <2>2, ElementOfSeq
  <2> QED BY <2>2, <2>3, <2>4
<1>5. IsFiniteSet(Slots(ch))
  <2>1. \A c \in DOMAIN ch : IsFiniteSet(Column(c))
    <3> SUFFICES ASSUME NEW c \in DOMAIN ch PROVE IsFiniteSet(Column(c))
      OBVIOUS
    <3>1. IsFiniteSet({c})
      BY FS_Singleton
    <3>2. Len(ch[c]) \in Int /\ DOMAIN ch[c] = 1 .. Len(ch[c])
      BY <1>2
    <3>3. IsFiniteSet(DOMAIN ch[c])
      BY <3>2, FS_Interval
    <3> QED BY <3>1, <3>3, FS_Product
  <2>2. IsFiniteSet({Column(c) : c \in DOMAIN ch})
    <3> DEFINE g == [c \in DOMAIN ch |-> Column(c)]
    <3> HIDE DEF Column
    <3>1. g \in Surjection(DOMAIN ch, {Column(c) : c \in DOMAIN ch})
      BY DEF Surjection
    <3>2. IsFiniteSet(DOMAIN ch)
      BY <1>1, FS_Interval
    <3> HIDE DEF g
    <3> QED BY <3>1, <3>2, FS_Surjection
  <2>3. Slots(ch) = UNION {Column(c) : c \in DOMAIN ch}
    BY DEF Slots
  <2> HIDE DEF Column
  <2>4. \A T \in {Column(c) : c \in DOMAIN ch} : IsFiniteSet(T)
    BY <2>1
  <2> QED BY <2>2, <2>3, <2>4, FS_UNION
<1>6. Cardinality(Slots(ch)) \in Nat
  BY <1>5, FS_CardinalityType
<1>7. \A p, q \in Slots(ch) : ReadBy(p, q) \/ ReadBy(q, p)
  <2> SUFFICES ASSUME NEW p \in Slots(ch), NEW q \in Slots(ch)
               PROVE  ReadBy(p, q) \/ ReadBy(q, p)
    OBVIOUS
  <2>1. p[1] \in Nat /\ p[2] \in Nat /\ q[1] \in Nat /\ q[2] \in Nat
    BY <1>4
  <2> QED BY <2>1 DEF ReadBy
<1>8. \A p, q \in Slots(ch) : ReadBy(p, q) /\ ReadBy(q, p) => p = q
  <2> SUFFICES ASSUME NEW p \in Slots(ch), NEW q \in Slots(ch), ReadBy(p, q), ReadBy(q, p)
               PROVE  p = q
    OBVIOUS
  <2>1. p[1] \in Nat /\ p[2] \in Nat /\ q[1] \in Nat /\ q[2] \in Nat
    BY <1>4
  <2>2. p[1] = q[1] /\ p[2] = q[2]
    BY <2>1 DEF ReadBy
  <2>3. p = <<p[1], p[2]>> /\ q = <<q[1], q[2]>>
    BY <1>4
  <2> QED BY <2>2, <2>3
<1>9. \A p, q, r \in Slots(ch) : ReadBy(p, q) /\ ReadBy(q, r) => ReadBy(p, r)
  <2> SUFFICES ASSUME NEW p \in Slots(ch), NEW q \in Slots(ch), NEW r \in Slots(ch),
                      ReadBy(p, q), ReadBy(q, r)
               PROVE  ReadBy(p, r)
    OBVIOUS
  <2>1. /\ p[1] \in Nat /\ p[2] \in Nat /\ q[1] \in Nat /\ q[2] \in Nat
        /\ r[1] \in Nat /\ r[2] \in Nat
    BY <1>4
  <2> QED BY <2>1 DEF ReadBy
<1> QED BY <1>3, <1>4, <1>5, <1>6, <1>7, <1>8, <1>9

(* f numbers the slots of ch in page order, and s has their entries. *)
Numbers(ch, s, f) ==
  /\ f \in [Slots(ch) -> 1 .. Len(s)]
  /\ \A p, q \in Slots(ch) : ReadBy(p, q) /\ p # q => f[p] < f[q]
  /\ \A r \in 1 .. Len(s) : \E p \in Slots(ch) : f[p] = r
  /\ \A p \in Slots(ch) : ch[p[1]][p[2]] = s[f[p]]

(* The only way to number the slots in page order from 1 on without a gap  *)
(* is by SlotNumber; so pages hold the list s when some such numbering     *)
(* finds the entries of s on them.                                         *)
LEMMA FlattenIs ==
  ASSUME NEW S, NEW ch \in Seq(Seq(S)), NEW s \in Seq(S), NEW f, Numbers(ch, s, f)
  PROVE  Flatten(ch) = s
<1> USE DEF Numbers
<1> DEFINE D(p) == {q \in Slots(ch) : ReadBy(q, p)}
<1>1. /\ IsFiniteSet(Slots(ch)) /\ Len(s) \in Nat /\ DOMAIN s = 1 .. Len(s)
      /\ \A p \in Slots(ch) : f[p] \in Nat
      /\ \A p, q \in Slots(ch) : ReadBy(p, q) \/ ReadBy(q, p)
  BY SlotFacts, LenProperties
<1>2. \A p, q \in Slots(ch) : f[p] = f[q] => p = q
  <2> SUFFICES ASSUME NEW p \in Slots(ch), NEW q \in Slots(ch), p # q PROVE f[p] # f[q]
    OBVIOUS
  <2>1. f[p] < f[q] \/ f[q] < f[p]
    BY <1>1
  <2> QED BY <1>1, <2>1
<1>3. ASSUME NEW p \in Slots(ch) PROVE SlotNumber(Slots(ch), p) = f[p]
  <2> DEFINE g == [q \in D(p) |-> f[q]]
  <2>1. \A q \in D(p) : f[q] \in 1 .. f[p]
    <3> SUFFICES ASSUME NEW q \in Slots(ch), ReadBy(q, p) PROVE f[q] \in 1 .. f[p]
      OBVIOUS
    <3>1. q = p \/ f[q] < f[p]
      OBVIOUS
    <3>2. f[q] \in 1 .. Len(s) /\ f[p] \in 1 .. Len(s)
      OBVIOUS
    <3> QED BY <1>1, <3>1, <3>2
  <2>2. \A r \in 1 .. f[p] : \E q \in D(p) : f[q] = r
    <3> SUFFICES ASSUME NEW r \in 1 .. f[p] PROVE \E q \in D(p) : f[q] = r
      OBVIOUS
    <3>1. f[p] \in 1 .. Len(s) /\ r \in 1 .. Len(s) /\ r <= f[p]
      BY <1>1
    <3>2. PICK q \in Slots(ch) : f[q] = r
      BY <3>1
    <3>3. ReadBy(q, p)
      <4>1. ~(f[p] < f[q])
        BY <1>1, <3>1, <3>2
      <4> QED BY <1>1, <4>1
    <3> QED BY <3>2, <3>3
  <2>3. g \in Surjection(D(p), 1 .. f[p]) /\ g \in Injection(D(p), 1 .. f[p])
    <3>1. g \in [D(p) -> 1 .. f[p]]
      BY <2>1
    <3>2. \A q \in D(p) : q \in Slots(ch)
      OBVIOUS
    <3> HIDE DEF D
    <3> QED BY <1>2, <2>2, <3>1, <3>2 DEF Surjection, Injection, IsInjective
  <2>4. IsFiniteSet(1 .. f[p]) /\ Cardinality(1 .. f[p]) = f[p]
    BY <1>1, FS_Interval
  <2>5. Cardinality(D(p)) = Cardinality(1 .. f[p])
    <3> HIDE DEF g, D
    <3> QED BY <2>3, <2>4, FS_Injection
  <2> QED BY <2>4, <2>5 DEF SlotNumber
<1>4. Cardinality(Slots(ch)) = Len(s)
  <2>1. f \in Surjection(Slots(ch), 1 .. Len(s)) /\ f \in Injection(Slots(ch), 1 .. Len(s))
    BY <1>2 DEF Surjection, Injection, IsInjective
  <2>2. IsFiniteSet(1 .. Len(s)) /\ Cardinality(1 .. Len(s)) = Len(s)
    BY <1>1, PositionsCounted
  <2>3. Cardinality(Slots(ch)) = Cardinality(1 .. Len(s))
    BY <2>1, <2>2, FS_Injection
  <2> QED BY <2>2, <2>3
<1> DEFINE pick(i) == CHOOSE q \in Slots(ch) : SlotNumber(Slots(ch), q) = i
<1>5. \A i \in 1 .. Len(s) : pick(i) \in Slots(ch) /\ SlotNumber(Slots(ch), pick(i)) = i
  BY <1>3
<1>6. Flatten(ch) = [i \in 1 .. Cardinality(Slots(ch)) |-> ch[pick(i)[1]][pick(i)[2]]]
  BY DEF Flatten
<1> HIDE DEF pick
<1>7. \A i \in 1 .. Len(s) : ch[pick(i)[1]][pick(i)[2]] = s[i]
  BY <1>3, <1>5
<1>8. s = [i \in 1 .. Len(s) |-> s[i]]
  BY <1>1
<1> QED BY <1>4, <1>6, <1>7, <1>8

(* Every list of pages is numbered that way. *)
LEMMA FlattenFacts ==
  ASSUME NEW S, NEW ch \in Seq(Seq(S))
  PROVE  /\ Flatten(ch) \in Seq(S)
         /\ Len(Flatten(ch)) = Cardinality(Slots(ch))
         /\ \A p \in Slots(ch) : /\ SlotNumber(Slots(ch), p) \in 1 .. Len(Flatten(ch))
                                 /\ Flatten(ch)[SlotNumber(Slots(ch), p)] = ch[p[1]][p[2]]
         /\ \A p, q \in Slots(ch) : ReadBy(p, q) /\ p # q
                                      => SlotNumber(Slots(ch), p) < SlotNumber(Slots(ch), q)
         /\ \A p, q \in Slots(ch) : SlotNumber(Slots(ch), p) = SlotNumber(Slots(ch), q) => p = q
         /\ \A r \in 1 .. Len(Flatten(ch)) : \E p \in Slots(ch) : SlotNumber(Slots(ch), p) = r
<1> DEFINE D(p) == {q \in Slots(ch) : ReadBy(q, p)}
           N == Cardinality(Slots(ch))
           g == [p \in Slots(ch) |-> SlotNumber(Slots(ch), p)]
<1>1. /\ IsFiniteSet(Slots(ch)) /\ N \in Nat
      /\ \A p \in Slots(ch) : ch[p[1]][p[2]] \in S
      /\ \A p, q \in Slots(ch) : ReadBy(p, q) \/ ReadBy(q, p)
      /\ \A p, q \in Slots(ch) : ReadBy(p, q) /\ ReadBy(q, p) => p = q
  BY SlotFacts
<1>2. \A p, q, r \in Slots(ch) : ReadBy(p, q) /\ ReadBy(q, r) => ReadBy(p, r)
  BY SlotFacts
<1>3. \A p \in Slots(ch) : IsFiniteSet(D(p)) /\ SlotNumber(Slots(ch), p) \in 1 .. N
  <2> SUFFICES ASSUME NEW p \in Slots(ch)
               PROVE  IsFiniteSet(D(p)) /\ SlotNumber(Slots(ch), p) \in 1 .. N
    OBVIOUS
  <2>1. IsFiniteSet(D(p)) /\ Cardinality(D(p)) <= N
    BY <1>1, FS_Subset
  <2>2. Cardinality(D(p)) \in Nat /\ Cardinality(D(p)) # 0
    <3>1. p \in D(p)
      BY <1>1
    <3> HIDE DEF D
    <3> QED BY <2>1, <3>1, FS_EmptySet, FS_CardinalityType
  <2> QED BY <1>1, <2>1, <2>2 DEF SlotNumber
<1>4. \A p, q \in Slots(ch) : ReadBy(p, q) /\ p # q => SlotNumber(Slots(ch), p) < SlotNumber(Slots(ch), q)
  <2> SUFFICES ASSUME NEW p \in Slots(ch), NEW q \in Slots(ch), ReadBy(p, q), p # q
               PROVE  SlotNumber(Slots(ch), p) < SlotNumber(Slots(ch), q)
    OBVIOUS
  <2>1. D(p) \in SUBSET D(q)
    BY <1>2
  <2>2. q \in D(q) /\ q \notin D(p)
    BY <1>1
  <2>3. IsFiniteSet(D(q)) /\ SlotNumber(Slots(ch), p) \in Nat /\ SlotNumber(Slots(ch), q) \in Nat
    <3>1. IsFiniteSet(D(q)) /\ SlotNumber(Slots(ch), p) \in 1 .. N /\ SlotNumber(Slots(ch), q) \in 1 .. N
      BY <1>3
    <3>2. N \in Nat
      BY <1>1
    <3> HIDE DEF D, N
    <3> QED BY <3>1, <3>2
  <2>4. SlotNumber(Slots(ch), p) = Cardinality(D(p)) /\ SlotNumber(Slots(ch), q) = Cardinality(D(q))
    BY DEF SlotNumber
  <2> HIDE DEF D
  <2>5. Cardinality(D(p)) <= Cardinality(D(q)) /\ Cardinality(D(p)) # Cardinality(D(q))
    BY <2>1, <2>2, <2>3, FS_Subset
  <2> QED BY <2>3, <2>4, <2>5
<1> HIDE DEF D, N
<1>5. \A p, q \in Slots(ch) : SlotNumber(Slots(ch), p) = SlotNumber(Slots(ch), q) => p = q
  <2> SUFFICES ASSUME NEW p \in Slots(ch), NEW q \in Slots(ch), p # q
               PROVE  SlotNumber(Slots(ch), p) # SlotNumber(Slots(ch), q)
    OBVIOUS
  <2>1. SlotNumber(Slots(ch), p) \in Nat /\ SlotNumber(Slots(ch), q) \in Nat
    BY <1>1, <1>3
  <2> QED BY <1>1, <1>4, <2>1
<1>6. \A r \in 1 .. N : \E p \in Slots(ch) : SlotNumber(Slots(ch), p) = r
  <2>1. g \in Injection(Slots(ch), 1 .. N)
    BY <1>3, <1>5 DEF Injection, IsInjective
  <2>2. IsFiniteSet(1 .. N) /\ Cardinality(1 .. N) = N
    BY <1>1, FS_Interval
  <2>3. g \in Surjection(Slots(ch), 1 .. N)
    <3> HIDE DEF g
    <3> QED BY <2>1, <2>2, FS_Injection DEF N
  <2> QED BY <2>3 DEF Surjection
<1> DEFINE pick(i) == CHOOSE q \in Slots(ch) : SlotNumber(Slots(ch), q) = i
<1>7. \A i \in 1 .. N : pick(i) \in Slots(ch) /\ SlotNumber(Slots(ch), pick(i)) = i
  BY <1>6
<1>8. Flatten(ch) = [i \in 1 .. N |-> ch[pick(i)[1]][pick(i)[2]]]
  BY DEF Flatten, N
<1> HIDE DEF pick
<1>9. \A i \in 1 .. N : ch[pick(i)[1]][pick(i)[2]] \in S
  BY <1>1, <1>7
<1>10. Flatten(ch) \in Seq(S) /\ Len(Flatten(ch)) = N
  <2>1. Flatten(ch) \in Seq(S)
    BY <1>1, <1>8, <1>9
  <2>2. DOMAIN Flatten(ch) = 1 .. N
    BY <1>8
  <2> QED BY <1>1, <2>1, <2>2, LenProperties
<1>11. \A p \in Slots(ch) : Flatten(ch)[SlotNumber(Slots(ch), p)] = ch[p[1]][p[2]]
  BY <1>3, <1>5, <1>7, <1>8
<1> QED BY <1>3, <1>4, <1>5, <1>6, <1>10, <1>11 DEF N

(* Filtering every page filters the list. *)
LEMMA FlattenWithout ==
  ASSUME NEW S, NEW ch \in Seq(Seq(S)), NEW X
  PROVE  Flatten([c \in DOMAIN ch |-> Without(ch[c], X)]) = Without(Flatten(ch), X)
<1> DEFINE t == [c \in DOMAIN ch |-> Without(ch[c], X)]
           W == Flatten(ch)
           K == Kept(W, X)
           J(c) == Kept(ch[c], X)
           s == Without(W, X)
<1>1. DOMAIN ch = 1 .. Len(ch) /\ Len(ch) \in Nat /\ \A c \in DOMAIN ch : ch[c] \in Seq(S)
  BY LenProperties, ElementOfSeq
<1>2. W \in Seq(S) /\ s \in Seq(S)
  BY FlattenFacts, WithoutFacts
<1>3. t \in Seq(Seq(S)) /\ DOMAIN t = DOMAIN ch
  <2>1. \A c \in DOMAIN ch : Without(ch[c], X) \in Seq(S)
    BY <1>1, WithoutFacts
  <2> QED BY <1>1, <2>1
<1>4. /\ K \subseteq 1 .. Len(W) /\ K \subseteq Nat /\ IsFiniteSet(K)
      /\ Cardinality(K) \in Nat /\ Len(s) = Cardinality(K)
      /\ \A i \in K : s[Rank(K, i)] = W[i]
  <2>1. DOMAIN W = 1 .. Len(W)
    BY <1>2, LenProperties
  <2> HIDE DEF W
  <2> QED BY <1>2, <2>1, WithoutRanks
<1>5. /\ \A i \in K : Rank(K, i) \in 1 .. Len(s)
      /\ \A i, j \in K : i < j => Rank(K, i) < Rank(K, j)
      /\ \A r \in 1 .. Len(s) : \E i \in K : Rank(K, i) = r
  <2> HIDE DEF K, s
  <2> QED BY <1>4, RankNumbers
<1>6. ASSUME NEW c \in DOMAIN ch
      PROVE  /\ J(c) \subseteq DOMAIN ch[c] /\ J(c) \subseteq Nat
             /\ DOMAIN t[c] = 1 .. Cardinality(J(c)) /\ Cardinality(J(c)) \in Nat
             /\ \A i \in J(c) : /\ Rank(J(c), i) \in DOMAIN t[c]
                                /\ t[c][Rank(J(c), i)] = ch[c][i]
             /\ \A i, j \in J(c) : i < j => Rank(J(c), i) < Rank(J(c), j)
             /\ \A i, j \in J(c) : Rank(J(c), i) = Rank(J(c), j) => i = j
             /\ \A r \in DOMAIN t[c] : \E i \in J(c) : Rank(J(c), i) = r
  <2>1. ch[c] \in Seq(S) /\ t[c] = Without(ch[c], X)
    BY <1>1
  <2>2. /\ J(c) \subseteq DOMAIN ch[c] /\ J(c) \subseteq Nat /\ IsFiniteSet(J(c))
        /\ DOMAIN t[c] = 1 .. Cardinality(J(c)) /\ Cardinality(J(c)) \in Nat
        /\ \A i \in J(c) : t[c][Rank(J(c), i)] = ch[c][i]
        /\ \A i, j \in J(c) : Rank(J(c), i) = Rank(J(c), j) => i = j
    <3> HIDE DEF t
    <3> QED BY <2>1, WithoutRanks
  <2> HIDE DEF J, t
  <2>3. /\ \A i \in J(c) : Rank(J(c), i) \in DOMAIN t[c]
        /\ \A i, j \in J(c) : i < j => Rank(J(c), i) < Rank(J(c), j)
        /\ \A r \in DOMAIN t[c] : \E i \in J(c) : Rank(J(c), i) = r
    BY <2>2, RankNumbers
  <2> QED BY <2>2, <2>3
<1> DEFINE back(p) == CHOOSE j \in J(p[1]) : Rank(J(p[1]), j) = p[2]
           from(p) == <<p[1], back(p)>>
           num(p) == SlotNumber(Slots(ch), from(p))
<1>7. /\ \A c, i : <<c, i>> \in Slots(ch) <=> c \in DOMAIN ch /\ i \in DOMAIN ch[c]
      /\ \A p \in Slots(ch) : p = <<p[1], p[2]>> /\ p[1] \in DOMAIN ch /\ p[2] \in DOMAIN ch[p[1]]
      /\ \A c, i : <<c, i>> \in Slots(t) <=> c \in DOMAIN t /\ i \in DOMAIN t[c]
      /\ \A p \in Slots(t) : /\ p = <<p[1], p[2]>> /\ p[1] \in DOMAIN t /\ p[2] \in DOMAIN t[p[1]]
                             /\ p[1] \in Nat /\ p[2] \in Nat
  <2> HIDE DEF t
  <2> QED BY <1>3, SlotFacts
<1>8. \A p \in Slots(t) : /\ p[1] \in DOMAIN ch /\ back(p) \in J(p[1])
                          /\ Rank(J(p[1]), back(p)) = p[2]
  <2> HIDE DEF t, J
  <2> QED BY <1>3, <1>6, <1>7
<1> HIDE DEF back
<1>9. /\ \A p \in Slots(ch) : /\ SlotNumber(Slots(ch), p) \in 1 .. Len(W)
                              /\ W[SlotNumber(Slots(ch), p)] = ch[p[1]][p[2]]
      /\ \A p, q \in Slots(ch) : ReadBy(p, q) /\ p # q => SlotNumber(Slots(ch), p) < SlotNumber(Slots(ch), q)
      /\ \A r \in 1 .. Len(W) : \E p \in Slots(ch) : SlotNumber(Slots(ch), p) = r
  BY FlattenFacts
<1>10. ASSUME NEW p \in Slots(t)
       PROVE  /\ from(p) \in Slots(ch) /\ from(p)[1] = p[1] /\ from(p)[2] = back(p)
              /\ num(p) \in K /\ W[num(p)] = t[p[1]][p[2]]
  <2>1. back(p) \in DOMAIN ch[p[1]] /\ p[1] \in DOMAIN ch /\ ch[p[1]][back(p)] \notin X
    BY <1>8 DEF Kept
  <2>2. from(p) \in Slots(ch) /\ from(p)[1] = p[1] /\ from(p)[2] = back(p)
    BY <1>7, <2>1
  <2>3. num(p) \in 1 .. Len(W) /\ W[num(p)] = ch[p[1]][back(p)]
    <3> HIDE DEF W, from
    <3> QED BY <1>9, <2>2
  <2>4. num(p) \in K
    <3>1. DOMAIN W = 1 .. Len(W)
      BY <1>2, LenProperties
    <3> HIDE DEF W, num
    <3> QED BY <2>1, <2>3, <3>1 DEF Kept
  <2>5. t[p[1]][p[2]] = ch[p[1]][back(p)]
    <3> HIDE DEF t, J
    <3> QED BY <1>6, <1>8
  <2> QED BY <2>2, <2>3, <2>4, <2>5
<1> DEFINE f == [p \in Slots(t) |-> Rank(K, num(p))]
<1>11. f \in [Slots(t) -> 1 .. Len(s)]
  <2> HIDE DEF K, s, num, t
  <2> QED BY <1>5, <1>10
<1>12. \A p, q \in Slots(t) : ReadBy(p, q) /\ p # q => f[p] < f[q]
  <2> SUFFICES ASSUME NEW p \in Slots(t), NEW q \in Slots(t), ReadBy(p, q), p # q
               PROVE  Rank(K, num(p)) < Rank(K, num(q))
    OBVIOUS
  <2>1. ReadBy(from(p), from(q)) /\ from(p) # from(q)
    <3>1. CASE p[1] < q[1]
      <4>1. p[1] # q[1]
        BY <1>7, <3>1
      <4> HIDE DEF from
      <4> QED BY <1>10, <3>1, <4>1 DEF ReadBy
    <3>2. CASE ~(p[1] < q[1])
      <4>1. p[1] = q[1] /\ p[2] <= q[2] /\ p[2] # q[2]
        <5>1. p = <<p[1], p[2]>> /\ q = <<q[1], q[2]>>
          BY <1>7
        <5> QED BY <3>2, <5>1 DEF ReadBy
      <4>2. p[2] \in Nat /\ q[2] \in Nat
        BY <1>7
      <4>3. /\ back(p) \in J(p[1]) /\ back(q) \in J(p[1])
            /\ Rank(J(p[1]), back(p)) = p[2] /\ Rank(J(p[1]), back(q)) = q[2]
            /\ p[1] \in DOMAIN ch
        BY <1>8, <4>1
      <4> HIDE DEF J, t
      <4>4. back(p) \in Nat /\ back(q) \in Nat
        BY <1>6, <4>3
      <4>5. ~(back(q) < back(p)) /\ back(q) # back(p)
        <5>1. back(q) < back(p) => q[2] < p[2]
          BY <1>6, <4>3
        <5> QED BY <4>1, <4>2, <4>3, <5>1
      <4>6. back(p) < back(q)
        BY <4>4, <4>5
      <4> HIDE DEF from
      <4> QED BY <1>10, <4>1, <4>4, <4>6 DEF ReadBy
    <3> QED BY <3>1, <3>2
  <2>2. num(p) < num(q)
    <3> HIDE DEF from, W, t
    <3> QED BY <1>9, <1>10, <2>1
  <2> HIDE DEF K, num, t
  <2> QED BY <1>5, <1>10, <2>2
<1>13. \A r \in 1 .. Len(s) : \E p \in Slots(t) : f[p] = r
  <2> SUFFICES ASSUME NEW r \in 1 .. Len(s) PROVE \E p \in Slots(t) : f[p] = r
    OBVIOUS
  <2>1. PICK i \in K : Rank(K, i) = r
    BY <1>5
  <2>2. i \in 1 .. Len(W) /\ W[i] \notin X
    BY <1>4 DEF Kept
  <2>3. PICK q \in Slots(ch) : SlotNumber(Slots(ch), q) = i
    BY <1>9, <2>2
  <2>4. q = <<q[1], q[2]>> /\ q[1] \in DOMAIN ch /\ q[2] \in J(q[1])
    <3>1. ch[q[1]][q[2]] = W[i]
      BY <1>9, <2>3
    <3> QED BY <1>7, <2>2, <3>1 DEF Kept
  <2> DEFINE p == <<q[1], Rank(J(q[1]), q[2])>>
  <2>5. p \in Slots(t) /\ p[1] = q[1] /\ p[2] = Rank(J(q[1]), q[2])
    <3> HIDE DEF t, J
    <3> QED BY <1>3, <1>6, <1>7, <2>4
  <2>6. back(p) = q[2]
    <3>1. back(p) \in J(q[1]) /\ Rank(J(q[1]), back(p)) = Rank(J(q[1]), q[2])
      BY <1>8, <2>5
    <3> HIDE DEF t, J, p
    <3> QED BY <1>6, <2>4, <3>1
  <2>7. num(p) = i
    <3>1. from(p) = q
      BY <2>4, <2>5, <2>6
    <3> QED BY <2>3, <3>1
  <2>8. f[p] = r
    <3> HIDE DEF p, num, K
    <3> QED BY <2>1, <2>5, <2>7
  <2> QED BY <2>5, <2>8
<1>14. \A p \in Slots(t) : t[p[1]][p[2]] = s[f[p]]
  <2> SUFFICES ASSUME NEW p \in Slots(t) PROVE t[p[1]][p[2]] = s[Rank(K, num(p))]
    OBVIOUS
  <2> HIDE DEF K, s, num, t, W
  <2> QED BY <1>4, <1>10
<1> HIDE DEF f, t, s
<1>15. Numbers(t, s, f)
  BY <1>11, <1>12, <1>13, <1>14 DEF Numbers
<1>16. Flatten(t) = s
  BY <1>2, <1>3, <1>15, FlattenIs
<1> QED BY <1>16 DEF t, s

(* The pages t are the pages ch with k on one more slot l, behind all      *)
(* others.                                                                 *)
Extends(t, ch, l, k) ==
  /\ l \notin Slots(ch) /\ Slots(t) = Slots(ch) \cup {l}
  /\ \A p \in Slots(ch) : ReadBy(p, l) /\ t[p[1]][p[2]] = ch[p[1]][p[2]]
  /\ t[l[1]][l[2]] = k

(* One more slot behind all others is one more entry of the list. *)
LEMMA FlattenGrows ==
  ASSUME NEW S, NEW ch \in Seq(Seq(S)), NEW t \in Seq(Seq(S)), NEW k \in S, NEW l,
         Extends(t, ch, l, k)
  PROVE  Flatten(t) = Append(Flatten(ch), k)
<1> USE DEF Extends
<1> DEFINE W == Flatten(ch)
           s == Append(W, k)
           f == [p \in Slots(t) |-> IF p = l THEN Len(W) + 1 ELSE SlotNumber(Slots(ch), p)]
<1>1. /\ W \in Seq(S) /\ Len(W) \in Nat
      /\ s \in Seq(S) /\ Len(s) = Len(W) + 1 /\ s[Len(W) + 1] = k
      /\ \A i \in 1 .. Len(W) : s[i] = W[i]
  <2>1. W \in Seq(S)
    BY FlattenFacts
  <2> HIDE DEF W
  <2> QED BY <2>1, AppendProperties, LenProperties
<1>2. /\ \A p \in Slots(ch) : /\ SlotNumber(Slots(ch), p) \in 1 .. Len(W)
                              /\ W[SlotNumber(Slots(ch), p)] = ch[p[1]][p[2]]
      /\ \A p, q \in Slots(ch) : ReadBy(p, q) /\ p # q => SlotNumber(Slots(ch), p) < SlotNumber(Slots(ch), q)
      /\ \A r \in 1 .. Len(W) : \E p \in Slots(ch) : SlotNumber(Slots(ch), p) = r
  BY FlattenFacts
<1>3. \A p, q \in Slots(t) : ReadBy(p, q) /\ ReadBy(q, p) => p = q
  BY SlotFacts
<1> HIDE DEF W, s
<1>4. f \in [Slots(t) -> 1 .. Len(s)]
  BY <1>1, <1>2
<1>5. \A p, q \in Slots(t) : ReadBy(p, q) /\ p # q => f[p] < f[q]
  <2> SUFFICES ASSUME NEW p \in Slots(t), NEW q \in Slots(t), ReadBy(p, q), p # q
               PROVE  f[p] < f[q]
    OBVIOUS
  <2>1. p # l
    BY <1>3
  <2>2. CASE q = l
    BY <1>1, <1>2, <2>1, <2>2
  <2>3. CASE q # l
    BY <1>2, <2>1, <2>3
  <2> QED BY <2>2, <2>3
<1>6. \A r \in 1 .. Len(s) : \E p \in Slots(t) : f[p] = r
  <2> SUFFICES ASSUME NEW r \in 1 .. Len(s) PROVE \E p \in Slots(t) : f[p] = r
    OBVIOUS
  <2>1. CASE r = Len(W) + 1
    BY <2>1
  <2>2. CASE r # Len(W) + 1
    <3>1. r \in 1 .. Len(W)
      BY <1>1, <2>2
    <3> QED BY <1>2, <3>1
  <2> QED BY <2>1, <2>2
<1>7. \A p \in Slots(t) : t[p[1]][p[2]] = s[f[p]]
  BY <1>1, <1>2
<1> HIDE DEF f
<1>8. Numbers(t, s, f)
  BY <1>4, <1>5, <1>6, <1>7 DEF Numbers
<1>9. Flatten(t) = s
  BY <1>1, <1>8, FlattenIs
<1> QED BY <1>9 DEF s, W

(* The pages t are the pages ch and one more, with k on it. *)
NewPage(t, ch, k) ==
  LET n == Len(ch)
  IN  DOMAIN t = 1 .. n + 1 /\ t[n + 1] = <<k>> /\ \A c \in 1 .. n : t[c] = ch[c]

(* The pages t are the pages ch with k behind the entries of the last one. *)
LastPageGrows(t, ch, k) ==
  LET n == Len(ch)
  IN  /\ n > 0 /\ DOMAIN t = 1 .. n /\ t[n] = Append(ch[n], k)
      /\ \A c \in 1 .. n : c # n => t[c] = ch[c]

(* Either way k comes last in the list. *)
LEMMA FlattenAdd ==
  ASSUME NEW S, NEW ch \in Seq(Seq(S)), NEW t \in Seq(Seq(S)), NEW k \in S,
         NewPage(t, ch, k) \/ LastPageGrows(t, ch, k)
  PROVE  Flatten(t) = Append(Flatten(ch), k)
<1> DEFINE n == Len(ch)
<1>1. n \in Nat /\ DOMAIN ch = 1 .. n
  BY LenProperties
<1>2. /\ \A c, i : <<c, i>> \in Slots(ch) <=> c \in DOMAIN ch /\ i \in DOMAIN ch[c]
      /\ \A p \in Slots(ch) : p = <<p[1], p[2]>> /\ p[1] \in 1 .. n /\ p[2] \in DOMAIN ch[p[1]]
  BY <1>1, SlotFacts
<1>3. /\ \A c, i : <<c, i>> \in Slots(t) <=> c \in DOMAIN t /\ i \in DOMAIN t[c]
      /\ \A p \in Slots(t) : p = <<p[1], p[2]>> /\ p[1] \in DOMAIN t /\ p[2] \in DOMAIN t[p[1]]
  BY SlotFacts
<1>4. CASE NewPage(t, ch, k)
  <2> DEFINE l == <<n + 1, 1>>
  <2>2. /\ DOMAIN t = 1 .. n + 1 /\ t[n + 1] = <<k>>
        /\ \A c \in 1 .. n : t[c] = ch[c]
    BY <1>4 DEF NewPage
  <2>3. DOMAIN t[n + 1] = {1} /\ t[n + 1][1] = k
    BY <2>2
  <2>4. l \notin Slots(ch) /\ l \in Slots(t) /\ t[l[1]][l[2]] = k
    <3>1. n + 1 \notin DOMAIN ch /\ n + 1 \in DOMAIN t /\ 1 \in DOMAIN t[n + 1]
      BY <1>1, <2>2, <2>3
    <3>2. l \notin Slots(ch)
      BY <1>2, <3>1
    <3>3. l \in Slots(t)
      BY <1>3, <3>1
    <3> QED BY <2>3, <3>2, <3>3
  <2>5. ASSUME NEW p \in Slots(ch)
        PROVE  p \in Slots(t) /\ ReadBy(p, l) /\ t[p[1]][p[2]] = ch[p[1]][p[2]]
    BY <1>1, <1>2, <1>3, <2>2 DEF ReadBy
  <2>6. ASSUME NEW p \in Slots(t), p # l PROVE p \in Slots(ch)
    <3>1. p[1] # n + 1
      BY <1>3, <2>3, <2>6
    <3>2. p[1] \in 1 .. n
      BY <1>1, <1>3, <2>2, <3>1
    <3> QED BY <1>1, <1>2, <1>3, <2>2, <3>2
  <2>7. Slots(t) = Slots(ch) \cup {l}
    BY <2>4, <2>5, <2>6
  <2> HIDE DEF l, n
  <2>8. Flatten(t) = Append(Flatten(ch), k)
    <3>1. Extends(t, ch, l, k)
      BY <2>4, <2>5, <2>7 DEF Extends
    <3> QED BY <1>1, <3>1, FlattenGrows
  <2> QED BY <2>8
<1>5. CASE LastPageGrows(t, ch, k)
  <2> DEFINE m == Len(ch[n])
             l == <<n, m + 1>>
  <2>1. n \in 1 .. n
    <3>1. n > 0
      BY <1>5 DEF LastPageGrows
    <3> HIDE DEF n
    <3> QED BY <1>1, <3>1
  <2>3. ch[n] \in Seq(S) /\ m \in Nat /\ DOMAIN ch[n] = 1 .. m
    BY <1>1, <2>1, ElementOfSeq, LenProperties
  <2>4. /\ DOMAIN t = 1 .. n /\ t[n] = Append(ch[n], k)
        /\ \A c \in 1 .. n : c # n => t[c] = ch[c]
    BY <1>5 DEF LastPageGrows
  <2>5. /\ DOMAIN t[n] = 1 .. m + 1 /\ t[n][m + 1] = k
        /\ \A i \in 1 .. m : t[n][i] = ch[n][i]
    BY <2>3, <2>4, AppendProperties, LenProperties
  <2> HIDE DEF m
  <2>6. l \notin Slots(ch) /\ l \in Slots(t) /\ t[l[1]][l[2]] = k
    <3>1. m + 1 \notin DOMAIN ch[n] /\ n \in DOMAIN t /\ m + 1 \in DOMAIN t[n]
      BY <2>1, <2>3, <2>4, <2>5
    <3>2. l \notin Slots(ch)
      BY <1>2, <3>1
    <3>3. l \in Slots(t)
      BY <1>3, <3>1
    <3> QED BY <2>5, <3>2, <3>3
  <2>7. ASSUME NEW p \in Slots(ch)
        PROVE  p \in Slots(t) /\ ReadBy(p, l) /\ t[p[1]][p[2]] = ch[p[1]][p[2]]
    <3>1. p[1] \in 1 .. n /\ p = <<p[1], p[2]>> /\ p[2] \in DOMAIN ch[p[1]]
      BY <1>2
    <3>2. CASE p[1] = n
      <4>1. p[2] \in 1 .. m
        BY <2>3, <3>1, <3>2
      <4>2. n \in DOMAIN t /\ p[2] \in DOMAIN t[n] /\ p[2] <= m + 1
        BY <2>1, <2>3, <2>4, <2>5, <4>1
      <4>3. p \in Slots(t)
        BY <1>3, <3>1, <3>2, <4>2
      <4>4. t[n][p[2]] = ch[n][p[2]]
        BY <2>5, <4>1
      <4>5. ReadBy(p, l)
        BY <3>2, <4>2 DEF ReadBy
      <4> QED BY <3>2, <4>3, <4>4, <4>5
    <3>3. CASE p[1] # n
      BY <1>1, <1>3, <2>4, <3>1, <3>3 DEF ReadBy
    <3> QED BY <3>2, <3>3
  <2>8. ASSUME NEW p \in Slots(t), p # l PROVE p \in Slots(ch)
    <3>1. p[1] \in 1 .. n /\ p = <<p[1], p[2]>> /\ p[2] \in DOMAIN t[p[1]]
      BY <1>3, <2>4
    <3>2. CASE p[1] = n
      <4>1. p[2] \in 1 .. m + 1 /\ p[2] # m + 1
        BY <2>5, <2>8, <3>1, <3>2
      <4>2. p[2] \in DOMAIN ch[n] /\ n \in DOMAIN ch
        BY <1>1, <2>1, <2>3, <4>1
      <4> QED BY <1>2, <3>1, <3>2, <4>2
    <3>3. CASE p[1] # n
      BY <1>1, <1>2, <2>4, <3>1, <3>3
    <3> QED BY <3>2, <3>3
  <2>9. Slots(t) = Slots(ch) \cup {l}
    BY <2>6, <2>7, <2>8
  <2> HIDE DEF l, n
  <2>10. Flatten(t) = Append(Flatten(ch), k)
    <3>1. Extends(t, ch, l, k)
      BY <2>6, <2>7, <2>9 DEF Extends
    <3> QED BY <1>1, <3>1, FlattenGrows
  <2> QED BY <2>10
<1> QED BY <1>4, <1>5

(* In a list without repetition an entry is on one page only. *)
LEMMA OnOnePage ==
  ASSUME NEW S, NEW ch \in Seq(Seq(S)),
         \A i, j \in DOMAIN Flatten(ch) : Flatten(ch)[i] = Flatten(ch)[j] => i = j,
         NEW c \in DOMAIN ch, NEW b \in DOMAIN ch, NEW k,
         k \in Entries(ch[c]), k \in Entries(ch[b])
  PROVE  b = c
<1>1. PICK i \in DOMAIN ch[c], j \in DOMAIN ch[b] : ch[c][i] = k /\ ch[b][j] = k
  BY DEF Entries
<1> DEFINE p == <<c, i>>
           q == <<b, j>>
<1>2. /\ p \in Slots(ch) /\ q \in Slots(ch) /\ p[1] = c /\ q[1] = b
      /\ ch[p[1]][p[2]] = k /\ ch[q[1]][q[2]] = k
  BY <1>1, SlotFacts
<1> HIDE DEF p, q
<1>3. /\ DOMAIN Flatten(ch) = 1 .. Len(Flatten(ch))
      /\ \A r \in Slots(ch) : /\ SlotNumber(Slots(ch), r) \in 1 .. Len(Flatten(ch))
                              /\ Flatten(ch)[SlotNumber(Slots(ch), r)] = ch[r[1]][r[2]]
      /\ \A r, u \in Slots(ch) : SlotNumber(Slots(ch), r) = SlotNumber(Slots(ch), u) => r = u
  <2>1. Flatten(ch) \in Seq(S)
    BY FlattenFacts
  <2>2. DOMAIN Flatten(ch) = 1 .. Len(Flatten(ch))
    BY <2>1, LenProperties
  <2> QED BY <2>2, FlattenFacts
<1> DEFINE x == SlotNumber(Slots(ch), p)
           y == SlotNumber(Slots(ch), q)
<1>4. /\ x \in DOMAIN Flatten(ch) /\ Flatten(ch)[x] = k
      /\ y \in DOMAIN Flatten(ch) /\ Flatten(ch)[y] = k
  BY <1>2, <1>3
<1>5. x = y
  <2> HIDE DEF x, y
  <2> QED BY <1>4
<1> QED BY <1>2, <1>3, <1>5

(* The list has the entries of the pages. *)
LEMMA FlattenEntries ==
  ASSUME NEW S, NEW ch \in Seq(Seq(S))
  PROVE  Entries(Flatten(ch)) = UNION {Entries(ch[c]) : c \in DOMAIN ch}
<1>1. /\ DOMAIN Flatten(ch) = 1 .. Len(Flatten(ch))
      /\ \A p \in Slots(ch) : /\ SlotNumber(Slots(ch), p) \in 1 .. Len(Flatten(ch))
                              /\ Flatten(ch)[SlotNumber(Slots(ch), p)] = ch[p[1]][p[2]]
      /\ \A r \in 1 .. Len(Flatten(ch)) : \E p \in Slots(ch) : SlotNumber(Slots(ch), p) = r
  BY FlattenFacts, LenProperties
<1>2. ASSUME NEW k \in Entries(Flatten(ch))
      PROVE  \E c \in DOMAIN ch : k \in Entries(ch[c])
  <2>1. PICK p \in Slots(ch) : k = ch[p[1]][p[2]]
    BY <1>1 DEF Entries
  <2>2. p[1] \in DOMAIN ch /\ p[2] \in DOMAIN ch[p[1]]
    BY SlotFacts
  <2> QED BY <2>1, <2>2 DEF Entries
<1>3. ASSUME NEW c \in DOMAIN ch, NEW k \in Entries(ch[c])
      PROVE  k \in Entries(Flatten(ch))
  <2>1. PICK i \in DOMAIN ch[c] : ch[c][i] = k
    BY DEF Entries
  <2> DEFINE p == <<c, i>>
  <2>2. p \in Slots(ch) /\ ch[p[1]][p[2]] = k
    BY <2>1, SlotFacts
  <2> HIDE DEF p
  <2> QED BY <1>1, <2>2 DEF Entries
<1> QED BY <1>2, <1>3

(* Rounding up: n entries fill so many pages. *)
LEMMA PageCount ==
  ASSUME NEW n \in Nat, NEW size \in Nat \ {0}
  PROVE  LET N == (n + size - 1) \div size
         IN  /\ N \in Nat
             /\ N * size >= n /\ n > (N - 1) * size
<1> DEFINE m == n + size - 1
           N == m \div size
<1>1. m \in Nat /\ size > 0
  OBVIOUS
<1> HIDE DEF m
<1>2. N \in Nat /\ N * size <= m /\ m < (N + 1) * size
  BY <1>1
<1>3. (N + 1) * size = N * size + size /\ (N - 1) * size = N * size - size
  BY <1>2
<1>4. N * size \in Nat
  BY <1>2
<1> HIDE DEF N
<1> QED BY <1>1, <1>2, <1>3, <1>4 DEF m, N

(* Multiples of the page size grow with the page number. *)
LEMMA PageStarts ==
  ASSUME NEW a \in Nat, NEW b \in Nat, NEW size \in Nat, a <= b
  PROVE  a * size \in Nat /\ b * size \in Nat /\ a * size <= b * size
<1>1. PICK d \in Nat : b = a + d
  <2>1. b - a \in Nat /\ b = a + (b - a)
    OBVIOUS
  <2> QED BY <2>1
<1>2. b * size = a * size + d * size
  BY <1>1
<1>3. d * size \in Nat /\ a * size \in Nat
  OBVIOUS
<1> QED BY <1>2, <1>3

(* Where page c starts, how much of s it gets, and what that means. *)
Filled(s, size) == (Len(s) + size - 1) \div size

From(size, c) == (c - 1) * size

Share(s, size, c) == IF c * size <= Len(s) THEN size ELSE Len(s) - From(size, c)

CutHere(s, size, c, from, len) ==
  /\ from \in Nat /\ len \in 1 .. size /\ from + len <= Len(s)
  /\ c < Filled(s, size) => len = size
  /\ c = Filled(s, size) => from + len = Len(s)
  /\ DOMAIN Cut(s, size)[c] = 1 .. len
  /\ \A i \in 1 .. len : Cut(s, size)[c][i] = s[from + i]

(* The page c of a cut list. *)
LEMMA CutPage ==
  ASSUME NEW S, NEW s \in Seq(S), NEW size \in Nat \ {0}
  PROVE  /\ Filled(s, size) \in Nat /\ DOMAIN Cut(s, size) = 1 .. Filled(s, size)
         /\ \A c \in 1 .. Filled(s, size) : CutHere(s, size, c, From(size, c), Share(s, size, c))
<1> DEFINE n == Len(s)
           N == (n + size - 1) \div size
           last(c) == IF c * size <= n THEN c * size ELSE n
<1>1. n \in Nat
  BY LenProperties
<1>2. N \in Nat /\ N * size >= n /\ n > (N - 1) * size
  <2> HIDE DEF n
  <2> QED BY <1>1, PageCount
<1>3. Cut(s, size) = [c \in 1 .. N |-> SubSeq(s, (c - 1) * size + 1, last(c))]
  BY DEF Cut
<1> HIDE DEF N
<1>0. Filled(s, size) = N
  BY DEF N, Filled
<1> SUFFICES ASSUME NEW c \in 1 .. N
             PROVE  CutHere(s, size, c, From(size, c), Share(s, size, c))
  BY <1>0, <1>2, <1>3
<1> DEFINE from == (c - 1) * size
           len == IF c * size <= n THEN size ELSE n - from
<1>d. from = From(size, c) /\ len = Share(s, size, c)
  BY DEF From, Share
<1>4. from \in Nat /\ c * size = from + size /\ c * size \in Nat /\ from < n
  <2>1. c - 1 \in Nat /\ N - 1 \in Nat /\ c - 1 <= N - 1
    BY <1>2
  <2>2. from <= (N - 1) * size /\ from \in Nat /\ (N - 1) * size \in Nat
    BY <2>1, PageStarts
  <2>3. c * size = (c - 1) * size + size
    BY <1>2
  <2> QED BY <1>1, <1>2, <2>2, <2>3
<1>5. c < N => c * size <= n
  <2> SUFFICES ASSUME c < N PROVE c * size <= n
    OBVIOUS
  <2>1. c \in Nat /\ N - 1 \in Nat /\ c <= N - 1
    BY <1>2
  <2>2. c * size <= (N - 1) * size /\ (N - 1) * size \in Nat
    BY <2>1, PageStarts
  <2> QED BY <1>1, <1>2, <1>4, <2>2
<1> DEFINE top == c * size
<1>a. top \in Nat /\ top = from + size /\ (c < N => top <= n) /\ (c = N => n <= top)
  BY <1>2, <1>4, <1>5
<1>b. len = (IF top <= n THEN size ELSE n - from) /\ last(c) = (IF top <= n THEN top ELSE n)
  OBVIOUS
<1>c. from \in Nat /\ from < n
  BY <1>4
<1> HIDE DEF from, len, last, top, n
<1>6. last(c) \in Nat /\ last(c) <= n /\ len \in Nat /\ last(c) = from + len
  <2>1. CASE top <= n
    BY <1>1, <1>a, <1>b, <1>c, <2>1
  <2>2. CASE ~(top <= n)
    BY <1>1, <1>a, <1>b, <1>c, <2>2
  <2> QED BY <2>1, <2>2
<1>7. len \in 1 .. size /\ (c < N => len = size) /\ (c = N => from + len = n)
  <2>1. CASE top <= n
    BY <1>1, <1>a, <1>b, <1>c, <2>1
  <2>2. CASE ~(top <= n)
    BY <1>1, <1>a, <1>b, <1>c, <2>2
  <2> QED BY <2>1, <2>2
<1>8. Cut(s, size)[c] = SubSeq(s, from + 1, last(c))
  BY <1>3 DEF from, last, n
<1>9. DOMAIN s = 1 .. n /\ n = Len(s)
  BY LenProperties DEF n
<1>10. \A i \in from + 1 .. last(c) : s[i] \in S
  <2>1. \A i \in from + 1 .. last(c) : i \in 1 .. n
    BY <1>1, <1>4, <1>6
  <2> QED BY <1>9, <2>1, ElementOfSeq
<1>11. /\ DOMAIN SubSeq(s, from + 1, last(c)) = 1 .. len
       /\ \A i \in 1 .. len : SubSeq(s, from + 1, last(c))[i] = s[from + i]
  <2>1. from + 1 \in Int /\ last(c) \in Int
    BY <1>4, <1>6
  <2>2. /\ SubSeq(s, from + 1, last(c)) \in Seq(S)
        /\ Len(SubSeq(s, from + 1, last(c)))
             = (IF from + 1 <= last(c) THEN last(c) - (from + 1) + 1 ELSE 0)
        /\ \A i \in 1 .. last(c) - (from + 1) + 1 :
             SubSeq(s, from + 1, last(c))[i] = s[from + 1 + i - 1]
    BY <1>10, <2>1, SubSeqProperties
  <2>3. last(c) - (from + 1) + 1 = len /\ from + 1 <= last(c) /\ size \in Nat
    BY <1>4, <1>6, <1>7
  <2>4. Len(SubSeq(s, from + 1, last(c))) = len
    BY <2>2, <2>3
  <2>5. \A i \in 1 .. len : from + 1 + i - 1 = from + i
    BY <1>4, <1>6
  <2> QED BY <2>2, <2>3, <2>4, <2>5, LenProperties
<1>12. CutHere(s, size, c, from, len)
  BY <1>0, <1>4, <1>6, <1>7, <1>8, <1>9, <1>11 DEF CutHere
<1> QED BY <1>d, <1>12

(* Cutting a list into pages and reading the pages gives the list. *)
LEMMA FlattenCut ==
  ASSUME NEW S, NEW s \in Seq(S), NEW size \in Nat \ {0}
  PROVE  /\ Flatten(Cut(s, size)) = s
         /\ \A c \in DOMAIN Cut(s, size) : Len(Cut(s, size)[c]) <= size
<1> DEFINE ch == Cut(s, size)
           N == Filled(s, size)
           from(c) == From(size, c)
           len(c) == Share(s, size, c)
           f == [p \in Slots(ch) |-> from(p[1]) + p[2]]
<1>1. Len(s) \in Nat /\ DOMAIN s = 1 .. Len(s) /\ ch \in Seq(Seq(S)) /\ size \in Nat
  BY LenProperties, CutType
<1>2. N \in Nat /\ DOMAIN ch = 1 .. N
  BY CutPage
<1>3. \A c \in 1 .. N : /\ from(c) \in Nat /\ len(c) \in 1 .. size
                        /\ from(c) + len(c) <= Len(s)
                        /\ c < N => len(c) = size
                        /\ c = N => from(c) + len(c) = Len(s)
                        /\ DOMAIN ch[c] = 1 .. len(c)
                        /\ \A i \in 1 .. len(c) : ch[c][i] = s[from(c) + i]
  BY CutPage DEF CutHere
<1>4. N * size >= Len(s)
  BY <1>1, PageCount DEF Filled
<1> HIDE DEF N, ch
<1>5. /\ \A c, i : <<c, i>> \in Slots(ch) <=> c \in DOMAIN ch /\ i \in DOMAIN ch[c]
      /\ \A p \in Slots(ch) : /\ p = <<p[1], p[2]>> /\ p[1] \in 1 .. N
                              /\ p[2] \in DOMAIN ch[p[1]]
  BY <1>1, <1>2, SlotFacts
<1> HIDE DEF len
<1>6. \A p \in Slots(ch) : /\ p[1] \in 1 .. N /\ p[2] \in 1 .. size
                           /\ p[2] \in 1 .. len(p[1]) /\ from(p[1]) \in Nat
                           /\ from(p[1]) + p[2] \in 1 .. Len(s)
  <2> SUFFICES ASSUME NEW p \in Slots(ch)
               PROVE  /\ p[2] \in 1 .. size
                      /\ p[2] \in 1 .. len(p[1]) /\ from(p[1]) \in Nat
                      /\ from(p[1]) + p[2] \in 1 .. Len(s)
    BY <1>5
  <2>1. p[1] \in 1 .. N /\ p[2] \in 1 .. len(p[1])
    BY <1>3, <1>5
  <2>2. from(p[1]) \in Nat /\ len(p[1]) \in 1 .. size /\ from(p[1]) + len(p[1]) <= Len(s)
    BY <1>3, <2>1
  <2> HIDE DEF from
  <2> QED BY <1>1, <2>1, <2>2
<1>7. f \in [Slots(ch) -> 1 .. Len(s)]
  <2> HIDE DEF from
  <2> QED BY <1>6
<1>8. \A p, q \in Slots(ch) : ReadBy(p, q) /\ p # q => f[p] < f[q]
  <2> SUFFICES ASSUME NEW p \in Slots(ch), NEW q \in Slots(ch), ReadBy(p, q), p # q
               PROVE  from(p[1]) + p[2] < from(q[1]) + q[2]
    OBVIOUS
  <2>1. p = <<p[1], p[2]>> /\ q = <<q[1], q[2]>>
    BY <1>5
  <2>2. /\ p[1] \in Nat /\ p[2] \in 1 .. size /\ from(p[1]) \in Nat
        /\ q[1] \in Nat /\ q[2] \in 1 .. size /\ from(q[1]) \in Nat
        /\ p[1] - 1 \in Nat /\ q[1] - 1 \in Nat
    <3> HIDE DEF from
    <3>1. p[1] \in 1 .. N /\ p[2] \in 1 .. size /\ from(p[1]) \in Nat
      BY <1>6
    <3>2. q[1] \in 1 .. N /\ q[2] \in 1 .. size /\ from(q[1]) \in Nat
      BY <1>6
    <3> QED BY <1>2, <3>1, <3>2
  <2>3. CASE p[1] < q[1]
    <3>1. p[1] \in Nat /\ q[1] - 1 \in Nat /\ p[1] <= q[1] - 1
      BY <2>2, <2>3
    <3>2. p[1] * size <= (q[1] - 1) * size /\ p[1] * size \in Nat
      <4> DEFINE a == p[1]
                 b == q[1] - 1
      <4>1. a \in Nat /\ b \in Nat /\ a <= b
        BY <3>1
      <4> HIDE DEF a, b
      <4>2. a * size <= b * size /\ a * size \in Nat
        BY <1>1, <4>1, PageStarts
      <4> QED BY <4>2 DEF a, b
    <3>3. from(p[1]) + size = p[1] * size
      <4>1. \A a \in Nat : (a - 1) * size + size = a * size
        BY <1>1
      <4> QED BY <3>1, <4>1 DEF From
    <3>4. from(p[1]) + size <= from(q[1])
      BY <3>2, <3>3 DEF From
    <3> HIDE DEF from
    <3> QED BY <1>1, <2>2, <3>4
  <2>4. CASE ~(p[1] < q[1])
    <3>1. p[1] = q[1] /\ p[2] <= q[2] /\ p[2] # q[2]
      BY <2>1, <2>4 DEF ReadBy
    <3> HIDE DEF from
    <3> QED BY <2>2, <3>1
  <2> QED BY <2>3, <2>4
<1>9. \A r \in 1 .. Len(s) : \E p \in Slots(ch) : f[p] = r
  <2> SUFFICES ASSUME NEW r \in 1 .. Len(s) PROVE \E p \in Slots(ch) : f[p] = r
    OBVIOUS
  <2> DEFINE d == (r - 1) \div size
             j == (r - 1) - d * size
  <2>1. d \in Nat /\ d * size <= r - 1 /\ r - 1 < (d + 1) * size /\ d * size \in Nat
    <3>1. \A m \in Nat : /\ m \div size \in Nat /\ (m \div size) * size \in Nat
                          /\ (m \div size) * size <= m
                          /\ m < (m \div size + 1) * size
      OBVIOUS
    <3>2. r - 1 \in Nat
      BY <1>1
    <3> QED BY <3>1, <3>2
  <2>2. (d + 1) * size = d * size + size
    BY <1>1, <2>1
  <2> HIDE DEF d
  <2>3. j \in Nat /\ j < size
    BY <1>1, <2>1, <2>2
  <2>4. d + 1 \in 1 .. N
    <3> SUFFICES ASSUME N <= d PROVE FALSE
      BY <1>2, <2>1
    <3>1. N * size <= d * size
      BY <1>1, <1>2, <2>1, PageStarts
    <3>2. N * size \in Nat
      BY <1>1, <1>2
    <3> QED BY <1>1, <1>4, <2>1, <3>1, <3>2
  <2>5. from(d + 1) = d * size
    BY <2>1 DEF From
  <2>6. j + 1 \in 1 .. len(d + 1)
    <3>1. len(d + 1) \in 1 .. size /\ (d + 1 < N => len(d + 1) = size)
          /\ (d + 1 = N => d * size + len(d + 1) = Len(s))
      BY <1>3, <2>4, <2>5
    <3>2. d + 1 < N \/ d + 1 = N
      BY <1>2, <2>1, <2>4
    <3>3. len(d + 1) \in Nat /\ d * size \in Nat /\ j = r - 1 - d * size
      BY <1>1, <2>1, <3>1
    <3>4. CASE d + 1 < N
      BY <1>1, <2>3, <3>1, <3>3, <3>4
    <3>5. CASE d + 1 = N
      BY <1>1, <2>3, <3>1, <3>3, <3>5
    <3> QED BY <3>2, <3>4, <3>5
  <2> DEFINE p == <<d + 1, j + 1>>
  <2>7. p \in Slots(ch)
    BY <1>2, <1>3, <1>5, <2>4, <2>6
  <2>8. f[p] = r
    <3>1. f[p] = from(d + 1) + (j + 1)
      BY <2>7
    <3> QED BY <1>1, <2>1, <2>5, <3>1
  <2> QED BY <2>7, <2>8
<1>10. \A p \in Slots(ch) : ch[p[1]][p[2]] = s[f[p]]
  <2> HIDE DEF from
  <2> QED BY <1>3, <1>6
<1> HIDE DEF f
<1>11. Numbers(ch, s, f)
  BY <1>7, <1>8, <1>9, <1>10 DEF Numbers
<1>12. Flatten(ch) = s
  BY <1>1, <1>11, FlattenIs
<1>13. \A c \in DOMAIN ch : Len(ch[c]) <= size
  <2> SUFFICES ASSUME NEW c \in DOMAIN ch PROVE Len(ch[c]) <= size
    OBVIOUS
  <2>1. len(c) \in 1 .. size /\ DOMAIN ch[c] = 1 .. len(c)
    BY <1>2, <1>3
  <2>2. ch[c] \in Seq(S)
    BY <1>1, ElementOfSeq, LenProperties
  <2>3. DOMAIN ch[c] = 1 .. Len(ch[c]) /\ Len(ch[c]) \in Nat
    BY <2>2, LenProperties
  <2> QED BY <1>1, <2>1, <2>3
<1> QED BY <1>12, <1>13 DEF ch

(* The pages t hold g of the entries of ch, slot by slot. *)
Maps(ch, t, g) ==
  /\ DOMAIN t = DOMAIN ch
  /\ \A c \in DOMAIN ch : /\ DOMAIN t[c] = DOMAIN ch[c]
                          /\ \A i \in DOMAIN ch[c] : t[c][i] = g[ch[c][i]]

(* Changing the entries one by one changes the list so. *)
LEMMA FlattenMap ==
  ASSUME NEW S, NEW ch \in Seq(Seq(S)), NEW g, NEW t, Maps(ch, t, g)
  PROVE  Flatten(t) = [i \in DOMAIN Flatten(ch) |-> g[Flatten(ch)[i]]]
<1> DEFINE N == Cardinality(Slots(ch))
           pick(i) == CHOOSE p \in Slots(ch) : SlotNumber(Slots(ch), p) = i
<1>1. Slots(t) = Slots(ch)
  BY DEF Slots, Maps
<1>2. /\ Len(Flatten(ch)) = N /\ DOMAIN Flatten(ch) = 1 .. N
      /\ \A r \in 1 .. N : \E p \in Slots(ch) : SlotNumber(Slots(ch), p) = r
  BY FlattenFacts, LenProperties
<1>3. \A p \in Slots(ch) : p[1] \in DOMAIN ch /\ p[2] \in DOMAIN ch[p[1]]
  BY SlotFacts
<1>4. \A p \in Slots(ch) : t[p[1]][p[2]] = g[ch[p[1]][p[2]]]
  BY <1>3 DEF Maps
<1>5. Flatten(ch) = [i \in 1 .. N |-> ch[pick(i)[1]][pick(i)[2]]]
  BY DEF Flatten
<1>6. Flatten(t) = [i \in 1 .. N |-> t[pick(i)[1]][pick(i)[2]]]
  BY <1>1 DEF Flatten
<1>7. \A i \in 1 .. N : pick(i) \in Slots(ch)
  BY <1>2
<1> HIDE DEF pick, N
<1>8. \A i \in 1 .. N : t[pick(i)[1]][pick(i)[2]] = g[Flatten(ch)[i]]
  BY <1>4, <1>5, <1>7
<1>9. Flatten(t) = [i \in 1 .. N |-> g[Flatten(ch)[i]]]
  BY <1>6, <1>8
<1> QED BY <1>2, <1>9

-----------------------------------------------------------------------------
(* Slices. *)

(* The entries of s behind position a up to position b. *)
LEMMA Slice ==
  ASSUME NEW S, NEW s \in Seq(S), NEW a \in Nat, NEW b \in Nat, a <= b, b <= Len(s)
  PROVE  /\ SubSeq(s, a + 1, b) \in Seq(S)
         /\ Len(SubSeq(s, a + 1, b)) = b - a
         /\ DOMAIN SubSeq(s, a + 1, b) = 1 .. b - a
         /\ \A i \in 1 .. b - a : SubSeq(s, a + 1, b)[i] = s[a + i]
         /\ Entries(SubSeq(s, a + 1, b)) \subseteq Entries(s)
<1> DEFINE t == SubSeq(s, a + 1, b)
<1>1. Len(s) \in Nat /\ DOMAIN s = 1 .. Len(s)
  BY LenProperties
<1>2. \A i \in a + 1 .. b : i \in DOMAIN s
  BY <1>1
<1>3. \A i \in a + 1 .. b : s[i] \in S
  BY <1>1, <1>2, ElementOfSeq
<1>4. a + 1 \in Int /\ b \in Int
  OBVIOUS
<1>5. /\ t \in Seq(S) /\ Len(t) = (IF a + 1 <= b THEN b - (a + 1) + 1 ELSE 0)
      /\ \A i \in 1 .. b - (a + 1) + 1 : t[i] = s[a + 1 + i - 1]
  BY <1>3, <1>4, SubSeqProperties
<1> HIDE DEF t
<1>6. Len(t) = b - a /\ DOMAIN t = 1 .. b - a
  BY <1>5, LenProperties
<1>7. \A i \in 1 .. b - a : t[i] = s[a + i]
  <2> SUFFICES ASSUME NEW i \in 1 .. b - a PROVE t[i] = s[a + i]
    OBVIOUS
  <2>1. i \in 1 .. b - (a + 1) + 1 /\ a + 1 + i - 1 = a + i
    OBVIOUS
  <2> QED BY <1>5, <2>1
<1>8. \A i \in 1 .. b - a : a + i \in DOMAIN s
  BY <1>1
<1>9. Entries(t) \subseteq Entries(s)
  BY <1>6, <1>7, <1>8 DEF Entries
<1> QED BY <1>5, <1>6, <1>7, <1>9 DEF t

(* Adjacent slices join, and the slice up to the end is all of s. *)
LEMMA SliceJoin ==
  ASSUME NEW S, NEW s \in Seq(S), NEW a \in Nat, NEW b \in Nat, a <= b, b <= Len(s)
  PROVE  /\ SubSeq(s, 1, a) \o SubSeq(s, a + 1, b) = SubSeq(s, 1, b)
         /\ SubSeq(s, 1, Len(s)) = s
         /\ SubSeq(s, 1, 0) = <<>>
<1>0. Len(s) \in Nat /\ 0 \in Nat /\ 0 + 1 = 1
  BY LenProperties
<1>1. ASSUME NEW c \in Nat, c <= Len(s)
      PROVE  /\ SubSeq(s, 1, c) \in Seq(S) /\ Len(SubSeq(s, 1, c)) = c
             /\ \A i \in 1 .. c : SubSeq(s, 1, c)[i] = s[i]
  <2>1. /\ SubSeq(s, 0 + 1, c) \in Seq(S) /\ Len(SubSeq(s, 0 + 1, c)) = c - 0
        /\ \A i \in 1 .. c - 0 : SubSeq(s, 0 + 1, c)[i] = s[0 + i]
    BY <1>0, <1>1, Slice
  <2> QED BY <1>0, <2>1
<1> DEFINE t == SubSeq(s, 1, a)
           u == SubSeq(s, a + 1, b)
           v == SubSeq(s, 1, b)
<1>2. /\ t \in Seq(S) /\ Len(t) = a /\ \A i \in 1 .. a : t[i] = s[i]
  BY <1>0, <1>1
<1>3. /\ v \in Seq(S) /\ Len(v) = b /\ \A i \in 1 .. b : v[i] = s[i]
  BY <1>0, <1>1
<1>4. /\ u \in Seq(S) /\ Len(u) = b - a /\ \A i \in 1 .. b - a : u[i] = s[a + i]
  BY <1>0, Slice
<1> HIDE DEF t, u, v
<1>5. /\ t \o u \in Seq(S) /\ Len(t \o u) = a + (b - a)
      /\ \A i \in 1 .. a + (b - a) : (t \o u)[i] = IF i <= a THEN t[i] ELSE u[i - a]
  BY <1>2, <1>4, ConcatProperties
<1>6. \A i \in 1 .. b : (t \o u)[i] = v[i]
  <2> SUFFICES ASSUME NEW i \in 1 .. b PROVE (t \o u)[i] = s[i]
    BY <1>3
  <2>1. CASE i <= a
    BY <1>2, <1>5, <2>1
  <2>2. CASE ~(i <= a)
    <3>1. i - a \in 1 .. b - a /\ a + (i - a) = i /\ i \in 1 .. a + (b - a)
      BY <2>2
    <3>2. (t \o u)[i] = u[i - a]
      BY <1>5, <2>2, <3>1
    <3>3. u[i - a] = s[a + (i - a)]
      BY <1>4, <3>1
    <3> QED BY <3>1, <3>2, <3>3
  <2> QED BY <2>1, <2>2
<1>7. Len(t \o u) = Len(v) /\ Len(v) = b
  BY <1>3, <1>5
<1>8. t \o u = v
  BY <1>3, <1>5, <1>6, <1>7, SeqEqual
<1>9. SubSeq(s, 1, Len(s)) = s
  BY <1>0, <1>1, SeqEqual
<1>10. SubSeq(s, 1, 0) = <<>>
  BY <1>0, <1>1, EmptySeq
<1> QED BY <1>8, <1>9, <1>10 DEF t, u, v

=============================================================================
