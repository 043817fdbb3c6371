------------------------- MODULE ProtocolFilesProofs -------------------------
(***************************************************************************)
(* That saving a protocol and reading it back gives the protocol, for all  *)
(* documents: compiling is idempotent.  What a route or a policy has added *)
(* to a protocol is in it, so compiling it once more adds nothing; what a  *)
(* file leaves out is derived again.  The lists a definition is made of    *)
(* come first: the items at some places of one, the distinct values of     *)
(* one, several joined to one.  An induction over the natural numbers is   *)
(* carried out by a set of counterexamples that has no least element.      *)
(***************************************************************************)
EXTENDS ProtocolFiles, FiniteSetTheorems, SequenceTheorems, WellFoundedInduction, TLAPS

(***************************************************************************)
(* Numbers: a set without a least member has none.                         *)
(***************************************************************************)
LEMMA NoLeast ==
    ASSUME NEW B, B \subseteq Nat, \A m \in B : \E k \in B : k < m
    PROVE  B = {}
<1>1. SUFFICES ASSUME B # {} PROVE FALSE
  OBVIOUS
<1>2. PICK m \in B : \A k \in B : <<k, m>> \notin OpToRel(<, Nat)
  BY <1>1, NatLessThanWellFounded, WFMin
<1>3. \A k \in B : ~(k < m)
  BY <1>2 DEF OpToRel
<1>4. QED
  BY <1>3

-----------------------------------------------------------------------------
(***************************************************************************)
(* Lists: their items, the items at some of their places, one after the    *)
(* other.                                                                  *)
(***************************************************************************)
\* A list is a sequence of its items, and a sequence is a list.
LEMMA ListIsSeq ==
    ASSUME NEW q, IsList(q)
    PROVE  /\ q \in Seq(ItemsOf(q)) /\ DOMAIN q = 1..Len(q) /\ Len(q) \in Nat
           /\ ItemsOf(q) = {q[i] : i \in 1..Len(q)}
<1>1. Len(q) \in Nat /\ q = [i \in 1..Len(q) |-> q[i]]
  BY DEF IsList
<1>2. DOMAIN q = 1..Len(q)
  BY <1>1
<1>3. q \in [1..Len(q) -> ItemsOf(q)]
  BY <1>1, <1>2 DEF ItemsOf
<1>4. q \in Seq(ItemsOf(q))
  BY <1>1, <1>3
<1>5. QED
  BY <1>1, <1>2, <1>4 DEF ItemsOf

\* A sequence is a list, whatever its items are taken from.
LEMMA SeqIsList ==
    ASSUME NEW S, NEW q \in Seq(S) PROVE IsList(q) /\ ItemsOf(q) \subseteq S
BY DEF IsList, ItemsOf

\* One list after another.
LEMMA ListConcat ==
    ASSUME NEW q, NEW r, IsList(q), IsList(r)
    PROVE  /\ IsList(q \o r) /\ Len(q \o r) = Len(q) + Len(r)
           /\ \A i \in 1..(Len(q) + Len(r)) :
                 (q \o r)[i] = IF i <= Len(q) THEN q[i] ELSE r[i - Len(q)]
           /\ ItemsOf(q \o r) = ItemsOf(q) \cup ItemsOf(r)
<1>1. PICK S : S = ItemsOf(q) \cup ItemsOf(r)
  OBVIOUS
<1>2. q \in Seq(S) /\ r \in Seq(S) /\ Len(q) \in Nat /\ Len(r) \in Nat
  <2>1. q \in Seq(ItemsOf(q)) /\ r \in Seq(ItemsOf(r)) /\ Len(q) \in Nat /\ Len(r) \in Nat
    BY ListIsSeq
  <2>2. QED
    BY <1>1, <2>1, SeqMonotonic
<1>3. /\ q \o r \in Seq(S) /\ Len(q \o r) = Len(q) + Len(r)
      /\ \A i \in 1..(Len(q) + Len(r)) :
            (q \o r)[i] = IF i <= Len(q) THEN q[i] ELSE r[i - Len(q)]
  BY <1>2, ConcatProperties
<1>4. IsList(q \o r) /\ ItemsOf(q \o r) \subseteq S
  BY <1>3, SeqIsList
<1>5. ASSUME NEW x \in ItemsOf(q) PROVE x \in ItemsOf(q \o r)
  <2>1. PICK i \in 1..Len(q) : x = q[i]
    BY ListIsSeq
  <2>2. i \in 1..(Len(q) + Len(r)) /\ i <= Len(q)
    BY <1>2
  <2>3. (q \o r)[i] = x
    BY <1>3, <2>1, <2>2
  <2>4. QED
    BY <1>3, <1>4, <2>2, <2>3, ListIsSeq
<1>6. ASSUME NEW x \in ItemsOf(r) PROVE x \in ItemsOf(q \o r)
  <2>1. PICK i \in 1..Len(r) : x = r[i]
    BY ListIsSeq
  <2>2. /\ i + Len(q) \in 1..(Len(q) + Len(r)) /\ ~(i + Len(q) <= Len(q))
        /\ (i + Len(q)) - Len(q) = i
    BY <1>2
  <2>3. (q \o r)[i + Len(q)] = x
    BY <1>3, <2>1, <2>2
  <2>4. QED
    BY <1>3, <1>4, <2>2, <2>3, ListIsSeq
<1>7. QED
  BY <1>1, <1>3, <1>4, <1>5, <1>6

\* Two lists of the same length and items are one.
LEMMA SameList ==
    ASSUME NEW q, NEW r, IsList(q), IsList(r), Len(q) = Len(r),
           \A i \in 1..Len(q) : q[i] = r[i]
    PROVE  q = r
<1>1. q = [i \in 1..Len(q) |-> q[i]] /\ r = [i \in 1..Len(q) |-> r[i]]
  BY DEF IsList
<1>2. [i \in 1..Len(q) |-> q[i]] = [i \in 1..Len(q) |-> r[i]]
  OBVIOUS
<1>3. QED
  BY <1>1, <1>2

\* A function on the first numbers is a list.
LEMMA FunIsList ==
    ASSUME NEW n \in Nat, NEW q, DOMAIN q = 1..n, q = [i \in 1..n |-> q[i]]
    PROVE  IsList(q) /\ Len(q) = n
<1>1. PICK S : S = {q[i] : i \in 1..n}
  OBVIOUS
<1>2. q \in [1..n -> S]
  BY <1>1
<1>3. q \in Seq(S)
  BY <1>2
<1>4. IsList(q)
  BY <1>3, SeqIsList
<1>5. Len(q) = n
  BY <1>3
<1>6. QED
  BY <1>4, <1>5

-----------------------------------------------------------------------------
(***************************************************************************)
(* The k-th of some places: there is one for each k, and each place is the *)
(* k-th for one k.                                                         *)
(***************************************************************************)
Below(S, i) == {j \in S : j < i}

\* Some of finitely many places can be counted.
LEMMA PlacesFinite ==
    ASSUME NEW n \in Nat, NEW S, S \subseteq 1..n
    PROVE  IsFiniteSet(S) /\ Cardinality(S) \in Nat
<1>1. 0 \in Int /\ 1 \in Int /\ n \in Int /\ S \in SUBSET (1..n)
  OBVIOUS
<1>2. IsFiniteSet(1..n)
  BY <1>1, FS_Interval
<1>3. IsFiniteSet(S)
  BY <1>1, <1>2, FS_Subset
<1>4. QED
  BY <1>3, FS_CardinalityType

\* Of two places the later has more before it.
LEMMA BelowGrows ==
    ASSUME NEW n \in Nat, NEW S, S \subseteq 1..n, NEW i \in S, NEW k \in S, i < k
    PROVE  /\ Cardinality(Below(S, i)) \in Nat /\ Cardinality(Below(S, k)) \in Nat
           /\ Cardinality(Below(S, i)) < Cardinality(Below(S, k))
           /\ Cardinality(Below(S, k)) < Cardinality(S)
<1>1. IsFiniteSet(S) /\ Cardinality(S) \in Nat
  BY PlacesFinite
<1>2. IsFiniteSet(Below(S, k)) /\ IsFiniteSet(Below(S, i))
  <2>1. Below(S, k) \in SUBSET S /\ Below(S, i) \in SUBSET S
    BY DEF Below
  <2>2. QED
    BY <1>1, <2>1, FS_Subset
<1>3. /\ Cardinality(Below(S, k)) \in Nat /\ Cardinality(Below(S, i)) \in Nat
  BY <1>2, FS_CardinalityType
<1>4. Below(S, i) \in SUBSET Below(S, k) /\ i \in Below(S, k) /\ i \notin Below(S, i)
  <2>1. \A j \in S : j \in Int
    OBVIOUS
  <2>2. ASSUME NEW j \in S, j < i PROVE j < k
    BY <2>1, <2>2
  <2>3. ~(i < i)
    BY <2>1
  <2>4. QED
    BY <2>2, <2>3 DEF Below
<1>5. Cardinality(Below(S, i)) < Cardinality(Below(S, k))
  <2>1. Cardinality(Below(S, i)) <= Cardinality(Below(S, k))
    BY <1>2, <1>4, FS_Subset
  <2>2. Cardinality(Below(S, k)) = Cardinality(Below(S, i)) => Below(S, k) = Below(S, i)
    BY <1>2, <1>4, FS_Subset
  <2>3. QED
    BY <1>3, <1>4, <2>1, <2>2
<1>6. Below(S, k) \in SUBSET S /\ k \in S /\ k \notin Below(S, k)
  BY DEF Below
<1>7. Cardinality(Below(S, k)) < Cardinality(S)
  <2>1. Cardinality(Below(S, k)) <= Cardinality(S)
    BY <1>1, <1>6, FS_Subset
  <2>2. Cardinality(S) = Cardinality(Below(S, k)) => S = Below(S, k)
    BY <1>1, <1>6, FS_Subset
  <2>3. QED
    BY <1>1, <1>3, <1>6, <2>1, <2>2
<1>8. QED
  BY <1>3, <1>5, <1>7

\* What is before a place is less than all.
LEMMA BelowSome ==
    ASSUME NEW n \in Nat, NEW S, S \subseteq 1..n, NEW k \in S
    PROVE  Cardinality(Below(S, k)) \in 0..(Cardinality(S) - 1) /\ Cardinality(S) \in Nat
<1>1. IsFiniteSet(S) /\ Cardinality(S) \in Nat
  BY PlacesFinite
<1>2. Below(S, k) \in SUBSET S /\ k \notin Below(S, k)
  <2>1. k \in Int /\ ~(k < k)
    OBVIOUS
  <2>2. QED
    BY <2>1 DEF Below
<1>3. IsFiniteSet(Below(S, k))
  BY <1>1, <1>2, FS_Subset
<1>4. Cardinality(Below(S, k)) \in Nat
  BY <1>3, FS_CardinalityType
<1>5. Cardinality(Below(S, k)) <= Cardinality(S)
  BY <1>1, <1>2, FS_Subset
<1>6. Cardinality(S) = Cardinality(Below(S, k)) => S = Below(S, k)
  BY <1>1, <1>2, FS_Subset
<1>7. QED
  BY <1>1, <1>2, <1>4, <1>5, <1>6

\* The places and the numbers up to their number, one to one.
LEMMA Ranked ==
    ASSUME NEW n \in Nat, NEW S, S \subseteq 1..n
    PROVE  /\ Cardinality(S) \in Nat
           /\ \A k \in 1..Cardinality(S) : \E i \in S : Cardinality(Below(S, i)) = k - 1
           /\ \A i, j \in S : Cardinality(Below(S, i)) = Cardinality(Below(S, j)) => i = j
<1>1. IsFiniteSet(S) /\ Cardinality(S) \in Nat
  BY PlacesFinite
<1>2. \A i, j \in S : Cardinality(Below(S, i)) = Cardinality(Below(S, j)) => i = j
  <2>1. SUFFICES ASSUME NEW i \in S, NEW j \in S, i # j
                 PROVE  Cardinality(Below(S, i)) # Cardinality(Below(S, j))
    OBVIOUS
  <2>2. i < j \/ j < i
    BY <2>1
  <2>3. CASE i < j
    <3>1. /\ Cardinality(Below(S, i)) \in Nat /\ Cardinality(Below(S, j)) \in Nat
          /\ Cardinality(Below(S, i)) < Cardinality(Below(S, j))
      BY <2>3, BelowGrows
    <3>2. QED
      BY <3>1
  <2>4. CASE j < i
    <3>1. /\ Cardinality(Below(S, i)) \in Nat /\ Cardinality(Below(S, j)) \in Nat
          /\ Cardinality(Below(S, j)) < Cardinality(Below(S, i))
      BY <2>4, BelowGrows
    <3>2. QED
      BY <3>1
  <2>5. QED
    BY <2>2, <2>3, <2>4
<1>3. PICK c : c = Cardinality(S)
  OBVIOUS
<1>4. PICK f : f = [i \in S |-> Cardinality(Below(S, i)) + 1]
  OBVIOUS
<1>5. ASSUME NEW i \in S PROVE f[i] = Cardinality(Below(S, i)) + 1 /\ f[i] \in 1..c
                                 /\ Cardinality(Below(S, i)) \in Nat
  <2>1. Cardinality(Below(S, i)) \in 0..(c - 1)
    BY <1>3, BelowSome
  <2>2. f[i] = Cardinality(Below(S, i)) + 1
    BY <1>4
  <2>3. QED
    BY <1>1, <1>3, <2>1, <2>2
<1>6. f \in Injection(S, 1..c)
  <2>1. f \in [S -> 1..c]
    BY <1>4, <1>5
  <2>2. \A i, j \in S : f[i] = f[j] => i = j
    <3>1. SUFFICES ASSUME NEW i \in S, NEW j \in S, f[i] = f[j] PROVE i = j
      OBVIOUS
    <3>2. Cardinality(Below(S, i)) = Cardinality(Below(S, j))
      BY <1>5, <3>1
    <3>3. QED
      BY <1>2, <3>2
  <2>3. QED
    BY <2>1, <2>2 DEF Injection, IsInjective
<1>7. IsFiniteSet(1..c) /\ Cardinality(1..c) = c
  BY <1>1, <1>3, FS_Interval
<1>8. f \in Surjection(S, 1..c)
  BY <1>3, <1>6, <1>7, FS_Injection
<1>9. \A k \in 1..c : \E i \in S : f[i] = k
  BY <1>8 DEF Surjection
<1>10. ASSUME NEW k \in 1..c PROVE \E i \in S : Cardinality(Below(S, i)) = k - 1
  <2>1. PICK i \in S : f[i] = k
    BY <1>9
  <2>2. Cardinality(Below(S, i)) \in Nat /\ f[i] = Cardinality(Below(S, i)) + 1
    BY <1>5
  <2>3. QED
    BY <2>1, <2>2
<1>11. QED
  BY <1>1, <1>2, <1>3, <1>10

\* The items at some places: as many, each the item of one place.
LEMMA AtPlacesIs ==
    ASSUME NEW q, IsList(q), NEW S, S \subseteq DOMAIN q
    PROVE  /\ IsList(AtPlaces(q, S)) /\ Len(AtPlaces(q, S)) = Cardinality(S)
           /\ \E p \in [1..Cardinality(S) -> S] :
                 /\ \A k \in 1..Cardinality(S) :
                       /\ AtPlaces(q, S)[k] = q[p[k]]
                       /\ Cardinality(Below(S, p[k])) = k - 1
                 /\ \A i \in S : \E k \in 1..Cardinality(S) : p[k] = i
<1>1. /\ Cardinality(S) \in Nat
      /\ \A k \in 1..Cardinality(S) : \E i \in S : Cardinality(Below(S, i)) = k - 1
      /\ \A i, j \in S : Cardinality(Below(S, i)) = Cardinality(Below(S, j)) => i = j
  <2>1. Len(q) \in Nat /\ S \subseteq 1..Len(q)
    BY ListIsSeq
  <2>2. QED
    BY <2>1, Ranked
<1>2. PICK c : c = Cardinality(S)
  OBVIOUS
<1>3. PICK p : p = [k \in 1..c |-> CHOOSE i \in S : Cardinality(Below(S, i)) = k - 1]
  OBVIOUS
<1>4. ASSUME NEW k \in 1..c
      PROVE  /\ p[k] = (CHOOSE i \in S : Cardinality(Below(S, i)) = k - 1)
             /\ p[k] \in S /\ Cardinality(Below(S, p[k])) = k - 1
  <2>1. \E i \in S : Cardinality(Below(S, i)) = k - 1
    BY <1>1, <1>2
  <2>2. p[k] = (CHOOSE i \in S : Cardinality(Below(S, i)) = k - 1)
    BY <1>3
  <2>3. QED
    BY <2>1, <2>2
<1>5. p \in [1..c -> S]
  BY <1>3, <1>4
<1>6. AtPlaces(q, S) = [k \in 1..c |-> q[p[k]]]
  <2>1. AtPlaces(q, S) = [k \in 1..c |-> q[CHOOSE i \in S : Cardinality(Below(S, i)) = k - 1]]
    BY <1>2 DEF AtPlaces, Below
  <2>2. \A k \in 1..c : q[CHOOSE i \in S : Cardinality(Below(S, i)) = k - 1] = q[p[k]]
    BY <1>4
  <2>3. QED
    BY <2>1, <2>2
<1>7. ASSUME NEW i \in S PROVE \E k \in 1..c : p[k] = i
  <2>1. Len(q) \in Nat /\ S \subseteq 1..Len(q)
    BY ListIsSeq
  <2>2. Cardinality(Below(S, i)) \in 0..(c - 1)
    BY <1>2, <2>1, BelowSome
  <2>3. PICK k : k = Cardinality(Below(S, i)) + 1
    OBVIOUS
  <2>4. k \in 1..c /\ Cardinality(Below(S, i)) = k - 1
    BY <1>1, <1>2, <2>2, <2>3
  <2>5. p[k] \in S /\ Cardinality(Below(S, p[k])) = k - 1
    BY <1>4, <2>4
  <2>6. QED
    BY <1>1, <2>4, <2>5
<1>8. IsList(AtPlaces(q, S)) /\ Len(AtPlaces(q, S)) = c
  <2>1. /\ DOMAIN AtPlaces(q, S) = 1..c
        /\ AtPlaces(q, S) = [k \in 1..c |-> AtPlaces(q, S)[k]]
    BY <1>6
  <2>2. QED
    BY <1>1, <1>2, <2>1, FunIsList
<1>9. \A k \in 1..c : AtPlaces(q, S)[k] = q[p[k]] /\ Cardinality(Below(S, p[k])) = k - 1
  BY <1>4, <1>6
<1>10. QED
  BY <1>2, <1>5, <1>7, <1>8, <1>9

\* The same, of names for the list and for the number of places.
LEMMA AtPlacesAre ==
    ASSUME NEW q, IsList(q), NEW S, S \subseteq DOMAIN q,
           NEW c, c = Cardinality(S), NEW r, r = AtPlaces(q, S)
    PROVE  /\ IsList(r) /\ Len(r) = c
           /\ \E p \in [1..c -> S] :
                 /\ \A k \in 1..c : r[k] = q[p[k]] /\ Cardinality(Below(S, p[k])) = k - 1
                 /\ \A i \in S : \E k \in 1..c : p[k] = i
BY AtPlacesIs

\* At no place there is nothing.
LEMMA AtNoPlace == ASSUME NEW q PROVE AtPlaces(q, {}) = <<>>
<1>1. Cardinality({}) = 0
  BY FS_EmptySet
<1>2. DOMAIN AtPlaces(q, {}) = 1..0
  BY <1>1 DEF AtPlaces
<1>3. IsList(AtPlaces(q, {})) /\ Len(AtPlaces(q, {})) = 0
  <2>1. AtPlaces(q, {}) = [k \in 1..0 |-> AtPlaces(q, {})[k]]
    BY <1>1 DEF AtPlaces
  <2>2. QED
    BY <1>2, <2>1, FunIsList
<1>4. AtPlaces(q, {}) \in Seq(ItemsOf(AtPlaces(q, {})))
  BY <1>3, ListIsSeq
<1>5. QED
  BY <1>3, <1>4, EmptySeq

\* The items before some place, at their places, are the list up to there.
LEMMA AtFirstPlaces ==
    ASSUME NEW q, NEW r, IsList(q), IsList(r), Len(r) <= Len(q),
           \A i \in 1..Len(r) : q[i] = r[i]
    PROVE  AtPlaces(q, 1..Len(r)) = r
<1>1. PICK n : n = Len(r) /\ n \in Nat
  BY DEF IsList
<1>2. Len(q) \in Nat /\ DOMAIN q = 1..Len(q) /\ 1..n \subseteq DOMAIN q
  BY <1>1, ListIsSeq
<1>3. Cardinality(1..n) = n
  <2>1. 1 \in Int /\ n \in Int
    BY <1>1
  <2>2. Cardinality(1..n) = IF 1 > n THEN 0 ELSE n - 1 + 1
    BY <2>1, FS_Interval
  <2>3. QED
    BY <1>1, <2>2
<1>4. /\ IsList(AtPlaces(q, 1..n)) /\ Len(AtPlaces(q, 1..n)) = n
      /\ \E p \in [1..n -> 1..n] : \A k \in 1..n :
            /\ AtPlaces(q, 1..n)[k] = q[p[k]]
            /\ Cardinality(Below(1..n, p[k])) = k - 1
  <2>1. PICK S : S = 1..n
    OBVIOUS
  <2>2. PICK c, all : c = Cardinality(S) /\ all = AtPlaces(q, S) /\ S \subseteq DOMAIN q
    BY <1>2, <2>1
  <2>3. /\ IsList(all) /\ Len(all) = c
        /\ \E p \in [1..c -> S] :
              /\ \A k \in 1..c : all[k] = q[p[k]] /\ Cardinality(Below(S, p[k])) = k - 1
              /\ \A i \in S : \E k \in 1..c : p[k] = i
    BY <2>2, AtPlacesAre
  <2>4. c = n
    BY <1>3, <2>1, <2>2
  <2>5. QED
    BY <2>1, <2>2, <2>3, <2>4
<1>5. PICK p \in [1..n -> 1..n] : \A k \in 1..n :
          /\ AtPlaces(q, 1..n)[k] = q[p[k]]
          /\ Cardinality(Below(1..n, p[k])) = k - 1
  BY <1>4
<1>6. ASSUME NEW i \in 1..n PROVE Cardinality(Below(1..n, i)) = i - 1
  <2>1. Below(1..n, i) = 1..(i - 1)
    BY <1>1 DEF Below
  <2>2. Cardinality(1..(i - 1)) = i - 1
    BY <1>1, FS_Interval
  <2>3. QED
    BY <2>1, <2>2
<1>7. ASSUME NEW k \in 1..n PROVE AtPlaces(q, 1..n)[k] = r[k]
  <2>1. PICK i : i = p[k]
    OBVIOUS
  <2>2. i \in 1..n /\ AtPlaces(q, 1..n)[k] = q[i] /\ Cardinality(Below(1..n, i)) = k - 1
    BY <1>5, <2>1
  <2>3. i = k
    BY <1>1, <1>6, <2>2
  <2>4. QED
    BY <1>1, <2>2, <2>3
<1>8. QED
  BY <1>1, <1>4, <1>7, SameList

-----------------------------------------------------------------------------
(***************************************************************************)
(* The distinct values of a list: the same items, each once; and adding    *)
(* what is already there adds nothing.                                     *)
(***************************************************************************)
IsDistinct(q) == \A i, j \in DOMAIN q : q[i] = q[j] => i = j

FirstPlaces(q) == {i \in DOMAIN q : \A j \in 1..(i - 1) : q[j] # q[i]}

\* An item is somewhere first.
LEMMA FirstPlace ==
    ASSUME NEW q, IsList(q), NEW x \in ItemsOf(q)
    PROVE  \E i \in FirstPlaces(q) : q[i] = x
<1>1. DOMAIN q = 1..Len(q) /\ Len(q) \in Nat
  BY ListIsSeq
<1>2. PICK B : B = {i \in DOMAIN q : q[i] = x}
  OBVIOUS
<1>3. B \subseteq Nat /\ B # {}
  BY <1>1, <1>2 DEF ItemsOf
<1>4. PICK i \in B : \A k \in B : ~(k < i)
  BY <1>3, NoLeast
<1>5. \A j \in 1..(i - 1) : q[j] # q[i]
  <2>1. SUFFICES ASSUME NEW j \in 1..(i - 1), q[j] = q[i] PROVE FALSE
    OBVIOUS
  <2>2. i \in 1..Len(q) /\ q[i] = x
    BY <1>1, <1>2
  <2>3. j \in 1..Len(q) /\ j < i
    BY <1>1, <2>2
  <2>4. j \in B
    BY <1>1, <1>2, <2>1, <2>2, <2>3
  <2>5. QED
    BY <1>4, <2>3, <2>4
<1>6. QED
  BY <1>2, <1>5 DEF FirstPlaces

\* The distinct values of a list are a list without repetition, of the same items.
LEMMA FirstsAre ==
    ASSUME NEW q, IsList(q)
    PROVE  IsList(Firsts(q)) /\ IsDistinct(Firsts(q)) /\ ItemsOf(Firsts(q)) = ItemsOf(q)
<1>1. PICK S, r : S = FirstPlaces(q) /\ r = Firsts(q)
  OBVIOUS
<1>2. S \subseteq DOMAIN q /\ r = AtPlaces(q, S) /\ DOMAIN q = 1..Len(q) /\ Len(q) \in Nat
  BY <1>1, ListIsSeq DEF FirstPlaces, Firsts
<1>3. PICK c : c = Cardinality(S)
  OBVIOUS
<1>4. /\ IsList(r) /\ Len(r) = c
      /\ \E p \in [1..c -> S] :
            /\ \A k \in 1..c : r[k] = q[p[k]] /\ Cardinality(Below(S, p[k])) = k - 1
            /\ \A i \in S : \E k \in 1..c : p[k] = i
  BY <1>2, <1>3, AtPlacesAre
<1>5. PICK p \in [1..c -> S] :
          /\ \A k \in 1..c : r[k] = q[p[k]] /\ Cardinality(Below(S, p[k])) = k - 1
          /\ \A i \in S : \E k \in 1..c : p[k] = i
  BY <1>4
<1>6. DOMAIN r = 1..c /\ c \in Nat
  BY <1>4, ListIsSeq
<1>7. \A i, j \in S : q[i] = q[j] => i = j
  <2>1. SUFFICES ASSUME NEW i \in S, NEW j \in S, q[i] = q[j], i < j PROVE FALSE
    BY <1>2
  <2>2. i \in 1..(j - 1)
    BY <1>2, <2>1
  <2>3. QED
    BY <1>1, <2>1, <2>2 DEF FirstPlaces
<1>8. IsDistinct(r)
  <2>1. SUFFICES ASSUME NEW k \in 1..c, NEW l \in 1..c, r[k] = r[l] PROVE k = l
    BY <1>6 DEF IsDistinct
  <2>2. PICK i, j : i = p[k] /\ j = p[l]
    OBVIOUS
  <2>3. /\ i \in S /\ j \in S /\ q[i] = q[j]
        /\ Cardinality(Below(S, i)) = k - 1 /\ Cardinality(Below(S, j)) = l - 1
    BY <1>5, <2>1, <2>2
  <2>4. i = j
    BY <1>7, <2>3
  <2>5. k - 1 = l - 1
    BY <2>3, <2>4
  <2>6. QED
    BY <1>6, <2>5
<1>9. ItemsOf(r) \subseteq ItemsOf(q)
  BY <1>2, <1>5, <1>6 DEF ItemsOf
<1>10. ASSUME NEW x \in ItemsOf(q) PROVE x \in ItemsOf(r)
  <2>1. PICK i \in S : q[i] = x
    BY <1>1, FirstPlace
  <2>2. PICK k \in 1..c : p[k] = i
    BY <1>5
  <2>3. QED
    BY <1>5, <1>6, <2>1, <2>2 DEF ItemsOf
<1>11. QED
  BY <1>1, <1>4, <1>8, <1>9, <1>10

\* Where nothing new comes after, the distinct values stay.
LEMMA FirstsOfMore ==
    ASSUME NEW q, IsList(q), IsDistinct(q), NEW r, IsList(r), ItemsOf(r) \subseteq ItemsOf(q)
    PROVE  Firsts(q \o r) = q
<1>1. PICK all, n : all = q \o r /\ n = Len(q)
  OBVIOUS
<1>2. n \in Nat /\ Len(r) \in Nat /\ DOMAIN q = 1..n /\ DOMAIN r = 1..Len(r)
  BY <1>1, ListIsSeq
<1>3. /\ IsList(all) /\ Len(all) = n + Len(r) /\ DOMAIN all = 1..(n + Len(r))
      /\ \A i \in 1..(n + Len(r)) : all[i] = IF i <= n THEN q[i] ELSE r[i - n]
  BY <1>1, <1>2, ListConcat, ListIsSeq
<1>4. \A i \in 1..n : i \in DOMAIN all /\ all[i] = q[i]
  BY <1>2, <1>3
<1>5. ASSUME NEW i \in 1..n PROVE i \in FirstPlaces(all)
  <2>1. ASSUME NEW j \in 1..(i - 1) PROVE all[j] # all[i]
    <3>1. j \in 1..n /\ j # i
      BY <1>2
    <3>2. q[j] # q[i]
      BY <1>2, <3>1 DEF IsDistinct
    <3>3. QED
      BY <1>4, <3>1, <3>2
  <2>2. QED
    BY <1>4, <2>1 DEF FirstPlaces
<1>6. ASSUME NEW i \in FirstPlaces(all) PROVE i \in 1..n
  <2>1. i \in 1..(n + Len(r)) /\ \A j \in 1..(i - 1) : all[j] # all[i]
    BY <1>3 DEF FirstPlaces
  <2>2. SUFFICES ASSUME i > n PROVE FALSE
    BY <1>2, <2>1
  <2>3. i - n \in 1..Len(r) /\ ~(i <= n) /\ all[i] = r[i - n]
    BY <1>2, <1>3, <2>1, <2>2
  <2>4. all[i] \in ItemsOf(q)
    BY <1>2, <2>3 DEF ItemsOf
  <2>5. PICK k \in 1..n : all[i] = q[k]
    BY <1>2, <2>4 DEF ItemsOf
  <2>6. k \in 1..(i - 1) /\ all[k] = all[i]
    BY <1>2, <1>4, <2>1, <2>2, <2>5
  <2>7. QED
    BY <2>1, <2>6
<1>7. FirstPlaces(all) = 1..n
  BY <1>5, <1>6
<1>8. Firsts(all) = AtPlaces(all, 1..n)
  BY <1>7 DEF Firsts, FirstPlaces
<1>9. AtPlaces(all, 1..n) = q
  <2>1. n <= Len(all)
    BY <1>2, <1>3
  <2>2. QED
    BY <1>1, <1>3, <1>4, <2>1, AtFirstPlaces
<1>10. QED
  BY <1>1, <1>8, <1>9

-----------------------------------------------------------------------------
(***************************************************************************)
(* One list after the other: the recursion has a solution, what it gives   *)
(* is a list, and nothing when there was nothing in any of them.           *)
(***************************************************************************)
JoinedTo(lists, upTo, n) ==
    upTo = [k \in 0..n |-> IF k = 0 THEN <<>> ELSE upTo[k - 1] \o lists[k]]

\* The recursion has a solution up to any number of lists.
LEMMA JoinedToAll == ASSUME NEW lists, NEW n \in Nat PROVE \E f : JoinedTo(lists, f, n)
<1>1. PICK B : B = {m \in Nat : ~\E f : JoinedTo(lists, f, m)}
  OBVIOUS
<1>2. ASSUME NEW m \in B PROVE \E k \in B : k < m
  <2>1. m \in Nat /\ ~\E f : JoinedTo(lists, f, m)
    BY <1>1
  <2>2. m # 0
    <3>1. SUFFICES ASSUME m = 0 PROVE FALSE
      OBVIOUS
    <3>2. PICK f : f = [k \in 0..0 |-> <<>>]
      OBVIOUS
    <3>3. f = [k \in 0..0 |-> IF k = 0 THEN <<>> ELSE f[k - 1] \o lists[k]]
      BY <3>2
    <3>4. QED
      BY <2>1, <3>1, <3>3 DEF JoinedTo
  <2>3. SUFFICES ASSUME m - 1 \notin B PROVE FALSE
    BY <2>1, <2>2
  <2>4. PICK f : JoinedTo(lists, f, m - 1)
    BY <1>1, <2>1, <2>2, <2>3
  <2>5. PICK g : g = [k \in 0..m |-> IF k = m THEN f[m - 1] \o lists[m] ELSE f[k]]
    OBVIOUS
  <2>6. f = [k \in 0..(m - 1) |-> IF k = 0 THEN <<>> ELSE f[k - 1] \o lists[k]]
    BY <2>4 DEF JoinedTo
  <2>7. ASSUME NEW k \in 0..m
        PROVE  g[k] = IF k = 0 THEN <<>> ELSE g[k - 1] \o lists[k]
    <3>1. CASE k = 0
      <4>1. k # m /\ k \in 0..(m - 1)
        BY <2>1, <2>2, <3>1
      <4>2. g[k] = f[k] /\ f[k] = <<>>
        BY <2>5, <2>6, <3>1, <4>1
      <4>3. QED
        BY <3>1, <4>2
    <3>2. CASE k # 0
      <4>1. k - 1 \in 0..m /\ k - 1 # m
        BY <2>1, <3>2
      <4>2. g[k - 1] = f[k - 1]
        BY <2>5, <4>1
      <4>3. CASE k = m
        BY <2>5, <3>2, <4>2, <4>3
      <4>4. CASE k # m
        <5>1. k \in 0..(m - 1)
          BY <2>1, <4>4
        <5>2. g[k] = f[k] /\ f[k] = f[k - 1] \o lists[k]
          BY <2>5, <2>6, <3>2, <4>4, <5>1
        <5>3. QED
          BY <3>2, <4>2, <5>2
      <4>5. QED
        BY <4>3, <4>4
    <3>3. QED
      BY <3>1, <3>2
  <2>8. g = [k \in 0..m |-> g[k]]
    BY <2>5
  <2>9. JoinedTo(lists, g, m)
    <3>1. [k \in 0..m |-> g[k]] = [k \in 0..m |-> IF k = 0 THEN <<>> ELSE g[k - 1] \o lists[k]]
      BY <2>7
    <3>2. QED
      BY <2>8, <3>1 DEF JoinedTo
  <2>10. QED
    BY <2>1, <2>9
<1>3. B = {}
  BY <1>1, <1>2, NoLeast
<1>4. QED
  BY <1>1, <1>3

\* Joined is what a solution gives in the end.
LEMMA JoinedSolves ==
    ASSUME NEW lists, IsList(lists)
    PROVE  \E f : JoinedTo(lists, f, Len(lists)) /\ Joined(lists) = f[Len(lists)]
<1> DEFINE f == CHOOSE f : JoinedTo(lists, f, Len(lists))
<1>1. Len(lists) \in Nat
  BY ListIsSeq
<1>2. JoinedTo(lists, f, Len(lists))
  BY <1>1, JoinedToAll
<1>3. Joined(lists) = f[Len(lists)]
  BY DEF Joined, JoinedTo
<1>4. QED
  BY <1>2, <1>3

\* Lists joined are a list.
LEMMA JoinedIsList ==
    ASSUME NEW lists, IsList(lists), \A i \in DOMAIN lists : IsList(lists[i])
    PROVE  IsList(Joined(lists))
<1>1. PICK f, n : JoinedTo(lists, f, n) /\ Joined(lists) = f[n] /\ n = Len(lists)
  BY JoinedSolves
<1>2. n \in Nat /\ DOMAIN lists = 1..n
  BY <1>1, ListIsSeq
<1>3. f = [k \in 0..n |-> IF k = 0 THEN <<>> ELSE f[k - 1] \o lists[k]]
  BY <1>1 DEF JoinedTo
<1>4. PICK B : B = {k \in 0..n : ~IsList(f[k])}
  OBVIOUS
<1>5. IsList(<<>>)
  BY DEF IsList
<1>6. ASSUME NEW k \in B PROVE \E l \in B : l < k
  <2>1. k \in 0..n /\ ~IsList(f[k])
    BY <1>4
  <2>2. f[k] = IF k = 0 THEN <<>> ELSE f[k - 1] \o lists[k]
    BY <1>3, <2>1
  <2>3. k # 0
    BY <1>5, <2>1, <2>2
  <2>4. k - 1 \in 0..n /\ k - 1 < k /\ k \in 1..n
    BY <1>2, <2>1, <2>3
  <2>5. SUFFICES ASSUME IsList(f[k - 1]) PROVE FALSE
    BY <1>4, <2>4
  <2>6. IsList(lists[k])
    BY <1>2, <2>4
  <2>7. f[k] = f[k - 1] \o lists[k]
    BY <2>2, <2>3
  <2>8. IsList(f[k - 1] \o lists[k])
    BY <2>5, <2>6, ListConcat
  <2>9. QED
    BY <2>1, <2>7, <2>8
<1>7. B \subseteq Nat
  BY <1>2, <1>4
<1>8. B = {}
  BY <1>6, <1>7, NoLeast
<1>9. n \in 0..n
  BY <1>2
<1>10. QED
  BY <1>1, <1>4, <1>8, <1>9

\* Empty lists joined are empty.
LEMMA JoinedEmpty ==
    ASSUME NEW lists, IsList(lists), \A i \in DOMAIN lists : lists[i] = <<>>
    PROVE  Joined(lists) = <<>>
<1>1. PICK f, n : JoinedTo(lists, f, n) /\ Joined(lists) = f[n] /\ n = Len(lists)
  BY JoinedSolves
<1>2. n \in Nat /\ DOMAIN lists = 1..n
  BY <1>1, ListIsSeq
<1>3. f = [k \in 0..n |-> IF k = 0 THEN <<>> ELSE f[k - 1] \o lists[k]]
  BY <1>1 DEF JoinedTo
<1>4. PICK B : B = {k \in 0..n : f[k] # <<>>}
  OBVIOUS
<1>5. ASSUME NEW k \in B PROVE \E l \in B : l < k
  <2>1. k \in 0..n /\ f[k] # <<>>
    BY <1>4
  <2>2. f[k] = IF k = 0 THEN <<>> ELSE f[k - 1] \o lists[k]
    BY <1>3, <2>1
  <2>3. k # 0
    BY <2>1, <2>2
  <2>4. k - 1 \in 0..n /\ k - 1 < k /\ k \in 1..n
    BY <1>2, <2>1, <2>3
  <2>5. SUFFICES ASSUME f[k - 1] = <<>> PROVE FALSE
    BY <1>4, <2>4
  <2>6. lists[k] = <<>> /\ f[k] = f[k - 1] \o lists[k]
    BY <1>2, <2>2, <2>3, <2>4
  <2>7. <<>> \o <<>> = <<>>
    BY EmptySeq, ConcatEmptySeq
  <2>8. QED
    BY <2>1, <2>5, <2>6, <2>7
<1>6. B \subseteq Nat
  BY <1>2, <1>4
<1>7. B = {}
  BY <1>5, <1>6, NoLeast
<1>8. n \in 0..n
  BY <1>2
<1>9. QED
  BY <1>1, <1>4, <1>7, <1>8

-----------------------------------------------------------------------------
(***************************************************************************)
(* A definition as people write it, and what compiling leaves of it.       *)
(***************************************************************************)
IsDefinition(d) ==
    /\ {"name", "phases", "guardSets", "gates", "policies", "transitions", "outcomes"}
           \subseteq DOMAIN d
    /\ IsList(d.phases) /\ IsList(d.transitions) /\ IsList(d.outcomes)
    /\ IsList(d.policies) /\ IsList(d.gates)
    /\ \A i \in DOMAIN d.phases : PhaseFields \subseteq DOMAIN d.phases[i]
    /\ \A i \in DOMAIN d.policies : IsList(d.policies[i].outcomes)
    /\ \A i \in DOMAIN d.gates : IsList(d.gates[i].routes)

\* Beside phases, transitions and outcomes compiling changes nothing.
LEMMA CompiledFields ==
    ASSUME NEW d, IsDefinition(d), NEW c, c = Compiled(d)
    PROVE  /\ DOMAIN c = DOMAIN d
           /\ c.phases = [i \in DOMAIN d.phases |-> CompiledPhase(d, d.phases[i])]
           /\ c.transitions = CompiledTransitions(d)
           /\ c.outcomes = CompiledOutcomes(d, CompiledTransitions(d))
           /\ c.name = d.name /\ c.guardSets = d.guardSets /\ c.gates = d.gates
           /\ c.policies = d.policies
BY DEF IsDefinition, Compiled

\* Of a phase only its actions, guards and emitted outcomes.
LEMMA CompiledPhaseFields ==
    ASSUME NEW d, NEW ph, PhaseFields \subseteq DOMAIN ph,
           NEW c, c = CompiledPhase(d, ph)
    PROVE  /\ DOMAIN c = DOMAIN ph /\ c.actions = Actions(ph)
           /\ c.name = ph.name /\ c.gate = ph.gate /\ c.policy = ph.policy
           /\ c.guardSet = ph.guardSet /\ c.decided = ph.decided /\ c.template = ph.template
           /\ c.realtime = ph.realtime
BY DEF CompiledPhase, PhaseFields

\* A phase has an action, and what was inferred once stays.
LEMMA ActionsStay ==
    ASSUME NEW ph, NEW c, c.actions = Actions(ph), c.decided = ph.decided
    PROVE  Actions(c) = Actions(ph)
<1>1. Actions(ph) # {} /\ (ph.decided => "decide" \in Actions(ph))
  BY DEF Actions
<1>2. PICK a : a = Actions(ph)
  OBVIOUS
<1>3. c.actions = a /\ a # {}
  BY <1>1, <1>2
<1>4. Actions(c) = a \cup (IF c.decided THEN {"decide"} ELSE {})
  BY ONLY <1>3 DEF Actions
<1>5. QED
  BY <1>1, <1>2, <1>4

\* What there is of a name, and where it is last.
LEMMA CalledSome ==
    ASSUME NEW q, IsList(q), NEW name \in Names(q)
    PROVE  \E m \in DOMAIN q : q[m].name = name /\ LastCalled(q, name) = q[m]
<1>1. DOMAIN q = 1..Len(q) /\ Len(q) \in Nat
  BY ListIsSeq
<1>2. PICK n, C : n = Len(q) /\ C = Called(q, name)
  OBVIOUS
<1>3. C \subseteq 1..n /\ n \in Nat
  BY <1>1, <1>2 DEF Called
<1>4. C # {}
  <2>1. PICK i \in DOMAIN q : q[i].name = name
    BY DEF Names
  <2>2. QED
    BY <1>2, <2>1 DEF Called
<1>5. \E m \in C : \A j \in C : m >= j
  <2>1. PICK B : B = {n - i : i \in C}
    OBVIOUS
  <2>2. B \subseteq Nat /\ B # {}
    <3>1. \A i \in C : n - i \in Nat
      BY <1>3
    <3>2. QED
      BY <1>4, <2>1, <3>1
  <2>3. PICK k \in B : \A l \in B : ~(l < k)
    BY <2>2, NoLeast
  <2>4. PICK m \in C : k = n - m
    BY <2>1
  <2>5. ASSUME NEW j \in C PROVE m >= j
    <3>1. n - j \in B
      BY <2>1
    <3>2. ~(n - j < n - m)
      BY <2>3, <2>4, <3>1
    <3>3. QED
      BY <1>3, <3>2
  <2>6. QED
    BY <2>5
<1>6. PICK m : m = (CHOOSE i \in C : \A j \in C : i >= j)
  OBVIOUS
<1>7. m \in C
  BY <1>5, <1>6
<1>8. m \in DOMAIN q /\ q[m].name = name
  BY <1>2, <1>7 DEF Called
<1>9. LastCalled(q, name) = q[m]
  BY <1>2, <1>6 DEF LastCalled
<1>10. QED
  BY <1>2, <1>6, <1>8, <1>9

\* Where a name is first.
LEMMA FirstCalledIs ==
    ASSUME NEW q, IsList(q), NEW name, Called(q, name) # {}
    PROVE  \E i \in DOMAIN q : FirstCalled(q, name) = q[i]
<1>1. DOMAIN q = 1..Len(q) /\ Len(q) \in Nat
  BY ListIsSeq
<1>2. PICK C : C = Called(q, name)
  OBVIOUS
<1>3. C \subseteq DOMAIN q /\ C \subseteq Nat /\ C # {}
  BY <1>1, <1>2 DEF Called
<1>4. PICK m \in C : \A k \in C : ~(k < m)
  BY <1>3, NoLeast
<1>5. \A k \in C : m <= k
  BY <1>3, <1>4
<1>6. PICK i : i = (CHOOSE k \in C : \A j \in C : k <= j)
  OBVIOUS
<1>7. i \in C
  BY <1>5, <1>6
<1>8. FirstCalled(q, name) = q[i]
  BY <1>2, <1>6 DEF FirstCalled
<1>9. QED
  BY <1>3, <1>7, <1>8

\* The routes of a phase are a list.
LEMMA RoutesAreList ==
    ASSUME NEW d, IsList(d.gates), \A i \in DOMAIN d.gates : IsList(d.gates[i].routes), NEW ph
    PROVE  IsList(RoutesOf(d, ph))
<1>1. CASE Called(d.gates, ph.gate) = {}
  BY <1>1 DEF RoutesOf, IsList
<1>2. CASE Called(d.gates, ph.gate) # {}
  <2>1. PICK i \in DOMAIN d.gates : FirstCalled(d.gates, ph.gate) = d.gates[i]
    BY <1>2, FirstCalledIs
  <2>2. QED
    BY <1>2, <2>1 DEF RoutesOf
<1>3. QED
  BY <1>1, <1>2

\* What compiling adds for a phase is a list.
LEMMA AddedIsList ==
    ASSUME NEW d, IsList(d.gates), \A i \in DOMAIN d.gates : IsList(d.gates[i].routes), NEW name
    PROVE  IsList(RouteTransitions(d, name))
<1>1. PICK routes : routes = RoutesOf(d, LastCalled(d.phases, name))
  OBVIOUS
<1>2. IsList(routes)
  BY <1>1, RoutesAreList
<1>3. PICK q : q = [i \in DOMAIN routes |->
                      [from |-> name, to |-> routes[i].target, on |-> routes[i].outcome]]
  OBVIOUS
<1>4. PICK S : S = {i \in DOMAIN routes : TransitionsOn(d, name, routes[i].outcome) = {}}
  OBVIOUS
<1>5. IsList(q) /\ S \subseteq DOMAIN q
  <2>1. DOMAIN routes = 1..Len(routes) /\ Len(routes) \in Nat
    BY <1>2, ListIsSeq
  <2>2. DOMAIN q = 1..Len(routes) /\ q = [i \in 1..Len(routes) |-> q[i]]
    BY <1>3, <2>1
  <2>3. IsList(q)
    BY <2>1, <2>2, FunIsList
  <2>4. QED
    BY <1>3, <1>4, <2>3
<1>6. RouteTransitions(d, name) = AtPlaces(q, S)
  BY <1>1, <1>3, <1>4 DEF RouteTransitions
<1>7. QED
  BY <1>5, <1>6, AtPlacesIs

\* The names of the phases, once each.
LEMMA PhaseNamesAre ==
    ASSUME NEW d, IsList(d.phases)
    PROVE  IsList(PhaseNames(d)) /\ ItemsOf(PhaseNames(d)) = Names(d.phases)
<1>1. PICK q : q = [i \in DOMAIN d.phases |-> d.phases[i].name]
  OBVIOUS
<1>2. DOMAIN d.phases = 1..Len(d.phases) /\ Len(d.phases) \in Nat
  BY ListIsSeq
<1>3. IsList(q)
  <2>1. PICK n : n = Len(d.phases)
    OBVIOUS
  <2>2. DOMAIN q = 1..n /\ q = [i \in 1..n |-> q[i]] /\ n \in Nat
    BY <1>1, <1>2, <2>1
  <2>3. QED
    BY <2>2, FunIsList
<1>4. ItemsOf(q) = Names(d.phases)
  BY <1>1 DEF ItemsOf, Names
<1>5. QED
  BY <1>1, <1>3, <1>4, FirstsAre DEF PhaseNames

\* A list for each phase name is a list.
LEMMA PerNameIsList ==
    ASSUME NEW names, IsList(names), NEW lists, DOMAIN lists = DOMAIN names,
           lists = [k \in DOMAIN names |-> lists[k]]
    PROVE  IsList(lists)
<1>1. PICK n : n = Len(names)
  OBVIOUS
<1>2. DOMAIN names = 1..n /\ n \in Nat
  BY <1>1, ListIsSeq
<1>3. DOMAIN lists = 1..n /\ lists = [k \in 1..n |-> lists[k]]
  BY <1>2
<1>4. QED
  BY <1>2, <1>3, FunIsList

\* The transitions of a compiled definition are a list.
LEMMA TransitionsAreList ==
    ASSUME NEW d, IsDefinition(d)
    PROVE  IsList(CompiledTransitions(d))
<1>1. IsList(PhaseNames(d)) /\ IsList(d.transitions)
  BY PhaseNamesAre DEF IsDefinition
<1>2. PICK lists : lists = [k \in DOMAIN PhaseNames(d) |-> RouteTransitions(d, PhaseNames(d)[k])]
  OBVIOUS
<1>3. IsList(lists)
  <2>1. DOMAIN lists = DOMAIN PhaseNames(d) /\ lists = [k \in DOMAIN PhaseNames(d) |-> lists[k]]
    BY <1>2
  <2>2. QED
    BY <1>1, <2>1, PerNameIsList
<1>4. \A k \in DOMAIN lists : IsList(lists[k])
  BY <1>2, AddedIsList DEF IsDefinition
<1>5. IsList(Joined(lists))
  BY <1>3, <1>4, JoinedIsList
<1>6. CompiledTransitions(d) = d.transitions \o Joined(lists)
  BY <1>2 DEF CompiledTransitions
<1>7. QED
  BY <1>1, <1>5, <1>6, ListConcat

-----------------------------------------------------------------------------
(***************************************************************************)
(* Two documents that differ at most in what the phases' mode, guards and  *)
(* emitted outcomes are.                                                   *)
(***************************************************************************)
LikePhase(x, c) ==
    /\ x.name = c.name /\ x.gate = c.gate /\ x.policy = c.policy /\ x.guardSet = c.guardSet
    /\ x.actions = c.actions /\ x.decided = c.decided

Like(x, c) ==
    /\ x.guardSets = c.guardSets /\ x.gates = c.gates /\ x.policies = c.policies
    /\ x.transitions = c.transitions /\ x.outcomes = c.outcomes
    /\ DOMAIN x.phases = DOMAIN c.phases
    /\ \A i \in DOMAIN c.phases : LikePhase(x.phases[i], c.phases[i])

\* They refer to the same.
LEMMA LikeRefers ==
    ASSUME NEW x, NEW c, Like(x, c), ReferencesHold(c)
    PROVE  ReferencesHold(x)
<1>1. /\ x.guardSets = c.guardSets /\ x.gates = c.gates /\ x.policies = c.policies
      /\ x.transitions = c.transitions /\ x.outcomes = c.outcomes
      /\ DOMAIN x.phases = DOMAIN c.phases
      /\ \A i \in DOMAIN c.phases :
            /\ x.phases[i].name = c.phases[i].name /\ x.phases[i].gate = c.phases[i].gate
            /\ x.phases[i].policy = c.phases[i].policy
            /\ x.phases[i].guardSet = c.phases[i].guardSet
  BY DEF Like, LikePhase
<1>2. Names(x.phases) = Names(c.phases)
  BY <1>1 DEF Names
<1>3. AllNamesUnique(x)
  BY <1>1 DEF ReferencesHold, AllNamesUnique
<1>4. \A ph \in ItemsOf(x.phases) : \E i \in DOMAIN c.phases : ph = x.phases[i]
  BY <1>1 DEF ItemsOf
<1>5. \A i \in DOMAIN c.phases : c.phases[i] \in ItemsOf(c.phases)
  BY DEF ItemsOf
<1>6. ReferencesKnown(x)
  <2>1. \A ph \in ItemsOf(c.phases) :
            /\ ph.guardSet \in Names(c.guardSets) \cup {NoName}
            /\ ph.gate \in Names(c.gates) \cup {NoName}
            /\ ph.policy \in Names(c.policies) \cup {NoName}
    BY DEF ReferencesHold, ReferencesKnown
  <2>2. SUFFICES ASSUME NEW ph \in ItemsOf(x.phases)
                 PROVE  /\ ph.guardSet \in Names(x.guardSets) \cup {NoName}
                        /\ ph.gate \in Names(x.gates) \cup {NoName}
                        /\ ph.policy \in Names(x.policies) \cup {NoName}
    BY DEF ReferencesKnown
  <2>3. PICK i \in DOMAIN c.phases : ph = x.phases[i]
    BY <1>4
  <2>4. c.phases[i] \in ItemsOf(c.phases)
    BY <1>5
  <2>5. QED
    BY <1>1, <2>1, <2>3, <2>4
<1>7. RoutesSound(x, OutcomesOf(x))
  <2>1. RoutesSound(c, OutcomesOf(c))
    BY DEF ReferencesHold
  <2>2. OutcomesOf(x) = OutcomesOf(c)
    BY <1>1 DEF OutcomesOf
  <2>3. RoutedOutcomes(x) = RoutedOutcomes(c) /\ PolicyOutcomes(x) = PolicyOutcomes(c)
    BY <1>1 DEF RoutedOutcomes, PolicyOutcomes
  <2>4. QED
    BY <1>1, <1>2, <2>1, <2>2, <2>3 DEF RoutesSound
<1>8. RoutesAgree(x, 1)
  <2>1. SUFFICES ASSUME NEW ph \in ItemsOf(x.phases), NEW r \in ItemsOf(RoutesOf(x, ph)),
                        NEW S, S = TransitionsOn(x, ph.name, r.outcome)
                 PROVE  /\ 1 <= Cardinality(S) /\ Cardinality(S) <= 1
                        /\ \A i \in S : x.transitions[i].to = r.target
    BY DEF RoutesAgree
  <2>2. PICK i \in DOMAIN c.phases : ph = x.phases[i]
    BY <1>4
  <2>3. PICK old : old = c.phases[i] /\ old \in ItemsOf(c.phases)
    BY <1>5
  <2>4. ph.gate = old.gate /\ ph.name = old.name
    BY <1>1, <2>2, <2>3
  <2>5. RoutesOf(x, ph) = RoutesOf(c, old)
    BY <1>1, <2>4 DEF RoutesOf
  <2>6. S = TransitionsOn(c, old.name, r.outcome)
    BY <1>1, <2>1, <2>4 DEF TransitionsOn
  <2>7. RoutesAgree(c, 1)
    BY DEF ReferencesHold
  <2>8. /\ 1 <= Cardinality(S) /\ Cardinality(S) <= 1
        /\ \A k \in S : c.transitions[k].to = r.target
    BY <2>1, <2>3, <2>5, <2>6, <2>7 DEF RoutesAgree
  <2>9. QED
    BY <1>1, <2>8
<1>9. QED
  BY <1>3, <1>6, <1>7, <1>8 DEF ReferencesHold

\* What a compiled protocol refers to, a document may.
LEMMA ReferencesAreSemantics ==
    ASSUME NEW x, ReferencesHold(x), IsList(x.transitions) PROVE SemanticsHold(x)
<1>1. /\ AllNamesUnique(x) /\ ReferencesKnown(x) /\ RoutesSound(x, OutcomesOf(x))
      /\ RoutesAgree(x, 1)
  BY DEF ReferencesHold
<1>2. RoutesSound(x, IF x.outcomes = <<>> THEN RoutedOutcomes(x) \cup PolicyOutcomes(x)
                     ELSE OutcomesOf(x))
  <2>1. CASE x.outcomes = <<>>
    BY <1>1, <2>1 DEF RoutesSound
  <2>2. CASE x.outcomes # <<>>
    BY <1>1, <2>2
  <2>3. QED
    BY <2>1, <2>2
<1>3. RoutesAgree(x, 0)
  <2>1. SUFFICES ASSUME NEW ph \in ItemsOf(x.phases), NEW r \in ItemsOf(RoutesOf(x, ph)),
                        NEW S, S = TransitionsOn(x, ph.name, r.outcome)
                 PROVE  /\ 0 <= Cardinality(S) /\ Cardinality(S) <= 1
                        /\ \A i \in S : x.transitions[i].to = r.target
    BY DEF RoutesAgree
  <2>2. /\ Cardinality(S) <= 1
        /\ \A i \in S : x.transitions[i].to = r.target
    BY <1>1, <2>1 DEF RoutesAgree
  <2>3. PICK n : n = Len(x.transitions)
    OBVIOUS
  <2>4. n \in Nat /\ S \subseteq 1..n
    BY <2>1, <2>3, ListIsSeq DEF TransitionsOn
  <2>5. Cardinality(S) \in Nat
    BY <2>4, PlacesFinite
  <2>6. QED
    BY <2>2, <2>5
<1>4. QED
  BY <1>1, <1>2, <1>3 DEF SemanticsHold

\* Where every route of a phase has its transition, none is added.
LEMMA NoneAdded ==
    ASSUME NEW x, ReferencesHold(x), IsList(x.phases), IsList(x.transitions), NEW name \in Names(x.phases)
    PROVE  RouteTransitions(x, name) = <<>>
<1>1. PICK m \in DOMAIN x.phases : x.phases[m].name = name /\ LastCalled(x.phases, name) = x.phases[m]
  BY CalledSome
<1>2. PICK ph : ph = x.phases[m]
  OBVIOUS
<1>3. ph \in ItemsOf(x.phases) /\ ph.name = name /\ LastCalled(x.phases, name) = ph
  BY <1>1, <1>2 DEF ItemsOf
<1>4. PICK routes : routes = RoutesOf(x, ph)
  OBVIOUS
<1>5. ASSUME NEW i \in DOMAIN routes PROVE TransitionsOn(x, name, routes[i].outcome) # {}
  <2>1. PICK r : r = routes[i]
    OBVIOUS
  <2>2. r \in ItemsOf(routes)
    BY <2>1 DEF ItemsOf
  <2>3. 1 <= Cardinality(TransitionsOn(x, ph.name, r.outcome))
    BY <1>3, <1>4, <2>2 DEF ReferencesHold, RoutesAgree
  <2>4. Cardinality({}) = 0
    BY FS_EmptySet
  <2>5. SUFFICES ASSUME TransitionsOn(x, name, routes[i].outcome) = {} PROVE FALSE
    OBVIOUS
  <2>6. TransitionsOn(x, ph.name, r.outcome) = {}
    BY <1>3, <2>1, <2>5
  <2>7. 1 <= 0
    BY <2>3, <2>4, <2>6
  <2>8. QED
    BY <2>7
<1>6. {i \in DOMAIN routes : TransitionsOn(x, name, routes[i].outcome) = {}} = {}
  BY <1>5
<1>7. RoutesOf(x, LastCalled(x.phases, name)) = routes
  BY <1>3, <1>4
<1>8. QED
  BY <1>6, <1>7, AtNoPlace DEF RouteTransitions

\* Then the transitions are those there are.
LEMMA TransitionsStay ==
    ASSUME NEW x, ReferencesHold(x), IsList(x.phases), IsList(x.transitions)
    PROVE  CompiledTransitions(x) = x.transitions
<1>1. PICK names : names = PhaseNames(x)
  OBVIOUS
<1>2. IsList(names) /\ ItemsOf(names) = Names(x.phases)
  BY <1>1, PhaseNamesAre
<1>3. PICK lists : lists = [k \in DOMAIN names |-> RouteTransitions(x, names[k])]
  OBVIOUS
<1>4. IsList(lists)
  <2>1. DOMAIN lists = DOMAIN names /\ lists = [k \in DOMAIN names |-> lists[k]]
    BY <1>3
  <2>2. QED
    BY <1>2, <2>1, PerNameIsList
<1>5. ASSUME NEW k \in DOMAIN lists PROVE lists[k] = <<>>
  <2>1. names[k] \in Names(x.phases) /\ lists[k] = RouteTransitions(x, names[k])
    BY <1>2, <1>3 DEF ItemsOf
  <2>2. QED
    BY <2>1, NoneAdded
<1>6. Joined(lists) = <<>>
  BY <1>4, <1>5, JoinedEmpty
<1>7. CompiledTransitions(x) = x.transitions \o <<>>
  BY <1>1, <1>3, <1>6 DEF CompiledTransitions
<1>8. x.transitions \in Seq(ItemsOf(x.transitions))
  BY ListIsSeq
<1>9. QED
  BY <1>7, <1>8, ConcatEmptySeq

\* A list of members of a set is a sequence of them.
LEMMA ListInSeq ==
    ASSUME NEW q, IsList(q), NEW S, ItemsOf(q) \subseteq S PROVE q \in Seq(S)
<1>1. DOMAIN q = 1..Len(q) /\ Len(q) \in Nat
  BY ListIsSeq
<1>2. \A i \in 1..Len(q) : q[i] \in S
  BY <1>1 DEF ItemsOf
<1>3. q = [i \in 1..Len(q) |-> q[i]]
  BY DEF IsList
<1>4. PICK n : n = Len(q)
  OBVIOUS
<1>5. q = [i \in 1..n |-> q[i]] /\ n \in Nat /\ \A i \in 1..n : q[i] \in S
  BY <1>1, <1>2, <1>3, <1>4
<1>6. q \in [1..n -> S]
  BY <1>5
<1>7. QED
  BY <1>5, <1>6

\* One list after two is one list after the first.
LEMMA ListAssoc ==
    ASSUME NEW q, NEW r, NEW s, IsList(q), IsList(r), IsList(s)
    PROVE  (q \o r) \o s = q \o (r \o s)
<1>1. PICK S : S = ItemsOf(q) \cup ItemsOf(r) \cup ItemsOf(s)
  OBVIOUS
<1>2. q \in Seq(S) /\ r \in Seq(S) /\ s \in Seq(S)
  BY <1>1, ListInSeq
<1>3. QED
  BY <1>2, ConcatAssociative

\* What the transitions are taken on is a list.
LEMMA TakenIsList ==
    ASSUME NEW transitions, IsList(transitions),
           NEW on, on = [i \in DOMAIN transitions |-> transitions[i].on]
    PROVE  IsList(AtPlaces(on, {i \in DOMAIN on : on[i] # NoName}))
<1>1. PICK n : n = Len(transitions)
  OBVIOUS
<1>2. DOMAIN transitions = 1..n /\ n \in Nat
  BY <1>1, ListIsSeq
<1>3. DOMAIN on = 1..n /\ on = [i \in 1..n |-> on[i]]
  BY <1>2
<1>4. IsList(on)
  BY <1>2, <1>3, FunIsList
<1>5. PICK S : S = {i \in DOMAIN on : on[i] # NoName}
  OBVIOUS
<1>6. S \subseteq DOMAIN on
  BY <1>5
<1>7. IsList(AtPlaces(on, S))
  BY <1>4, <1>6, AtPlacesIs
<1>8. QED
  BY <1>5, <1>7

\* And so is what the policies speak of.
LEMMA PoliciesAreList ==
    ASSUME NEW policies, IsList(policies), \A i \in DOMAIN policies : IsList(policies[i].outcomes)
    PROVE  IsList(Joined([i \in DOMAIN policies |-> policies[i].outcomes]))
<1>1. PICK lists : lists = [i \in DOMAIN policies |-> policies[i].outcomes]
  OBVIOUS
<1>2. DOMAIN lists = DOMAIN policies /\ lists = [k \in DOMAIN policies |-> lists[k]]
  BY <1>1
<1>3. IsList(lists)
  BY <1>2, PerNameIsList
<1>4. \A i \in DOMAIN lists : IsList(lists[i])
  BY <1>1
<1>5. IsList(Joined(lists))
  BY <1>3, <1>4, JoinedIsList
<1>6. QED
  BY <1>1, <1>5

\* The distinct values of lists, joined with what was joined before, stay what they are.
LEMMA FirstsStay ==
    ASSUME NEW q0, NEW r, NEW s, IsList(q0), IsList(r), IsList(s),
           NEW q, q = Firsts(q0 \o r \o s)
    PROVE  IsList(q) /\ Firsts(q \o r \o s) = q
<1>1. IsList(r \o s) /\ ItemsOf(r \o s) = ItemsOf(r) \cup ItemsOf(s)
  BY ListConcat
<1>2. IsList(q0 \o r) /\ ItemsOf(q0 \o r) = ItemsOf(q0) \cup ItemsOf(r)
  BY ListConcat
<1>3. PICK qr : qr = q0 \o r
  OBVIOUS
<1>4. IsList(qr \o s) /\ ItemsOf(qr \o s) = ItemsOf(qr) \cup ItemsOf(s)
  BY <1>2, <1>3, ListConcat
<1>5. PICK all : all = qr \o s
  OBVIOUS
<1>6. IsList(all) /\ q = Firsts(all)
  BY <1>3, <1>4, <1>5
<1>7. IsList(q) /\ IsDistinct(q) /\ ItemsOf(q) = ItemsOf(all)
  BY <1>6, FirstsAre
<1>8. ItemsOf(r \o s) \subseteq ItemsOf(q)
  BY <1>1, <1>2, <1>3, <1>4, <1>5, <1>7
<1>9. Firsts(q \o (r \o s)) = q
  BY <1>1, <1>7, <1>8, FirstsOfMore
<1>10. (q \o r) \o s = q \o (r \o s)
  BY <1>7, ListAssoc
<1>11. QED
  BY <1>7, <1>9, <1>10

\* Then the outcomes are those there are.
LEMMA OutcomesStay ==
    ASSUME NEW d, IsDefinition(d), NEW c, c = Compiled(d),
           NEW x, x.outcomes = c.outcomes, x.policies = c.policies
    PROVE  IsList(c.outcomes) /\ CompiledOutcomes(x, c.transitions) = c.outcomes
<1>1. PICK transitions : transitions = c.transitions
  OBVIOUS
<1>2. /\ transitions = CompiledTransitions(d) /\ c.policies = d.policies
      /\ c.outcomes = CompiledOutcomes(d, transitions)
  <2>1. /\ c.transitions = CompiledTransitions(d) /\ c.policies = d.policies
        /\ c.outcomes = CompiledOutcomes(d, CompiledTransitions(d))
    BY CompiledFields
  <2>2. QED
    BY <1>1, <2>1
<1>3. IsList(transitions)
  BY <1>2, TransitionsAreList
<1>4. PICK on : on = [i \in DOMAIN transitions |-> transitions[i].on]
  OBVIOUS
<1>5. PICK r : r = AtPlaces(on, {i \in DOMAIN on : on[i] # NoName})
  OBVIOUS
<1>6. PICK s : s = Joined([i \in DOMAIN d.policies |-> d.policies[i].outcomes])
  OBVIOUS
<1>7. IsList(r)
  BY <1>3, <1>4, <1>5, TakenIsList
<1>8. IsList(s) /\ IsList(d.outcomes)
  BY <1>6, PoliciesAreList DEF IsDefinition
<1>9. CompiledOutcomes(d, transitions) = Firsts(d.outcomes \o r \o s)
  BY <1>4, <1>5, <1>6 DEF CompiledOutcomes
<1>10. CompiledOutcomes(x, transitions) = Firsts(c.outcomes \o r \o s)
  <2>1. x.policies = d.policies
    BY <1>2
  <2>2. QED
    BY <1>4, <1>5, <1>6, <2>1 DEF CompiledOutcomes
<1>11. c.outcomes = Firsts(d.outcomes \o r \o s)
  BY <1>2, <1>9
<1>12. IsList(c.outcomes) /\ Firsts(c.outcomes \o r \o s) = c.outcomes
  BY <1>7, <1>8, <1>11, FirstsStay
<1>13. QED
  BY <1>1, <1>10, <1>12

\* Two phases that differ at most in their mode, guards and emitted outcomes.
SamePhase(y, c) ==
    /\ DOMAIN y = DOMAIN c /\ y = [f \in DOMAIN c |-> y[f]]
    /\ \A f \in DOMAIN c \ {"realtime", "guards", "emitted"} : y[f] = c[f]

\* What is derived for a phase depends on nothing a file leaves out.
LEMMA PhaseStays ==
    ASSUME NEW d, NEW ph, PhaseFields \subseteq DOMAIN ph,
           NEW c, c = CompiledPhase(d, ph),
           NEW x, x.guardSets = d.guardSets, x.policies = d.policies,
           NEW y, SamePhase(y, c),
           NEW z, z = CompiledPhase(x, y)
    PROVE  z = [c EXCEPT !.realtime = y.realtime]
<1>1. c.actions = Actions(ph) /\ c.decided = ph.decided /\ c.guardSet = ph.guardSet
      /\ c.policy = ph.policy /\ DOMAIN c = DOMAIN ph
  BY CompiledPhaseFields
<1>2. y.actions = Actions(ph) /\ y.decided = ph.decided /\ y.guardSet = ph.guardSet
      /\ y.policy = ph.policy
  BY <1>1 DEF SamePhase, PhaseFields
<1>3. Actions(y) = Actions(ph)
  BY <1>2, ActionsStay
<1>4. PICK a, g, e :
         /\ a = Actions(ph)
         /\ g = IF Called(d.guardSets, ph.guardSet) = {} THEN {}
                ELSE LastCalled(d.guardSets, ph.guardSet).guards
         /\ e = IF Called(d.policies, ph.policy) = {} THEN <<>>
                ELSE LastCalled(d.policies, ph.policy).outcomes
  OBVIOUS
<1>5. c = [ph EXCEPT !.actions = a, !.guards = g, !.emitted = e]
  BY <1>4 DEF CompiledPhase
<1>6. z = [y EXCEPT !.actions = a, !.guards = g, !.emitted = e]
  BY <1>2, <1>3, <1>4 DEF CompiledPhase
<1>7. /\ DOMAIN y = DOMAIN ph
      /\ \A f \in DOMAIN ph \ {"realtime", "guards", "emitted"} : y[f] = c[f]
  BY <1>1 DEF SamePhase
<1>8. \A f \in DOMAIN ph : z[f] = IF f = "realtime" THEN y.realtime ELSE c[f]
  <2>1. ASSUME NEW f \in DOMAIN ph
        PROVE  z[f] = IF f = "realtime" THEN y.realtime ELSE c[f]
    <3>1. CASE f = "realtime"
      BY <1>6, <1>7, <3>1
    <3>2. CASE f = "actions"
      BY <1>5, <1>6, <1>7, <3>2
    <3>3. CASE f = "guards"
      BY <1>5, <1>6, <1>7, <3>3
    <3>4. CASE f = "emitted"
      BY <1>5, <1>6, <1>7, <3>4
    <3>5. CASE f \notin {"realtime", "actions", "guards", "emitted"}
      BY <1>6, <1>7, <3>5
    <3>6. QED
      BY <3>1, <3>2, <3>3, <3>4, <3>5
  <2>2. QED
    BY <2>1
<1>9. PICK w : w = [c EXCEPT !.realtime = y.realtime]
  OBVIOUS
<1>10. w = [f \in DOMAIN ph |-> IF f = "realtime" THEN y.realtime ELSE c[f]]
  BY <1>1, <1>9
<1>11. z = [f \in DOMAIN ph |-> z[f]]
  BY <1>6, <1>7
<1>12. z = w
  BY <1>8, <1>10, <1>11
<1>13. QED
  BY <1>9, <1>12

\* Two documents whose phases differ at most in that.
Same(x, c) ==
    /\ DOMAIN x = DOMAIN c /\ x = [f \in DOMAIN c |-> x[f]]
    /\ \A f \in DOMAIN c \ {"phases"} : x[f] = c[f]
    /\ DOMAIN x.phases = DOMAIN c.phases
    /\ x.phases = [i \in DOMAIN c.phases |-> x.phases[i]]
    /\ \A i \in DOMAIN c.phases : SamePhase(x.phases[i], c.phases[i])

\* The protocol, in the modes of the document.
InModesOf(c, x) ==
    [c EXCEPT !.phases = [i \in DOMAIN c.phases |->
                            [c.phases[i] EXCEPT !.realtime = x.phases[i].realtime]]]

\* Such documents are alike.
LEMMA SameIsLike ==
    ASSUME NEW x, NEW c, IsDefinition(c), Same(x, c) PROVE Like(x, c)
<1>1. /\ x.guardSets = c.guardSets /\ x.gates = c.gates /\ x.policies = c.policies
      /\ x.transitions = c.transitions /\ x.outcomes = c.outcomes
      /\ DOMAIN x.phases = DOMAIN c.phases
  BY DEF IsDefinition, Same
<1>2. ASSUME NEW i \in DOMAIN c.phases PROVE LikePhase(x.phases[i], c.phases[i])
  <2>1. SamePhase(x.phases[i], c.phases[i]) /\ PhaseFields \subseteq DOMAIN c.phases[i]
    BY DEF IsDefinition, Same
  <2>2. QED
    BY <2>1 DEF SamePhase, LikePhase, PhaseFields
<1>3. QED
  BY <1>1, <1>2 DEF Like

\* What compiles is a definition.
LEMMA CompiledIsDefinition ==
    ASSUME NEW d, IsDefinition(d), NEW c, c = Compiled(d) PROVE IsDefinition(c)
<1>1. /\ DOMAIN c = DOMAIN d
      /\ c.phases = [i \in DOMAIN d.phases |-> CompiledPhase(d, d.phases[i])]
      /\ c.transitions = CompiledTransitions(d)
      /\ c.gates = d.gates /\ c.policies = d.policies
  BY CompiledFields
<1>2. IsList(c.transitions)
  BY <1>1, TransitionsAreList
<1>3. IsList(c.outcomes)
  BY OutcomesStay
<1>4. IsList(c.phases)
  <2>1. PICK q : q = c.phases
    OBVIOUS
  <2>2. DOMAIN q = DOMAIN d.phases /\ q = [i \in DOMAIN d.phases |-> q[i]]
    BY <1>1, <2>1
  <2>3. IsList(q)
    BY <2>2, PerNameIsList DEF IsDefinition
  <2>4. QED
    BY <2>1, <2>3
<1>5. ASSUME NEW i \in DOMAIN c.phases PROVE PhaseFields \subseteq DOMAIN c.phases[i]
  <2>1. c.phases[i] = CompiledPhase(d, d.phases[i]) /\ PhaseFields \subseteq DOMAIN d.phases[i]
    BY <1>1 DEF IsDefinition
  <2>2. DOMAIN c.phases[i] = DOMAIN d.phases[i]
    BY <2>1, CompiledPhaseFields
  <2>3. QED
    BY <2>1, <2>2
<1>6. QED
  BY <1>1, <1>2, <1>3, <1>4, <1>5 DEF IsDefinition

\* Compiling what a protocol is read from gives the protocol.
LEMMA CompilesToSame ==
    ASSUME NEW d, IsDefinition(d), NEW c, c = Compiled(d), ReferencesHold(c),
           NEW x, Same(x, c)
    PROVE  Compiled(x) = InModesOf(c, x)
<1>1. IsDefinition(c) /\ Like(x, c)
  BY CompiledIsDefinition, SameIsLike
<1>2. /\ x.guardSets = c.guardSets /\ x.policies = c.policies
      /\ x.transitions = c.transitions /\ x.outcomes = c.outcomes
  BY <1>1 DEF Like
<1>3. IsList(x.phases)
  <2>1. PICK q : q = x.phases
    OBVIOUS
  <2>2. DOMAIN q = DOMAIN c.phases /\ q = [i \in DOMAIN c.phases |-> q[i]]
    BY <2>1 DEF Same
  <2>3. QED
    BY <1>1, <2>1, <2>2, PerNameIsList DEF IsDefinition
<1>4. CompiledTransitions(x) = c.transitions
  <2>1. IsList(x.transitions)
    BY <1>1, <1>2 DEF IsDefinition
  <2>2. ReferencesHold(x)
    BY <1>1, LikeRefers
  <2>3. QED
    BY <1>2, <1>3, <2>1, <2>2, TransitionsStay
<1>5. CompiledOutcomes(x, CompiledTransitions(x)) = c.outcomes
  BY <1>2, <1>4, OutcomesStay
<1>6. ASSUME NEW i \in DOMAIN c.phases
      PROVE  CompiledPhase(x, x.phases[i]) = [c.phases[i] EXCEPT !.realtime = x.phases[i].realtime]
  <2>1. PICK ph, old, y :
           ph = d.phases[i] /\ old = c.phases[i] /\ y = x.phases[i]
    OBVIOUS
  <2>2. c.phases = [k \in DOMAIN d.phases |-> CompiledPhase(d, d.phases[k])]
        /\ c.guardSets = d.guardSets /\ c.policies = d.policies
    BY CompiledFields
  <2>3. old = CompiledPhase(d, ph) /\ PhaseFields \subseteq DOMAIN ph
    BY <2>1, <2>2 DEF IsDefinition
  <2>4. x.guardSets = d.guardSets /\ x.policies = d.policies
    BY <1>2, <2>2
  <2>5. SamePhase(y, old)
    BY <2>1 DEF Same
  <2>6. CompiledPhase(x, y) = [old EXCEPT !.realtime = y.realtime]
    BY <2>3, <2>4, <2>5, PhaseStays
  <2>7. QED
    BY <2>1, <2>6
<1>7. PICK ps : ps = [i \in DOMAIN c.phases |->
                        [c.phases[i] EXCEPT !.realtime = x.phases[i].realtime]]
  OBVIOUS
<1>8. [i \in DOMAIN x.phases |-> CompiledPhase(x, x.phases[i])] = ps
  BY <1>6, <1>7 DEF Same
<1>9. PICK t, o : t = c.transitions /\ o = c.outcomes
  OBVIOUS
<1>10. Compiled(x) = [x EXCEPT !.phases = ps, !.transitions = t, !.outcomes = o]
  BY <1>4, <1>5, <1>8, <1>9 DEF Compiled
<1>11. PICK w : w = [c EXCEPT !.phases = ps]
  OBVIOUS
<1>12. PICK v : v = [x EXCEPT !.phases = ps, !.transitions = t, !.outcomes = o]
  OBVIOUS
<1>13. /\ DOMAIN x = DOMAIN c /\ \A f \in DOMAIN c \ {"phases"} : x[f] = c[f]
       /\ {"phases", "transitions", "outcomes"} \subseteq DOMAIN c
  BY <1>1 DEF Same, IsDefinition
<1>14. w = [f \in DOMAIN c |-> IF f = "phases" THEN ps ELSE c[f]]
  BY <1>11
<1>15. v = [f \in DOMAIN c |-> v[f]]
  BY <1>12, <1>13
<1>16. ASSUME NEW f \in DOMAIN c PROVE v[f] = IF f = "phases" THEN ps ELSE c[f]
  <2>1. CASE f = "phases"
    BY <1>12, <1>13, <2>1
  <2>2. CASE f = "transitions"
    BY <1>9, <1>12, <1>13, <2>2
  <2>3. CASE f = "outcomes"
    BY <1>9, <1>12, <1>13, <2>3
  <2>4. CASE f \notin {"phases", "transitions", "outcomes"}
    BY <1>12, <1>13, <2>4
  <2>5. QED
    BY <2>1, <2>2, <2>3, <2>4
<1>17. v = w
  BY <1>14, <1>15, <1>16
<1>18. QED
  BY <1>7, <1>10, <1>11, <1>12, <1>17 DEF InModesOf

\* In other modes a protocol is the same.
LEMMA InOtherModes ==
    ASSUME NEW c, IsDefinition(c), NEW x
    PROVE  Same(InModesOf(c, x), c)
<1>1. PICK w, ps : w = InModesOf(c, x)
                   /\ ps = [i \in DOMAIN c.phases |->
                              [c.phases[i] EXCEPT !.realtime = x.phases[i].realtime]]
  OBVIOUS
<1>2. w = [f \in DOMAIN c |-> IF f = "phases" THEN ps ELSE c[f]]
  BY <1>1 DEF InModesOf
<1>3. "phases" \in DOMAIN c
  BY DEF IsDefinition
<1>4. w.phases = ps /\ DOMAIN w = DOMAIN c /\ \A f \in DOMAIN c \ {"phases"} : w[f] = c[f]
  BY <1>2, <1>3
<1>5. w = [f \in DOMAIN c |-> w[f]]
  BY <1>2
<1>6. DOMAIN ps = DOMAIN c.phases /\ ps = [i \in DOMAIN c.phases |-> ps[i]]
  BY <1>1
<1>7. ASSUME NEW i \in DOMAIN c.phases PROVE SamePhase(ps[i], c.phases[i])
  <2>1. PICK y, old, m : y = ps[i] /\ old = c.phases[i] /\ m = x.phases[i].realtime
    OBVIOUS
  <2>2. y = [old EXCEPT !.realtime = m]
    BY <1>1, <2>1
  <2>3. SamePhase(y, old)
    BY <2>2 DEF SamePhase
  <2>4. QED
    BY <2>1, <2>3
<1>8. Same(w, c)
  BY <1>4, <1>5, <1>6, <1>7 DEF Same
<1>9. QED
  BY <1>1, <1>8

\* What is written differs at most in that, too.
LEMMA SavedIsSame ==
    ASSUME NEW c, IsDefinition(c)
    PROVE  Same(Saved(c), c) /\ InModesOf(c, Saved(c)) = AsRead(c)
<1>1. PICK w, ps : w = Saved(c)
                   /\ ps = [i \in DOMAIN c.phases |->
                        [c.phases[i] EXCEPT !.realtime = FALSE, !.guards = {}, !.emitted = <<>>]]
  OBVIOUS
<1>2. w = [c EXCEPT !.phases = ps]
  BY <1>1 DEF Saved
<1>3. "phases" \in DOMAIN c
  BY DEF IsDefinition
<1>4. w.phases = ps /\ DOMAIN w = DOMAIN c /\ \A f \in DOMAIN c \ {"phases"} : w[f] = c[f]
  BY <1>2, <1>3
<1>5. w = [f \in DOMAIN c |-> w[f]]
  BY <1>2
<1>6. DOMAIN ps = DOMAIN c.phases /\ ps = [i \in DOMAIN c.phases |-> ps[i]]
  BY <1>1
<1>7. ASSUME NEW i \in DOMAIN c.phases
      PROVE  SamePhase(ps[i], c.phases[i]) /\ ps[i].realtime = FALSE
  <2>1. PICK y, old : y = ps[i] /\ old = c.phases[i]
    OBVIOUS
  <2>2. y = [old EXCEPT !.realtime = FALSE, !.guards = {}, !.emitted = <<>>]
    BY <1>1, <2>1
  <2>3. PhaseFields \subseteq DOMAIN old
    BY <2>1 DEF IsDefinition
  <2>4. DOMAIN y = DOMAIN old /\ y = [f \in DOMAIN old |-> y[f]]
    BY <2>2
  <2>5. \A f \in DOMAIN old \ {"realtime", "guards", "emitted"} : y[f] = old[f]
    BY <2>2
  <2>6. y.realtime = FALSE
    BY <2>2, <2>3 DEF PhaseFields
  <2>7. QED
    BY <2>1, <2>4, <2>5, <2>6 DEF SamePhase
<1>8. Same(w, c)
  BY <1>4, <1>5, <1>6, <1>7 DEF Same
<1>9. InModesOf(c, w) = AsRead(c)
  <2>1. [i \in DOMAIN c.phases |-> [c.phases[i] EXCEPT !.realtime = w.phases[i].realtime]]
        = [i \in DOMAIN c.phases |-> [c.phases[i] EXCEPT !.realtime = FALSE]]
    BY <1>4, <1>7
  <2>2. c # Invalid
    <3>1. "phases" \notin DOMAIN Invalid
      BY DEF Invalid
    <3>2. QED
      BY <1>3, <3>1
  <2>3. QED
    BY <2>1, <2>2 DEF InModesOf, AsRead
<1>10. QED
  BY <1>1, <1>8, <1>9

\* A protocol is itself, in its own modes.
LEMMA SameAsItself ==
    ASSUME NEW c, IsDefinition(c), c = [f \in DOMAIN c |-> c[f]],
           \A i \in DOMAIN c.phases :
              c.phases[i] = [f \in DOMAIN c.phases[i] |-> c.phases[i][f]]
    PROVE  Same(c, c) /\ InModesOf(c, c) = c
<1>1. PICK ps : ps = c.phases
  OBVIOUS
<1>2. IsList(ps) /\ "phases" \in DOMAIN c
  BY <1>1 DEF IsDefinition
<1>3. ps = [i \in DOMAIN ps |-> ps[i]]
  BY <1>2, ListIsSeq DEF IsList
<1>4. ASSUME NEW i \in DOMAIN ps
      PROVE  SamePhase(ps[i], ps[i]) /\ [ps[i] EXCEPT !.realtime = ps[i].realtime] = ps[i]
  <2>1. PICK y : y = ps[i]
    OBVIOUS
  <2>2. y = [f \in DOMAIN y |-> y[f]]
    BY <1>1, <2>1
  <2>3. PICK m : m = y.realtime
    OBVIOUS
  <2>4. PICK z : z = [y EXCEPT !.realtime = m]
    OBVIOUS
  <2>5. z = [f \in DOMAIN y |-> IF f = "realtime" THEN m ELSE y[f]]
    BY <2>4
  <2>6. z = y
    BY <2>2, <2>3, <2>5
  <2>7. QED
    BY <2>1, <2>2, <2>3, <2>4, <2>6 DEF SamePhase
<1>5. Same(c, c)
  BY <1>1, <1>3, <1>4 DEF Same
<1>6. [i \in DOMAIN ps |-> [ps[i] EXCEPT !.realtime = ps[i].realtime]] = [i \in DOMAIN ps |-> ps[i]]
  BY <1>4
<1>7. [i \in DOMAIN ps |-> [ps[i] EXCEPT !.realtime = ps[i].realtime]] = ps
  BY <1>3, <1>6
<1>8. PICK w : w = [c EXCEPT !.phases = ps]
  OBVIOUS
<1>9. w = [f \in DOMAIN c |-> IF f = "phases" THEN ps ELSE c[f]]
  BY <1>8
<1>10. w = c
  BY <1>1, <1>9
<1>11. InModesOf(c, c) = w
  BY <1>1, <1>7, <1>8 DEF InModesOf
<1>12. QED
  BY <1>5, <1>10, <1>11

\* What a protocol is read from is valid, and the protocol in its modes.
LEMMA CompilesAgain ==
    ASSUME NEW d, IsDefinition(d), NEW c, c = Compiled(d), ReferencesHold(c),
           NEW x, Same(x, c)
    PROVE  Compile(x) = InModesOf(c, x)
<1>1. IsDefinition(c)
  BY CompiledIsDefinition
<1>2. PICK w : w = InModesOf(c, x)
  OBVIOUS
<1>3. Compiled(x) = w
  BY <1>2, CompilesToSame
<1>4. Same(w, c)
  BY <1>1, <1>2, InOtherModes
<1>5. ReferencesHold(w)
  BY <1>1, <1>4, SameIsLike, LikeRefers
<1>6. ReferencesHold(x) /\ x.transitions = c.transitions
  BY <1>1, SameIsLike, LikeRefers DEF Like
<1>7. SemanticsHold(x)
  BY <1>1, <1>6, ReferencesAreSemantics DEF IsDefinition
<1>8. x # Torn
  <2>1. "phases" \in DOMAIN x
    BY <1>1 DEF Same, IsDefinition
  <2>2. "phases" \notin DOMAIN Torn
    BY DEF Torn
  <2>3. QED
    BY <2>1, <2>2
<1>9. QED
  BY <1>2, <1>3, <1>5, <1>7, <1>8 DEF Compile

\* What a definition compiles to compiles to itself, and so does what is written of it.
LEMMA CompileAgain ==
    ASSUME NEW d, IsDefinition(d), NEW c, c = Compile(d), c # Invalid
    PROVE  /\ c.name = d.name
           /\ Compile(c) = c /\ Compile(Saved(c)) = AsRead(c) /\ AsRead(c).name = c.name
<1>1. c = Compiled(d) /\ ReferencesHold(c)
  BY DEF Compile
<1>2. IsDefinition(c)
  BY <1>1, CompiledIsDefinition
<1>3. c = [f \in DOMAIN c |-> c[f]]
  <2>1. PICK ps, t, o : c = [d EXCEPT !.phases = ps, !.transitions = t, !.outcomes = o]
    BY <1>1 DEF Compiled
  <2>2. QED
    BY <2>1
<1>4. ASSUME NEW i \in DOMAIN c.phases
      PROVE  c.phases[i] = [f \in DOMAIN c.phases[i] |-> c.phases[i][f]]
  <2>1. c.phases = [k \in DOMAIN d.phases |-> CompiledPhase(d, d.phases[k])]
    BY <1>1, CompiledFields
  <2>2. PICK y, ph : y = c.phases[i] /\ ph = d.phases[i]
    OBVIOUS
  <2>3. y = CompiledPhase(d, ph)
    BY <2>1, <2>2
  <2>4. PICK a, g, e : y = [ph EXCEPT !.actions = a, !.guards = g, !.emitted = e]
    BY <2>3 DEF CompiledPhase
  <2>5. y = [f \in DOMAIN y |-> y[f]]
    BY <2>4
  <2>6. QED
    BY <2>2, <2>5
<1>5. Same(c, c) /\ InModesOf(c, c) = c
  BY <1>2, <1>3, <1>4, SameAsItself
<1>6. Compile(c) = c
  BY <1>1, <1>5, CompilesAgain
<1>7. Same(Saved(c), c) /\ InModesOf(c, Saved(c)) = AsRead(c)
  BY <1>2, SavedIsSame
<1>8. Compile(Saved(c)) = AsRead(c)
  BY <1>1, <1>7, CompilesAgain
<1>9. c.name = d.name
  BY <1>1, CompiledFields
<1>10. AsRead(c).name = c.name
  BY <1>2 DEF AsRead, IsDefinition
<1>11. QED
  BY <1>6, <1>8, <1>9, <1>10

-----------------------------------------------------------------------------
(***************************************************************************)
(* What a save has accepted comes from a definition; its file holds it,    *)
(* or the save that writes it is on its way.                               *)
(***************************************************************************)
Accepted(n) ==
    \E d \in UNION Documents : d.name = n /\ accepted[n] = Compile(d) /\ Compile(d) # Invalid

FileHolds(n) == n \in DOMAIN local /\ local[n] = Saved(accepted[n])

FilesInv ==
    /\ drafts \in Documents
    /\ writing # NoWrite =>
          /\ writing.name \in DOMAIN accepted \cap DOMAIN local
          /\ writing.document = Saved(accepted[writing.name])
    /\ \A n \in DOMAIN accepted :
          Accepted(n) /\ (FileHolds(n) \/ (writing # NoWrite /\ writing.name = n))

\* The documents people work on are definitions.
LEMMA DraftIsDefinition == ASSUME NEW d \in UNION Documents PROVE IsDefinition(d)
BY ProtocolFilesAssumption DEF IsDefinition

\* Between two saves, all of it reads back.
LEMMA FilesReadBack == ASSUME FilesInv PROVE SavedReadsBack
<1>1. SUFFICES ASSUME writing = NoWrite, NEW n \in DOMAIN accepted
               PROVE  /\ Get(n) = AsRead(accepted[n]) /\ n \in ListedNames
                      /\ Compile(accepted[n]) = accepted[n]
  BY DEF SavedReadsBack
<1>2. Accepted(n) /\ FileHolds(n)
  BY <1>1 DEF FilesInv
<1>3. PICK d \in UNION Documents :
         d.name = n /\ accepted[n] = Compile(d) /\ Compile(d) # Invalid
  BY <1>2 DEF Accepted
<1>4. PICK c : c = Compile(d)
  OBVIOUS
<1>5. /\ c.name = d.name /\ AsRead(c).name = c.name
      /\ Compile(c) = c /\ Compile(Saved(c)) = AsRead(c)
  BY <1>3, <1>4, DraftIsDefinition, CompileAgain
<1>6. n \in DOMAIN local /\ local[n] = Saved(c)
  BY <1>2, <1>3, <1>4 DEF FileHolds
<1>7. Get(n) = AsRead(c)
  BY <1>5, <1>6 DEF Get
<1>8. n \in ListedNames
  <2>1. Compile(local[n]).name = n
    BY <1>3, <1>5, <1>6
  <2>2. QED
    BY <1>6, <2>1 DEF ListedNames
<1>9. QED
  BY <1>3, <1>4, <1>5, <1>7, <1>8

\* A save that begins accepts what its document compiles to.
LEMMA SaveBeginsHolds ==
    ASSUME FilesInv, NEW d \in drafts, SaveBegins(d) PROVE FilesInv'
<1>1. PICK n, c : n = d.name /\ c = Compile(d)
  OBVIOUS
<1>2. /\ writing = NoWrite /\ c # Invalid
      /\ writing' = [name |-> n, document |-> Saved(c)]
      /\ local' = [f \in DOMAIN local \cup {n} |-> IF f = n THEN Torn ELSE local[f]]
      /\ accepted' = [m \in DOMAIN accepted \cup {n} |-> IF m = n THEN c ELSE accepted[m]]
      /\ drafts' = drafts
  BY <1>1 DEF SaveBegins
<1>3. d \in UNION Documents
  BY DEF FilesInv
<1>4. c # Torn /\ IsDefinition(c)
  <2>1. c = Compiled(d)
    BY <1>1, <1>2 DEF Compile
  <2>2. IsDefinition(c)
    BY <1>3, <2>1, DraftIsDefinition, CompiledIsDefinition
  <2>3. "phases" \in DOMAIN c /\ "phases" \notin DOMAIN Torn
    BY <2>2 DEF IsDefinition, Torn
  <2>4. QED
    BY <2>2, <2>3
<1>5. writing' # NoWrite /\ writing'.name = n
  <2>1. "phases" \in DOMAIN Saved(c)
    BY <1>4 DEF Saved, IsDefinition
  <2>2. "phases" \notin DOMAIN Torn
    BY DEF Torn
  <2>3. Saved(c) # Torn
    BY <2>1, <2>2
  <2>4. QED
    BY <1>2, <2>3 DEF NoWrite
<1>6. ASSUME NEW m \in DOMAIN accepted'
      PROVE  Accepted(m)' /\ (FileHolds(m)' \/ (writing' # NoWrite /\ writing'.name = m))
  <2>1. CASE m = n
    <3>1. accepted'[m] = c
      BY <1>2, <2>1
    <3>2. QED
      BY <1>1, <1>2, <1>3, <1>5, <2>1, <3>1 DEF Accepted
  <2>2. CASE m # n
    <3>1. m \in DOMAIN accepted /\ accepted'[m] = accepted[m]
      BY <1>2, <2>2
    <3>2. Accepted(m) /\ FileHolds(m)
      BY <1>2, <3>1 DEF FilesInv
    <3>3. m \in DOMAIN local' /\ local'[m] = local[m]
      BY <1>2, <2>2, <3>2 DEF FileHolds
    <3>4. QED
      BY <3>1, <3>2, <3>3 DEF Accepted, FileHolds
  <2>3. QED
    BY <2>1, <2>2
<1>7. /\ n \in DOMAIN accepted' \cap DOMAIN local'
      /\ writing'.document = Saved(accepted'[n])
  BY <1>2
<1>8. QED
  BY <1>2, <1>5, <1>6, <1>7 DEF FilesInv

\* One that ends leaves the file it has written.
LEMMA SaveEndsHolds == ASSUME FilesInv, SaveEnds PROVE FilesInv'
<1>1. PICK n : n = writing.name
  OBVIOUS
<1>2. /\ writing # NoWrite /\ writing' = NoWrite
      /\ local' = [local EXCEPT ![n] = writing.document]
      /\ drafts' = drafts /\ accepted' = accepted
  BY <1>1 DEF SaveEnds
<1>3. n \in DOMAIN local /\ writing.document = Saved(accepted[n])
  BY <1>1, <1>2 DEF FilesInv
<1>4. ASSUME NEW m \in DOMAIN accepted' PROVE Accepted(m)' /\ FileHolds(m)'
  <2>1. Accepted(m) /\ (FileHolds(m) \/ n = m)
    BY <1>1, <1>2 DEF FilesInv
  <2>2. m \in DOMAIN local' /\ local'[m] = Saved(accepted[m])
    BY <1>2, <1>3, <2>1 DEF FileHolds
  <2>3. QED
    BY <1>2, <2>1, <2>2 DEF Accepted, FileHolds
<1>5. QED
  BY <1>2, <1>4 DEF FilesInv

\* A file that is deleted, or was cut, is accepted no more; the others stay.
LEMMA DroppedHolds ==
    ASSUME FilesInv, NEW name,
           accepted' = WithoutFile(accepted, name), drafts' = drafts, writing' = NoWrite,
           writing # NoWrite => writing.name = name,
           \A m \in DOMAIN local \ {name} : m \in DOMAIN local' /\ local'[m] = local[m]
    PROVE  FilesInv'
<1>1. ASSUME NEW m \in DOMAIN accepted' PROVE Accepted(m)' /\ FileHolds(m)'
  <2>1. m \in DOMAIN accepted /\ m # name /\ accepted'[m] = accepted[m]
    BY DEF WithoutFile
  <2>2. Accepted(m) /\ FileHolds(m)
    BY <2>1 DEF FilesInv
  <2>3. QED
    BY <2>1, <2>2 DEF Accepted, FileHolds
<1>2. QED
  BY <1>1 DEF FilesInv

\* SavedReadsBack, for all documents and whatever lies in the two directories: between two
\* saves get_protocol gives back what the last save of a name has answered with,
\* list_protocols names it, and compiling it again changes nothing.
THEOREM SavedMeansTheSame == FilesSpec => []SavedReadsBack
<1>1. FilesInit => FilesInv
  BY DEF FilesInit, FilesInv
<1>2. FilesInv /\ [FilesNext]_fileVars => FilesInv'
  <2>1. SUFFICES ASSUME FilesInv, [FilesNext]_fileVars PROVE FilesInv'
    OBVIOUS
  <2>2. CASE SaveEnds
    BY <2>1, <2>2, SaveEndsHolds
  <2>3. CASE SaveCut
    BY <2>1, <2>3, DroppedHolds DEF SaveCut
  <2>4. CASE \E d \in drafts : SaveBegins(d)
    BY <2>1, <2>4, SaveBeginsHolds
  <2>5. CASE \E name \in DOMAIN local : Delete(name)
    <3>1. PICK name \in DOMAIN local : Delete(name)
      BY <2>5
    <3>2. \A m \in DOMAIN local \ {name} : m \in DOMAIN local' /\ local'[m] = local[m]
      BY <3>1 DEF Delete, WithoutFile
    <3>3. /\ accepted' = WithoutFile(accepted, name) /\ drafts' = drafts
          /\ writing' = NoWrite /\ writing = NoWrite
      BY <3>1 DEF Delete
    <3>4. QED
      BY <2>1, <3>2, <3>3, DroppedHolds
  <2>6. CASE UNCHANGED fileVars
    BY <2>1, <2>6 DEF FilesInv, fileVars, Accepted, FileHolds
  <2>7. QED
    BY <2>1, <2>2, <2>3, <2>4, <2>5, <2>6 DEF FilesNext
<1>3. FilesInv => SavedReadsBack
  BY FilesReadBack
<1>4. QED
  BY <1>1, <1>2, <1>3, PTL DEF FilesSpec

=============================================================================
