--------------------------- MODULE SelectionProofs ---------------------------
(***************************************************************************)
(* Finite sets of numbers: least and greatest members, members by rank, and *)
(* so the sequences that Select makes.                                     *)
(***************************************************************************)
EXTENDS Selection, FiniteSetsExt, TLAPS, FiniteSetTheorems, SequenceTheorems,
        WellFoundedInduction, NaturalsInduction

-----------------------------------------------------------------------------
(* Sets of numbers.                                                        *)

(* A non-empty set of naturals has a least element, the one Min chooses.   *)
LEMMA MinOfNats ==
  ASSUME NEW S \in SUBSET Nat, S # {}
  PROVE  Min(S) \in S /\ \A x \in S : Min(S) <= x
<1>1. \E x \in S : \A y \in S : x <= y
  <2>1. IsWellFoundedOn(OpToRel(<, Nat), Nat)
    BY NatLessThanWellFounded
  <2>2. PICK x \in S : \A y \in S : ~(<<y, x>> \in OpToRel(<, Nat))
    BY <2>1, WFMin, Zenon
  <2>3. \A y \in S : ~(y < x)
    BY <2>2, Zenon DEF OpToRel
  <2> QED BY <2>3
<1> QED BY <1>1 DEF Min

(* A non-empty set of naturals below a bound has a greatest element, the   *)
(* one Max chooses.                                                        *)
LEMMA MaxOfNats ==
  ASSUME NEW S \in SUBSET Nat, S # {}, NEW b \in Nat, \A x \in S : x <= b
  PROVE  Max(S) \in S /\ \A x \in S : x <= Max(S)
<1> DEFINE T == {b - x : x \in S}
<1>1. T \in SUBSET Nat /\ T # {}
  <2>1. \A x \in S : b - x \in Nat
    OBVIOUS
  <2> QED BY <2>1
<1>2. PICK y \in T : \A z \in T : y <= z
  BY <1>1, MinOfNats
<1>3. PICK m \in S : y = b - m
  BY <1>2
<1>4. \A x \in S : x <= m
  BY <1>2, <1>3
<1> QED BY <1>3, <1>4 DEF Max

(* A number assigned to each member of a finite set is greatest for some   *)
(* member.                                                                 *)
LEMMA FurthestExists ==
  ASSUME NEW S, IsFiniteSet(S), S # {}, NEW f \in [S -> Nat]
  PROVE  \E n \in S : \A p \in S : f[p] <= f[n]
<1> DEFINE Bad == {T \in SUBSET S : T # {} /\ ~ \E n \in T : \A p \in T : f[p] <= f[n]}
           Sizes == {Cardinality(T) : T \in Bad}
<1>1. \A T \in SUBSET S : IsFiniteSet(T) /\ Cardinality(T) \in Nat
  BY FS_Subset, FS_CardinalityType
<1>2. SUFFICES ASSUME Bad # {} PROVE FALSE
  BY DEF Bad
<1>3. Sizes \in SUBSET Nat /\ Sizes # {}
  BY <1>1, <1>2
<1>4. PICK T \in Bad : \A U \in Bad : Cardinality(T) <= Cardinality(U)
  <2>1. PICK m \in Sizes : \A x \in Sizes : m <= x
    BY <1>3, MinOfNats
  <2>2. \A U \in Bad : m <= Cardinality(U)
    BY <2>1
  <2> QED BY <2>1, <2>2
<1>5. PICK x \in T : TRUE
  OBVIOUS
<1>6. x \in S /\ T \ {x} \in SUBSET S
  OBVIOUS
<1>7. Cardinality(T \ {x}) = Cardinality(T) - 1 /\ Cardinality(T) \in Nat
  BY <1>1, <1>5, FS_RemoveElement
<1>8. T \ {x} \notin Bad
  <2> SUFFICES ASSUME T \ {x} \in Bad PROVE FALSE
    OBVIOUS
  <2>1. Cardinality(T) <= Cardinality(T \ {x})
    BY <1>4
  <2> QED BY <1>7, <2>1
<1>9. CASE T \ {x} = {}
  <2>1. T = {x}
    BY <1>5, <1>9
  <2>2. f[x] \in Nat
    BY <1>6
  <2>3. \A p \in T : f[p] <= f[x]
    BY <2>1, <2>2
  <2> QED BY <1>5, <2>3
<1>10. CASE T \ {x} # {}
  <2>1. PICK y \in T \ {x} : \A p \in T \ {x} : f[p] <= f[y]
    BY <1>6, <1>8, <1>10
  <2>2. f[x] \in Nat /\ f[y] \in Nat /\ \A p \in T : f[p] \in Nat
    BY <1>6, <2>1
  <2>3. CASE f[x] <= f[y]
    <3>1. \A p \in T : f[p] <= f[y]
      BY <2>1, <2>3
    <3> QED BY <2>1, <3>1
  <2>4. CASE f[y] <= f[x]
    <3>1. \A p \in T : f[p] <= f[x]
      BY <2>1, <2>2, <2>4
    <3> QED BY <1>5, <3>1
  <2> QED BY <2>2, <2>3, <2>4
<1> QED BY <1>9, <1>10

-----------------------------------------------------------------------------
(* Ranks.                                                                  *)

(* The rank of a number is at most the size of the set.                    *)
LEMMA RankTyped ==
  ASSUME NEW N \in Nat, NEW S \in SUBSET (0..N), NEW i \in Nat
  PROVE  /\ IsFiniteSet(S) /\ Cardinality(S) \in 0 .. N + 1
         /\ IsFiniteSet({j \in S : j <= i})
         /\ Rank(S, i) \in 0..Cardinality(S)
<1>1. IsFiniteSet(0..N) /\ Cardinality(0..N) = N + 1
  BY FS_Interval
<1>2. IsFiniteSet(S) /\ Cardinality(S) <= N + 1
  BY <1>1, FS_Subset
<1>3. IsFiniteSet({j \in S : j <= i}) /\ Cardinality({j \in S : j <= i}) <= Cardinality(S)
  BY <1>2, FS_Subset
<1> QED BY <1>2, <1>3, FS_CardinalityType DEF Rank

(* Going up by one passes at most one member.                              *)
LEMMA RankStep ==
  ASSUME NEW N \in Nat, NEW S \in SUBSET (0..N), NEW i \in Nat
  PROVE  Rank(S, i + 1) = IF i + 1 \in S THEN Rank(S, i) + 1 ELSE Rank(S, i)
<1>0. S \in SUBSET Nat
  OBVIOUS
<1>1. PICK low : low = {j \in S : j <= i}
  OBVIOUS
<1>2. IsFiniteSet(low) /\ i + 1 \notin low
  BY <1>1, RankTyped
<1>5. \A j \in S : j <= i + 1 <=> j <= i \/ j = i + 1
  BY <1>0
<1>3. CASE i + 1 \in S
  <2>1. {j \in S : j <= i + 1} = low \cup {i + 1}
    BY <1>1, <1>3, <1>5
  <2> QED BY <1>1, <1>2, <1>3, <2>1, FS_AddElement DEF Rank
<1>4. CASE i + 1 \notin S
  <2>1. {j \in S : j <= i + 1} = low
    BY <1>1, <1>4, <1>5
  <2> QED BY <1>1, <1>4, <2>1 DEF Rank
<1> QED BY <1>3, <1>4

(* A greater member has a greater rank.                                    *)
LEMMA RankGrows ==
  ASSUME NEW N \in Nat, NEW S \in SUBSET (0..N), NEW i \in S, NEW j \in S, i < j
  PROVE  Rank(S, i) < Rank(S, j)
<1>0. i \in Nat /\ j \in Nat /\ S \in SUBSET Nat
  OBVIOUS
<1>1. PICK low, high : low = {x \in S : x <= i} /\ high = {x \in S : x <= j}
  OBVIOUS
<1>2. low \in SUBSET high /\ j \in high /\ j \notin low
  <2>1. \A x \in S : x <= i => x <= j
    BY <1>0
  <2>2. ~(j <= i) /\ j <= j
    BY <1>0
  <2> QED BY <1>1, <2>1, <2>2
<1>3. IsFiniteSet(high)
  BY <1>1, RankTyped
<1>4. /\ Cardinality(low) <= Cardinality(high) /\ Cardinality(low) # Cardinality(high)
      /\ Cardinality(low) \in Nat /\ Cardinality(high) \in Nat
  BY <1>2, <1>3, FS_Subset, FS_CardinalityType
<1> QED BY <1>1, <1>4 DEF Rank

(* There is a member of every rank, the one Nth chooses.                   *)
LEMMA NthExists ==
  ASSUME NEW N \in Nat, NEW S \in SUBSET (0..N), NEW k \in 1..Cardinality(S)
  PROVE  Nth(S, k) \in S /\ Rank(S, Nth(S, k)) = k
<1> DEFINE Reach == {i \in Nat : k <= Rank(S, i)}
<1>0. /\ k \in Nat /\ k >= 1 /\ k <= Cardinality(S) /\ Cardinality(S) \in Nat
      /\ \A i \in Nat : Rank(S, i) \in Nat
  <2>1. Cardinality(S) \in Nat
    <3>1. 0 \in Nat
      OBVIOUS
    <3>2. Cardinality(S) \in 0 .. N + 1
      BY <3>1, RankTyped
    <3> QED BY <3>2
  <2>2. ASSUME NEW i \in Nat PROVE Rank(S, i) \in Nat
    <3>1. Rank(S, i) \in 0..Cardinality(S)
      BY RankTyped
    <3> QED BY <2>1, <3>1
  <2>3. k \in Nat /\ k >= 1 /\ k <= Cardinality(S)
    BY <2>1
  <2> QED BY <2>1, <2>2, <2>3
<1>1. Rank(S, N) = Cardinality(S) /\ Rank(S, 0) = IF 0 \in S THEN 1 ELSE 0
  <2>1. \A j \in S : j \in Nat /\ j <= N /\ (j <= 0 <=> j = 0)
    OBVIOUS
  <2>2. {j \in S : j <= N} = S /\ {j \in S : j <= 0} = IF 0 \in S THEN {0} ELSE {}
    BY <2>1
  <2> QED BY <2>2, FS_EmptySet, FS_Singleton DEF Rank
<1>2. Reach \in SUBSET Nat /\ N \in Reach
  BY <1>0, <1>1
<1>3. PICK m \in Reach : \A i \in Reach : m <= i
  BY <1>2, MinOfNats
<1>4. m \in Nat /\ k <= Rank(S, m)
  BY <1>3
<1>10. CASE m = 0
  BY <1>0, <1>1, <1>4, <1>10 DEF Nth
<1> SUFFICES ASSUME m # 0 PROVE Nth(S, k) \in S /\ Rank(S, Nth(S, k)) = k
  BY <1>10
<1>5. PICK p \in Nat : m = p + 1
  BY <1>4
<1>6. p \notin Reach
  BY <1>3, <1>5
<1>7. Rank(S, p) < k
  BY <1>0, <1>6
<1>8. Rank(S, p + 1) = IF p + 1 \in S THEN Rank(S, p) + 1 ELSE Rank(S, p)
  BY RankStep
<1>9. m \in S /\ Rank(S, m) = k
  BY <1>0, <1>4, <1>5, <1>7, <1>8
<1> QED BY <1>9 DEF Nth

(* Every member is the one of its rank.                                    *)
LEMMA NthOfRank ==
  ASSUME NEW N \in Nat, NEW S \in SUBSET (0..N), NEW i \in S
  PROVE  Rank(S, i) \in 1..Cardinality(S) /\ Nth(S, Rank(S, i)) = i
<1>0. S \in SUBSET Nat
  OBVIOUS
<1>1. i \in Nat /\ Rank(S, i) \in 0..Cardinality(S) /\ Cardinality(S) \in Nat
  <2>1. i \in Nat
    BY <1>0
  <2>2. Rank(S, i) \in 0..Cardinality(S) /\ Cardinality(S) \in 0 .. N + 1
    BY <2>1, RankTyped
  <2>3. Cardinality(S) \in Nat
    BY <2>2
  <2> QED BY <2>1, <2>2, <2>3
<1>2. Rank(S, i) # 0
  <2>1. IsFiniteSet({j \in S : j <= i}) /\ i \in {j \in S : j <= i}
    BY <1>1, RankTyped
  <2> QED BY <2>1, FS_EmptySet DEF Rank
<1>3. Rank(S, i) \in 1..Cardinality(S)
  BY <1>1, <1>2
<1>4. Nth(S, Rank(S, i)) \in S /\ Rank(S, Nth(S, Rank(S, i))) = Rank(S, i)
  BY <1>3, NthExists
<1>5. PICK m \in S : m = Nth(S, Rank(S, i)) /\ Rank(S, m) = Rank(S, i)
  BY <1>4
<1>6. m \in Nat
  BY <1>0
<1>7. Rank(S, i) \in Nat
  BY <1>1
<1>8. ~(m < i)
  <2>1. m < i => Rank(S, m) < Rank(S, i)
    BY RankGrows
  <2> QED BY <1>5, <1>7, <2>1
<1>9. ~(i < m)
  <2>1. i < m => Rank(S, i) < Rank(S, m)
    BY RankGrows
  <2> QED BY <1>5, <1>7, <2>1
<1> QED BY <1>1, <1>3, <1>5, <1>6, <1>8, <1>9

-----------------------------------------------------------------------------
(* Selecting.                                                              *)

(* Select makes a sequence of elements at the positions it keeps.          *)
LEMMA SelectShape ==
  ASSUME NEW T, NEW s \in Seq(T), NEW keep \in SUBSET (1..Len(s))
  PROVE  /\ Cardinality(keep) \in Nat
         /\ Select(s, keep) \in Seq({s[i] : i \in keep})
         /\ Len(Select(s, keep)) = Cardinality(keep)
         /\ \A k \in 1..Cardinality(keep) :
              Nth(keep, k) \in keep /\ Select(s, keep)[k] = s[Nth(keep, k)]
<1>1. Len(s) \in Nat /\ keep \in SUBSET (0..Len(s))
  BY LenProperties
<1>2. PICK c : c = Cardinality(keep) /\ c \in Nat
  <2>0. 0 \in Nat
    OBVIOUS
  <2>1. Cardinality(keep) \in 0 .. Len(s) + 1
    BY <1>1, <2>0, RankTyped
  <2> QED BY <1>1, <2>1
<1>3. \A k \in 1..c : Nth(keep, k) \in keep
  BY <1>1, <1>2, NthExists
<1>4. PICK r : r = Select(s, keep) /\ r = [k \in 1..c |-> s[Nth(keep, k)]]
  BY <1>2 DEF Select
<1>5. r \in [1..c -> {s[i] : i \in keep}] /\ \A k \in 1..c : r[k] = s[Nth(keep, k)]
  BY <1>3, <1>4
<1>6. r \in Seq({s[i] : i \in keep})
  BY <1>2, <1>5
<1>7. Len(r) = c
  BY <1>2, <1>5, <1>6, LenProperties
<1> QED BY <1>2, <1>3, <1>4, <1>5, <1>6, <1>7

(* Keeping everything changes nothing.                                     *)
LEMMA SelectAll ==
  ASSUME NEW T, NEW s \in Seq(T), NEW keep, keep = 1..Len(s)
  PROVE  Select(s, keep) = s
<1>1. Len(s) \in Nat
  BY LenProperties
<1>2. PICK N \in Nat : N = Len(s) /\ keep = 1..N
  BY <1>1
<1>3. \A k \in Nat : Cardinality(1..k) = k
  <2> SUFFICES ASSUME NEW k \in Nat PROVE Cardinality(1..k) = k
    OBVIOUS
  <2>1. 1 \in Int /\ k \in Int
    OBVIOUS
  <2>2. Cardinality(1..k) = IF 1 > k THEN 0 ELSE k - 1 + 1
    BY <2>1, FS_Interval
  <2> QED BY <2>2
<1>4. \A k \in 1..N : Rank(keep, k) = k
  <2> SUFFICES ASSUME NEW k \in 1..N PROVE Rank(keep, k) = k
    OBVIOUS
  <2>1. \A j \in Nat : j \in keep /\ j <= k <=> j \in 1..k
    BY <1>2
  <2>2. {j \in keep : j <= k} = 1..k
    BY <1>2, <2>1
  <2>3. Cardinality(1..k) = k
    BY <1>2, <1>3
  <2> QED BY <2>2, <2>3 DEF Rank
<1>5. \A k \in 1..N : Nth(keep, k) = k
  <2> SUFFICES ASSUME NEW k \in 1..N PROVE Nth(keep, k) = k
    OBVIOUS
  <2>1. keep \in SUBSET (0..N) /\ k \in keep
    BY <1>2
  <2>2. Nth(keep, Rank(keep, k)) = k
    BY <2>1, NthOfRank
  <2> QED BY <1>4, <2>2
<1>6. PICK r : r = Select(s, keep)
  OBVIOUS
<1>7. r \in Seq({s[i] : i \in keep}) /\ Len(r) = N /\ \A k \in 1..N : r[k] = s[k]
  <2>1. keep \in SUBSET (1..Len(s)) /\ Cardinality(keep) = N
    BY <1>2, <1>3
  <2>2. /\ r \in Seq({s[i] : i \in keep}) /\ Len(r) = N
        /\ \A k \in 1..N : r[k] = s[Nth(keep, k)]
    <3>1. Select(s, keep) \in Seq({s[i] : i \in keep}) /\ Len(Select(s, keep)) = Cardinality(keep)
      BY <2>1, SelectShape
    <3>2. \A k \in 1..Cardinality(keep) : Select(s, keep)[k] = s[Nth(keep, k)]
      BY <2>1, SelectShape
    <3> QED BY <1>6, <2>1, <3>1, <3>2
  <2> QED BY <1>5, <2>2
<1>8. {s[i] : i \in keep} \subseteq T
  BY <1>2, ElementOfSeq
<1>9. r \in Seq(T)
  BY <1>7, <1>8, SeqMonotonic
<1> QED BY <1>2, <1>6, <1>7, <1>9, SeqEqual
=============================================================================
