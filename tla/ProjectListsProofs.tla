------------------------- MODULE ProjectListsProofs -------------------------
(***************************************************************************)
(* What AppendMissing makes of two lists, and what the size of a list      *)
(* without repetitions says about its members.  Both pipelines build on    *)
(* these lemmas.                                                           *)
(***************************************************************************)
EXTENDS ProjectLists, TLAPS, FiniteSetTheorems, FunctionTheorems,
        SequenceTheorems

-----------------------------------------------------------------------------
(* Positions in a sequence: in a finite set of them, every rank is taken. *)

Rank(S, i) == Cardinality({j \in S : j < i})

LEMMA PositionsFinite ==
    ASSUME NEW n \in Nat, NEW S \in SUBSET (1..n)
    PROVE  IsFiniteSet(S) /\ Cardinality(S) \in Nat
<1>1. IsFiniteSet(1..n)
  BY FS_Interval
<1>2. IsFiniteSet(S)
  BY <1>1, FS_Subset
<1> QED BY <1>2, FS_CardinalityType

\* A proper subset of the positions has fewer members.
LEMMA FewerPositions ==
    ASSUME NEW n \in Nat, NEW S \in SUBSET (1..n), NEW T \in SUBSET S, T # S
    PROVE  /\ Cardinality(T) \in Nat /\ Cardinality(S) \in Nat
           /\ Cardinality(T) < Cardinality(S)
<1>1. IsFiniteSet(S) /\ Cardinality(S) \in Nat
  BY PositionsFinite
<1>2. T \in SUBSET (1..n)
  OBVIOUS
<1>3. Cardinality(T) \in Nat
  BY <1>2, PositionsFinite
<1>4. Cardinality(T) <= Cardinality(S) /\ Cardinality(T) # Cardinality(S)
  BY <1>1, FS_Subset
<1> QED BY <1>1, <1>3, <1>4

LEMMA RankBound ==
    ASSUME NEW n \in Nat, NEW S \in SUBSET (1..n), NEW i \in S
    PROVE  Rank(S, i) \in 0..(Cardinality(S) - 1)
<1> DEFINE below == {j \in S : j < i}
<1>1. below \in SUBSET S /\ below # S
  OBVIOUS
<1>2. /\ Cardinality(below) \in Nat /\ Cardinality(S) \in Nat
      /\ Cardinality(below) < Cardinality(S)
  BY <1>1, FewerPositions
<1>3. Rank(S, i) = Cardinality(below)
  BY DEF Rank
<1> HIDE DEF below
<1> QED BY <1>2, <1>3

LEMMA RankIncreases ==
    ASSUME NEW n \in Nat, NEW S \in SUBSET (1..n), NEW i \in S, NEW k \in S, i < k
    PROVE  Rank(S, i) < Rank(S, k)
<1> DEFINE lower == {j \in S : j < i}
           upper == {j \in S : j < k}
<1>1. upper \in SUBSET (1..n) /\ lower \in SUBSET upper /\ lower # upper
  <2>1. i \in Int /\ k \in Int /\ \A j \in S : j \in Int
    OBVIOUS
  <2>2. i \in upper /\ i \notin lower
    BY <2>1
  <2>3. \A j \in S : j < i => j < k
    BY <2>1
  <2> QED BY <2>2, <2>3
<1>2. Cardinality(lower) < Cardinality(upper)
  BY <1>1, FewerPositions
<1>3. Rank(S, i) = Cardinality(lower) /\ Rank(S, k) = Cardinality(upper)
  BY DEF Rank
<1> QED BY <1>2, <1>3

LEMMA EveryRankTaken ==
    ASSUME NEW n \in Nat, NEW S \in SUBSET (1..n), NEW r \in 0..(Cardinality(S) - 1)
    PROVE  \E i \in S : Rank(S, i) = r
<1> DEFINE ranks == 0..(Cardinality(S) - 1)
           f == [i \in S |-> Rank(S, i)]
<1>1. IsFiniteSet(S) /\ Cardinality(S) \in Nat
  BY PositionsFinite
<1>2. IsFiniteSet(ranks) /\ Cardinality(ranks) = Cardinality(S)
  <2>1. 0 \in Int /\ Cardinality(S) - 1 \in Int
    BY <1>1
  <2>2. /\ IsFiniteSet(ranks)
        /\ Cardinality(ranks) = IF 0 > Cardinality(S) - 1 THEN 0
                                ELSE (Cardinality(S) - 1) - 0 + 1
    BY <2>1, FS_Interval
  <2> QED BY <1>1, <2>2
<1>3. f \in [S -> ranks]
  <2>1. \A i \in S : Rank(S, i) \in ranks
    BY RankBound
  <2> QED BY <2>1
<1>4. ASSUME NEW i \in S, NEW k \in S, f[i] = f[k] PROVE i = k
  <2>1. i \in Nat /\ k \in Nat
    OBVIOUS
  <2>2. Rank(S, i) \in ranks /\ Rank(S, i) = Rank(S, k)
    BY <1>4, RankBound
  <2>3. ASSUME i < k PROVE FALSE
    <3>1. Rank(S, i) < Rank(S, k)
      BY <2>3, RankIncreases
    <3> QED BY <1>1, <2>2, <3>1
  <2>4. ASSUME k < i PROVE FALSE
    <3>1. Rank(S, k) < Rank(S, i)
      BY <2>4, RankIncreases
    <3> QED BY <1>1, <2>2, <3>1
  <2> QED BY <2>1, <2>3, <2>4
<1> HIDE DEF ranks, f
<1>5. f \in Injection(S, ranks)
  BY <1>3, <1>4, Fun_IsInj
<1>6. f \in Surjection(S, ranks)
  BY <1>2, <1>5, FS_Injection
<1>7. \A t \in ranks : \E i \in S : f[i] = t
  BY <1>6, Fun_SurjectionProperties
<1> QED BY <1>7 DEF ranks, f

LEMMA KthInSet ==
    ASSUME NEW n \in Nat, NEW S \in SUBSET (1..n), NEW k \in 1..Cardinality(S)
    PROVE  Kth(S, k) \in S /\ Rank(S, Kth(S, k)) = k - 1
<1>1. Cardinality(S) \in Nat
  BY PositionsFinite
<1>2. k - 1 \in 0..(Cardinality(S) - 1)
  BY <1>1
<1>3. \E i \in S : Rank(S, i) = k - 1
  BY <1>2, EveryRankTaken
<1> QED BY <1>3 DEF Kth, Rank

\* Every member of S is the k-th for one k.
LEMMA KthTakesAll ==
    ASSUME NEW n \in Nat, NEW S \in SUBSET (1..n), NEW i \in S
    PROVE  \E k \in 1..Cardinality(S) : Kth(S, k) = i
<1>1. Rank(S, i) \in 0..(Cardinality(S) - 1) /\ Cardinality(S) \in Nat
  BY RankBound, PositionsFinite
<1>2. PICK k \in 1..Cardinality(S) : k = Rank(S, i) + 1
  BY <1>1
<1>3. Kth(S, k) \in S /\ Rank(S, Kth(S, k)) = k - 1
  BY KthInSet
<1>4. PICK j \in S : j = Kth(S, k)
  BY <1>3
<1>5. Rank(S, j) = Rank(S, i)
  BY <1>1, <1>2, <1>3, <1>4
<1>6. ~(i < j) /\ ~(j < i)
  <2>1. i < j => Rank(S, i) < Rank(S, j)
    BY RankIncreases
  <2>2. j < i => Rank(S, j) < Rank(S, i)
    BY RankIncreases
  <2>. QED  BY <1>1, <1>5, <2>1, <2>2
<1>7. i \in Int /\ j \in Int
  OBVIOUS
<1>. QED  BY <1>4, <1>6, <1>7

LEMMA LargestExists ==
    ASSUME NEW n \in Nat, NEW S \in SUBSET (1..n), S # {}
    PROVE  \E i \in S : \A j \in S : j <= i
<1>1. IsFiniteSet(S) /\ Cardinality(S) \in Nat /\ Cardinality(S) # 0
  BY PositionsFinite, FS_EmptySet
<1>2. PICK i \in S : Rank(S, i) = Cardinality(S) - 1
  BY <1>1, EveryRankTaken
<1>3. ASSUME NEW j \in S, i < j PROVE FALSE
  <2>1. Rank(S, i) < Rank(S, j)
    BY <1>3, RankIncreases
  <2>2. Rank(S, j) \in 0..(Cardinality(S) - 1)
    BY RankBound
  <2> QED BY <1>1, <1>2, <2>1, <2>2
<1>4. \A j \in S : i \in Nat /\ j \in Nat
  OBVIOUS
<1> QED BY <1>3, <1>4

-----------------------------------------------------------------------------
(* The lists. *)

\* The projects of users_projects_add: those of the row stay, those the answer
\* adds are appended, each once.
LEMMA AppendMissingList ==
    ASSUME NEW Item, NEW s \in Seq(Item), NEW t \in Seq(Item)
    PROVE  /\ AppendMissing(s, t) \in Seq(Item)
           /\ SetOf(AppendMissing(s, t)) = SetOf(s) \cup SetOf(t)
           /\ Distinct(s) /\ Distinct(t) => Distinct(AppendMissing(s, t))
<1>. DEFINE missing == {i \in 1..Len(t) : t[i] \notin SetOf(s)}
            c == Cardinality(missing)
            added == [k \in 1..c |-> t[Kth(missing, k)]]
            whole == AppendMissing(s, t)
<1>1. /\ Len(t) \in Nat /\ missing \in SUBSET (1..Len(t)) /\ DOMAIN t = 1..Len(t)
      /\ Len(s) \in Nat /\ DOMAIN s = 1..Len(s)
  BY LenProperties
<1>2. c \in Nat
  BY <1>1, PositionsFinite
<1>3. \A k \in 1..c : Kth(missing, k) \in missing /\ Rank(missing, Kth(missing, k)) = k - 1
  BY <1>1, KthInSet
<1>4. \A i \in missing : \E k \in 1..c : Kth(missing, k) = i
  BY <1>1, KthTakesAll
<1>5. added \in Seq(Item) /\ Len(added) = c
  <2>1. \A k \in 1..c : t[Kth(missing, k)] \in Item
    BY <1>3, ElementOfSeq
  <2>2. added \in [1..c -> Item]
    BY <2>1
  <2>. HIDE DEF missing, c, added
  <2>. QED BY <1>2, <2>2
<1>6. whole = s \o added
  BY DEF AppendMissing
<1>7. \A k \in 1..c : added[k] = t[Kth(missing, k)]
  OBVIOUS
<1>8. SetOf(t) \subseteq SetOf(s) \cup {added[k] : k \in 1..c}
  <2>1. ASSUME NEW i \in 1..Len(t), t[i] \notin SetOf(s) PROVE \E k \in 1..c : added[k] = t[i]
    <3>1. i \in missing
      BY <2>1
    <3>. QED  BY <1>4, <1>7, <3>1
  <2>. QED  BY <1>1, <2>1 DEF SetOf
<1>9. \A k \in 1..c : added[k] \in SetOf(t) /\ added[k] \notin SetOf(s)
  <2>1. \A i \in missing : t[i] \in SetOf(t) /\ t[i] \notin SetOf(s)
    BY <1>1 DEF SetOf
  <2>. QED  BY <1>3, <1>7, <2>1
<1>10. ASSUME Distinct(t), NEW k \in 1..c, NEW l \in 1..c, added[k] = added[l] PROVE k = l
  <2>1. Kth(missing, k) = Kth(missing, l)
    <3>1. Kth(missing, k) \in 1..Len(t) /\ Kth(missing, l) \in 1..Len(t)
      BY <1>1, <1>3
    <3>. QED  BY <1>7, <1>10, <3>1 DEF Distinct
  <2>2. k - 1 = l - 1
    BY <1>3, <2>1
  <2>. QED  BY <1>2, <2>2
<1>. HIDE DEF missing, c, added, whole
<1>11. /\ whole \in Seq(Item) /\ Len(whole) = Len(s) + c
       /\ \A i \in 1..Len(s) + c : whole[i] = IF i <= Len(s) THEN s[i] ELSE added[i - Len(s)]
  BY <1>5, <1>6, ConcatProperties
<1>12. DOMAIN whole = 1..Len(s) + c
  BY <1>11, LenProperties
<1>13. \A i \in 1..Len(s) + c : i > Len(s) => i - Len(s) \in 1..c
  BY <1>1, <1>2
<1>14. SetOf(whole) = SetOf(s) \cup SetOf(t)
  <2>1. ASSUME NEW k \in 1..c PROVE added[k] = whole[Len(s) + k] /\ Len(s) + k \in DOMAIN whole
    BY <1>1, <1>2, <1>11, <1>12
  <2>2. ASSUME NEW i \in 1..Len(s) PROVE s[i] = whole[i] /\ i \in DOMAIN whole
    BY <1>1, <1>2, <1>11, <1>12
  <2>3. SetOf(s) \cup SetOf(t) \subseteq SetOf(whole)
    BY <1>1, <1>8, <2>1, <2>2 DEF SetOf
  <2>4. ASSUME NEW i \in DOMAIN whole PROVE whole[i] \in SetOf(s) \cup SetOf(t)
    <3>1. CASE i <= Len(s)
      BY <3>1, <1>1, <1>11, <1>12 DEF SetOf
    <3>2. CASE i > Len(s)
      BY <3>2, <1>1, <1>9, <1>11, <1>12, <1>13
    <3>. QED  BY <1>1, <1>12, <3>1, <3>2
  <2>. QED  BY <2>3, <2>4 DEF SetOf
<1>15. ASSUME Distinct(s), Distinct(t) PROVE Distinct(whole)
  <2>. SUFFICES ASSUME NEW i \in 1..Len(s) + c, NEW j \in 1..Len(s) + c, whole[i] = whole[j]
                PROVE  i = j
    BY <1>11 DEF Distinct
  <2>1. CASE i <= Len(s) /\ j <= Len(s)
    BY <2>1, <1>1, <1>11, <1>15 DEF Distinct
  <2>2. CASE i > Len(s) /\ j > Len(s)
    <3>1. i - Len(s) = j - Len(s)
      BY <2>2, <1>10, <1>11, <1>13, <1>15
    <3>. QED  BY <1>1, <1>2, <3>1
  <2>3. ASSUME NEW x \in 1..Len(s) + c, NEW y \in 1..Len(s) + c, x <= Len(s), y > Len(s)
        PROVE  whole[x] # whole[y]
    <3>1. whole[x] = s[x] /\ s[x] \in SetOf(s)
      BY <2>3, <1>1, <1>11 DEF SetOf
    <3>2. y - Len(s) \in 1..c /\ whole[y] = added[y - Len(s)]
      BY <2>3, <1>1, <1>2, <1>11, <1>13
    <3>3. whole[y] \notin SetOf(s)
      BY <3>2, <1>9
    <3>. QED  BY <3>1, <3>3
  <2>. QED  BY <1>1, <1>2, <2>1, <2>2, <2>3
<1>. QED  BY <1>11, <1>14, <1>15 DEF whole

\* Without repetitions the length counts the members.
LEMMA DistinctLength ==
    ASSUME NEW Item, NEW s \in Seq(Item), Distinct(s)
    PROVE  IsFiniteSet(SetOf(s)) /\ Cardinality(SetOf(s)) = Len(s)
<1>1. Len(s) \in Nat /\ DOMAIN s = 1..Len(s)
  BY LenProperties
<1>2. s \in [1..Len(s) -> SetOf(s)]
  BY <1>1 DEF SetOf
<1>3. s \in Bijection(1..Len(s), SetOf(s))
  <2>1. s \in Surjection(1..Len(s), SetOf(s))
    BY <1>1, <1>2 DEF Surjection, SetOf
  <2>2. s \in Injection(1..Len(s), SetOf(s))
    BY <1>2 DEF Injection, IsInjective, Distinct
  <2>. QED  BY <2>1, <2>2 DEF Bijection
<1>4. IsFiniteSet(1..Len(s)) /\ Cardinality(1..Len(s)) = Len(s)
  BY <1>1, FS_Interval
<1>. QED  BY <1>3, <1>4, FS_Bijection DEF ExistsBijection

\* users_projects_del compares sizes: a list that has all the members of
\* another, and is not longer, has no others.
LEMMA NotLonger ==
    ASSUME NEW Item, NEW s \in Seq(Item), NEW t \in Seq(Item), Distinct(s), Distinct(t),
           SetOf(t) \subseteq SetOf(s), Len(s) <= Len(t)
    PROVE  SetOf(s) = SetOf(t)
<1>1. /\ IsFiniteSet(SetOf(s)) /\ Cardinality(SetOf(s)) = Len(s)
      /\ Cardinality(SetOf(t)) = Len(t)
  BY DistinctLength
<1>2. Len(s) \in Nat /\ Len(t) \in Nat
  BY LenProperties
<1>3. /\ Cardinality(SetOf(t)) <= Cardinality(SetOf(s))
      /\ Cardinality(SetOf(t)) = Cardinality(SetOf(s)) => SetOf(t) = SetOf(s)
  BY <1>1, FS_Subset
<1>. QED  BY <1>1, <1>2, <1>3
=============================================================================
