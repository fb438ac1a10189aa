---------------------------- MODULE BlocksProofs ----------------------------
(***************************************************************************)
(* Facts about the ancestry of blocks, for every tree of blocks.  Ancestry *)
(* is the least parent-closed set, so most facts are proved by exhibiting  *)
(* a parent-closed set; that a walk ends is proved from the finite set of  *)
(* numbers below a block.  There is no induction.                          *)
(***************************************************************************)
EXTENDS Blocks, FiniteSetTheorems, TLAPS

\* The least parent-closed set that contains h is contained in every other.
LEMMA AncestryLeast ==
    ASSUME NEW h \in Hash, NEW S \in SUBSET Hash, h \in S, ParentClosed(S)
    PROVE  Ancestry[h] \subseteq S
  BY DEF Ancestry

\* A walk along parent hashes starts at the block itself, stays among the
\* known blocks, and goes on with the parent of every block it visits.
LEMMA AncestryClosed ==
    ASSUME NEW h \in Hash
    PROVE  /\ Ancestry[h] \in SUBSET Hash
           /\ h \in Ancestry[h]
           /\ ParentClosed(Ancestry[h])
<1>1. Ancestry[h] = {a \in Hash : \A S \in SUBSET Hash : h \in S /\ ParentClosed(S) => a \in S}
  BY DEF Ancestry
<1>2. ParentClosed(Ancestry[h])
  <2>. SUFFICES ASSUME NEW x \in Ancestry[h], Parent[x] \in Hash
                PROVE  Parent[x] \in Ancestry[h]
    BY DEF ParentClosed
  <2>1. ASSUME NEW S \in SUBSET Hash, h \in S, ParentClosed(S)
        PROVE  Parent[x] \in S
    BY <1>1, <2>1 DEF ParentClosed
  <2>. QED  BY <1>1, <2>1
<1>. QED  BY <1>1, <1>2

\* A walk from a block that a walk from h visits is part of that walk.
LEMMA AncestryTransitive ==
    ASSUME NEW h \in Hash, NEW a \in Ancestry[h]
    PROVE  a \in Hash /\ Ancestry[a] \subseteq Ancestry[h]
  BY AncestryClosed, AncestryLeast

\* The walk from a block visits the block and then walks from its parent.
LEMMA AncestryStep ==
    ASSUME NEW h \in Hash
    PROVE  /\ Parent[h] \in Hash => Ancestry[h] = {h} \cup Ancestry[Parent[h]]
           /\ Parent[h] \notin Hash => Ancestry[h] = {h}
<1>1. ASSUME Parent[h] \in Hash
      PROVE  Ancestry[h] = {h} \cup Ancestry[Parent[h]]
  <2>. DEFINE S == {h} \cup Ancestry[Parent[h]]
  <2>1. S \in SUBSET Hash
    BY <1>1, AncestryClosed
  <2>2. ParentClosed(S)
    BY <1>1, AncestryClosed DEF ParentClosed
  <2>3. Ancestry[h] \subseteq S
    BY <2>1, <2>2, AncestryLeast
  <2>4. Parent[h] \in Ancestry[h]
    BY <1>1, AncestryClosed DEF ParentClosed
  <2>5. S \subseteq Ancestry[h]
    BY <2>4, AncestryClosed, AncestryTransitive
  <2>. QED  BY <2>3, <2>5
<1>2. ASSUME Parent[h] \notin Hash
      PROVE  Ancestry[h] = {h}
  <2>1. ParentClosed({h})
    BY <1>2 DEF ParentClosed
  <2>. QED  BY <2>1, AncestryLeast, AncestryClosed
<1>. QED  BY <1>1, <1>2

\* Numbers decrease along a walk.
LEMMA AncestryNumber ==
    ASSUME NEW h \in Hash, NEW a \in Ancestry[h]
    PROVE  /\ Number[a] \in Nat /\ Number[h] \in Nat
           /\ Number[a] <= Number[h]
           /\ a # h => Number[a] < Number[h]
<1>1. ASSUME NEW k \in Hash, NEW x \in Ancestry[k]
      PROVE  x \in Hash /\ Number[x] <= Number[k]
  <2>. DEFINE S == {y \in Hash : Number[y] <= Number[k]}
  <2>1. k \in S /\ ParentClosed(S)
    BY BlocksAssumption DEF ParentClosed
  <2>. QED  BY <2>1, AncestryLeast
<1>2. ASSUME a # h
      PROVE  Number[a] < Number[h]
  <2>1. Parent[h] \in Hash /\ a \in Ancestry[Parent[h]]
    BY <1>2, AncestryStep
  <2>2. h # Genesis
    BY <2>1, BlocksAssumption
  <2>3. Number[a] <= Number[Parent[h]] /\ Number[h] = Number[Parent[h]] + 1
    BY <1>1, <2>1, <2>2, BlocksAssumption
  <2>. QED  BY <2>1, <2>3, BlocksAssumption, AncestryTransitive
<1>. QED  BY <1>1, <1>2, BlocksAssumption, AncestryTransitive

\* Of two blocks on a walk, one is on the walk from the other: a walk visits
\* one block per number.
LEMMA AncestryLinear ==
    ASSUME NEW h \in Hash, NEW a \in Ancestry[h], NEW b \in Ancestry[h]
    PROVE  /\ a \in Ancestry[b] \/ b \in Ancestry[a]
           /\ Number[a] = Number[b] => a = b
<1>. DEFINE S == {x \in Hash : x \in Ancestry[a] \/ a \in Ancestry[x]}
<1>0. a \in Hash /\ b \in Hash
  BY AncestryTransitive
<1>1. h \in S
  OBVIOUS
<1>2. ParentClosed(S)
  <2>. SUFFICES ASSUME NEW x \in S, Parent[x] \in Hash
                PROVE  Parent[x] \in Ancestry[a] \/ a \in Ancestry[Parent[x]]
    BY DEF ParentClosed
  <2>1. CASE x \in Ancestry[a]
    BY <1>0, <2>1, AncestryClosed DEF ParentClosed
  <2>2. CASE a \in Ancestry[x] /\ a # x
    BY <2>2, AncestryStep
  <2>3. CASE a = x
    BY <1>0, <2>3, AncestryClosed DEF ParentClosed
  <2>. QED  BY <2>1, <2>2, <2>3
<1>3. a \in Ancestry[b] \/ b \in Ancestry[a]
  BY <1>1, <1>2, AncestryLeast
<1>4. Number[a] = Number[b] => a = b
  BY <1>0, <1>3, AncestryNumber
<1>. QED  BY <1>3, <1>4

\* The lower of two blocks on a walk is on the walk from the higher one.
LEMMA AncestryLower ==
    ASSUME NEW h \in Hash, NEW a \in Ancestry[h], NEW b \in Ancestry[h], Number[a] <= Number[b]
    PROVE  a \in Ancestry[b]
<1>1. a \in Hash /\ b \in Hash
  BY AncestryTransitive
<1>2. CASE b \in Ancestry[a]
  <2>1. Number[a] \in Nat /\ Number[b] \in Nat /\ Number[b] <= Number[a]
    BY <1>1, <1>2, AncestryNumber
  <2>2. a = b
    BY <2>1, AncestryLinear
  <2>. QED  BY <1>1, <2>2, AncestryClosed
<1>. QED  BY <1>2, AncestryLinear

\* A walk skips no number.
LEMMA AncestryBetween ==
    ASSUME NEW h \in Hash, NEW a \in Ancestry[h], NEW n \in Nat,
           Number[a] <= n, n <= Number[h]
    PROVE  \E x \in Ancestry[h] : Number[x] = n
<1>. SUFFICES ASSUME \A x \in Ancestry[h] : Number[x] # n
              PROVE  FALSE
  OBVIOUS
<1>. DEFINE S == {x \in Ancestry[h] : Number[x] > n}
<1>0. /\ Ancestry[h] \in SUBSET Hash
      /\ h \in Ancestry[h]
      /\ ParentClosed(Ancestry[h])
      /\ \A x \in Ancestry[h] : Number[x] \in Nat
  BY AncestryClosed, AncestryNumber
<1>1. h \in S
  BY <1>0
<1>2. ParentClosed(S)
  <2>. SUFFICES ASSUME NEW x \in S, Parent[x] \in Hash
                PROVE  Parent[x] \in S
    BY DEF ParentClosed
  <2>1. Parent[x] \in Ancestry[h] /\ x \in Hash
    BY <1>0 DEF ParentClosed
  <2>2. x # Genesis
    BY BlocksAssumption
  <2>3. Number[x] = Number[Parent[x]] + 1
    BY <2>1, <2>2, BlocksAssumption
  <2>. QED  BY <1>0, <2>1, <2>3
<1>3. Ancestry[h] \subseteq S
  BY <1>0, <1>1, <1>2, AncestryLeast
<1>. QED  BY <1>0, <1>3

\* Among any blocks there is a lowest one.
LEMMA LowestNumber ==
    ASSUME NEW S \in SUBSET Hash, S # {}
    PROVE  \E x \in S : \A y \in S : Number[x] <= Number[y]
<1>0. PICK z \in S : TRUE
  OBVIOUS
<1>. DEFINE N == 0 .. Number[z]
            L == {x \in S : Number[x] <= Number[z]}
            Below(x) == 0 .. Number[x]
            T == {Below(x) : x \in L}
<1>1. \A x \in S : Number[x] \in Nat
  BY BlocksAssumption
<1>2. IsFiniteSet(N) /\ IsWellFoundedOn(StrictSubsetOrdering(N), FiniteSubsetsOf(N))
  BY <1>0, <1>1, FS_Interval, FS_StrictSubsetOrderingWellFounded
<1>3. \A x \in L : Below(x) \in SUBSET N
  BY <1>0, <1>1
<1>4. \A x \in L : IsFiniteSet(Below(x))
  BY <1>2, <1>3, FS_Subset
<1>5. z \in L
  BY <1>0, <1>1
<1>6. T \subseteq FiniteSubsetsOf(N) /\ T # {}
  BY <1>3, <1>4, <1>5 DEF FiniteSubsetsOf
<1>. HIDE DEF T
<1>7. PICK m \in T : \A t \in T : ~(<<t, m>> \in StrictSubsetOrdering(N))
  BY <1>2, <1>6, WFMin
<1>8. PICK x \in L : m = Below(x)
  BY <1>7 DEF T
<1>9. ASSUME NEW y \in S, ~(Number[x] <= Number[y]) PROVE FALSE
  <2>1. y \in L
    BY <1>0, <1>1, <1>8, <1>9
  <2>2. Below(y) \subseteq Below(x) /\ Number[x] \in Below(x) /\ Number[x] \notin Below(y)
    BY <1>1, <1>8, <1>9
  <2>3. <<Below(y), Below(x)>> \in StrictSubsetOrdering(N)
    BY <1>3, <1>8, <2>1, <2>2 DEF StrictSubsetOrdering
  <2>4. Below(y) \in T
    BY <2>1 DEF T
  <2>. QED  BY <1>7, <1>8, <2>3, <2>4
<1>. QED  BY <1>8, <1>9

\* Among blocks on a walk there is a highest one and a lowest one.
LEMMA HighestOnWalk ==
    ASSUME NEW h \in Hash, NEW S \in SUBSET Ancestry[h], S # {}
    PROVE  /\ \E x \in S : \A y \in S : Number[y] <= Number[x]
           /\ \E x \in S : \A y \in S : Number[x] <= Number[y]
<1>. DEFINE N == 0 .. Number[h]
            Above(x) == Number[x] .. Number[h]
<1>1. Number[h] \in Nat /\ \A x \in S : Number[x] \in Nat /\ Number[x] <= Number[h]
  BY AncestryNumber
<1>2. IsFiniteSet(N) /\ IsWellFoundedOn(StrictSubsetOrdering(N), FiniteSubsetsOf(N))
  BY <1>1, FS_Interval, FS_StrictSubsetOrderingWellFounded
<1>3. \E x \in S : \A y \in S : Number[y] <= Number[x]
  <2>. DEFINE T == {Above(x) : x \in S}
  <2>1. \A x \in S : Above(x) \in SUBSET N
    BY <1>1
  <2>2. \A x \in S : IsFiniteSet(Above(x))
    BY <1>2, <2>1, FS_Subset
  <2>3. T \subseteq FiniteSubsetsOf(N) /\ T # {}
    BY <2>1, <2>2 DEF FiniteSubsetsOf
  <2>. HIDE DEF T
  <2>4. PICK m \in T : \A t \in T : ~(<<t, m>> \in StrictSubsetOrdering(N))
    BY <1>2, <2>3, WFMin
  <2>5. PICK x \in S : m = Above(x)
    BY <2>4 DEF T
  <2>6. ASSUME NEW y \in S, ~(Number[y] <= Number[x]) PROVE FALSE
    <3>1. Above(y) \subseteq Above(x) /\ Number[x] \in Above(x) /\ Number[x] \notin Above(y)
      BY <1>1, <2>6
    <3>2. <<Above(y), Above(x)>> \in StrictSubsetOrdering(N)
      BY <2>1, <3>1 DEF StrictSubsetOrdering
    <3>3. Above(y) \in T
      BY DEF T
    <3>. QED  BY <2>4, <2>5, <3>2, <3>3
  <2>. QED  BY <2>6
<1>4. \E x \in S : \A y \in S : Number[x] <= Number[y]
  <2>1. S \in SUBSET Hash
    BY AncestryClosed
  <2>. QED  BY <2>1, LowestNumber
<1>. QED  BY <1>3, <1>4

\* Every walk ends at genesis and visits one block of every number below its
\* start.
LEMMA AncestryComplete ==
    ASSUME NEW h \in Hash
    PROVE  /\ Genesis \in Ancestry[h]
           /\ \A n \in Nat : n <= Number[h] => \E x \in Ancestry[h] : Number[x] = n
<1>0. Ancestry[h] \in SUBSET Hash /\ h \in Ancestry[h] /\ ParentClosed(Ancestry[h])
  BY AncestryClosed
<1>1. PICK x \in Ancestry[h] : \A y \in Ancestry[h] : Number[x] <= Number[y]
  BY <1>0, HighestOnWalk
<1>2. x = Genesis
  <2>. SUFFICES ASSUME x # Genesis PROVE FALSE
    OBVIOUS
  <2>1. x \in Hash /\ Parent[x] \in Hash /\ Number[x] = Number[Parent[x]] + 1
    BY <1>0, BlocksAssumption
  <2>2. Parent[x] \in Ancestry[h]
    BY <1>0, <2>1 DEF ParentClosed
  <2>3. Number[Parent[x]] \in Nat /\ Number[x] <= Number[Parent[x]]
    BY <1>1, <2>1, <2>2, BlocksAssumption
  <2>. QED  BY <2>1, <2>3
<1>3. ASSUME NEW n \in Nat, n <= Number[h]
      PROVE  \E y \in Ancestry[h] : Number[y] = n
  <2>1. Number[Genesis] <= n /\ Genesis \in Ancestry[h]
    BY <1>2, BlocksAssumption
  <2>. QED  BY <1>3, <2>1, AncestryBetween
<1>. QED  BY <1>2, <1>3
=============================================================================
