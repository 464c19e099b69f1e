---------------------- MODULE StatementBuilder_proofs ----------------------
(***************************************************************************)
(* Theorems about StatementBuilder, for any messages and any key lists.    *)
(*                                                                         *)
(* Names and values are collected by walks of their own.  What makes them  *)
(* meet is that each walk stops at a set of positions and keeps their      *)
(* order: the value at position i is the Rank(P, i)-th of its list.        *)
(***************************************************************************)
EXTENDS StatementBuilder, FiniteSetTheorems, SequenceTheorems, WellFoundedInduction, TLAPS

(* A set of natural numbers has a least one. *)
LEMMA LeastNat ==
    ASSUME NEW T, T \subseteq Nat, T # {}
    PROVE  \E x \in T : \A y \in T : x <= y
<1>1. PICK x \in T : \A y \in T : ~ (<<y, x>> \in OpToRel(<, Nat))
  BY WFMin, NatLessThanWellFounded, Zenon
<1>2. \A y \in Nat : y < x => <<y, x>> \in OpToRel(<, Nat)
  BY Zenon DEF OpToRel
<1>3. \A y \in T : ~ (y < x)
  BY <1>1, <1>2
<1> QED  BY <1>3

-----------------------------------------------------------------------------
(* Ranks. *)

(* A set of positions of a sequence. *)
Positions(P) == \E m \in Nat : P \subseteq 1..m

LEMMA PositionsOf ==
    ASSUME NEW S, NEW s \in Seq(S), NEW P, P \subseteq DOMAIN s
    PROVE  Positions(P)
<1>1. Len(s) \in Nat /\ P \subseteq 1..Len(s)
  OBVIOUS
<1> QED  BY <1>1, Zenon DEF Positions

LEMMA SomePositions ==
    ASSUME NEW P, Positions(P), NEW R, R \subseteq P
    PROVE  Positions(R)
BY Zenon DEF Positions

LEMMA PositionType ==
    ASSUME NEW P, Positions(P)
    PROVE  \A i \in P : i \in Nat /\ 0 < i
BY DEF Positions

LEMMA RankType ==
    ASSUME NEW P, Positions(P)
    PROVE  /\ IsFiniteSet(P) /\ Cardinality(P) \in Nat
           /\ \A i : IsFiniteSet(P \cap 1..i) /\ Rank(P, i) \in Nat
<1>1. IsFiniteSet(P)
  <2>1. PICK m \in Nat : P \subseteq 1..m
    BY Zenon DEF Positions
  <2>2. IsFiniteSet(1..m) /\ P \in SUBSET (1..m)
    BY <2>1, FS_Interval
  <2> QED  BY <2>2, FS_Subset, Zenon
<1>2. \A i : P \cap 1..i \in SUBSET P
  OBVIOUS
<1>3. \A i : IsFiniteSet(P \cap 1..i)
  BY <1>1, <1>2, FS_Subset, Zenon
<1> QED  BY <1>1, <1>3, FS_CardinalityType, Zenon DEF Rank

(* A position counts itself: it has one more than the position before it. *)
LEMMA RankStep ==
    ASSUME NEW P, Positions(P), NEW i \in Nat
    PROVE  Rank(P, i + 1) = IF i + 1 \in P THEN Rank(P, i) + 1 ELSE Rank(P, i)
<1> DEFINE S == P \cap 1..i
           U == P \cap 1..i + 1
<1>1. IsFiniteSet(S) /\ i + 1 \notin S
  <2>1. IsFiniteSet(S)
    BY RankType, Zenon
  <2> QED  BY <2>1
<1>2. CASE i + 1 \in P
  <2>1. U = S \cup {i + 1}
    BY <1>2
  <2> HIDE DEF S, U
  <2>2. Cardinality(U) = Cardinality(S) + 1
    BY <1>1, <2>1, FS_AddElement
  <2> QED  BY <1>2, <2>2 DEF S, U, Rank
<1>3. CASE i + 1 \notin P
  <2>1. U = S
    BY <1>3
  <2> QED  BY <1>3, <2>1 DEF Rank
<1> QED  BY <1>2, <1>3

LEMMA RankNone == \A P : Rank(P, 0) = 0
<1>1. \A P : P \cap 1..0 = {}
  OBVIOUS
<1> QED  BY <1>1, FS_EmptySet, Zenon DEF Rank

LEMMA RankAll ==
    ASSUME NEW P, NEW m, P \subseteq 1..m
    PROVE  Rank(P, m) = Cardinality(P)
<1>1. P \cap 1..m = P
  OBVIOUS
<1> QED  BY <1>1, Zenon DEF Rank

LEMMA RankGrows ==
    ASSUME NEW P, Positions(P), NEW i \in Nat, NEW k \in Nat, i <= k
    PROVE  Rank(P, i) <= Rank(P, k)
<1>1. P \cap 1..i \in SUBSET (P \cap 1..k)
  OBVIOUS
<1>2. IsFiniteSet(P \cap 1..k)
  BY RankType, Zenon
<1> QED  BY <1>1, <1>2, FS_Subset, Zenon DEF Rank

(* Positions of P are in the order of their ranks. *)
LEMMA RankOrder ==
    ASSUME NEW P, Positions(P), NEW i \in Nat, NEW k \in P, i < k
    PROVE  Rank(P, i) < Rank(P, k)
<1>1. k \in Nat /\ k - 1 \in Nat /\ i <= k - 1
  BY PositionType
<1>2. Rank(P, i) <= Rank(P, k - 1)
  BY <1>1, RankGrows, Zenon
<1>3. Rank(P, (k - 1) + 1) = IF (k - 1) + 1 \in P THEN Rank(P, k - 1) + 1 ELSE Rank(P, k - 1)
  BY <1>1, RankStep, Zenon
<1>4. (k - 1) + 1 = k
  BY <1>1
<1>5. Rank(P, k) = Rank(P, k - 1) + 1
  BY <1>3, <1>4
<1>6. Rank(P, i) \in Nat /\ Rank(P, k - 1) \in Nat
  BY RankType, Zenon
<1> QED  BY <1>2, <1>5, <1>6

LEMMA RankUnique ==
    ASSUME NEW P, Positions(P), NEW i \in P, NEW k \in P, Rank(P, i) = Rank(P, k)
    PROVE  i = k
<1>1. i \in Nat /\ k \in Nat
  BY PositionType, Zenon
<1>2. Rank(P, i) \in Nat /\ Rank(P, k) \in Nat
  BY RankType, Zenon
<1>3. i < k => Rank(P, i) < Rank(P, k)
  BY <1>1, RankOrder, Zenon
<1>4. k < i => Rank(P, k) < Rank(P, i)
  BY <1>1, RankOrder, Zenon
<1> QED  BY <1>1, <1>2, <1>3, <1>4

LEMMA RankRange ==
    ASSUME NEW P, Positions(P), NEW i \in P
    PROVE  Rank(P, i) \in 1..Cardinality(P)
<1>1. i \in Nat /\ 0 < i /\ 0 \in Nat
  BY PositionType
<1>2. Rank(P, 0) < Rank(P, i)
  BY <1>1, RankOrder, Zenon
<1>3. PICK m \in Nat : P \subseteq 1..m
  BY Zenon DEF Positions
<1>4. Rank(P, m) = Cardinality(P) /\ i <= m
  <2>1. Rank(P, m) = Cardinality(P)
    BY <1>3, RankAll, Zenon
  <2> QED  BY <2>1, <1>3
<1>5. Rank(P, i) <= Rank(P, m)
  BY <1>1, <1>3, <1>4, RankGrows, Zenon
<1>6. Rank(P, i) \in Nat /\ Cardinality(P) \in Nat
  BY RankType, Zenon
<1> QED  BY <1>2, <1>4, <1>5, <1>6, RankNone

(* There is a position of every rank. *)
LEMMA RankHits ==
    ASSUME NEW P, Positions(P), NEW n \in 1..Cardinality(P)
    PROVE  \E i \in P : Rank(P, i) = n
<1> DEFINE T == {i \in Nat : n <= Rank(P, i)}
<1>a. Cardinality(P) \in Nat
  BY RankType, Zenon
<1>b. PICK m \in Nat : P \subseteq 1..m
  BY Zenon DEF Positions
<1>c. Rank(P, 0) = 0 /\ Rank(P, m) = Cardinality(P)
  BY <1>b, RankNone, RankAll, Zenon
<1>1. n \in Nat /\ 1 <= n /\ n <= Cardinality(P)
  BY <1>a
<1>2. T \subseteq Nat /\ m \in T
  BY <1>1, <1>c
<1>3. PICK i \in T : \A y \in T : i <= y
  <2> HIDE DEF T
  <2> QED  BY <1>2, LeastNat, Zenon
<1>4. i \in Nat /\ n <= Rank(P, i)
  OBVIOUS
<1>5. i # 0
  BY <1>1, <1>4, <1>c
<1>6. i - 1 \in Nat /\ i - 1 \notin T
  BY <1>3, <1>4, <1>5
<1>7. Rank(P, i - 1) \in Nat /\ Rank(P, i) \in Nat
  BY RankType, Zenon
<1>8. Rank(P, i - 1) < n
  BY <1>1, <1>6, <1>7
<1>9. Rank(P, (i - 1) + 1) = IF (i - 1) + 1 \in P THEN Rank(P, i - 1) + 1 ELSE Rank(P, i - 1)
  BY <1>6, RankStep, Zenon
<1>10. (i - 1) + 1 = i
  BY <1>4
<1>11. i \in P /\ Rank(P, i) = Rank(P, i - 1) + 1
  BY <1>4, <1>7, <1>8, <1>9, <1>10, <1>1
<1> QED  BY <1>1, <1>4, <1>7, <1>8, <1>11

-----------------------------------------------------------------------------
(* What a walk collects. *)

LEMMA PickFrom ==
    ASSUME NEW s, NEW P, Positions(P), NEW n \in 1..Cardinality(P)
    PROVE  \E i \in P : Rank(P, i) = n /\ Pick(s, P)[n] = s[i]
<1> DEFINE x == CHOOSE i \in P : Rank(P, i) = n
<1>1. x \in P /\ Rank(P, x) = n
  BY RankHits, Zenon
<1>2. Pick(s, P)[n] = s[x]
  BY Zenon DEF Pick
<1> QED  BY <1>1, <1>2, Zenon

LEMMA PickAt ==
    ASSUME NEW s, NEW P, Positions(P), NEW i \in P
    PROVE  Pick(s, P)[Rank(P, i)] = s[i]
<1>1. Rank(P, i) \in 1..Cardinality(P)
  BY RankRange, Zenon
<1>2. PICK k \in P : Rank(P, k) = Rank(P, i) /\ Pick(s, P)[Rank(P, i)] = s[k]
  BY <1>1, PickFrom
<1>3. k = i
  BY <1>2, RankUnique, Zenon
<1> QED  BY <1>2, <1>3

LEMMA PickSeq ==
    ASSUME NEW S, NEW s, NEW P, Positions(P),
           \A i \in P : s[i] \in S
    PROVE  Pick(s, P) \in Seq(S) /\ Len(Pick(s, P)) = Cardinality(P)
<1>1. Cardinality(P) \in Nat
  BY RankType, Zenon
<1>2. Pick(s, P) \in [1..Cardinality(P) -> S]
  <2>1. \A n \in 1..Cardinality(P) : Pick(s, P)[n] \in S
    <3> SUFFICES ASSUME NEW n \in 1..Cardinality(P)
                 PROVE  Pick(s, P)[n] \in S
      OBVIOUS
    <3>1. PICK i \in P : Pick(s, P)[n] = s[i]
      BY PickFrom
    <3> QED  BY <3>1, Zenon
  <2> QED  BY <2>1, Zenon DEF Pick
<1> DEFINE t == Pick(s, P)
           c == Cardinality(P)
<1>3. t \in [1..c -> S] /\ c \in Nat
  BY <1>1, <1>2
<1> HIDE DEF t, c
<1>4. t \in Seq(S) /\ Len(t) = c
  BY <1>3
<1> QED  BY <1>4 DEF t, c

(* The ranks of some of the positions are as many as they are. *)
LEMMA RanksOf ==
    ASSUME NEW P, Positions(P), NEW R, R \subseteq P, NEW T,
           \A j \in R : Rank(P, j) \in T,
           \A r \in T : \E j \in R : Rank(P, j) = r
    PROVE  Cardinality(T) = Cardinality(R)
<1> DEFINE f == [j \in R |-> Rank(P, j)]
<1>1. \A j, k \in R : f[j] = f[k] => j = k
  BY RankUnique
<1>2. f \in Bijection(R, T)
  BY <1>1 DEF Bijection, Injection, Surjection, IsInjective
<1>3. IsFiniteSet(R)
  BY SomePositions, RankType, Zenon
<1> HIDE DEF f
<1> QED  BY <1>2, <1>3, FS_Bijection, Zenon DEF ExistsBijection

(* A walk over what a walk collected is one walk: it stops at the ranks of the
   positions Q that both stop at. *)
LEMMA PickOfPick ==
    ASSUME NEW s, NEW P, Positions(P), NEW Q, Q \subseteq P
    PROVE  Pick(Pick(s, P), {Rank(P, j) : j \in Q}) = Pick(s, Q)
<1> DEFINE T == {Rank(P, j) : j \in Q}
           t == Pick(s, P)
<1>1. Positions(Q) /\ Cardinality(P) \in Nat
  BY SomePositions, RankType, Zenon
<1>2. Cardinality(T) = Cardinality(Q) /\ Cardinality(Q) \in Nat
  <2>1. \A j \in Q : Rank(P, j) \in T
    OBVIOUS
  <2>2. \A r \in T : \E j \in Q : Rank(P, j) = r
    OBVIOUS
  <2>3. Cardinality(T) = Cardinality(Q)
    <3> HIDE DEF T
    <3> QED  BY <2>1, <2>2, RanksOf
  <2>4. Cardinality(Q) \in Nat
    BY <1>1, RankType, Zenon
  <2> QED  BY <2>3, <2>4
<1>3. /\ T \subseteq 1..Cardinality(P)
      /\ \A j \in Q : t[Rank(P, j)] = s[j]
  <2>1. \A i \in P : Rank(P, i) \in 1..Cardinality(P) /\ t[Rank(P, i)] = s[i]
    BY RankRange, PickAt, Zenon
  <2> QED  BY <2>1
<1>4. ASSUME NEW i \in Q
      PROVE  Rank(T, Rank(P, i)) = Rank(Q, i)
  <2>1. \A j \in Q : j \in 1..i <=> Rank(P, j) \in 1..Rank(P, i)
    <3> SUFFICES ASSUME NEW j \in Q
                 PROVE  j \in 1..i <=> Rank(P, j) \in 1..Rank(P, i)
      OBVIOUS
    <3>1. i \in Nat /\ j \in Nat /\ 0 < j /\ i \in P /\ j \in P
      BY PositionType
    <3>2. Rank(P, i) \in 1..Cardinality(P) /\ Rank(P, j) \in 1..Cardinality(P)
      BY <3>1, RankRange, Zenon
    <3>3. j <= i => Rank(P, j) <= Rank(P, i)
      BY <3>1, RankGrows, Zenon
    <3>4. i < j => Rank(P, i) < Rank(P, j)
      BY <3>1, RankOrder, Zenon
    <3> QED  BY <3>1, <3>2, <3>3, <3>4
  <2> DEFINE R == Q \cap 1..i
             U == T \cap 1..Rank(P, i)
  <2>2. R \subseteq P /\ \A j \in R : Rank(P, j) \in U
    BY <2>1
  <2>3. \A r \in U : \E j \in R : Rank(P, j) = r
    BY <2>1
  <2>4. Cardinality(U) = Cardinality(R)
    <3> HIDE DEF R, U
    <3> QED  BY <2>2, <2>3, RanksOf
  <2> QED  BY <2>4, Zenon DEF Rank
<1>5. ASSUME NEW n \in 1..Cardinality(Q)
      PROVE  Pick(t, T)[n] = Pick(s, Q)[n]
  <2>1. PICK i \in Q : Rank(Q, i) = n
    BY <1>1, RankHits, Zenon
  <2>2. Pick(s, Q)[n] = s[i]
    BY <1>1, <2>1, PickAt, Zenon
  <2>3. Rank(P, i) \in T /\ Rank(T, Rank(P, i)) = n
    BY <1>4, <2>1
  <2>5. Positions(T)
    BY <1>1, <1>3, Zenon DEF Positions
  <2>6. Pick(t, T)[n] = t[Rank(P, i)]
    <3> HIDE DEF t, T
    <3> QED  BY <2>3, <2>5, PickAt, Zenon
  <2> QED  BY <1>3, <2>2, <2>6
<1>6. Pick(t, T) = [n \in 1..Cardinality(Q) |-> Pick(t, T)[n]]
  BY <1>2 DEF Pick
<1>7. Pick(s, Q) = [n \in 1..Cardinality(Q) |-> Pick(s, Q)[n]]
  BY DEF Pick
<1> QED  BY <1>5, <1>6, <1>7, Zenon

(* A walk that stops everywhere collects the message. *)
LEMMA PickAll ==
    ASSUME NEW S, NEW s \in Seq(S)
    PROVE  Pick(s, DOMAIN s) = s
<1> DEFINE m == Len(s)
           P == 1..m
<1>1. m \in Nat /\ DOMAIN s = P /\ Cardinality(P) = m
  <2>1. m \in Nat /\ DOMAIN s = P /\ m \in Int /\ 1 \in Int
    OBVIOUS
  <2>2. Cardinality(P) = IF 1 > m THEN 0 ELSE m - 1 + 1
    BY <2>1, FS_Interval, Zenon
  <2> QED  BY <2>1, <2>2
<1>2. Positions(P)
  BY <1>1, Zenon DEF Positions
<1>3. ASSUME NEW i \in P
      PROVE  Rank(P, i) = i
  <2>1. P \cap 1..i = 1..i /\ i \in Int /\ 1 \in Int /\ 1 <= i
    BY <1>1
  <2>2. Cardinality(1..i) = i
    BY <2>1, FS_Interval
  <2> QED  BY <2>1, <2>2, Zenon DEF Rank
<1>4. ASSUME NEW i \in P
      PROVE  Pick(s, P)[i] = s[i]
  <2>1. Pick(s, P)[Rank(P, i)] = s[i]
    <3> HIDE DEF P
    <3> QED  BY <1>2, PickAt, Zenon
  <2> QED  BY <1>3, <2>1
<1>5. Pick(s, P) = [i \in P |-> Pick(s, P)[i]]
  BY <1>1 DEF Pick
<1>6. s = [i \in P |-> s[i]]
  BY <1>1
<1> QED  BY <1>1, <1>4, <1>5, <1>6, Zenon

(* What a walk over a message collects is fields of the message. *)
LEMMA Collected ==
    ASSUME NEW e \in Seq(Field), NEW P, P \subseteq DOMAIN e
    PROVE  /\ Pick(e, P) \in Seq(Field)
           /\ Len(Pick(e, P)) = Cardinality(P) /\ Cardinality(P) \in Nat
           /\ \A n \in DOMAIN Pick(e, P) : \E i \in P : Pick(e, P)[n] = e[i]
           /\ \A i \in P : \E n \in DOMAIN Pick(e, P) : Pick(e, P)[n] = e[i]
<1>1. Positions(P) /\ \A i \in P : e[i] \in Field
  <2>1. Positions(P)
    BY PositionsOf, Zenon
  <2> QED  BY <2>1
<1>2. Pick(e, P) \in Seq(Field) /\ Len(Pick(e, P)) = Cardinality(P)
  BY <1>1, PickSeq, Zenon
<1>3. Cardinality(P) \in Nat
  BY <1>1, RankType, Zenon
<1>4. DOMAIN Pick(e, P) = 1..Cardinality(P)
  BY DEF Pick
<1>5. \A n \in 1..Cardinality(P) : \E i \in P : Pick(e, P)[n] = e[i]
  <2> DEFINE T == {e[i] : i \in P}
  <2>1. \A i \in P : e[i] \in T
    OBVIOUS
  <2>2. Pick(e, P) \in Seq(T) /\ Len(Pick(e, P)) = Cardinality(P)
    <3> HIDE DEF T
    <3> QED  BY <1>1, <2>1, PickSeq, Zenon
  <2>3. \A n \in 1..Cardinality(P) : Pick(e, P)[n] \in T
    <3> HIDE DEF T
    <3> QED  BY <2>2
  <2> QED  BY <2>3
<1>6. \A i \in P : \E n \in 1..Cardinality(P) : Pick(e, P)[n] = e[i]
  <2> SUFFICES ASSUME NEW i \in P
               PROVE  \E n \in 1..Cardinality(P) : Pick(e, P)[n] = e[i]
    OBVIOUS
  <2>1. Rank(P, i) \in 1..Cardinality(P)
    BY <1>1, RankRange, Zenon
  <2>2. Pick(e, P)[Rank(P, i)] = e[i]
    BY <1>1, PickAt, Zenon
  <2> QED  BY <2>1, <2>2, Zenon
<1> QED  BY <1>2, <1>3, <1>4, <1>5, <1>6, Zenon

LEMMA FieldType ==
    ASSUME NEW s \in Seq(Field)
    PROVE  /\ Len(s) \in Nat /\ DOMAIN s = 1..Len(s)
           /\ \A i \in DOMAIN s : s[i].name \in Name /\ s[i].kind \in Kind
<1>1. Len(s) \in Nat /\ DOMAIN s = 1..Len(s) /\ \A i \in DOMAIN s : s[i] \in Field
  OBVIOUS
<1> QED  BY <1>1 DEF Field

LEMMA NamesType ==
    ASSUME NEW s \in Seq(Field)
    PROVE  /\ NamesOf(s) \in Seq(Name)
           /\ Len(NamesOf(s)) = Len(s) /\ DOMAIN NamesOf(s) = DOMAIN s
           /\ \A i \in DOMAIN s : NamesOf(s)[i] = s[i].name
<1>1. Len(s) \in Nat /\ DOMAIN s = 1..Len(s) /\ \A i \in DOMAIN s : s[i].name \in Name
  BY FieldType, Zenon
<1>2. NamesOf(s) \in [1..Len(s) -> Name]
  BY <1>1 DEF NamesOf
<1> DEFINE t == NamesOf(s)
           c == Len(s)
<1>3. t \in [1..c -> Name] /\ c \in Nat
  BY <1>1, <1>2
<1> HIDE DEF t, c
<1>4. t \in Seq(Name) /\ Len(t) = c
  BY <1>3
<1>5. NamesOf(s) \in Seq(Name) /\ Len(NamesOf(s)) = Len(s)
  BY <1>4 DEF t, c
<1> QED  BY <1>1, <1>5 DEF NamesOf

-----------------------------------------------------------------------------
(* The keys a select is prepared with. *)

(* The meetings of the two loops of ParseSelect: a field with a key. *)
Hits(e, ks) ==
    {h \in (DOMAIN e) \X (DOMAIN ks) : e[h[1]].top /\ e[h[1]].name = ks[h[2]]}
HitsUpTo(e, ks, i) == {h \in Hits(e, ks) : h[1] \in 1..i}

LEMMA HitsType ==
    ASSUME NEW e \in Seq(Field), NEW ks \in Seq(Name)
    PROVE  /\ Cardinality(Hits(e, ks)) \in Nat
           /\ \A i : IsFiniteSet(HitsUpTo(e, ks, i)) /\ Cardinality(HitsUpTo(e, ks, i)) \in Nat
           /\ HitsUpTo(e, ks, 0) = {}
           /\ HitsUpTo(e, ks, Len(e)) = Hits(e, ks)
<1>1. DOMAIN e = 1..Len(e) /\ DOMAIN ks = 1..Len(ks) /\ Len(e) \in Nat /\ Len(ks) \in Nat
  OBVIOUS
<1>2. IsFiniteSet(DOMAIN e) /\ IsFiniteSet(DOMAIN ks)
  BY <1>1, FS_Interval
<1>3. IsFiniteSet((DOMAIN e) \X (DOMAIN ks))
  BY <1>2, FS_Product, Zenon
<1>4. Hits(e, ks) \in SUBSET ((DOMAIN e) \X (DOMAIN ks))
  BY Zenon DEF Hits
<1>5. IsFiniteSet(Hits(e, ks))
  BY <1>3, <1>4, FS_Subset, Zenon
<1>6. \A i : HitsUpTo(e, ks, i) \in SUBSET Hits(e, ks)
  BY Zenon DEF HitsUpTo
<1>7. \A i : IsFiniteSet(HitsUpTo(e, ks, i))
  BY <1>5, <1>6, FS_Subset, Zenon
<1>8. HitsUpTo(e, ks, 0) = {}
  BY DEF HitsUpTo
<1>9. HitsUpTo(e, ks, Len(e)) = Hits(e, ks)
  BY <1>1 DEF HitsUpTo, Hits
<1> QED  BY <1>5, <1>7, <1>8, <1>9, FS_CardinalityType, Zenon

LEMMA ValidKeysType ==
    ASSUME NEW e \in Seq(Field), NEW ks \in Seq(Name)
    PROVE  ValidKeys(e, ks) \in Seq(Name)
<1> DEFINE c == Cardinality(Hits(e, ks))
           up(i) == Cardinality(HitsUpTo(e, ks, i))
           At(i, n) == up(i - 1) < n /\ n <= up(i)
           v == [n \in 1..c |-> e[CHOOSE i \in DOMAIN e : At(i, n)].name]
<1>1. ValidKeys(e, ks) = v
  BY DEF ValidKeys, Hits, HitsUpTo
<1>2. Len(e) \in Nat /\ c \in Nat /\ up(0) = 0 /\ up(Len(e)) = c
  <2>1. c \in Nat /\ HitsUpTo(e, ks, 0) = {} /\ HitsUpTo(e, ks, Len(e)) = Hits(e, ks)
    BY HitsType, Zenon
  <2>2. Len(e) \in Nat /\ Cardinality({}) = 0
    BY FS_EmptySet
  <2> QED  BY <2>1, <2>2, Zenon
<1>3. \A i : up(i) \in Nat
  BY HitsType, Zenon
<1> HIDE DEF c, up
<1>4. ASSUME NEW n \in 1..c
      PROVE  \E i \in DOMAIN e : At(i, n)
  <2> DEFINE T == {i \in Nat : n <= up(i)}
  <2>1. T \subseteq Nat /\ Len(e) \in T
    BY <1>2
  <2>2. PICK i \in T : \A y \in T : i <= y
    <3> HIDE DEF T
    <3> QED  BY <2>1, LeastNat, Zenon
  <2>3. i \in Nat /\ n <= up(i) /\ i <= Len(e)
    BY <2>1, <2>2
  <2>4. i # 0
    BY <1>2, <2>3
  <2>5. i - 1 \in Nat /\ i - 1 \notin T
    BY <2>2, <2>3, <2>4
  <2>6. At(i, n)
    BY <1>2, <1>3, <2>3, <2>5
  <2>7. i \in DOMAIN e
    BY <2>3, <2>4
  <2> QED  BY <2>6, <2>7
<1>5. \A i \in DOMAIN e : e[i].name \in Name
  BY FieldType, Zenon
<1> HIDE DEF At
<1>6. \A n \in 1..c : v[n] \in Name
  BY <1>4, <1>5
<1>7. v \in [1..c -> Name]
  BY <1>6
<1> HIDE DEF v
<1>8. v \in Seq(Name)
  BY <1>2, <1>7
<1> QED  BY <1>1, <1>8

(* Without a repeated key each field meets one key at most: the valid keys are
   the names of the top-level fields that are keys. *)
LEMMA ValidKeysOnce ==
    ASSUME NEW e \in Seq(Field), NEW ks \in Seq(Name), IsInjective(ks)
    PROVE  ValidKeys(e, ks) =
             NamesOf(Pick(e, {i \in DOMAIN e : e[i].top /\ e[i].name \in ToSet(ks)}))
<1> DEFINE T == {i \in DOMAIN e : e[i].top /\ e[i].name \in ToSet(ks)}
           up(i) == Cardinality(HitsUpTo(e, ks, i))
           At(i, n) == up(i - 1) < n /\ n <= up(i)
<1>1. Len(e) \in Nat /\ DOMAIN e = 1..Len(e) /\ T \subseteq DOMAIN e
  OBVIOUS
<1>2. Positions(T)
  BY <1>1, PositionsOf, Zenon
<1>3. ASSUME NEW i
      PROVE  up(i) = Rank(T, i)
  <2> DEFINE H == HitsUpTo(e, ks, i)
             R == T \cap 1..i
             f == [h \in H |-> h[1]]
  <2>1. ASSUME NEW h \in H
        PROVE  /\ h = <<h[1], h[2]>> /\ h[1] \in R /\ h[2] \in DOMAIN ks
               /\ e[h[1]].name = ks[h[2]]
    <3>1. h \in (DOMAIN e) \X (DOMAIN ks) /\ h[1] \in 1..i
          /\ e[h[1]].top /\ e[h[1]].name = ks[h[2]]
      BY DEF HitsUpTo, Hits
    <3> QED  BY <3>1 DEF ToSet
  <2>2. ASSUME NEW h \in H, NEW g \in H, h[1] = g[1]
        PROVE  h = g
    <3>1. h[2] = g[2]
      BY <2>1, <2>2 DEF IsInjective
    <3> QED  BY <2>1, <2>2, <3>1
  <2>3. ASSUME NEW r \in R
        PROVE  \E h \in H : h[1] = r
    <3>1. PICK k \in DOMAIN ks : e[r].name = ks[k]
      BY DEF ToSet
    <3>2. <<r, k>> \in H
      BY <3>1 DEF HitsUpTo, Hits
    <3> QED  BY <3>2
  <2>4. f \in Bijection(H, R)
    <3> HIDE DEF H, R
    <3> QED  BY <2>1, <2>2, <2>3 DEF Bijection, Injection, Surjection, IsInjective
  <2>5. IsFiniteSet(H)
    BY HitsType, Zenon
  <2>6. Cardinality(R) = Cardinality(H)
    <3> HIDE DEF H, R, f
    <3> QED  BY <2>4, <2>5, FS_Bijection, Zenon DEF ExistsBijection
  <2> QED  BY <2>6, Zenon DEF Rank
<1>4. Cardinality(Hits(e, ks)) = Cardinality(T)
  <2>1. up(Len(e)) = Cardinality(Hits(e, ks))
    BY HitsType, Zenon
  <2>2. Rank(T, Len(e)) = Cardinality(T)
    BY <1>1, RankAll, Zenon
  <2> QED  BY <1>3, <2>1, <2>2
<1>5. ASSUME NEW n \in 1..Cardinality(T)
      PROVE  (CHOOSE i \in DOMAIN e : At(i, n)) = (CHOOSE i \in T : Rank(T, i) = n)
  <2>1. PICK x \in T : Rank(T, x) = n
    BY <1>2, RankHits, Zenon
  <2>2. x \in DOMAIN e /\ x \in Nat /\ x - 1 \in Nat /\ (x - 1) + 1 = x
    BY <1>1
  <2>3. Rank(T, x) = Rank(T, x - 1) + 1
    BY <1>2, <2>2, RankStep
  <2>4. \A i : Rank(T, i) \in Nat
    BY <1>2, RankType, Zenon
  <2>5. At(x, n)
    BY <1>3, <2>1, <2>3, <2>4
  <2>6. ASSUME NEW i \in DOMAIN e, At(i, n)
        PROVE  i = x
    <3>1. i \in Nat /\ i - 1 \in Nat
      BY <1>1
    <3>2. i <= x - 1 => Rank(T, i) <= Rank(T, x - 1)
      BY <1>2, <2>2, <3>1, RankGrows, Zenon
    <3>3. x <= i - 1 => Rank(T, x) <= Rank(T, i - 1)
      BY <1>2, <2>2, <3>1, RankGrows, Zenon
    <3>4. Rank(T, i - 1) < n /\ n <= Rank(T, i)
      BY <1>3, <2>6
    <3> QED  BY <2>1, <2>2, <2>3, <2>4, <3>1, <3>2, <3>3, <3>4
  <2> HIDE DEF At, T
  <2>7. (CHOOSE i \in DOMAIN e : At(i, n)) = x
    BY <2>2, <2>5, <2>6
  <2>8. \A i \in T : Rank(T, i) = n => i = x
    BY <1>2, <2>1, RankUnique, Zenon
  <2>9. (CHOOSE i \in T : Rank(T, i) = n) = x
    BY <2>1, <2>8
  <2> QED  BY <2>7, <2>9
<1>6. ValidKeys(e, ks) =
        [n \in 1..Cardinality(Hits(e, ks)) |-> e[CHOOSE i \in DOMAIN e : At(i, n)].name]
  BY DEF ValidKeys, Hits, HitsUpTo
<1>7. NamesOf(Pick(e, T)) =
        [n \in 1..Cardinality(T) |-> e[CHOOSE i \in T : Rank(T, i) = n].name]
  BY DEF NamesOf, Pick
<1> DEFINE hit(n) == CHOOSE i \in DOMAIN e : At(i, n)
           pos(n) == CHOOSE i \in T : Rank(T, i) = n
<1> HIDE DEF At, T
<1>8. \A n \in 1..Cardinality(T) : hit(n) = pos(n)
  BY <1>5, Zenon
<1>9. [n \in 1..Cardinality(T) |-> e[hit(n)].name] = [n \in 1..Cardinality(T) |-> e[pos(n)].name]
  <2> HIDE DEF hit, pos
  <2> QED  BY <1>8
<1>10. ValidKeys(e, ks) = NamesOf(Pick(e, T))
  BY <1>4, <1>6, <1>7, <1>9, Zenon
<1> QED  BY <1>10 DEF T

-----------------------------------------------------------------------------
(* The invariant. *)

(* The values collected for each kind of statement. *)
Params(o, e, ks) ==
    CASE o = "select" -> CollectEntityInputParams(e, ValidKeys(e, ks))
      [] o = "insert" -> CollectEntityInputParams(e, ks)
                           \o CollectEntityInputParams(e, CollectEntitySetFields(e, ks))
      [] o = "delete" -> CollectEntityInputParams(e, ks)
      [] o = "call"   -> Leaves(ProcParam(e))

(* The columns it has placeholders for. *)
Columns(o, e, ks) ==
    CASE o = "select" -> ValidKeys(e, ks)
      [] o = "insert" -> ks \o CollectEntitySetFields(e, ks)
      [] o = "delete" -> ks
      [] o = "call"   -> NamesOf(ParseProcParamsCount(ProcParam(e)))

(* The parameters that are bound: not those passed over. *)
BoundAt(params) == {i \in DOMAIN params : params[i].kind # "other"}

(* Of the parameters a first part has been added, in order; each of them that is
   bound is bound to the placeholder whose number is its rank among those. *)
Added ==
    LET params == Params(op, entity, keys)
        done == Len(params) - Len(todo)
    IN  /\ columns = Columns(op, entity, keys)
        /\ done \in 0..Len(params)
        /\ \A i \in 1..Len(todo) : todo[i] = params[done + i]
        /\ filled = Rank(BoundAt(params), done)
        /\ \A i \in 1..filled : bind[i] = Pick(params, BoundAt(params))[i]

BuilderInv ==
    /\ pc = "parsing" => filled = 0
    /\ pc \in {"parsing", "unprepared", "binding"} => sent = <<>>
    /\ pc = "unprepared" => op = "call" /\ ~HasParam(entity)
    /\ pc \in {"binding", "executed"} => Added
    /\ pc = "executed" => todo = <<>>

LEMMA SeqSame ==
    ASSUME NEW S, NEW s \in Seq(S), NEW t \in Seq(S), Len(s) = Len(t),
           \A i \in 1..Len(s) : s[i] = t[i]
    PROVE  s = t
BY SMT

LEMMA NamesConcat ==
    ASSUME NEW s \in Seq(Field), NEW t \in Seq(Field)
    PROVE  NamesOf(s \o t) = NamesOf(s) \o NamesOf(t)
<1> DEFINE u == s \o t
           l == NamesOf(u)
           a == NamesOf(s)
           b == NamesOf(t)
           r == a \o b
<1>1. u \in Seq(Field) /\ Len(u) = Len(s) + Len(t)
  OBVIOUS
<1>2. \A i \in 1..Len(u) : u[i] = IF i <= Len(s) THEN s[i] ELSE t[i - Len(s)]
  OBVIOUS
<1> HIDE DEF u
<1>3. l \in Seq(Name) /\ Len(l) = Len(u) /\ \A i \in DOMAIN u : l[i] = u[i].name
  BY <1>1, NamesType, Zenon
<1>4. /\ a \in Seq(Name) /\ Len(a) = Len(s) /\ \A i \in DOMAIN s : a[i] = s[i].name
      /\ b \in Seq(Name) /\ Len(b) = Len(t) /\ \A i \in DOMAIN t : b[i] = t[i].name
  BY NamesType, Zenon
<1> HIDE DEF l, a, b
<1>5. /\ r \in Seq(Name) /\ Len(r) = Len(a) + Len(b)
      /\ \A i \in 1..Len(a) + Len(b) : r[i] = IF i <= Len(a) THEN a[i] ELSE b[i - Len(a)]
  <2>1. a \in Seq(Name) /\ b \in Seq(Name)
    BY <1>4
  <2> QED  BY <2>1, ConcatProperties, Zenon
<1>6. \A i \in 1..Len(u) : r[i] = u[i].name
  <2> HIDE DEF r
  <2> SUFFICES ASSUME NEW i \in 1..Len(u)
               PROVE  r[i] = u[i].name
    OBVIOUS
  <2>1. i \in 1..Len(a) + Len(b) /\ Len(s) \in Nat /\ Len(t) \in Nat
    BY <1>1, <1>4
  <2>2. CASE i <= Len(s)
    <3>1. i \in DOMAIN s /\ r[i] = a[i] /\ u[i] = s[i]
      BY <1>2, <1>4, <1>5, <2>1, <2>2
    <3> QED  BY <1>4, <3>1
  <2>3. CASE ~ (i <= Len(s))
    <3>1. i - Len(s) \in DOMAIN t /\ r[i] = b[i - Len(s)] /\ u[i] = t[i - Len(s)]
      BY <1>2, <1>4, <1>5, <2>1, <2>3
    <3> QED  BY <1>4, <3>1
  <2> QED  BY <2>2, <2>3
<1> HIDE DEF r
<1>7. \A i \in 1..Len(l) : l[i] = r[i]
  BY <1>1, <1>3, <1>6
<1>8. l = r
  <2>1. Len(l) = Len(r)
    BY <1>1, <1>3, <1>4, <1>5
  <2> QED  BY <1>3, <1>5, <1>7, <2>1, SeqSame, Zenon
<1> QED  BY <1>8 DEF l, a, b, r, u

(* Fields of a message, in any order. *)
PartOf(p, e) ==
    p \in Seq(Field) /\ \A n \in DOMAIN p : \E i \in DOMAIN e : p[n] = e[i]

LEMMA PickPart ==
    ASSUME NEW e \in Seq(Field), NEW P, P \subseteq DOMAIN e
    PROVE  PartOf(Pick(e, P), e)
BY Collected DEF PartOf

LEMMA PartOfPart ==
    ASSUME NEW e, NEW p, NEW q, PartOf(p, e), PartOf(q, p)
    PROVE  PartOf(q, e)
BY Zenon DEF PartOf

LEMMA PartsConcat ==
    ASSUME NEW e, NEW p, NEW q, PartOf(p, e), PartOf(q, e)
    PROVE  PartOf(p \o q, e)
<1>1. p \in Seq(Field) /\ q \in Seq(Field) /\ p \o q \in Seq(Field)
  BY DEF PartOf
<1> DEFINE r == p \o q
<1>2. /\ Len(r) = Len(p) + Len(q)
      /\ \A i \in 1..Len(p) + Len(q) : r[i] = IF i <= Len(p) THEN p[i] ELSE q[i - Len(p)]
  BY <1>1, ConcatProperties, Zenon
<1>3. /\ Len(p) \in Nat /\ Len(q) \in Nat /\ DOMAIN r = 1..Len(r)
      /\ DOMAIN p = 1..Len(p) /\ DOMAIN q = 1..Len(q)
  BY <1>1
<1> HIDE DEF r
<1>4. ASSUME NEW n \in DOMAIN r
      PROVE  \E i \in DOMAIN e : r[n] = e[i]
  <2>1. n \in 1..Len(p) + Len(q)
    BY <1>2, <1>3
  <2>2. CASE n <= Len(p)
    <3>1. n \in 1..Len(p) /\ r[n] = p[n]
      BY <1>2, <1>3, <2>1, <2>2
    <3>2. \E i \in DOMAIN e : p[n] = e[i]
      BY <1>3, <3>1, Zenon DEF PartOf
    <3> QED  BY <3>1, <3>2
  <2>3. CASE ~ (n <= Len(p))
    <3> DEFINE k == n - Len(p)
    <3>1. k \in 1..Len(q) /\ r[n] = q[k]
      BY <1>2, <1>3, <2>1, <2>3
    <3> HIDE DEF k
    <3>2. \E i \in DOMAIN e : q[k] = e[i]
      BY <1>3, <3>1, Zenon DEF PartOf
    <3> QED  BY <3>1, <3>2
  <2> QED  BY <2>2, <2>3
<1> QED  BY <1>1, <1>4, Zenon DEF PartOf, r

(* Whatever is collected is fields of the message. *)
LEMMA ParamsType ==
    ASSUME NEW o \in {"select", "insert", "delete", "call"},
           NEW e \in Seq(Field), NEW ks \in Seq(Name)
    PROVE  PartOf(Params(o, e, ks), e) /\ Columns(o, e, ks) \in Seq(Name)
<1>1. \A names : PartOf(CollectEntityInputParams(e, names), e)
  <2> SUFFICES ASSUME NEW names
               PROVE  PartOf(CollectEntityInputParams(e, names), e)
    OBVIOUS
  <2>1. {i \in LeafAt(e) : e[i].name \in ToSet(names)} \subseteq DOMAIN e
    BY DEF LeafAt
  <2> QED  BY <2>1, PickPart DEF CollectEntityInputParams
<1>2. CollectEntitySetFields(e, ks) \in Seq(Name)
  <2> DEFINE P == {i \in LeafAt(e) : e[i].name \notin ToSet(ks)}
  <2>1. P \subseteq DOMAIN e
    BY DEF LeafAt
  <2>2. CollectEntitySetFields(e, ks) = NamesOf(Pick(e, P))
    BY Zenon DEF CollectEntitySetFields
  <2> HIDE DEF P
  <2>3. Pick(e, P) \in Seq(Field)
    BY <2>1, PickPart, Zenon DEF PartOf
  <2> QED  BY <2>2, <2>3, NamesType, Zenon
<1>3. CASE o = "select"
  <2>1. /\ Params(o, e, ks) = CollectEntityInputParams(e, ValidKeys(e, ks))
        /\ Columns(o, e, ks) = ValidKeys(e, ks)
    BY <1>3 DEF Params, Columns
  <2> QED  BY <1>1, <2>1, ValidKeysType
<1>4. CASE o = "insert"
  <2>1. /\ Params(o, e, ks) = CollectEntityInputParams(e, ks)
              \o CollectEntityInputParams(e, CollectEntitySetFields(e, ks))
        /\ Columns(o, e, ks) = ks \o CollectEntitySetFields(e, ks)
    BY <1>4 DEF Params, Columns
  <2>2. PartOf(Params(o, e, ks), e)
    BY <1>1, <2>1, PartsConcat
  <2> QED  BY <1>2, <2>1, <2>2
<1>5. CASE o = "delete"
  <2>1. Params(o, e, ks) = CollectEntityInputParams(e, ks) /\ Columns(o, e, ks) = ks
    BY <1>5 DEF Params, Columns
  <2> QED  BY <1>1, <2>1
<1>6. CASE o = "call"
  <2> DEFINE q == ProcParam(e)
             c == ParseProcParamsCount(q)
  <2>1. Params(o, e, ks) = Leaves(q) /\ Columns(o, e, ks) = NamesOf(c)
    BY <1>6 DEF Params, Columns
  <2>2. PartOf(q, e)
    <3>1. Inside(e, Param) \subseteq DOMAIN e
      BY DEF Inside
    <3> QED  BY <3>1, PickPart DEF ProcParam
  <2> HIDE DEF q
  <2>3. q \in Seq(Field)
    BY <2>2, Zenon DEF PartOf
  <2>4. PartOf(Leaves(q), q)
    <3>1. LeafAt(q) \subseteq DOMAIN q
      BY DEF LeafAt
    <3> QED  BY <2>3, <3>1, PickPart DEF Leaves
  <2>5. c \in Seq(Field)
    <3>1. {i \in LeafAt(q) : q[i].kind # "other"} \subseteq DOMAIN q
      BY DEF LeafAt
    <3>2. PartOf(c, q)
      BY <2>3, <3>1, PickPart DEF ParseProcParamsCount
    <3> QED  BY <3>2, Zenon DEF PartOf
  <2>6. NamesOf(c) \in Seq(Name)
    BY <2>5, NamesType, Zenon
  <2> QED  BY <2>1, <2>2, <2>4, <2>6, PartOfPart, Zenon
<1> QED  BY <1>3, <1>4, <1>5, <1>6

LEMMA NamesOfPick ==
    ASSUME NEW e \in Seq(Field), NEW P, P \subseteq DOMAIN e
    PROVE  ToSet(NamesOf(Pick(e, P))) = {e[i].name : i \in P}
<1> DEFINE p == Pick(e, P)
<1>1. /\ p \in Seq(Field)
      /\ \A n \in DOMAIN p : \E i \in P : p[n] = e[i]
      /\ \A i \in P : \E n \in DOMAIN p : p[n] = e[i]
  BY Collected
<1> HIDE DEF p
<1>2. DOMAIN NamesOf(p) = DOMAIN p /\ \A n \in DOMAIN p : NamesOf(p)[n] = p[n].name
  BY <1>1, NamesType, Zenon
<1>3. \A x \in ToSet(NamesOf(p)) : x \in {e[i].name : i \in P}
  BY <1>1, <1>2 DEF ToSet
<1>4. ASSUME NEW i \in P
      PROVE  e[i].name \in ToSet(NamesOf(p))
  <2>1. PICK n \in DOMAIN p : p[n] = e[i]
    BY <1>1
  <2>2. n \in DOMAIN NamesOf(p) /\ NamesOf(p)[n] = e[i].name
    BY <1>2, <2>1
  <2> QED  BY <2>2, Zenon DEF ToSet
<1> QED  BY <1>3, <1>4 DEF p

(* The fields the columns that are not keys are the names of. *)
LEMMA SetParams ==
    ASSUME NEW e \in Seq(Field), NEW ks \in Seq(Name)
    PROVE  CollectEntityInputParams(e, CollectEntitySetFields(e, ks))
             = Pick(e, {i \in LeafAt(e) : e[i].name \notin ToSet(ks)})
<1> DEFINE N == {i \in LeafAt(e) : e[i].name \notin ToSet(ks)}
           set == NamesOf(Pick(e, N))
<1>1. N \subseteq DOMAIN e
  BY DEF LeafAt
<1>2. ToSet(set) = {e[i].name : i \in N}
  <2> HIDE DEF N
  <2> QED  BY <1>1, NamesOfPick, Zenon
<1>3. {i \in LeafAt(e) : e[i].name \in ToSet(set)} = N
  <2> HIDE DEF set
  <2> QED  BY <1>2
<1> QED  BY <1>3, Zenon DEF CollectEntityInputParams, CollectEntitySetFields

(* For keys that fit the two lists go together, name by name. *)
LEMMA ColumnsFit ==
    ASSUME op \in {"select", "insert", "delete"}, entity \in Seq(Field), keys \in Seq(Name),
           KeysFit
    PROVE  Columns(op, entity, keys) = NamesOf(Params(op, entity, keys))
<1>1. CASE op = "select"
  <2> DEFINE T == {i \in DOMAIN entity : entity[i].top /\ entity[i].name \in ToSet(keys)}
             v == ValidKeys(entity, keys)
  <2>1. /\ \A i \in DOMAIN entity :
             entity[i].name \in ToSet(keys) => entity[i].top /\ entity[i].kind # "message"
        /\ IsInjective(keys)
    BY <1>1 DEF KeysFit
  <2>2. v = NamesOf(Pick(entity, T))
    BY <2>1, ValidKeysOnce, Zenon
  <2>3. ToSet(v) = {entity[i].name : i \in T}
    <3>1. T \subseteq DOMAIN entity
      OBVIOUS
    <3> HIDE DEF T, v
    <3> QED  BY <2>2, <3>1, NamesOfPick, Zenon
  <2>4. {i \in LeafAt(entity) : entity[i].name \in ToSet(v)} = T
    <3> HIDE DEF v
    <3> QED  BY <2>1, <2>3 DEF LeafAt
  <2>5. CollectEntityInputParams(entity, v) = Pick(entity, T)
    BY <2>4, Zenon DEF CollectEntityInputParams
  <2>6. Params(op, entity, keys) = CollectEntityInputParams(entity, v) /\ Columns(op, entity, keys) = v
    BY <1>1 DEF Params, Columns
  <2> QED  BY <2>2, <2>5, <2>6, Zenon
<1>2. CASE op = "insert"
  <2> DEFINE a == CollectEntityInputParams(entity, keys)
             set == CollectEntitySetFields(entity, keys)
             b == CollectEntityInputParams(entity, set)
  <2>1. NamesOf(a) = keys
    BY <1>2 DEF KeysFit
  <2>2. NamesOf(b) = set
    BY SetParams, Zenon DEF CollectEntitySetFields
  <2>3. a \in Seq(Field) /\ b \in Seq(Field)
    <3>1. \A P : P \subseteq DOMAIN entity => Pick(entity, P) \in Seq(Field)
      BY PickPart, Zenon DEF PartOf
    <3>2. \A names : {i \in LeafAt(entity) : entity[i].name \in ToSet(names)} \subseteq DOMAIN entity
      BY DEF LeafAt
    <3> QED  BY <3>1, <3>2, Zenon DEF CollectEntityInputParams
  <2>4. Params(op, entity, keys) = a \o b /\ Columns(op, entity, keys) = keys \o set
    BY <1>2 DEF Params, Columns
  <2> HIDE DEF a, b, set
  <2>5. NamesOf(a \o b) = NamesOf(a) \o NamesOf(b)
    BY <2>3, NamesConcat, Zenon
  <2> QED  BY <2>1, <2>2, <2>4, <2>5, Zenon
<1>3. CASE op = "delete"
  BY <1>3 DEF KeysFit, Params, Columns
<1> QED  BY <1>1, <1>2, <1>3

(* A call has a placeholder for each argument that is bound, whatever they are:
   the arguments are counted and collected by walks that differ only there. *)
LEMMA ColumnsOfCall ==
    ASSUME NEW e \in Seq(Field), NEW ks
    PROVE  Columns("call", e, ks) =
             NamesOf(Pick(Params("call", e, ks), BoundAt(Params("call", e, ks))))
<1> DEFINE q == ProcParam(e)
           P == LeafAt(q)
           Q == {i \in LeafAt(q) : q[i].kind # "other"}
           l == Pick(q, P)
<1>1. Params("call", e, ks) = l /\ Columns("call", e, ks) = NamesOf(Pick(q, Q))
  BY DEF Params, Columns, Leaves, ParseProcParamsCount
<1>2. q \in Seq(Field)
  <2>1. Inside(e, Param) \subseteq DOMAIN e
    BY DEF Inside
  <2> QED  BY <2>1, PickPart DEF ProcParam, PartOf
<1> HIDE DEF q
<1>3. P \subseteq DOMAIN q /\ Q \subseteq P
  BY DEF LeafAt
<1>4. Positions(P)
  BY <1>2, <1>3, PositionsOf, Zenon
<1>5. DOMAIN l = 1..Cardinality(P)
  BY DEF Pick
<1>6. ASSUME NEW n \in DOMAIN l, l[n].kind # "other"
      PROVE  \E i \in Q : n = Rank(P, i)
  <2> HIDE DEF P
  <2>0. n \in 1..Cardinality(P)
    BY <1>5
  <2>1. PICK i \in P : Rank(P, i) = n /\ Pick(q, P)[n] = q[i]
    BY <1>4, <2>0, PickFrom
  <2>2. i \in Q
    BY <1>6, <2>1 DEF P
  <2> QED  BY <2>1, <2>2
<1>7. ASSUME NEW i \in Q
      PROVE  Rank(P, i) \in DOMAIN l /\ l[Rank(P, i)].kind # "other"
  <2>1. i \in P /\ q[i].kind # "other"
    OBVIOUS
  <2> HIDE DEF P, Q
  <2>2. Rank(P, i) \in 1..Cardinality(P) /\ l[Rank(P, i)] = q[i]
    BY <1>4, <2>1, RankRange, PickAt, Zenon
  <2> QED  BY <1>5, <2>1, <2>2
<1>8. BoundAt(l) = {Rank(P, i) : i \in Q}
  <2> HIDE DEF P, Q, l
  <2> QED  BY <1>6, <1>7 DEF BoundAt
<1>9. Pick(l, {Rank(P, i) : i \in Q}) = Pick(q, Q)
  <2> HIDE DEF P, Q
  <2> QED  BY <1>3, <1>4, PickOfPick
<1> QED  BY <1>1, <1>8, <1>9, Zenon

(* The ranks of the parameters that are bound. *)
LEMMA BoundFacts ==
    ASSUME NEW p \in Seq(Field)
    PROVE  /\ Positions(BoundAt(p)) /\ Cardinality(BoundAt(p)) \in Nat
           /\ \A i : Rank(BoundAt(p), i) \in Nat
           /\ Rank(BoundAt(p), 0) = 0
           /\ Rank(BoundAt(p), Len(p)) = Cardinality(BoundAt(p))
           /\ Pick(p, BoundAt(p)) \in Seq(Field)
           /\ Len(Pick(p, BoundAt(p))) = Cardinality(BoundAt(p))
<1>1. BoundAt(p) \subseteq DOMAIN p /\ BoundAt(p) \subseteq 1..Len(p)
  BY DEF BoundAt
<1>2. Positions(BoundAt(p))
  BY <1>1, PositionsOf, Zenon
<1>3. /\ Pick(p, BoundAt(p)) \in Seq(Field)
      /\ Len(Pick(p, BoundAt(p))) = Cardinality(BoundAt(p))
  BY <1>1, Collected, Zenon
<1> QED  BY <1>1, <1>2, <1>3, RankType, RankNone, RankAll, Zenon

(* The next parameter, after the first n have been added. *)
LEMMA BoundNext ==
    ASSUME NEW p \in Seq(Field), NEW n \in Nat, n < Len(p)
    PROVE  LET B == BoundAt(p) IN
           /\ p[n + 1].kind = "other" => Rank(B, n + 1) = Rank(B, n)
           /\ p[n + 1].kind # "other" =>
                /\ Rank(B, n + 1) = Rank(B, n) + 1
                /\ Rank(B, n + 1) <= Cardinality(B)
                /\ Pick(p, B)[Rank(B, n) + 1] = p[n + 1]
<1> DEFINE B == BoundAt(p)
           k == n + 1
<1>1. k \in DOMAIN p /\ (k \in B <=> p[k].kind # "other")
  BY DEF BoundAt
<1>2. Positions(B) /\ Cardinality(B) \in Nat
  BY BoundFacts, Zenon
<1>3. Rank(B, k) = IF k \in B THEN Rank(B, n) + 1 ELSE Rank(B, n)
  <2> HIDE DEF B
  <2> QED  BY <1>2, RankStep
<1>4. k \in B => Rank(B, k) \in 1..Cardinality(B) /\ Pick(p, B)[Rank(B, k)] = p[k]
  <2> HIDE DEF B, k
  <2> QED  BY <1>2, RankRange, PickAt, Zenon
<1> HIDE DEF B
<1>5. /\ p[k].kind = "other" => Rank(B, k) = Rank(B, n)
      /\ p[k].kind # "other" =>
           /\ Rank(B, k) = Rank(B, n) + 1
           /\ Rank(B, k) <= Cardinality(B)
           /\ Pick(p, B)[Rank(B, n) + 1] = p[k]
  <2> HIDE DEF k
  <2> QED  BY <1>1, <1>2, <1>3, <1>4
<1> QED  BY <1>5 DEF B

LEMMA BoundFew ==
    ASSUME NEW p \in Seq(Field), NEW n \in Nat
    PROVE  Rank(BoundAt(p), n) <= n
<1> DEFINE B == BoundAt(p)
<1>1. B \cap 1..n \in SUBSET (1..n)
  OBVIOUS
<1>2. IsFiniteSet(1..n) /\ Cardinality(1..n) = n
  <2>1. n \in Int /\ 1 \in Int
    OBVIOUS
  <2>2. IsFiniteSet(1..n) /\ Cardinality(1..n) = IF 1 > n THEN 0 ELSE n - 1 + 1
    BY <2>1, FS_Interval, Zenon
  <2> QED  BY <2>2
<1>3. Cardinality(B \cap 1..n) <= Cardinality(1..n)
  BY <1>1, <1>2, FS_Subset, Zenon
<1> QED  BY <1>2, <1>3 DEF Rank

-----------------------------------------------------------------------------
(* The steps. *)

(* What the four handlers prepare. *)
LEMMA Preparing ==
    ASSUME BuilderTypeOK, ParseSelect \/ ParseInsert \/ ParseDelete \/ ParseProc
    PROVE  \/ Prepare(Columns(op, entity, keys), Params(op, entity, keys))
           \/ /\ pc = "parsing" /\ op = "call"
              /\ \/ pc' = "unprepared" /\ ~HasParam(entity)
                 \/ pc' = "aborted" /\ \E i \in DOMAIN ProcParam(entity) :
                                         ProcParam(entity)[i].kind = "other"
              /\ UNCHANGED <<input, columns, todo, filled, bind, sent>>
<1>1. CASE ParseSelect
  BY <1>1 DEF ParseSelect, Params, Columns
<1>2. CASE ParseInsert
  BY <1>2 DEF ParseInsert, Params, Columns
<1>3. CASE ParseDelete
  BY <1>3 DEF ParseDelete, Params, Columns
<1>4. CASE ParseProc
  BY <1>4 DEF ParseProc, Params, Columns
<1> QED  BY <1>1, <1>2, <1>3, <1>4

LEMMA TypeStep ==
    ASSUME BuilderTypeOK, BuilderInv, [BuilderNext]_builderVars
    PROVE  BuilderTypeOK'
<1> USE DEF BuilderTypeOK
<1>1. ASSUME Prepare(Columns(op, entity, keys), Params(op, entity, keys))
      PROVE  BuilderTypeOK'
  <2> DEFINE cols == Columns(op, entity, keys)
             params == Params(op, entity, keys)
  <2>1. cols \in Seq(Name) /\ params \in Seq(Field)
    BY ParamsType DEF PartOf
  <2> HIDE DEF cols, params
  <2>2. Prepare(cols, params)
    BY <1>1 DEF cols, params
  <2>3. CASE pc' = "failed" /\ UNCHANGED <<columns, todo, bind>>
    BY <2>2, <2>3 DEF Prepare, input
  <2>4. CASE /\ pc' = "binding" /\ columns' = cols /\ todo' = params
             /\ bind' = [i \in DOMAIN cols |-> Unbound]
    <3>1. filled' = 0 /\ sent' = <<>> /\ UNCHANGED input
      BY <2>2 DEF Prepare, BuilderInv
    <3>2. filled' \in 0..Len(columns')
      BY <2>1, <2>4, <3>1
    <3>3. \A i \in DOMAIN bind' : IF i <= filled' THEN bind'[i] \in Field ELSE bind'[i] = Unbound
      BY <2>1, <2>4, <3>1
    <3> QED  BY <2>1, <2>4, <3>1, <3>2, <3>3 DEF input
  <2> QED  BY <2>2, <2>3, <2>4 DEF Prepare
<1>2. CASE ParseSelect \/ ParseInsert \/ ParseDelete \/ ParseProc
  <2>1. CASE Prepare(Columns(op, entity, keys), Params(op, entity, keys))
    BY <1>1, <2>1
  <2>2. CASE /\ pc' \in {"unprepared", "aborted"}
             /\ UNCHANGED <<input, columns, todo, filled, bind, sent>>
    BY <2>2 DEF input
  <2> QED  BY <1>2, <2>1, <2>2, Preparing
<1>3. CASE AddOneInputParam
  <2>1. /\ todo # <<>> /\ todo' = Tail(todo) /\ UNCHANGED <<input, columns, sent>>
        /\ Head(todo) \in Field /\ Tail(todo) \in Seq(Field)
    BY <1>3 DEF AddOneInputParam
  <2>2. CASE UNCHANGED <<filled, bind>> /\ pc' \in {pc, "aborted"}
    BY <2>1, <2>2 DEF input
  <2>3. CASE /\ filled < Len(columns) /\ filled' = filled + 1
             /\ bind' = [bind EXCEPT ![filled + 1] = Head(todo)] /\ UNCHANGED pc
    <3>1. filled' \in 0..Len(columns') /\ DOMAIN bind' = DOMAIN columns'
      BY <2>1, <2>3
    <3>2. ASSUME NEW i \in DOMAIN bind'
          PROVE  IF i <= filled' THEN bind'[i] \in Field ELSE bind'[i] = Unbound
      <4>1. i \in DOMAIN bind /\ i \in Nat /\ filled \in Nat
        <5>1. DOMAIN bind' = DOMAIN bind
          BY <2>3
        <5>2. DOMAIN bind = 1..Len(columns) /\ filled \in Nat
          OBVIOUS
        <5> QED  BY <5>1, <5>2
      <4>2. bind'[i] = IF i = filled + 1 THEN Head(todo) ELSE bind[i]
        BY <2>3, <4>1
      <4>3. IF i <= filled THEN bind[i] \in Field ELSE bind[i] = Unbound
        BY <4>1
      <4> QED  BY <2>1, <2>3, <4>1, <4>2, <4>3
    <3> QED  BY <2>1, <2>3, <3>1, <3>2 DEF input
  <2> QED  BY <1>3, <2>2, <2>3 DEF AddOneInputParam
<1>4. CASE Exec
  BY <1>4 DEF Exec, input
<1>5. CASE ExecUnprepared
  BY <1>5 DEF ExecUnprepared, input
<1>6. CASE UNCHANGED builderVars
  BY <1>6 DEF builderVars
<1> QED  BY <1>2, <1>3, <1>4, <1>5, <1>6 DEF BuilderNext

LEMMA AddedStep ==
    ASSUME BuilderTypeOK, Added, AddOneInputParam, pc' = pc
    PROVE  Added'
<1> DEFINE params == Params(op, entity, keys)
           B == BoundAt(params)
           done == Len(params) - Len(todo)
           n == Len(todo)
<1>1. params \in Seq(Field) /\ todo \in Seq(Field) /\ todo # <<>>
  BY ParamsType DEF PartOf, BuilderTypeOK, AddOneInputParam
<1>2. /\ columns = Columns(op, entity, keys) /\ done \in 0..Len(params)
      /\ \A i \in 1..n : todo[i] = params[done + i]
      /\ filled = Rank(B, done)
      /\ \A i \in 1..filled : bind[i] = Pick(params, B)[i]
  BY DEF Added
<1>3. params' = params /\ UNCHANGED <<op, entity, keys, columns>> /\ todo' = Tail(todo)
  BY DEF AddOneInputParam, input
<1>4. /\ \/ Head(todo).kind = "other" /\ UNCHANGED <<filled, bind>>
         \/ /\ Head(todo).kind # "other" /\ filled' = filled + 1
            /\ filled < Len(columns) /\ bind' = [bind EXCEPT ![filled + 1] = Head(todo)]
  BY DEF AddOneInputParam
<1> HIDE DEF params
<1>5. /\ n \in Nat /\ n > 0 /\ Len(params) \in Nat /\ done \in Nat /\ done < Len(params)
      /\ Len(Tail(todo)) = n - 1 /\ \A i \in 1..n - 1 : Tail(todo)[i] = todo[i + 1]
      /\ Head(todo) = todo[1]
  BY <1>1, <1>2
<1>6. Head(todo) = params[done + 1]
  BY <1>2, <1>5
<1>7. done' = done + 1 /\ done' \in 0..Len(params)
  <2>1. done' = Len(params) - Len(Tail(todo))
    BY <1>3
  <2> QED  BY <1>5, <2>1
<1>8. \A i \in 1..Len(todo') : todo'[i] = params[done' + i]
  <2> SUFFICES ASSUME NEW i \in 1..n - 1
               PROVE  Tail(todo)[i] = params[(done + 1) + i]
    BY <1>3, <1>5, <1>7
  <2>1. i + 1 \in 1..n /\ done + (i + 1) = (done + 1) + i
    BY <1>5
  <2> QED  BY <1>2, <1>5, <2>1
<1>9. /\ params[done + 1].kind = "other" => Rank(B, done + 1) = Rank(B, done)
      /\ params[done + 1].kind # "other" =>
           /\ Rank(B, done + 1) = Rank(B, done) + 1
           /\ Pick(params, B)[Rank(B, done) + 1] = params[done + 1]
  BY <1>1, <1>5, BoundNext
<1>10. filled' = Rank(B, done') /\ \A i \in 1..filled' : bind'[i] = Pick(params, B)[i]
  <2>1. filled \in Nat /\ DOMAIN bind = 1..Len(columns) /\ Len(columns) \in Nat
    BY DEF BuilderTypeOK
  <2> HIDE DEF B, done
  <2>2. CASE Head(todo).kind = "other"
    BY <1>2, <1>4, <1>6, <1>7, <1>9, <2>2
  <2>3. CASE Head(todo).kind # "other"
    <3>1. /\ filled' = filled + 1 /\ filled < Len(columns)
          /\ bind' = [bind EXCEPT ![filled + 1] = params[done + 1]]
      BY <1>4, <1>6, <2>3
    <3>2. filled' = Rank(B, done') /\ Pick(params, B)[filled + 1] = params[done + 1]
      BY <1>2, <1>6, <1>7, <1>9, <2>3, <3>1
    <3>3. ASSUME NEW i \in 1..filled'
          PROVE  bind'[i] = Pick(params, B)[i]
      <4>1. i \in DOMAIN bind /\ i \in Nat /\ (i = filled + 1 \/ i \in 1..filled)
        BY <2>1, <3>1
      <4>2. bind'[i] = IF i = filled + 1 THEN params[done + 1] ELSE bind[i]
        BY <3>1, <4>1
      <4>3. i \in 1..filled => bind[i] = Pick(params, B)[i]
        BY <1>2
      <4> QED  BY <2>1, <3>2, <4>1, <4>2, <4>3
    <3> QED  BY <3>2, <3>3
  <2> QED  BY <2>2, <2>3
<1> QED  BY <1>2, <1>3, <1>7, <1>8, <1>10 DEF Added, params

LEMMA InvStep ==
    ASSUME BuilderTypeOK, BuilderInv, [BuilderNext]_builderVars
    PROVE  BuilderInv'
<1> DEFINE params == Params(op, entity, keys)
<1>1. params \in Seq(Field)
  BY ParamsType DEF PartOf, BuilderTypeOK
<1>2. CASE Prepare(Columns(op, entity, keys), params)
  <2>1. filled = 0 /\ sent = <<>> /\ UNCHANGED <<input, filled, sent>>
    BY <1>2 DEF Prepare, BuilderInv
  <2>2. CASE pc' = "failed"
    BY <2>1, <2>2 DEF BuilderInv
  <2>3. CASE pc' = "binding" /\ columns' = Columns(op, entity, keys) /\ todo' = params
    <3>1. params' = params /\ UNCHANGED <<op, entity, keys>>
      BY <2>1 DEF input
    <3> DEFINE B == BoundAt(params)
    <3> HIDE DEF params
    <3>2. Rank(B, 0) = 0 /\ Len(params) \in Nat
      BY <1>1, BoundFacts
    <3>3. Len(params') - Len(todo') = 0 /\ 0 \in 0..Len(params)
      BY <2>3, <3>1, <3>2
    <3>4. \A i \in 1..Len(todo') : todo'[i] = params[0 + i]
      BY <1>1, <2>3
    <3>5. filled' = Rank(B, 0) /\ \A i \in 1..filled' : bind'[i] = Pick(params, B)[i]
      BY <2>1, <3>2
    <3>6. Added'
      BY <2>3, <3>1, <3>3, <3>4, <3>5 DEF Added, params
    <3> QED  BY <2>1, <2>3, <3>6 DEF BuilderInv
  <2> QED  BY <1>2, <2>2, <2>3 DEF Prepare
<1>3. CASE ParseSelect \/ ParseInsert \/ ParseDelete \/ ParseProc
  <2>1. CASE /\ pc = "parsing" /\ op = "call"
             /\ \/ pc' = "unprepared" /\ ~HasParam(entity)
                \/ pc' = "aborted"
             /\ UNCHANGED <<input, columns, todo, filled, bind, sent>>
    BY <2>1 DEF BuilderInv, input
  <2> QED  BY <1>2, <1>3, <2>1, Preparing
<1>4. CASE AddOneInputParam
  <2>1. pc = "binding" /\ pc' \in {"binding", "aborted"} /\ UNCHANGED sent
    BY <1>4 DEF AddOneInputParam
  <2>2. pc' = "binding" => Added'
    BY <1>4, <2>1, AddedStep DEF BuilderInv
  <2> QED  BY <2>1, <2>2 DEF BuilderInv
<1>5. CASE Exec
  <2>1. /\ pc = "binding" /\ todo = <<>> /\ pc' \in {"executed", "failed"}
        /\ UNCHANGED <<op, entity, keys, columns, todo, filled, bind>>
    BY <1>5 DEF Exec, input
  <2>2. Added'
    BY <2>1 DEF Added, BuilderInv
  <2> QED  BY <2>1, <2>2 DEF BuilderInv
<1>6. CASE ExecUnprepared
  BY <1>6 DEF ExecUnprepared, BuilderInv
<1>7. CASE UNCHANGED builderVars
  BY <1>7 DEF builderVars, BuilderInv, Added
<1> QED  BY <1>3, <1>4, <1>5, <1>6, <1>7 DEF BuilderNext

(* Types, and what binding by position rests on: the parameters added so far are
   the first of those collected, and the placeholders filled, from the first on
   without a gap, hold those of them AddOneInputParam has not passed over, in
   their order (_inParamIndex is the rank of the last). *)
THEOREM BuilderTyping == BuilderSpec => [](BuilderTypeOK /\ BuilderInv)
<1>1. BuilderInit => BuilderTypeOK /\ BuilderInv
  <2> SUFFICES ASSUME BuilderInit PROVE BuilderTypeOK /\ BuilderInv
    OBVIOUS
  <2>1. entity \in Seq(Field) /\ keys \in Seq(Name)
    <3>1. entity \in Entity /\ keys \in {<<>>} \cup Keys
      BY DEF BuilderInit
    <3>2. entity \in Seq(Field) /\ Keys \subseteq Seq(Name)
      BY <3>1, BuilderAssumption, Zenon
    <3>3. <<>> \in Seq(Name)
      OBVIOUS
    <3> QED  BY <3>1, <3>2, <3>3, Zenon
  <2> QED  BY <2>1 DEF BuilderInit, BuilderTypeOK, BuilderInv
<1>2. BuilderTypeOK /\ BuilderInv /\ [BuilderNext]_builderVars => (BuilderTypeOK /\ BuilderInv)'
  BY TypeStep, InvStep
<1> QED  BY <1>1, <1>2, PTL DEF BuilderSpec

-----------------------------------------------------------------------------
(* What the invariant gives. *)

(* Nothing is passed over: every parameter is bound. *)
LEMMA AllBound ==
    ASSUME NEW p, PartOf(p, entity), ~Has("other")
    PROVE  Pick(p, BoundAt(p)) = p
<1>1. p \in Seq(Field) /\ \A n \in DOMAIN p : p[n].kind # "other"
  BY DEF PartOf, Has
<1>2. BoundAt(p) = DOMAIN p
  BY <1>1 DEF BoundAt
<1> QED  BY <1>1, <1>2, PickAll

(* The columns of a statement are the names of what is bound. *)
LEMMA ColumnsBound ==
    ASSUME BuilderTypeOK, KeysFit, Has("other") => op = "call"
    PROVE  LET params == Params(op, entity, keys) IN
           Columns(op, entity, keys) = NamesOf(Pick(params, BoundAt(params)))
<1>1. entity \in Seq(Field) /\ keys \in Seq(Name) /\ op \in {"select", "insert", "delete", "call"}
  BY DEF BuilderTypeOK
<1>2. CASE op = "call"
  BY <1>1, <1>2, ColumnsOfCall, Zenon
<1>3. CASE op # "call"
  <2>1. PartOf(Params(op, entity, keys), entity)
    BY <1>1, ParamsType, Zenon
  <2>2. Pick(Params(op, entity, keys), BoundAt(Params(op, entity, keys))) = Params(op, entity, keys)
    BY <1>3, <2>1, AllBound, Zenon
  <2>3. op \in {"select", "insert", "delete"}
    BY <1>1, <1>3
  <2>4. Columns(op, entity, keys) = NamesOf(Params(op, entity, keys))
    BY <1>1, <2>3, ColumnsFit, Zenon
  <2> QED  BY <2>2, <2>4, Zenon
<1> QED  BY <1>2, <1>3

LEMMA ItsField ==
    ASSUME BuilderTypeOK, BuilderInv
    PROVE  EachColumnItsField
<1> SUFFICES ASSUME pc = "executed", KeysFit, Has("other") => op = "call",
                    NEW i \in DOMAIN columns
             PROVE  bind[i] # Unbound /\ bind[i].name = columns[i]
  BY Zenon DEF EachColumnItsField
<1> DEFINE params == Params(op, entity, keys)
           B == BoundAt(params)
           fields == Pick(params, B)
<1>1. params \in Seq(Field)
  BY ParamsType DEF PartOf, BuilderTypeOK
<1>2. /\ Len(todo) = 0 /\ columns = Columns(op, entity, keys)
      /\ filled = Rank(B, Len(params) - Len(todo))
      /\ \A j \in 1..filled : bind[j] = fields[j]
  BY DEF BuilderInv, Added
<1>3. columns = NamesOf(fields)
  BY <1>2, ColumnsBound, Zenon
<1> HIDE DEF params
<1>4. /\ fields \in Seq(Field) /\ Len(fields) = Cardinality(B)
      /\ Rank(B, Len(params)) = Cardinality(B) /\ Len(params) \in Nat
  BY <1>1, BoundFacts
<1>5. filled = Len(fields)
  BY <1>2, <1>4
<1> HIDE DEF fields
<1>6. DOMAIN columns = DOMAIN fields /\ columns[i] = fields[i].name
  BY <1>3, <1>4, NamesType
<1>7. bind[i] = fields[i] /\ fields[i].kind \in Kind
  BY <1>2, <1>4, <1>5, <1>6, FieldType
<1>8. "unbound" \notin Kind
  BY DEF Kind
<1> QED  BY <1>6, <1>7, <1>8 DEF Unbound

(* Each column of an executed statement is bound to the field of its name, for
   keys that fit: ParseSelect, ParseInsert, ParseDelete and ParseProc write the
   names and collect the values by different walks, and the two give one order. *)
THEOREM ColumnsBoundByName == BuilderSpec => []EachColumnItsField
BY BuilderTyping, ItsField, PTL

(* A step that aborts needs keys that do not fit, or a field of a type the walk
   has no place for. *)
LEMMA NoAbort ==
    ASSUME BuilderTypeOK, BuilderInv, PlaceholderForEachValue, [BuilderNext]_builderVars
    PROVE  PlaceholderForEachValue'
<1>1. UNCHANGED <<op, entity, keys>>
  BY DEF BuilderNext, builderVars, ParseSelect, ParseInsert, ParseDelete, ParseProc,
         Prepare, AddOneInputParam, Exec, ExecUnprepared, input
<1>2. (KeysFit' <=> KeysFit) /\ (HasParam(entity)' <=> HasParam(entity))
      /\ (Has("fixed")' <=> Has("fixed")) /\ (Has("other")' <=> Has("other"))
  BY <1>1 DEF KeysFit, HasParam, Has
<1> SUFFICES ASSUME KeysFit, ~Has("fixed"), op = "call" => HasParam(entity) /\ ~Has("other"),
                    pc # "aborted"
             PROVE  pc' # "aborted"
  BY <1>1, <1>2 DEF PlaceholderForEachValue
<1>3. CASE ParseSelect \/ ParseInsert \/ ParseDelete \/ ParseProc
  <2>1. CASE Prepare(Columns(op, entity, keys), Params(op, entity, keys))
    BY <2>1 DEF Prepare
  <2>2. ASSUME op = "call", \E i \in DOMAIN ProcParam(entity) : ProcParam(entity)[i].kind = "other"
        PROVE  FALSE
    <3>1. Inside(entity, Param) \subseteq DOMAIN entity
      BY DEF Inside
    <3>2. PartOf(ProcParam(entity), entity)
      BY <3>1, PickPart DEF ProcParam, BuilderTypeOK
    <3> QED  BY <2>2, <3>2 DEF PartOf, Has
  <2> QED  BY <1>3, <2>1, <2>2, Preparing
<1>4. CASE AddOneInputParam
  <2> DEFINE params == Params(op, entity, keys)
             B == BoundAt(params)
             done == Len(params) - Len(todo)
  <2>1. PartOf(params, entity) /\ params \in Seq(Field)
    BY ParamsType DEF PartOf, BuilderTypeOK
  <2>2. /\ columns = Columns(op, entity, keys) /\ done \in 0..Len(params)
        /\ \A i \in 1..Len(todo) : todo[i] = params[done + i]
        /\ filled = Rank(B, done)
    BY <1>4 DEF BuilderInv, Added, AddOneInputParam
  <2>3. columns = NamesOf(Pick(params, B)) \/ columns = NamesOf(params)
    <3>1. CASE op = "call"
      BY <2>2, <3>1, ColumnsBound, Zenon
    <3>2. CASE op # "call"
      <4>1. op \in {"select", "insert", "delete"} /\ entity \in Seq(Field) /\ keys \in Seq(Name)
        BY <3>2 DEF BuilderTypeOK
      <4> QED  BY <2>2, <4>1, ColumnsFit, Zenon
    <3> QED  BY <3>1, <3>2
  <2> HIDE DEF params
  <2>4. todo \in Seq(Field) /\ todo # <<>>
    BY <1>4 DEF AddOneInputParam, BuilderTypeOK
  <2>5. /\ Len(todo) \in Nat /\ Len(todo) > 0 /\ Head(todo) = todo[1] /\ Len(params) \in Nat
        /\ done \in Nat /\ done < Len(params)
    BY <2>1, <2>2, <2>4
  <2>6. Head(todo) = params[done + 1] /\ done + 1 \in DOMAIN params
    BY <2>1, <2>2, <2>5
  <2>7. Head(todo).kind # "fixed"
    BY <2>1, <2>6 DEF PartOf, Has
  <2>8. ASSUME Head(todo).kind # "other"
        PROVE  filled # Len(columns)
    <3>1. CASE columns = NamesOf(Pick(params, B))
      <4>1. Len(columns) = Cardinality(B)
        BY <2>1, <3>1, BoundFacts, NamesType
      <4>2. Rank(B, done) + 1 <= Cardinality(B) /\ Rank(B, done) \in Nat /\ Cardinality(B) \in Nat
        <5>1. /\ Rank(B, done + 1) = Rank(B, done) + 1
              /\ Rank(B, done + 1) <= Cardinality(B)
          BY <2>1, <2>5, <2>6, <2>8, BoundNext
        <5>2. Rank(B, done) \in Nat /\ Cardinality(B) \in Nat
          BY <2>1, BoundFacts
        <5> QED  BY <5>1, <5>2
      <4> QED  BY <2>2, <4>1, <4>2
    <3>2. CASE columns = NamesOf(params)
      <4>1. Len(columns) = Len(params)
        BY <2>1, <3>2, NamesType
      <4>2. Rank(B, done) <= done /\ Rank(B, done) \in Nat
        BY <2>1, <2>5, BoundFew, BoundFacts
      <4> QED  BY <2>2, <2>5, <4>1, <4>2
    <3> QED  BY <2>3, <3>1, <3>2
  <2> QED  BY <1>4, <2>7, <2>8 DEF AddOneInputParam
<1>5. CASE Exec
  BY <1>5 DEF Exec
<1>6. CASE ExecUnprepared
  BY <1>6 DEF ExecUnprepared, BuilderInv
<1>7. CASE UNCHANGED builderVars
  BY <1>7 DEF builderVars
<1> QED  BY <1>3, <1>4, <1>5, <1>6, <1>7 DEF BuilderNext

(* AddOneInputParam never runs out of placeholders, which makes libzdb dump core:
   for keys that fit and without fields of the types left aside, no entity and no
   arguments of a procedure abort the process. *)
THEOREM EnoughPlaceholders == BuilderSpec => []PlaceholderForEachValue
<1>1. BuilderInit => PlaceholderForEachValue
  BY DEF BuilderInit, PlaceholderForEachValue
<1> QED  BY <1>1, BuilderTyping, NoAbort, PTL DEF BuilderSpec

LEMMA ConcatElements ==
    ASSUME NEW S, NEW s \in Seq(S), NEW t \in Seq(S)
    PROVE  ToSet(s \o t) = ToSet(s) \cup ToSet(t)
<1> DEFINE u == s \o t
<1>1. /\ u \in Seq(S) /\ Len(u) = Len(s) + Len(t) /\ Len(s) \in Nat /\ Len(t) \in Nat
      /\ \A i \in 1..Len(s) + Len(t) : u[i] = IF i <= Len(s) THEN s[i] ELSE t[i - Len(s)]
  BY ConcatProperties
<1> HIDE DEF u
<1>2. DOMAIN u = 1..Len(s) + Len(t) /\ DOMAIN s = 1..Len(s) /\ DOMAIN t = 1..Len(t)
  BY <1>1
<1>3. ASSUME NEW i \in DOMAIN u
      PROVE  u[i] \in ToSet(s) \cup ToSet(t)
  <2>1. CASE i <= Len(s)
    <3>1. i \in DOMAIN s /\ u[i] = s[i]
      BY <1>1, <1>2, <2>1
    <3> QED  BY <3>1 DEF ToSet
  <2>2. CASE ~ (i <= Len(s))
    <3>1. i - Len(s) \in DOMAIN t /\ u[i] = t[i - Len(s)]
      BY <1>1, <1>2, <2>2
    <3> QED  BY <3>1 DEF ToSet
  <2> QED  BY <2>1, <2>2
<1>4. ASSUME NEW i \in DOMAIN s
      PROVE  s[i] \in ToSet(u)
  <2>1. i \in DOMAIN u /\ u[i] = s[i]
    BY <1>1, <1>2
  <2> QED  BY <2>1 DEF ToSet
<1>5. ASSUME NEW i \in DOMAIN t
      PROVE  t[i] \in ToSet(u)
  <2> DEFINE k == Len(s) + i
  <2>1. k \in DOMAIN u /\ u[k] = t[i]
    BY <1>1, <1>2
  <2> HIDE DEF k
  <2> QED  BY <2>1, Zenon DEF ToSet
<1>6. ToSet(u) = ToSet(s) \cup ToSet(t)
  BY <1>3, <1>4, <1>5 DEF ToSet
<1> QED  BY <1>6 DEF u

(* The keys and the other columns are, together, all fields with a value. *)
LEMMA AllInserted ==
    ASSUME BuilderTypeOK, BuilderInv
    PROVE  InsertsAll
<1> SUFFICES ASSUME pc = "executed", op = "insert", KeysFit
             PROVE  /\ Len(columns) = Len(Leaves(entity))
                    /\ ToSet(columns) = ToSet(NamesOf(Leaves(entity)))
  BY Zenon DEF InsertsAll
<1> DEFINE P == LeafAt(entity)
           K == {i \in P : entity[i].name \in ToSet(keys)}
           N == {i \in P : entity[i].name \notin ToSet(keys)}
           set == NamesOf(Pick(entity, N))
<1>1. entity \in Seq(Field) /\ keys \in Seq(Name)
  BY DEF BuilderTypeOK
<1>2. /\ P \subseteq DOMAIN entity /\ K \subseteq DOMAIN entity /\ N \subseteq DOMAIN entity
      /\ K \cap N = {} /\ K \cup N = P
  BY DEF LeafAt
<1>3. columns = keys \o set
  BY DEF BuilderInv, Added, Columns, CollectEntitySetFields
<1>4. keys = NamesOf(Pick(entity, K))
  BY DEF KeysFit, CollectEntityInputParams
<1>5. Leaves(entity) = Pick(entity, P)
  BY DEF Leaves
<1> HIDE DEF P, K, N
<1>6. /\ Len(Pick(entity, P)) = Cardinality(P) /\ Pick(entity, P) \in Seq(Field)
      /\ Len(Pick(entity, K)) = Cardinality(K) /\ Pick(entity, K) \in Seq(Field)
      /\ Len(Pick(entity, N)) = Cardinality(N) /\ Pick(entity, N) \in Seq(Field)
  BY <1>1, <1>2, Collected, Zenon
<1>7. /\ Len(keys) = Cardinality(K) /\ set \in Seq(Name) /\ Len(set) = Cardinality(N)
  BY <1>4, <1>6, NamesType, Zenon
<1>8. Cardinality(P) = Cardinality(K) + Cardinality(N)
  <2>1. IsFiniteSet(K) /\ IsFiniteSet(N)
    BY <1>1, <1>2, PositionsOf, RankType, Zenon
  <2>2. Cardinality(K \cup N) = Cardinality(K) + Cardinality(N)
    <3>1. Cardinality(K \cup N) = Cardinality(K) + Cardinality(N) - Cardinality(K \cap N)
      BY <2>1, FS_Union, Zenon
    <3>2. Cardinality(K) \in Nat /\ Cardinality(N) \in Nat /\ Cardinality({}) = 0
      BY <2>1, FS_CardinalityType, FS_EmptySet, Zenon
    <3>3. Cardinality(K \cap N) = 0
      BY <1>2, <3>2
    <3> QED  BY <3>1, <3>2, <3>3
  <2> QED  BY <1>2, <2>2
<1>9. /\ ToSet(keys) = {entity[i].name : i \in K} /\ ToSet(set) = {entity[i].name : i \in N}
      /\ ToSet(NamesOf(Pick(entity, P))) = {entity[i].name : i \in P}
  BY <1>1, <1>2, <1>4, NamesOfPick, Zenon
<1> HIDE DEF set
<1>10. ToSet(keys \o set) = ToSet(keys) \cup ToSet(set)
  <2>1. keys \in Seq(Name) /\ set \in Seq(Name)
    BY <1>7 DEF BuilderTypeOK
  <2> QED  BY <2>1, ConcatElements, Zenon
<1>11. Len(keys \o set) = Len(keys) + Len(set)
  BY <1>1, <1>7
<1>12. {entity[i].name : i \in P} = {entity[i].name : i \in K} \cup {entity[i].name : i \in N}
  BY <1>2
<1>13. Len(columns) = Len(Leaves(entity))
  BY <1>3, <1>5, <1>6, <1>7, <1>8, <1>11
<1>14. ToSet(columns) = ToSet(NamesOf(Leaves(entity)))
  BY <1>3, <1>5, <1>9, <1>10, <1>12
<1> QED  BY <1>13, <1>14

(* An insert or save leaves nothing of the entity out: the keys of ParseInsert
   and what CollectEntitySetFields adds are as many as the fields with a value,
   at any depth, and have their names. *)
THEOREM InsertComplete == BuilderSpec => []InsertsAll
BY BuilderTyping, AllInserted, PTL
=============================================================================
