--------------------------- MODULE VectorsProofs ---------------------------
(***************************************************************************)
(* What OnlyIn leaves of a vector: exactly the elements asked for, in the  *)
(* order they were in.                                                     *)
(***************************************************************************)
EXTENDS Vectors, Integers, SequencesExt, FiniteSetTheorems, TLAPS

LEMMA PlacesFinite ==
    ASSUME NEW A, NEW s \in Seq(A), NEW S
    PROVE  /\ Places(s, S) \subseteq 1 .. Len(s) /\ Len(s) \in Nat
           /\ IsFiniteSet(Places(s, S)) /\ Cardinality(Places(s, S)) \in Nat
  <1>1. Len(s) \in Nat /\ Places(s, S) \subseteq 1 .. Len(s)
    BY DEF Places
  <1>2. IsFiniteSet(1 .. Len(s))
    BY <1>1, FS_Interval
  <1>3. IsFiniteSet(Places(s, S))
    BY <1>1, <1>2, FS_Subset
  <1> QED
    BY <1>1, <1>3, FS_CardinalityType

\* Ranks grow with the places.
LEMMA RankGrows ==
    ASSUME NEW P, IsFiniteSet(P), P \subseteq Int, NEW i \in P, NEW j \in P, i < j
    PROVE  Rank(P, i) < Rank(P, j)
  <1> DEFINE I == {k \in P : k <= i}
             J == {k \in P : k <= j}
  <1>1. IsFiniteSet(J) /\ Cardinality(J) \in Nat
    BY FS_Subset, FS_CardinalityType
  <1>2. I \in SUBSET J /\ j \in J /\ j \notin I
    <2>1. i \in Int /\ j \in Int /\ j <= j /\ ~(j <= i)
      OBVIOUS
    <2>2. \A k \in P : k <= i => k <= j
      BY <2>1
    <2> QED
      BY <2>1, <2>2
  <1>3. Cardinality(I) <= Cardinality(J) /\ Cardinality(I) # Cardinality(J)
    BY <1>1, <1>2, FS_Subset
  <1>4. IsFiniteSet(I) /\ Cardinality(I) \in Nat
    BY FS_Subset, FS_CardinalityType
  <1> QED
    BY <1>1, <1>3, <1>4 DEF Rank

LEMMA RankRange ==
    ASSUME NEW P, IsFiniteSet(P), P \subseteq Int, NEW i \in P
    PROVE  Rank(P, i) \in 1 .. Cardinality(P)
  <1> DEFINE I == {k \in P : k <= i}
  <1>1. IsFiniteSet(I) /\ Cardinality(I) \in Nat /\ Cardinality(P) \in Nat
    BY FS_Subset, FS_CardinalityType
  <1>2. Cardinality(I) <= Cardinality(P)
    BY FS_Subset
  <1>3. Cardinality(I) # 0
    BY <1>1, FS_EmptySet
  <1> QED
    BY <1>1, <1>2, <1>3 DEF Rank

\* Every rank up to the number of places is the rank of one of them: ranks are
\* an injection between sets of the same size.
LEMMA RankOnto ==
    ASSUME NEW P, IsFiniteSet(P), P \subseteq Int, NEW j \in 1 .. Cardinality(P)
    PROVE  \E i \in P : Rank(P, i) = j
  <1> DEFINE T == 1 .. Cardinality(P)
             f == [i \in P |-> Rank(P, i)]
  <1>1. Cardinality(P) \in Nat
    BY FS_CardinalityType
  <1>2. IsFiniteSet(T) /\ Cardinality(T) = Cardinality(P)
    BY <1>1, FS_Interval
  <1>3. f \in [P -> T]
    BY RankRange
  <1>4. \A a, b \in P : f[a] = f[b] => a = b
    <2> SUFFICES ASSUME NEW a \in P, NEW b \in P, a # b PROVE Rank(P, a) # Rank(P, b)
      OBVIOUS
    <2>1. Rank(P, a) \in Int /\ Rank(P, b) \in Int
      <3>1. Rank(P, a) \in T /\ Rank(P, b) \in T
        BY RankRange
      <3> QED
        BY <3>1, <1>1
    <2>2. a < b \/ b < a
      OBVIOUS
    <2>3. CASE a < b
      <3>1. Rank(P, a) < Rank(P, b)
        BY <2>3, RankGrows
      <3> QED
        BY <2>1, <3>1
    <2>4. CASE b < a
      <3>1. Rank(P, b) < Rank(P, a)
        BY <2>4, RankGrows
      <3> QED
        BY <2>1, <3>1
    <2> QED
      BY <2>2, <2>3, <2>4
  <1>5. f \in Injection(P, T)
    BY <1>3, <1>4 DEF Injection, IsInjective
  <1> HIDE DEF f
  <1>6. f \in Surjection(P, T)
    BY <1>2, <1>5, FS_Injection
  <1>7. \E i \in P : f[i] = j
    BY <1>6 DEF Surjection
  <1> QED
    BY <1>7 DEF f

\* The place that the j-th element of OnlyIn(s, S) comes from.
From(s, S, j) == CHOOSE i \in Places(s, S) : Rank(Places(s, S), i) = j

LEMMA FromFacts ==
    ASSUME NEW A, NEW s \in Seq(A), NEW S, NEW j \in 1 .. Cardinality(Places(s, S))
    PROVE  /\ From(s, S, j) \in 1 .. Len(s)
           /\ s[From(s, S, j)] \in S
           /\ From(s, S, j) \in Places(s, S)
           /\ Rank(Places(s, S), From(s, S, j)) = j
           /\ OnlyIn(s, S)[j] = s[From(s, S, j)]
  <1>1. IsFiniteSet(Places(s, S)) /\ Places(s, S) \subseteq Int
    BY PlacesFinite
  <1>2. \E i \in Places(s, S) : Rank(Places(s, S), i) = j
    BY <1>1, RankOnto
  <1>3. From(s, S, j) \in Places(s, S) /\ Rank(Places(s, S), From(s, S, j)) = j
    BY <1>2 DEF From
  <1> QED
    BY <1>3 DEF Places, OnlyIn, From

\* What is left is a vector again, of the elements of s that are in S.
THEOREM OnlyInElements ==
    ASSUME NEW A, NEW s \in Seq(A), NEW S
    PROVE  /\ OnlyIn(s, S) \in Seq(A)
           /\ Len(OnlyIn(s, S)) = Cardinality(Places(s, S))
           /\ \A j \in 1 .. Len(OnlyIn(s, S)) :
                 \E i \in 1 .. Len(s) : OnlyIn(s, S)[j] = s[i] /\ s[i] \in S
           /\ \A i \in 1 .. Len(s) : s[i] \in S =>
                 \E j \in 1 .. Len(OnlyIn(s, S)) : OnlyIn(s, S)[j] = s[i]
  <1> DEFINE P == Places(s, S)
             n == Cardinality(P)
  <1>1. n \in Nat /\ IsFiniteSet(P) /\ P \subseteq Int /\ Len(s) \in Nat
    BY PlacesFinite
  <1>2. \A j \in 1 .. n : OnlyIn(s, S)[j] \in A
    BY FromFacts
  <1>3. OnlyIn(s, S) \in [1 .. n -> A]
    <2>1. OnlyIn(s, S) = [j \in 1 .. n |-> OnlyIn(s, S)[j]]
      BY DEF OnlyIn
    <2> QED
      BY <1>2, <2>1
  <1>4. OnlyIn(s, S) \in Seq(A) /\ Len(OnlyIn(s, S)) = n
    <2> HIDE DEF n
    <2> QED
      BY <1>1, <1>3
  <1>5. \A j \in 1 .. n : \E i \in 1 .. Len(s) : OnlyIn(s, S)[j] = s[i] /\ s[i] \in S
    BY FromFacts
  <1>6. ASSUME NEW i \in 1 .. Len(s), s[i] \in S
        PROVE  \E j \in 1 .. n : OnlyIn(s, S)[j] = s[i]
    <2>1. i \in P
      BY <1>6 DEF Places
    <2>2. Rank(P, i) \in 1 .. n
      BY <1>1, <2>1, RankRange
    <2>3. From(s, S, Rank(P, i)) = i
      <3> DEFINE k == From(s, S, Rank(P, i))
      <3>1. k \in P /\ Rank(P, k) = Rank(P, i)
        BY <2>2, FromFacts
      <3>2. k \in Int /\ i \in Int /\ Rank(P, i) \in Int
        BY <1>1, <2>1, <2>2, <3>1
      <3> HIDE DEF k, P
      <3>3. k < i => Rank(P, k) < Rank(P, i)
        BY <1>1, <2>1, <3>1, RankGrows
      <3>4. i < k => Rank(P, i) < Rank(P, k)
        BY <1>1, <2>1, <3>1, RankGrows
      <3> QED
        BY <3>1, <3>2, <3>3, <3>4 DEF k
    <2> QED
      BY <2>2, <2>3, FromFacts
  <1> QED
    BY <1>4, <1>5, <1>6

\* ... in the order they were in.
THEOREM OnlyInOrder ==
    ASSUME NEW A, NEW s \in Seq(A), NEW S,
           NEW j \in 1 .. Len(OnlyIn(s, S)), NEW k \in 1 .. Len(OnlyIn(s, S)), j < k
    PROVE  \E a, b \in 1 .. Len(s) : /\ a < b
                                     /\ OnlyIn(s, S)[j] = s[a] /\ OnlyIn(s, S)[k] = s[b]
  <1> DEFINE P == Places(s, S)
             a == From(s, S, j)
             b == From(s, S, k)
  <1>1. Len(OnlyIn(s, S)) = Cardinality(P) /\ IsFiniteSet(P) /\ P \subseteq Int
    BY OnlyInElements, PlacesFinite
  <1>2. /\ a \in 1 .. Len(s) /\ b \in 1 .. Len(s) /\ a \in P /\ b \in P
        /\ Rank(P, a) = j /\ Rank(P, b) = k
        /\ OnlyIn(s, S)[j] = s[a] /\ OnlyIn(s, S)[k] = s[b]
    BY <1>1, FromFacts
  <1>3. a \in Int /\ b \in Int /\ j \in Int /\ k \in Int
    BY <1>1, <1>2
  <1> HIDE DEF a, b, P
  <1>4. b < a => Rank(P, b) < Rank(P, a)
    BY <1>1, <1>2, RankGrows
  <1>5. a # b
    BY <1>2, <1>3
  <1> QED
    BY <1>2, <1>3, <1>4, <1>5

\* Nothing is erased where nothing is asked to be.
LEMMA OnlyInAll ==
    ASSUME NEW A, NEW s \in Seq(A), NEW S, \A i \in 1 .. Len(s) : s[i] \in S
    PROVE  OnlyIn(s, S) = s
  <1> DEFINE P == Places(s, S)
             N == Len(s)
  <1>1. N \in Nat /\ P = 1 .. N /\ s = [j \in 1 .. N |-> s[j]]
    BY DEF Places
  <1>2. Cardinality(P) = N
    <2>1. \A n \in Nat : Cardinality(1 .. n) = n
      <3>1. \A n \in Nat : 1 \in Int /\ n \in Int /\ (1 > n => n = 0) /\ (n - 1) + 1 = n
        OBVIOUS
      <3> QED
        BY <3>1, FS_Interval
    <2> HIDE DEF P, N
    <2> QED
      BY <1>1, <2>1
  <1>3. ASSUME NEW i \in P PROVE Rank(P, i) = i
    <2>1. {k \in P : k <= i} = 1 .. i
      BY <1>1
    <2>2. Cardinality(1 .. i) = i
      <3>1. i \in Nat /\ i >= 1
        BY <1>1
      <3> QED
        BY <3>1, FS_Interval
    <2> QED
      BY <2>1, <2>2 DEF Rank
  <1>4. ASSUME NEW j \in P PROVE (CHOOSE i \in P : Rank(P, i) = j) = j
    BY <1>3, <1>4
  <1>5. OnlyIn(s, S) = [j \in 1 .. Cardinality(P) |-> s[CHOOSE i \in P : Rank(P, i) = j]]
    BY DEF OnlyIn
  <1> HIDE DEF P, N
  <1>6. OnlyIn(s, S) = [j \in 1 .. N |-> s[j]]
    BY <1>1, <1>2, <1>4, <1>5
  <1> QED
    BY <1>1, <1>6

\* The same as sets, and the elements of an Append.
LEMMA AppendElements ==
    ASSUME NEW A, NEW s \in Seq(A), NEW x \in A
    PROVE  ToSet(Append(s, x)) = ToSet(s) \cup {x} /\ Append(s, x) \in Seq(A)
  <1>1. /\ Append(s, x) \in Seq(A) /\ Len(Append(s, x)) = Len(s) + 1 /\ Len(s) \in Nat
        /\ \A i \in 1 .. Len(s) : Append(s, x)[i] = s[i]
        /\ Append(s, x)[Len(s) + 1] = x
    OBVIOUS
  <1>2. DOMAIN s = 1 .. Len(s) /\ DOMAIN Append(s, x) = 1 .. Len(s) + 1
    OBVIOUS
  <1>3. ToSet(Append(s, x)) \subseteq ToSet(s) \cup {x}
    BY <1>1, <1>2 DEF ToSet
  <1>4. ToSet(s) \cup {x} \subseteq ToSet(Append(s, x))
    BY <1>1, <1>2 DEF ToSet
  <1> QED
    BY <1>1, <1>3, <1>4

LEMMA OnlyInSet ==
    ASSUME NEW A, NEW s \in Seq(A), NEW S
    PROVE  ToSet(OnlyIn(s, S)) = ToSet(s) \cap S /\ OnlyIn(s, S) \in Seq(A)
  <1>1. OnlyIn(s, S) \in Seq(A)
    BY OnlyInElements
  <1>2. DOMAIN s = 1 .. Len(s) /\ DOMAIN OnlyIn(s, S) = 1 .. Len(OnlyIn(s, S))
    BY <1>1
  <1>3. ToSet(OnlyIn(s, S)) \subseteq ToSet(s) \cap S
    <2> SUFFICES ASSUME NEW j \in 1 .. Len(OnlyIn(s, S)) PROVE OnlyIn(s, S)[j] \in ToSet(s) \cap S
      BY <1>2 DEF ToSet
    <2>1. PICK i \in 1 .. Len(s) : OnlyIn(s, S)[j] = s[i] /\ s[i] \in S
      BY OnlyInElements
    <2> QED
      BY <2>1, <1>2 DEF ToSet
  <1>4. ToSet(s) \cap S \subseteq ToSet(OnlyIn(s, S))
    <2> SUFFICES ASSUME NEW i \in 1 .. Len(s), s[i] \in S PROVE s[i] \in ToSet(OnlyIn(s, S))
      BY <1>2 DEF ToSet
    <2>1. PICK j \in 1 .. Len(OnlyIn(s, S)) : OnlyIn(s, S)[j] = s[i]
      BY OnlyInElements
    <2> QED
      BY <2>1, <1>2 DEF ToSet
  <1> QED
    BY <1>1, <1>3, <1>4

-----------------------------------------------------------------------------
\* A vector without a repetition, and what keeps it so.
Distinct(s) == \A i, j \in 1 .. Len(s) : s[i] = s[j] => i = j

LEMMA AppendDistinct ==
    ASSUME NEW A, NEW s \in Seq(A), Distinct(s), NEW x \in A, x \notin ToSet(s)
    PROVE  Distinct(Append(s, x))
  <1>1. /\ Len(Append(s, x)) = Len(s) + 1 /\ Len(s) \in Nat
        /\ \A i \in 1 .. Len(s) : Append(s, x)[i] = s[i]
        /\ Append(s, x)[Len(s) + 1] = x
    OBVIOUS
  <1>2. \A i \in 1 .. Len(s) : s[i] # x
    BY DEF ToSet
  <1>3. \A i \in 1 .. Len(s) + 1 : i \in 1 .. Len(s) \/ i = Len(s) + 1
    BY <1>1
  <1> QED
    BY <1>1, <1>2, <1>3 DEF Distinct

LEMMA OnlyInDistinct ==
    ASSUME NEW A, NEW s \in Seq(A), Distinct(s), NEW S
    PROVE  Distinct(OnlyIn(s, S))
  <1> SUFFICES ASSUME NEW j \in 1 .. Len(OnlyIn(s, S)), NEW k \in 1 .. Len(OnlyIn(s, S)), j # k
               PROVE  OnlyIn(s, S)[j] # OnlyIn(s, S)[k]
    BY DEF Distinct
  <1>1. Len(s) \in Nat /\ Len(OnlyIn(s, S)) \in Nat /\ (j < k \/ k < j)
    BY OnlyInElements
  <1>2. ASSUME NEW a \in 1 .. Len(s), NEW b \in 1 .. Len(s), a < b PROVE s[a] # s[b]
    BY <1>1, <1>2 DEF Distinct
  <1>3. CASE j < k
    BY <1>2, <1>3, OnlyInOrder
  <1>4. CASE k < j
    BY <1>2, <1>4, OnlyInOrder
  <1> QED
    BY <1>1, <1>3, <1>4

-----------------------------------------------------------------------------
(* Vectors appended to one another *)

Before(c, d) == c[1] < d[1] \/ (c[1] = d[1] /\ c[2] < d[2])

LEMMA CellFacts ==
    ASSUME NEW A, NEW n \in Nat, NEW ss \in [1 .. n -> Seq(A)]
    PROVE  /\ IsFiniteSet(Cells(ss)) /\ Cardinality(Cells(ss)) \in Nat
           /\ \A c \in Cells(ss) : /\ c = <<c[1], c[2]>> /\ c[1] \in 1 .. n /\ c[2] \in Int
                                   /\ c[2] \in 1 .. Len(ss[c[1]]) /\ ss[c[1]][c[2]] \in A
           /\ \A r \in 1 .. n : \A i \in 1 .. Len(ss[r]) : <<r, i>> \in Cells(ss)
  <1> DEFINE row == [r \in 1 .. n |-> {r} \X DOMAIN ss[r]]
             rows == {{r} \X DOMAIN ss[r] : r \in 1 .. n}
  <1>1. \A r \in 1 .. n : ss[r] \in Seq(A) /\ Len(ss[r]) \in Nat /\ DOMAIN ss[r] = 1 .. Len(ss[r])
    OBVIOUS
  <1>2. IsFiniteSet(1 .. n)
    BY FS_Interval
  <1>3. row \in Surjection(1 .. n, rows)
    BY DEF Surjection
  <1>4. IsFiniteSet(rows)
    <2> HIDE DEF row, rows
    <2> QED
      BY <1>2, <1>3, FS_Surjection
  <1>5. \A T \in rows : IsFiniteSet(T)
    <2> SUFFICES ASSUME NEW r \in 1 .. n PROVE IsFiniteSet({r} \X DOMAIN ss[r])
      OBVIOUS
    <2>1. IsFiniteSet({r})
      BY FS_Singleton
    <2>2. IsFiniteSet(DOMAIN ss[r])
      BY <1>1, FS_Interval
    <2> QED
      BY <2>1, <2>2, FS_Product
  <1>6. Cells(ss) = UNION rows
    BY DEF Cells
  <1>7. IsFiniteSet(Cells(ss))
    <2> HIDE DEF rows
    <2> QED
      BY <1>4, <1>5, <1>6, FS_UNION
  <1>8. ASSUME NEW c \in Cells(ss)
        PROVE  /\ c = <<c[1], c[2]>> /\ c[1] \in 1 .. n /\ c[2] \in Int
               /\ c[2] \in 1 .. Len(ss[c[1]]) /\ ss[c[1]][c[2]] \in A
    <2>1. PICK r \in 1 .. n : c \in {r} \X DOMAIN ss[r]
      BY <1>6
    <2>2. c = <<c[1], c[2]>> /\ c[1] = r /\ c[2] \in 1 .. Len(ss[r])
      BY <1>1, <2>1
    <2>3. ss[r][c[2]] \in A
      BY <1>1, <2>2
    <2> QED
      BY <1>1, <2>2, <2>3
  <1>9. ASSUME NEW r \in 1 .. n, NEW i \in 1 .. Len(ss[r]) PROVE <<r, i>> \in Cells(ss)
    BY <1>1, <1>6
  <1> QED
    BY <1>7, <1>8, <1>9, FS_CardinalityType

\* The number of cells up to one grows along the rows.
LEMMA UptoGrows ==
    ASSUME NEW A, NEW n \in Nat, NEW ss \in [1 .. n -> Seq(A)],
           NEW c \in Cells(ss), NEW d \in Cells(ss), Before(c, d)
    PROVE  Cardinality(Upto(ss, c)) < Cardinality(Upto(ss, d))
  <1>1. /\ IsFiniteSet(Cells(ss))
        /\ \A e \in Cells(ss) : e[1] \in Int /\ e[2] \in Int
    BY CellFacts
  <1>2. Upto(ss, c) \in SUBSET Upto(ss, d) /\ d \in Upto(ss, d) /\ d \notin Upto(ss, c)
    <2>1. \A e \in Cells(ss) : e[1] < c[1] \/ (e[1] = c[1] /\ e[2] <= c[2]) => e[1] < d[1] \/ (e[1] = d[1] /\ e[2] <= d[2])
      BY <1>1 DEF Before
    <2>2. ~(d[1] < c[1] \/ (d[1] = c[1] /\ d[2] <= c[2])) /\ d[2] <= d[2]
      BY <1>1 DEF Before
    <2> QED
      BY <2>1, <2>2 DEF Upto
  <1>3. Upto(ss, c) \in SUBSET Cells(ss) /\ Upto(ss, d) \in SUBSET Cells(ss)
    BY DEF Upto
  <1>4. IsFiniteSet(Upto(ss, c)) /\ IsFiniteSet(Upto(ss, d))
    BY <1>1, <1>3, FS_Subset
  <1>5. Cardinality(Upto(ss, c)) \in Nat /\ Cardinality(Upto(ss, d)) \in Nat
    BY <1>4, FS_CardinalityType
  <1>6. Cardinality(Upto(ss, c)) <= Cardinality(Upto(ss, d)) /\ Cardinality(Upto(ss, c)) # Cardinality(Upto(ss, d))
    BY <1>2, <1>4, FS_Subset
  <1> QED
    BY <1>5, <1>6

LEMMA UptoRange ==
    ASSUME NEW A, NEW n \in Nat, NEW ss \in [1 .. n -> Seq(A)], NEW c \in Cells(ss)
    PROVE  Cardinality(Upto(ss, c)) \in 1 .. Cardinality(Cells(ss))
  <1>1. IsFiniteSet(Cells(ss)) /\ Upto(ss, c) \in SUBSET Cells(ss) /\ c[2] \in Int
    BY CellFacts DEF Upto
  <1>2. c \in Upto(ss, c)
    <2>1. c[2] <= c[2]
      BY <1>1
    <2> QED
      BY <2>1 DEF Upto
  <1>3. IsFiniteSet(Upto(ss, c)) /\ Cardinality(Upto(ss, c)) <= Cardinality(Cells(ss))
    BY <1>1, FS_Subset
  <1>4. Cardinality(Upto(ss, c)) \in Nat /\ Cardinality(Cells(ss)) \in Nat /\ Cardinality(Upto(ss, c)) # 0
    BY <1>1, <1>2, <1>3, FS_CardinalityType, FS_EmptySet
  <1> QED
    BY <1>3, <1>4

\* Each number up to the count of the cells is that of one of them.
LEMMA UptoOnto ==
    ASSUME NEW A, NEW n \in Nat, NEW ss \in [1 .. n -> Seq(A)],
           NEW j \in 1 .. Cardinality(Cells(ss))
    PROVE  \E c \in Cells(ss) : Cardinality(Upto(ss, c)) = j
  <1> DEFINE P == Cells(ss)
             T == 1 .. Cardinality(P)
             f == [c \in P |-> Cardinality(Upto(ss, c))]
  <1>1. IsFiniteSet(P) /\ Cardinality(P) \in Nat
    BY CellFacts
  <1>2. IsFiniteSet(T) /\ Cardinality(T) = Cardinality(P)
    BY <1>1, FS_Interval
  <1>3. f \in [P -> T]
    BY UptoRange
  <1>4. \A c, d \in P : f[c] = f[d] => c = d
    <2> SUFFICES ASSUME NEW c \in P, NEW d \in P, c # d
                 PROVE  Cardinality(Upto(ss, c)) # Cardinality(Upto(ss, d))
      OBVIOUS
    <2>1. Cardinality(Upto(ss, c)) \in Int /\ Cardinality(Upto(ss, d)) \in Int
      BY <1>1, UptoRange
    <2>2. Before(c, d) \/ Before(d, c)
      <3>1. c = <<c[1], c[2]>> /\ d = <<d[1], d[2]>> /\ c[1] \in Int /\ c[2] \in Int /\ d[1] \in Int /\ d[2] \in Int
        BY CellFacts
      <3>2. c[1] # d[1] \/ c[2] # d[2]
        BY <3>1
      <3> QED
        BY <3>1, <3>2 DEF Before
    <2>3. Before(c, d) => Cardinality(Upto(ss, c)) < Cardinality(Upto(ss, d))
      BY UptoGrows
    <2>4. Before(d, c) => Cardinality(Upto(ss, d)) < Cardinality(Upto(ss, c))
      BY UptoGrows
    <2> QED
      BY <2>1, <2>2, <2>3, <2>4
  <1>5. f \in Injection(P, T)
    BY <1>3, <1>4 DEF Injection, IsInjective
  <1> HIDE DEF f
  <1>6. f \in Surjection(P, T)
    BY <1>1, <1>2, <1>5, FS_Injection
  <1>7. \E c \in P : f[c] = j
    BY <1>6 DEF Surjection
  <1> QED
    BY <1>7 DEF f

\* The cell that the j-th element comes from.
CellOf(ss, j) == CHOOSE c \in Cells(ss) : Cardinality(Upto(ss, c)) = j

LEMMA CellOfFacts ==
    ASSUME NEW A, NEW n \in Nat, NEW ss \in [1 .. n -> Seq(A)],
           NEW j \in 1 .. Cardinality(Cells(ss))
    PROVE  /\ CellOf(ss, j) \in Cells(ss) /\ Cardinality(Upto(ss, CellOf(ss, j))) = j
           /\ Joined(ss)[j] = ss[CellOf(ss, j)[1]][CellOf(ss, j)[2]]
  <1>1. \E c \in Cells(ss) : Cardinality(Upto(ss, c)) = j
    BY UptoOnto
  <1> QED
    BY <1>1 DEF CellOf, Joined

\* Appending vectors of A gives a vector of A, of the elements they have.
THEOREM JoinedElements ==
    ASSUME NEW A, NEW n \in Nat, NEW ss \in [1 .. n -> Seq(A)]
    PROVE  /\ Joined(ss) \in Seq(A)
           /\ Len(Joined(ss)) = Cardinality(Cells(ss))
           /\ ToSet(Joined(ss)) = UNION {ToSet(ss[r]) : r \in 1 .. n}
  <1> DEFINE N == Cardinality(Cells(ss))
  <1>1. /\ N \in Nat
        /\ \A c \in Cells(ss) : /\ c[1] \in 1 .. n /\ c[2] \in 1 .. Len(ss[c[1]]) /\ ss[c[1]][c[2]] \in A
        /\ \A r \in 1 .. n : \A i \in 1 .. Len(ss[r]) : <<r, i>> \in Cells(ss)
    BY CellFacts
  <1>2. \A j \in 1 .. N : /\ CellOf(ss, j) \in Cells(ss)
                          /\ Joined(ss)[j] = ss[CellOf(ss, j)[1]][CellOf(ss, j)[2]]
    BY CellOfFacts
  <1>3. Joined(ss) = [j \in 1 .. N |-> Joined(ss)[j]]
    BY DEF Joined
  <1>4. Joined(ss) \in Seq(A) /\ Len(Joined(ss)) = N
    <2> HIDE DEF N
    <2>1. Joined(ss) \in [1 .. N -> A]
      BY <1>1, <1>2, <1>3
    <2> QED
      BY <1>1, <2>1
  <1>5. ToSet(Joined(ss)) = {Joined(ss)[j] : j \in 1 .. N}
    BY <1>3 DEF ToSet
  <1>6. \A r \in 1 .. n : ToSet(ss[r]) = {ss[r][i] : i \in 1 .. Len(ss[r])}
    <2>1. \A r \in 1 .. n : ss[r] \in Seq(A)
      OBVIOUS
    <2>2. \A r \in 1 .. n : DOMAIN ss[r] = 1 .. Len(ss[r])
      BY <2>1
    <2> QED
      BY <2>2 DEF ToSet
  <1>7. ASSUME NEW j \in 1 .. N PROVE \E r \in 1 .. n : Joined(ss)[j] \in ToSet(ss[r])
    <2> DEFINE c == CellOf(ss, j)
    <2>1. c \in Cells(ss) /\ Joined(ss)[j] = ss[c[1]][c[2]]
      BY <1>2
    <2> HIDE DEF c
    <2>2. c[1] \in 1 .. n /\ c[2] \in 1 .. Len(ss[c[1]])
      BY <1>1, <2>1
    <2>3. ss[c[1]][c[2]] \in ToSet(ss[c[1]])
      BY <1>6, <2>2
    <2> QED
      BY <2>1, <2>2, <2>3
  <1>8. ASSUME NEW r \in 1 .. n, NEW i \in 1 .. Len(ss[r])
        PROVE  \E j \in 1 .. N : Joined(ss)[j] = ss[r][i]
    <2> DEFINE c == <<r, i>>
               k == Cardinality(Upto(ss, c))
    <2>1. c \in Cells(ss) /\ k \in 1 .. N /\ c[1] = r /\ c[2] = i
      BY <1>1, UptoRange
    <2>2. CellOf(ss, k) = c
      <3> DEFINE d == CellOf(ss, k)
      <3>1. d \in Cells(ss) /\ Cardinality(Upto(ss, d)) = k
        BY <2>1, CellOfFacts
      <3>2. d = <<d[1], d[2]>> /\ c = <<c[1], c[2]>> /\ c[1] \in Int /\ c[2] \in Int /\ d[1] \in Int /\ d[2] \in Int
        BY <2>1, <3>1, CellFacts
      <3>3. k \in Int /\ ~(k < k)
        BY <1>1, <2>1
      <3> HIDE DEF d, c
      <3>4. ~Before(c, d) /\ ~Before(d, c)
        BY <2>1, <3>1, <3>3, UptoGrows
      <3>5. c[1] = d[1] /\ c[2] = d[2]
        BY <3>2, <3>4 DEF Before
      <3> QED
        BY <3>2, <3>5 DEF d
    <2> HIDE DEF c, k
    <2> QED
      BY <1>2, <2>1, <2>2
  <1>9. ToSet(Joined(ss)) \subseteq UNION {ToSet(ss[r]) : r \in 1 .. n}
    BY <1>5, <1>7
  <1>10. ASSUME NEW r \in 1 .. n, NEW x \in ToSet(ss[r]) PROVE x \in ToSet(Joined(ss))
    <2>1. PICK i \in 1 .. Len(ss[r]) : x = ss[r][i]
      BY <1>6
    <2>2. PICK j \in 1 .. N : Joined(ss)[j] = x
      BY <2>1, <1>8
    <2> QED
      BY <2>2, <1>5
  <1>11. UNION {ToSet(ss[r]) : r \in 1 .. n} \subseteq ToSet(Joined(ss))
    BY <1>10
  <1> QED
    BY <1>4, <1>9, <1>11

\* x and y are elements of the n vectors, x of an earlier one or earlier in the same.
InOrder(ss, n, x, y) ==
    \E q, r \in 1 .. n : \E a \in 1 .. Len(ss[q]), b \in 1 .. Len(ss[r]) :
        /\ q < r \/ (q = r /\ a < b)
        /\ x = ss[q][a] /\ y = ss[r][b]

\* Appended to one another, vectors keep their order and that of the elements in each
\* (bake goes through handlers_ by priority).
THEOREM JoinedOrder ==
    ASSUME NEW A, NEW n \in Nat, NEW ss \in [1 .. n -> Seq(A)],
           NEW j \in 1 .. Len(Joined(ss)), NEW k \in 1 .. Len(Joined(ss)), j < k
    PROVE  InOrder(ss, n, Joined(ss)[j], Joined(ss)[k])
  <1> DEFINE c == CellOf(ss, j)
             d == CellOf(ss, k)
  <1>1. Len(Joined(ss)) = Cardinality(Cells(ss)) /\ Cardinality(Cells(ss)) \in Nat
    BY JoinedElements, CellFacts
  <1>2. /\ c \in Cells(ss) /\ d \in Cells(ss)
        /\ Cardinality(Upto(ss, c)) = j /\ Cardinality(Upto(ss, d)) = k
        /\ Joined(ss)[j] = ss[c[1]][c[2]] /\ Joined(ss)[k] = ss[d[1]][d[2]]
    BY <1>1, CellOfFacts
  <1>3. j \in Int /\ k \in Int
    BY <1>1
  <1> HIDE DEF c, d
  <1>4. /\ c = <<c[1], c[2]>> /\ c[1] \in 1 .. n /\ c[2] \in 1 .. Len(ss[c[1]]) /\ c[2] \in Int
        /\ d = <<d[1], d[2]>> /\ d[1] \in 1 .. n /\ d[2] \in 1 .. Len(ss[d[1]]) /\ d[2] \in Int
    BY <1>2, CellFacts
  <1>5. ~Before(d, c)
    <2>1. Before(d, c) => k < j
      BY <1>2, UptoGrows
    <2> QED
      BY <1>3, <2>1
  <1>6. c # d
    BY <1>2, <1>3
  <1>7. c[1] < d[1] \/ (c[1] = d[1] /\ c[2] < d[2])
    BY <1>4, <1>5, <1>6 DEF Before
  <1> QED
    BY <1>2, <1>4, <1>7 DEF InOrder
-----------------------------------------------------------------------------
(***************************************************************************)
(* Folds.  Induction over the natural numbers is a fact about sets here:   *)
(* if S lacked n, what S has up to n could be moved up by one without      *)
(* leaving S, into a smaller set.  What holds of a fold follows.           *)
(***************************************************************************)
LEMMA SetInduction ==
    ASSUME NEW S, 0 \in S, \A n \in Nat : n \in S => n + 1 \in S
    PROVE  \A n \in Nat : n \in S
  <1> SUFFICES ASSUME NEW n \in Nat, n \notin S PROVE FALSE
    OBVIOUS
  <1> DEFINE A == {k \in 0 .. n : k \in S}
             B == A \ {0}
             f == [k \in A |-> k + 1]
  <1>1. IsFiniteSet(A) /\ Cardinality(A) \in Nat
    <2>1. IsFiniteSet(0 .. n)
      BY FS_Interval
    <2>2. A \in SUBSET (0 .. n)
      OBVIOUS
    <2> QED
      BY <2>1, <2>2, FS_Subset, FS_CardinalityType
  <1>2. IsFiniteSet(B) /\ Cardinality(B) = Cardinality(A) - 1
    <2>1. 0 \in A
      OBVIOUS
    <2> QED
      BY <1>1, <2>1, FS_RemoveElement
  <1>3. f \in Injection(A, B)
    <2>1. \A k \in A : k # n /\ k + 1 \in B
      OBVIOUS
    <2> QED
      BY <2>1 DEF Injection, IsInjective
  <1>4. Cardinality(A) <= Cardinality(B)
    BY <1>2, <1>3, FS_Injection
  <1> QED
    BY <1>1, <1>2, <1>4

\* acc is the course of the fold up to place n.
FoldCourse(f, x, s, n, acc) == acc[0] = x /\ \A i \in 1 .. n : acc[i] = f[s[i]][acc[i - 1]]

LEMMA CourseExists ==
    ASSUME NEW X, NEW A, NEW f \in [A -> [X -> X]], NEW x \in X, NEW s \in Seq(A)
    PROVE  \E acc \in [0 .. Len(s) -> X] : FoldCourse(f, x, s, Len(s), acc)
  <1> DEFINE N == Len(s)
             S == {n \in Nat : n <= N => \E acc \in [0 .. n -> X] : FoldCourse(f, x, s, n, acc)}
  <1>1. N \in Nat /\ \A i \in 1 .. N : s[i] \in A
    OBVIOUS
  <1> HIDE DEF N
  <1>2. 0 \in S
    <2> DEFINE g == [i \in 0 .. 0 |-> x]
    <2>1. g \in [0 .. 0 -> X] /\ FoldCourse(f, x, s, 0, g)
      BY DEF FoldCourse
    <2> QED
      BY <2>1
  <1>3. ASSUME NEW n \in Nat, n \in S PROVE n + 1 \in S
    <2> SUFFICES ASSUME n + 1 <= N PROVE \E acc \in [0 .. n + 1 -> X] : FoldCourse(f, x, s, n + 1, acc)
      OBVIOUS
    <2>1. PICK g \in [0 .. n -> X] : FoldCourse(f, x, s, n, g)
      BY <1>1, <1>3
    <2> DEFINE v == f[s[n + 1]][g[n]]
               h == [i \in 0 .. n + 1 |-> IF i = n + 1 THEN v ELSE g[i]]
    <2>2. v \in X
      <3>1. g[n] \in X /\ s[n + 1] \in A
        BY <1>1
      <3> QED
        BY <3>1
    <2>3. h \in [0 .. n + 1 -> X]
      <3> HIDE DEF v
      <3> QED
        BY <2>2
    <2>4. h[0] = x
      BY <2>1 DEF FoldCourse
    <2>5. ASSUME NEW i \in 1 .. n + 1 PROVE h[i] = f[s[i]][h[i - 1]]
      <3>1. h[i - 1] = g[i - 1]
        OBVIOUS
      <3>2. CASE i = n + 1
        BY <3>1, <3>2
      <3>3. CASE i # n + 1
        <4>1. i \in 1 .. n
          BY <3>3
        <4>2. h[i] = g[i] /\ g[i] = f[s[i]][g[i - 1]]
          BY <2>1, <4>1 DEF FoldCourse
        <4> QED
          BY <3>1, <4>2
      <3> QED
        BY <3>2, <3>3
    <2> HIDE DEF h
    <2>6. FoldCourse(f, x, s, n + 1, h)
      BY <2>4, <2>5 DEF FoldCourse
    <2> QED
      BY <2>3, <2>6
  <1>4. N \in S
    <2> HIDE DEF S
    <2> QED
      BY <1>1, <1>2, <1>3, SetInduction
  <1> QED
    BY <1>1, <1>4 DEF N

\* The fold is the end of its course.
HasCourse(f, x, s, X) ==
    \E acc \in [0 .. Len(s) -> X] : FoldCourse(f, x, s, Len(s), acc) /\ Folded(f, x, s) = acc[Len(s)]

LEMMA FoldedCourse ==
    ASSUME NEW X, NEW A, NEW f \in [A -> [X -> X]], NEW x \in X, NEW s \in Seq(A)
    PROVE  HasCourse(f, x, s, X)
  <1> DEFINE N == Len(s)
             D(acc) == [i \in 0 .. N |-> IF i = 0 THEN x ELSE f[s[i]][acc[i - 1]]]
             a == CHOOSE acc : acc = D(acc)
  <1>1. N \in Nat
    OBVIOUS
  <1>2. PICK g \in [0 .. N -> X] : FoldCourse(f, x, s, N, g)
    BY CourseExists
  <1>3. g = D(g)
    BY <1>1, <1>2 DEF FoldCourse
  <1>4. a = D(a)
    BY <1>3
  <1>5. Folded(f, x, s) = a[N]
    BY DEF Folded
  <1>6. FoldCourse(f, x, s, N, a)
    <2>1. \A i \in 0 .. N : a[i] = IF i = 0 THEN x ELSE f[s[i]][a[i - 1]]
      <3> HIDE DEF a
      <3> QED
        BY <1>4
    <2> HIDE DEF a, N
    <2> QED
      BY <1>1, <2>1 DEF FoldCourse
  <1>7. \A i \in 0 .. N : a[i] = g[i]
    <2> DEFINE S == {n \in Nat : n <= N => a[n] = g[n]}
    <2> HIDE DEF a, N
    <2>1. 0 \in S
      BY <1>2, <1>6 DEF FoldCourse
    <2>2. ASSUME NEW n \in Nat, n \in S PROVE n + 1 \in S
      <3> SUFFICES ASSUME n + 1 <= N PROVE a[n + 1] = g[n + 1]
        OBVIOUS
      <3>1. n + 1 \in 1 .. N /\ (n + 1) - 1 = n /\ a[n] = g[n]
        BY <1>1, <2>2
      <3>2. a[n + 1] = f[s[n + 1]][a[n]] /\ g[n + 1] = f[s[n + 1]][g[n]]
        BY <1>2, <1>6, <3>1 DEF FoldCourse
      <3> QED
        BY <3>1, <3>2
    <2>3. \A n \in Nat : n \in S
      <3> HIDE DEF S
      <3> QED
        BY <2>1, <2>2, SetInduction
    <2> QED
      BY <1>1, <2>3
  <1> QED
    BY <1>1, <1>2, <1>5, <1>7 DEF HasCourse

\* Induction over the places: what holds of x at place 0, and of each result if it held
\* of the one before, holds of the fold.
LEMMA FoldedPlaces ==
    ASSUME NEW X, NEW A, NEW f \in [A -> [X -> X]], NEW x \in X, NEW s \in Seq(A),
           NEW I, x \in I[0],
           \A i \in 1 .. Len(s) : \A v \in X : v \in I[i - 1] => f[s[i]][v] \in I[i]
    PROVE  Folded(f, x, s) \in X /\ Folded(f, x, s) \in I[Len(s)]
  <1> DEFINE N == Len(s)
  <1>1. PICK acc \in [0 .. N -> X] : FoldCourse(f, x, s, N, acc) /\ Folded(f, x, s) = acc[N]
    <2>1. HasCourse(f, x, s, X)
      BY FoldedCourse
    <2> QED
      BY <2>1 DEF HasCourse
  <1>2. N \in Nat
    OBVIOUS
  <1> DEFINE S == {n \in Nat : n <= N => acc[n] \in I[n]}
  <1> HIDE DEF N
  <1>3. 0 \in S
    BY <1>1 DEF FoldCourse
  <1>4. ASSUME NEW n \in Nat, n \in S PROVE n + 1 \in S
    <2> SUFFICES ASSUME n + 1 <= N PROVE acc[n + 1] \in I[n + 1]
      OBVIOUS
    <2>1. n + 1 \in 1 .. N /\ (n + 1) - 1 = n /\ acc[n] \in I[n] /\ acc[n] \in X
      BY <1>1, <1>2, <1>4
    <2>2. acc[n + 1] = f[s[n + 1]][acc[n]]
      BY <1>1, <2>1 DEF FoldCourse
    <2> QED
      BY <2>1, <2>2 DEF N
  <1>5. N \in S
    <2> HIDE DEF S
    <2> QED
      BY <1>2, <1>3, <1>4, SetInduction
  <1> QED
    BY <1>1, <1>2, <1>5 DEF N

\* The same with one set for all places.
LEMMA FoldedKeeps ==
    ASSUME NEW X, NEW A, NEW f \in [A -> [X -> X]], NEW x \in X, NEW s \in Seq(A),
           NEW I, x \in I,
           \A i \in 1 .. Len(s) : \A v \in X : v \in I => f[s[i]][v] \in I
    PROVE  Folded(f, x, s) \in X /\ Folded(f, x, s) \in I
  <1> DEFINE J == [i \in 0 .. Len(s) |-> I]
  <1>1. Len(s) \in Nat
    OBVIOUS
  <1>2. \A i \in 0 .. Len(s) : J[i] = I
    OBVIOUS
  <1>3. \A i \in 1 .. Len(s) : i - 1 \in 0 .. Len(s) /\ i \in 0 .. Len(s)
    BY <1>1
  <1> HIDE DEF J
  <1>4. x \in J[0]
    BY <1>1, <1>2
  <1>5. \A i \in 1 .. Len(s) : \A v \in X : v \in J[i - 1] => f[s[i]][v] \in J[i]
    BY <1>2, <1>3
  <1>6. Folded(f, x, s) \in X /\ Folded(f, x, s) \in J[Len(s)]
    BY <1>4, <1>5, FoldedPlaces
  <1> QED
    BY <1>1, <1>2, <1>6

\* Two folds side by side: a relation that every step keeps holds of their results.
StepsKeep(f, g, s, X, R) ==
    \A i \in 1 .. Len(s) : \A u, v \in X : <<u, v>> \in R => <<f[s[i]][u], g[s[i]][v]>> \in R

LEMMA FoldedRelated ==
    ASSUME NEW X, NEW A, NEW f \in [A -> [X -> X]], NEW g \in [A -> [X -> X]],
           NEW x \in X, NEW y \in X, NEW s \in Seq(A),
           NEW R, <<x, y>> \in R, StepsKeep(f, g, s, X, R)
    PROVE  <<Folded(f, x, s), Folded(g, y, s)>> \in R
  <1> DEFINE N == Len(s)
  <1>0. HasCourse(f, x, s, X) /\ HasCourse(g, y, s, X)
    BY FoldedCourse
  <1>1. PICK a \in [0 .. N -> X] : FoldCourse(f, x, s, N, a) /\ Folded(f, x, s) = a[N]
    BY <1>0 DEF HasCourse
  <1>2. PICK b \in [0 .. N -> X] : FoldCourse(g, y, s, N, b) /\ Folded(g, y, s) = b[N]
    BY <1>0 DEF HasCourse
  <1>3. N \in Nat
    OBVIOUS
  <1> DEFINE S == {n \in Nat : n <= N => <<a[n], b[n]>> \in R}
  <1> HIDE DEF N
  <1>4. 0 \in S
    BY <1>1, <1>2 DEF FoldCourse
  <1>5. ASSUME NEW n \in Nat, n \in S PROVE n + 1 \in S
    <2> SUFFICES ASSUME n + 1 <= N PROVE <<a[n + 1], b[n + 1]>> \in R
      OBVIOUS
    <2>0. n + 1 \in 1 .. N /\ n \in 0 .. N /\ n <= N /\ (n + 1) - 1 = n
      BY ONLY n \in Nat, N \in Nat, n + 1 <= N, <1>3
    <2>1. n + 1 \in 1 .. N /\ (n + 1) - 1 = n /\ <<a[n], b[n]>> \in R /\ a[n] \in X /\ b[n] \in X
      BY <1>1, <1>2, <1>5, <2>0
    <2>2. a[n + 1] = f[s[n + 1]][a[n]] /\ b[n + 1] = g[s[n + 1]][b[n]]
      BY <1>1, <1>2, <2>1 DEF FoldCourse
    <2> QED
      BY <2>1, <2>2 DEF N, StepsKeep
  <1>6. N \in S
    <2> HIDE DEF S
    <2> QED
      BY <1>3, <1>4, <1>5, SetInduction
  <1> QED
    BY <1>1, <1>2, <1>3, <1>6

\* A function on the natural numbers given by its value at 0 and what leads from one
\* value to the next.
Leads(h, z, G) == h[0] = z /\ \A n \in Nat : h[n + 1] = G[h[n]]

LEMMA NatRecursion ==
    ASSUME NEW X, NEW z \in X, NEW G \in [X -> X]
    PROVE  \E h \in [Nat -> X] : Leads(h, z, G)
  <1> DEFINE Fits(n, g) == g[0] = z /\ \A i \in 1 .. n : g[i] = G[g[i - 1]]
             S == {n \in Nat : \E g \in [0 .. n -> X] : Fits(n, g)}
  <1>1. 0 \in S
    <2> DEFINE g == [i \in 0 .. 0 |-> z]
    <2>1. g \in [0 .. 0 -> X] /\ Fits(0, g)
      OBVIOUS
    <2> QED
      BY <2>1
  <1>2. ASSUME NEW n \in Nat, n \in S PROVE n + 1 \in S
    <2>1. PICK g \in [0 .. n -> X] : Fits(n, g)
      BY <1>2
    <2> DEFINE v == G[g[n]]
               h == [i \in 0 .. n + 1 |-> IF i = n + 1 THEN v ELSE g[i]]
    <2>2. v \in X
      OBVIOUS
    <2>3. h \in [0 .. n + 1 -> X]
      <3> HIDE DEF v
      <3> QED
        BY <2>2
    <2>4. h[0] = z
      BY <2>1
    <2>5. ASSUME NEW i \in 1 .. n + 1 PROVE h[i] = G[h[i - 1]]
      <3>1. h[i - 1] = g[i - 1]
        OBVIOUS
      <3>2. CASE i = n + 1
        BY <3>1, <3>2
      <3>3. CASE i # n + 1
        <4>1. i \in 1 .. n
          BY <3>3
        <4>2. h[i] = g[i] /\ g[i] = G[g[i - 1]]
          BY <2>1, <4>1
        <4> QED
          BY <3>1, <4>2
      <3> QED
        BY <3>2, <3>3
    <2> HIDE DEF h
    <2>6. Fits(n + 1, h)
      BY <2>4, <2>5
    <2> QED
      BY <2>3, <2>6
  <1>3. \A n \in Nat : n \in S
    <2> HIDE DEF S
    <2> QED
      BY <1>1, <1>2, SetInduction
  \* Two such functions agree as far as both go.
  <1>4. ASSUME NEW m \in Nat, NEW n \in Nat, NEW g, NEW h, Fits(m, g), Fits(n, h)
        PROVE  \A k \in Nat : k <= m /\ k <= n => g[k] = h[k]
    <2> DEFINE T == {k \in Nat : k <= m /\ k <= n => g[k] = h[k]}
    <2>1. 0 \in T
      BY <1>4
    <2>2. ASSUME NEW k \in Nat, k \in T PROVE k + 1 \in T
      <3> SUFFICES ASSUME k + 1 <= m, k + 1 <= n PROVE g[k + 1] = h[k + 1]
        OBVIOUS
      <3>1. k + 1 \in 1 .. m /\ k + 1 \in 1 .. n /\ (k + 1) - 1 = k /\ g[k] = h[k]
        BY <2>2
      <3> QED
        BY <1>4, <3>1
    <2>3. \A k \in Nat : k \in T
      <3> HIDE DEF T
      <3> QED
        BY <2>1, <2>2, SetInduction
    <2> QED
      BY <2>3
  <1> DEFINE of(n) == CHOOSE g \in [0 .. n -> X] : Fits(n, g)
             h == [n \in Nat |-> of(n)[n]]
  <1>5. \A n \in Nat : of(n) \in [0 .. n -> X] /\ Fits(n, of(n))
    BY <1>3
  <1> HIDE DEF of, Fits
  <1>6. h \in [Nat -> X]
    BY <1>5
  <1>7. h[0] = z
    BY <1>5 DEF Fits
  <1>8. ASSUME NEW n \in Nat PROVE h[n + 1] = G[h[n]]
    <2>1. of(n)[n] = of(n + 1)[n]
      <3>1. n + 1 \in Nat /\ n <= n /\ n <= n + 1
        OBVIOUS
      <3> QED
        BY <1>4, <1>5, <3>1
    <2>2. of(n + 1)[n + 1] = G[of(n + 1)[n]]
      <3>1. n + 1 \in Nat /\ n + 1 \in 1 .. n + 1 /\ (n + 1) - 1 = n
        OBVIOUS
      <3> QED
        BY <1>5, <3>1 DEF Fits
    <2> QED
      BY <2>1, <2>2
  <1> QED
    BY <1>6, <1>7, <1>8 DEF Leads
=============================================================================
