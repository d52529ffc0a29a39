------------------------------- MODULE ListFacts -------------------------------
(***************************************************************************)
(* What the operators of Lists return, for all lists.                      *)
(***************************************************************************)
EXTENDS Lists, FiniteSetTheorems, TLAPS

-----------------------------------------------------------------------------
(***************************************************************************)
(* Induction, over sets of numbers.                                        *)
(***************************************************************************)
BelowNat == {p \in Nat \X Nat : p[1] < p[2]}

\* The numbers are well-founded.
LEMMA NatWellFounded == IsWellFoundedOn(BelowNat, Nat)
BY Zenon, NatLessThanWellFounded DEF OpToRel, BelowNat

\* A set of numbers has a least one.
LEMMA LeastOf ==
    ASSUME NEW T \in SUBSET Nat, T # {}
    PROVE  \E x \in T : \A y \in T : x <= y
<1>1. \E x \in T : \A y \in T : ~(<<y, x>> \in BelowNat)
  BY NatWellFounded, WFMin
<1> QED
  <2> PICK x \in T : \A y \in T : ~(<<y, x>> \in BelowNat)
    BY <1>1
  <2> SUFFICES ASSUME NEW y \in T
               PROVE  x <= y
    OBVIOUS
  <2>1. x \in Nat /\ y \in Nat
    OBVIOUS
  <2>2. ~(<<y, x>> \in {p \in Nat \X Nat : p[1] < p[2]})
    BY DEF BelowNat
  <2>3. ~(y < x)
    BY <2>1, <2>2
  <2> QED BY <2>1, <2>3

\* What holds of 0, and of i + 1 if of i, holds of all up to n.
LEMMA CountingUp ==
    ASSUME NEW n \in Nat, NEW T, 0 \in T,
           \A i \in 0..(n - 1) : i \in T => i + 1 \in T
    PROVE  \A i \in 0..n : i \in T
<1> SUFFICES ASSUME NEW j \in 0..n, j \notin T
             PROVE  FALSE
  OBVIOUS
<1>1. PICK x \in {i \in 0..n : i \notin T} :
          \A y \in {i \in 0..n : i \notin T} : x <= y
  BY LeastOf, {i \in 0..n : i \notin T} \in SUBSET Nat
<1>2. x - 1 \in 0..(n - 1) /\ x - 1 \in T
  BY <1>1
<1> QED BY <1>1, <1>2

-----------------------------------------------------------------------------
(***************************************************************************)
(* Enumerated                                                              *)
(***************************************************************************)
StrictOrder(I, R) ==
    /\ \A i \in I : <<i, i>> \notin R
    /\ \A i, j, k \in I : <<i, j>> \in R /\ <<j, k>> \in R => <<i, k>> \in R
    /\ \A i, j \in I : i = j \/ <<i, j>> \in R \/ <<j, i>> \in R

\* The function e counts the members of I.
Counts(e, I) ==
    /\ Cardinality(I) \in Nat
    /\ e \in [1..Cardinality(I) -> I]
    /\ \A k, l \in 1..Cardinality(I) : e[k] = e[l] => k = l
    /\ \A i \in I : \E k \in 1..Cardinality(I) : e[k] = i

\* A finite set is enumerated, in its order.
LEMMA Enumeration ==
    ASSUME NEW I, IsFiniteSet(I), NEW R, StrictOrder(I, R)
    PROVE  /\ Counts(Enumerated(I, R), I)
           /\ \A k, l \in 1..Cardinality(I) :
                k < l => <<Enumerated(I, R)[k], Enumerated(I, R)[l]>> \in R
<1> DEFINE n == Cardinality(I)
           Before(i) == {j \in I : <<j, i>> \in R}
           rank == [i \in I |-> Cardinality(Before(i))]
           e == Enumerated(I, R)
           pick(k) == CHOOSE i \in I : Cardinality({j \in I : <<j, i>> \in R}) = k - 1
<1>1. n \in Nat
  BY FS_CardinalityType
<1>2. \A i \in I : /\ IsFiniteSet(Before(i)) /\ Cardinality(Before(i)) \in Nat
                   /\ Cardinality(Before(i)) < n
  <2> SUFFICES ASSUME NEW i \in I
               PROVE  /\ IsFiniteSet(Before(i)) /\ Cardinality(Before(i)) \in Nat
                      /\ Cardinality(Before(i)) < n
    OBVIOUS
  <2>1. Before(i) \in SUBSET I /\ Before(i) # I
    BY DEF StrictOrder
  <2>2. /\ IsFiniteSet(Before(i)) /\ Cardinality(Before(i)) <= n
        /\ n # Cardinality(Before(i))
    BY <2>1, FS_Subset
  <2>3. Cardinality(Before(i)) \in Nat
    BY <2>2, FS_CardinalityType
  <2> QED BY <2>2, <2>3, <1>1
<1>3. \A i, j \in I : <<i, j>> \in R =>
                Cardinality(Before(i)) < Cardinality(Before(j))
  <2> SUFFICES ASSUME NEW i \in I, NEW j \in I, <<i, j>> \in R
               PROVE  Cardinality(Before(i)) < Cardinality(Before(j))
    OBVIOUS
  <2>1. Before(i) \cup {i} \in SUBSET Before(j) /\ i \notin Before(i)
    BY DEF StrictOrder
  <2>2. Cardinality(Before(i) \cup {i}) = Cardinality(Before(i)) + 1
    BY <2>1, <1>2, FS_AddElement
  <2>3. Cardinality(Before(i) \cup {i}) <= Cardinality(Before(j))
    BY <2>1, <1>2, FS_Subset
  <2> HIDE DEF Before
  <2> QED BY <2>2, <2>3, <1>2
<1>4. /\ rank \in [I -> 0..(n - 1)]
      /\ \A i, j \in I : <<i, j>> \in R => rank[i] < rank[j]
  BY <1>1, <1>2, <1>3
<1>5. \A k \in 1..n : (\E i \in I : rank[i] = k - 1)
                        => e[k] \in I /\ rank[e[k]] = k - 1
  <2> SUFFICES ASSUME NEW k \in 1..n, NEW i \in I, rank[i] = k - 1
               PROVE  e[k] \in I /\ rank[e[k]] = k - 1
    OBVIOUS
  <2>1. e[k] = CHOOSE h \in I : Cardinality({j \in I : <<j, h>> \in R}) = k - 1
    BY DEF Enumerated
  <2>2. \E h \in I : Cardinality({j \in I : <<j, h>> \in R}) = k - 1
    OBVIOUS
  <2>3. e[k] \in I /\ Cardinality({j \in I : <<j, e[k]>> \in R}) = k - 1
    BY <2>1, <2>2
  <2> QED BY <2>3
<1>6. e = [k \in 1..n |-> pick(k)]
  BY Zenon DEF Enumerated
<1> HIDE DEF e, rank, pick
<1>7. \A i, j \in I : rank[i] = rank[j] => i = j
  <2> SUFFICES ASSUME NEW i \in I, NEW j \in I, rank[i] = rank[j], i # j
               PROVE  FALSE
    OBVIOUS
  <2>1. <<i, j>> \in R \/ <<j, i>> \in R
    BY DEF StrictOrder
  <2>2. rank[i] \in Int
    BY <1>4
  <2> QED BY <2>1, <2>2, <1>4
<1>8. \A k \in 1..n : \E i \in I : rank[i] = k - 1
  <2>1. rank \in Injection(I, 0..(n - 1))
    BY <1>4, <1>7 DEF Injection, IsInjective
  <2>2. IsFiniteSet(0..(n - 1)) /\ Cardinality(0..(n - 1)) = n
    BY <1>1, FS_Interval
  <2>3. rank \in Surjection(I, 0..(n - 1))
    BY <2>1, <2>2, FS_Injection
  <2>4. \A m \in 0..(n - 1) : \E i \in I : rank[i] = m
    BY <2>3 DEF Surjection
  <2> QED BY <2>4, <1>1
<1>9. \A k \in 1..n : e[k] \in I /\ rank[e[k]] = k - 1
  BY <1>5, <1>8
<1> HIDE DEF n
<1>10. e \in [1..n -> I]
  BY <1>6, <1>9
<1>11. \A k, l \in 1..n : e[k] = e[l] => k = l
  BY <1>1, <1>9
<1>12. \A i \in I : \E k \in 1..n : e[k] = i
  <2> SUFFICES ASSUME NEW i \in I
               PROVE  \E k \in 1..n : e[k] = i
    OBVIOUS
  <2>1. rank[i] + 1 \in 1..n
    BY <1>1, <1>4
  <2>2. rank[e[rank[i] + 1]] = (rank[i] + 1) - 1 /\ e[rank[i] + 1] \in I
    BY <2>1, <1>9
  <2> QED BY <2>1, <2>2, <1>4, <1>7
<1>13. \A k, l \in 1..n : k < l => <<e[k], e[l]>> \in R
  <2> SUFFICES ASSUME NEW k \in 1..n, NEW l \in 1..n, k < l
               PROVE  <<e[k], e[l]>> \in R
    OBVIOUS
  <2>1. rank[e[k]] < rank[e[l]] /\ e[k] \in I /\ e[l] \in I
    BY <1>1, <1>9
  <2>2. ~(<<e[l], e[k]>> \in R) /\ e[k] # e[l]
    BY <2>1, <1>1, <1>4
  <2> QED BY <2>1, <2>2 DEF StrictOrder
<1> QED BY <1>1, <1>10, <1>11, <1>12, <1>13 DEF Counts, e, n

-----------------------------------------------------------------------------
(***************************************************************************)
(* Lists that are read at some places                                      *)
(***************************************************************************)
\* A finite set of numbers is enumerated in increasing order.
LEMMA PlacesOf ==
    ASSUME NEW I \in SUBSET Int, IsFiniteSet(I)
    PROVE  /\ Counts(Places(I), I)
           /\ \A k, l \in 1..Cardinality(I) : k < l => Places(I)[k] < Places(I)[l]
<1> DEFINE R == {p \in I \X I : p[1] < p[2]}
<1>1. \A i, j \in I : <<i, j>> \in R <=> i < j
  OBVIOUS
<1>2. Places(I) = Enumerated(I, R)
  BY Zenon DEF Places
<1> HIDE DEF R
<1>3. StrictOrder(I, R)
  BY <1>1 DEF StrictOrder
<1>4. Counts(Places(I), I)
  BY <1>2, <1>3, Enumeration
<1>5. \A k, l \in 1..Cardinality(I) :
            k < l => <<Places(I)[k], Places(I)[l]>> \in R
  BY <1>2, <1>3, Enumeration
<1> QED BY <1>1, <1>4, <1>5 DEF Counts

\* The list read at the places in I has one item for each, in their order.
LEMMA ReadAt ==
    ASSUME NEW seq, NEW I \in SUBSET Int, IsFiniteSet(I)
    PROVE  /\ Cardinality(I) \in Nat
           /\ At(seq, I) = [k \in 1..Cardinality(I) |-> seq[Places(I)[k]]]
           /\ Len(At(seq, I)) = Cardinality(I)
           /\ DOMAIN At(seq, I) = 1..Cardinality(I)
           /\ \A k \in 1..Cardinality(I) : /\ Places(I)[k] \in I
                                          /\ At(seq, I)[k] = seq[Places(I)[k]]
<1>1. Cardinality(I) \in Nat /\ Places(I) \in [1..Cardinality(I) -> I]
  BY PlacesOf DEF Counts
<1>2. At(seq, I) = [k \in DOMAIN Places(I) |-> seq[Places(I)[k]]]
  BY Zenon DEF At
<1>3. At(seq, I) = [k \in 1..Cardinality(I) |-> seq[Places(I)[k]]]
  BY Zenon, <1>1, <1>2
<1> QED BY <1>1, <1>3

\* It is a list of the items at these places.
LEMMA ListAt ==
    ASSUME NEW seq, NEW I \in SUBSET Int, IsFiniteSet(I)
    PROVE  /\ \A S : (\A i \in I : seq[i] \in S) => At(seq, I) \in Seq(S)
           /\ Range(At(seq, I)) = {seq[i] : i \in I}
<1>1. /\ Cardinality(I) \in Nat
      /\ Places(I) \in [1..Cardinality(I) -> I]
      /\ \A i \in I : \E k \in 1..Cardinality(I) : Places(I)[k] = i
  BY PlacesOf DEF Counts
<1>2. ASSUME NEW S, \A i \in I : seq[i] \in S
      PROVE  At(seq, I) \in Seq(S)
  <2>1. \A k \in 1..Cardinality(I) : seq[Places(I)[k]] \in S
    BY <1>1, <1>2
  <2>2. At(seq, I) = [k \in 1..Cardinality(I) |-> seq[Places(I)[k]]]
    BY Zenon, ReadAt
  <2> QED BY <1>1, <2>1, <2>2
<1>3. Range(At(seq, I)) = {seq[i] : i \in I}
  <2>0. \A k \in 1..Cardinality(I) :
            Places(I)[k] \in I /\ At(seq, I)[k] = seq[Places(I)[k]]
    BY ReadAt
  <2>1. Range(At(seq, I)) = {At(seq, I)[k] : k \in 1..Cardinality(I)}
    BY ReadAt DEF Range
  <2>2. \A k \in 1..Cardinality(I) : \E i \in I : At(seq, I)[k] = seq[i]
    BY <2>0
  <2>3. \A i \in I : \E k \in 1..Cardinality(I) : At(seq, I)[k] = seq[i]
    BY <1>1, ReadAt
  <2> QED BY <2>1, <2>2, <2>3
<1> QED BY <1>2, <1>3

\* A part of a list is a list.
LEMMA PartOfList ==
    ASSUME NEW T, NEW seq \in Seq(T), NEW I \in SUBSET DOMAIN seq
    PROVE  At(seq, I) \in Seq(T)
<1>1. DOMAIN seq = 1..Len(seq) /\ Len(seq) \in Nat
  OBVIOUS
<1>2. IsFiniteSet(1..Len(seq))
  BY <1>1, FS_Interval
<1>3. IsFiniteSet(I) /\ I \in SUBSET Int
  BY <1>1, <1>2, FS_Subset
<1>4. \A i \in I : seq[i] \in T
  BY <1>1
<1> QED BY <1>3, <1>4, ListAt

\* Any list is one in the sense of the tables' assumption.
LEMMA ListIs ==
    ASSUME NEW T, NEW seq \in Seq(T)
    PROVE  /\ IsList(seq)
           /\ Len(seq) \in Nat
           /\ DOMAIN seq = 1..Len(seq)
BY DEF IsList, Range

\* What is made of each item of a list is a list.
LEMMA EachIsList ==
    ASSUME NEW T, NEW seq \in Seq(T), NEW made,
           made = [i \in DOMAIN seq |-> made[i]]
    PROVE  IsList(made) /\ Len(made) = Len(seq)
<1>1. DOMAIN seq = 1..Len(seq) /\ Len(seq) \in Nat
  OBVIOUS
<1>2. made = [i \in 1..Len(seq) |-> made[i]] /\ DOMAIN made = 1..Len(seq)
  BY <1>1
<1>3. \A i \in 1..Len(seq) : made[i] \in Range(made)
  BY <1>2 DEF Range
<1>4. made \in [1..Len(seq) -> Range(made)]
  BY <1>2, <1>3
<1>5. made \in Seq(Range(made))
  BY <1>1, <1>4
<1>6. Len(made) = Len(seq)
  BY <1>1, <1>2
<1> QED BY <1>5, <1>6 DEF IsList

\* The numbers at which a counting of I comes to a member of J.
Drawn(e, I, J) == {k \in 1..Cardinality(I) : e[k] \in J}

\* A counting comes to members of J as often as there are some.
LEMMA CountAt ==
    ASSUME NEW I, NEW e, NEW J, IsFiniteSet(I), Counts(e, I)
    PROVE  /\ IsFiniteSet(Drawn(e, I, J))
           /\ Cardinality(Drawn(e, I, J)) = Cardinality(I \cap J)
<1> DEFINE n == Cardinality(I)
           K == {k \in 1..n : e[k] \in J}
           f == [k \in K |-> e[k]]
<1>1. n \in Nat
  BY DEF Counts
<1>2. IsFiniteSet(K)
  <2>1. K \in SUBSET (1..n) /\ IsFiniteSet(1..n)
    BY <1>1, FS_Interval
  <2> QED BY <2>1, FS_Subset
<1>3. f \in Bijection(K, I \cap J)
  BY DEF Counts, Bijection, Injection, Surjection, IsInjective
<1>4. ExistsBijection(K, I \cap J)
  BY <1>3 DEF ExistsBijection
<1>5. Drawn(e, I, J) = K
  BY DEF Drawn
<1> HIDE DEF K
<1> QED BY <1>2, <1>4, <1>5, FS_Bijection

-----------------------------------------------------------------------------
(***************************************************************************)
(* Sorting                                                                 *)
(***************************************************************************)
\* An order of items in which some may be alike: what comes before an item comes
\* before or after each third one.
WeakOrder(D, B) ==
    /\ \A i, j \in D : <<i, j>> \in B => <<j, i>> \notin B
    /\ \A i, j, k \in D : <<i, k>> \in B => <<i, j>> \in B \/ <<j, k>> \in B

\* Breaking the ties by place makes a strict order of a weak one.
LEMMA StableOrder ==
    ASSUME NEW D \in SUBSET Int, NEW B, WeakOrder(D, B)
    PROVE  StrictOrder(D, {p \in D \X D :
                \/ <<p[1], p[2]>> \in B
                \/ p[1] < p[2] /\ <<p[2], p[1]>> \notin B})
<1> DEFINE R == {p \in D \X D : \/ <<p[1], p[2]>> \in B
                                \/ p[1] < p[2] /\ <<p[2], p[1]>> \notin B}
<1>1. \A i, j \in D : <<i, j>> \in R <=>
            <<i, j>> \in B \/ (i < j /\ <<j, i>> \notin B)
  OBVIOUS
<1> HIDE DEF R
<1>2. \A i \in D : <<i, i>> \notin R
  BY <1>1 DEF WeakOrder
<1>3. ASSUME NEW i \in D, NEW j \in D, i # j
      PROVE  <<i, j>> \in R \/ <<j, i>> \in R
  <2>1. i < j \/ j < i
    BY <1>3
  <2> QED BY <2>1, <1>1
<1>4. ASSUME NEW i \in D, NEW j \in D, NEW k \in D,
             <<i, j>> \in R, <<j, k>> \in R
      PROVE  <<i, k>> \in R
  <2>1. CASE <<i, j>> \in B
    BY <2>1, <1>1, <1>4 DEF WeakOrder
  <2>2. CASE <<j, k>> \in B
    BY <2>2, <1>1, <1>4 DEF WeakOrder
  <2>3. CASE <<i, j>> \notin B /\ <<j, k>> \notin B
    <3>1. i < j /\ j < k /\ <<j, i>> \notin B /\ <<k, j>> \notin B
      BY <2>3, <1>1, <1>4
    <3>2. i < k /\ <<k, i>> \notin B
      BY <3>1 DEF WeakOrder
    <3> QED BY <3>2, <1>1
  <2> QED BY <2>1, <2>2, <2>3
<1> QED BY <1>2, <1>3, <1>4 DEF StrictOrder, R

\* A list is sorted: each place is read once, and no item comes before one that
\* is read earlier.
LEMMA SortedReading ==
    ASSUME NEW n \in Nat, NEW B, WeakOrder(1..n, B), NEW e,
           e = Enumerated(1..n, {p \in (1..n) \X (1..n) :
                \/ <<p[1], p[2]>> \in B
                \/ p[1] < p[2] /\ <<p[2], p[1]>> \notin B})
    PROVE  /\ e \in [1..n -> 1..n]
           /\ Counts(e, 1..n)
           /\ \A k, l \in 1..n : k < l => <<e[l], e[k]>> \notin B
<1> DEFINE R == {p \in (1..n) \X (1..n) :
                    \/ <<p[1], p[2]>> \in B
                    \/ p[1] < p[2] /\ <<p[2], p[1]>> \notin B}
<1>1. \A i, j \in 1..n : <<i, j>> \in R =>
            <<i, j>> \in B \/ <<j, i>> \notin B
  OBVIOUS
<1>2. StrictOrder(1..n, R)
  BY StableOrder, (1..n) \in SUBSET Int
<1>3. IsFiniteSet(1..n) /\ Cardinality(1..n) = n
  BY FS_Interval
<1>4. e = Enumerated(1..n, R)
  OBVIOUS
<1> HIDE DEF R
<1>5. /\ Counts(e, 1..n)
      /\ \A k, l \in 1..n : k < l => <<e[k], e[l]>> \in R
  <2> DEFINE I == 1..n
  <2>1. IsFiniteSet(I) /\ StrictOrder(I, R) /\ e = Enumerated(I, R)
        /\ Cardinality(I) = n
    BY <1>2, <1>3, <1>4
  <2>2. I = 1..n
    OBVIOUS
  <2> HIDE DEF I
  <2>3. Counts(Enumerated(I, R), I)
    BY <2>1, Enumeration
  <2>4. \A k, l \in 1..Cardinality(I) :
            k < l => <<Enumerated(I, R)[k], Enumerated(I, R)[l]>> \in R
    BY <2>1, Enumeration
  <2> QED BY <2>1, <2>2, <2>3, <2>4
<1>6. e \in [1..n -> 1..n]
  BY <1>3, <1>5 DEF Counts
<1> QED BY <1>1, <1>5, <1>6 DEF WeakOrder

\* Reading what counts a set in another order counts it again.
LEMMA CountedAgain ==
    ASSUME NEW S, NEW f, Counts(f, S), NEW e, NEW n \in Nat, n = Cardinality(S),
           e \in [1..n -> 1..n], Counts(e, 1..n),
           NEW g, g = [k \in 1..n |-> f[e[k]]]
    PROVE  Counts(g, S)
<1>1. /\ f \in [1..n -> S]
      /\ \A k, l \in 1..n : f[k] = f[l] => k = l
      /\ \A i \in S : \E k \in 1..n : f[k] = i
  BY DEF Counts
<1>2. Cardinality(1..n) = n
  BY FS_Interval
<1>3. /\ \A k, l \in 1..n : e[k] = e[l] => k = l
      /\ \A i \in 1..n : \E k \in 1..n : e[k] = i
  BY <1>2 DEF Counts
<1>4. g \in [1..n -> S]
  BY <1>1
<1>5. \A k, l \in 1..n : g[k] = g[l] => k = l
  <2> SUFFICES ASSUME NEW k \in 1..n, NEW l \in 1..n, g[k] = g[l]
               PROVE  k = l
    OBVIOUS
  <2>1. f[e[k]] = f[e[l]] /\ e[k] \in 1..n /\ e[l] \in 1..n
    OBVIOUS
  <2>2. e[k] = e[l]
    BY <2>1, <1>1
  <2> QED BY <2>2, <1>3
<1>6. \A i \in S : \E k \in 1..n : g[k] = i
  <2> SUFFICES ASSUME NEW i \in S
               PROVE  \E k \in 1..n : g[k] = i
    OBVIOUS
  <2>1. PICK j \in 1..n : f[j] = i
    BY <1>1
  <2>2. PICK k \in 1..n : e[k] = j
    BY <1>3
  <2> QED BY <2>1, <2>2
<1> QED BY <1>4, <1>5, <1>6 DEF Counts

\* The list of a set's members has each of them once.
LEMMA ListOfSet ==
    ASSUME NEW S, IsFiniteSet(S)
    PROVE  /\ Counts(SetToSeq(S), S)
           /\ DOMAIN SetToSeq(S) = 1..Cardinality(S)
<1> DEFINE n == Cardinality(S)
<1>1. n \in Nat /\ \E f : ExistsBijection(1..n, S)
  BY FS_CardinalityType
<1>2. PICK f : f \in Bijection(1..n, S)
  BY <1>1 DEF ExistsBijection
<1>3. f \in [1..n -> S] /\ IsInjective(f)
  BY <1>2 DEF Bijection, Injection
<1>4. SetToSeq(S) \in [1..n -> S] /\ IsInjective(SetToSeq(S))
  BY <1>3 DEF SetToSeq
<1>5. IsFiniteSet(1..n) /\ Cardinality(1..n) = n
  BY <1>1, FS_Interval
<1>6. SetToSeq(S) \in Injection(1..n, S)
  BY <1>4 DEF Injection
<1>7. SetToSeq(S) \in Surjection(1..n, S)
  BY <1>5, <1>6, FS_Injection
<1> QED BY <1>1, <1>4, <1>7 DEF Counts, Surjection, IsInjective

-----------------------------------------------------------------------------
(***************************************************************************)
(* Folds and sums                                                          *)
(***************************************************************************)
\* The step function G is iterated over the sets of the first n numbers.
Iterates(f, A, b, G, n) ==
    /\ f \in [SUBSET (1..n) -> A]
    /\ \A s \in SUBSET (1..n) :
          f[s] = IF s = {} THEN b ELSE G[<<f[s \ {Max(s)}], Max(s)>>]

\* The highest of some numbers up to n is n if it is among them.
LEMMA MaxOfInterval ==
    ASSUME NEW n \in Nat, NEW s \in SUBSET (1..n), n \in s
    PROVE  Max(s) = n
<1>1. \A y \in s : n >= y /\ y \in Int
  OBVIOUS
<1>2. Max(s) \in s /\ Max(s) >= n
  BY <1>1 DEF Max
<1>3. n >= Max(s) /\ Max(s) \in Int
  BY <1>1, <1>2
<1> QED BY <1>2, <1>3

\* Some numbers up to n have a highest one.
LEMMA MaxOf ==
    ASSUME NEW n \in Nat, NEW s \in SUBSET (1..n), s # {}
    PROVE  Max(s) \in s /\ \A y \in s : y <= Max(s)
<1> DEFINE T == {m \in 0..n : \A t \in SUBSET (1..m) : t # {} =>
                    \E x \in t : \A y \in t : x >= y}
<1>1. 0 \in T
  <2>1. \A t \in SUBSET (1..0) : t = {}
    OBVIOUS
  <2>2. 0 \in 0..n
    OBVIOUS
  <2> QED BY <2>1, <2>2
<1>2. ASSUME NEW m \in 0..(n - 1), m \in T
      PROVE  m + 1 \in T
  <2> SUFFICES ASSUME NEW t \in SUBSET (1..(m + 1)), t # {}
               PROVE  \E x \in t : \A y \in t : x >= y
    OBVIOUS
  <2>1. CASE m + 1 \in t
    BY <2>1
  <2>2. CASE m + 1 \notin t
    <3>1. t \in SUBSET (1..m)
      BY <2>2
    <3> QED BY <3>1, <1>2
  <2> QED BY <2>1, <2>2
<1> HIDE DEF T
<1>3. n \in T
  BY <1>1, <1>2, CountingUp
<1>4. \E x \in s : \A y \in s : x >= y
  BY <1>3 DEF T
<1>5. Max(s) \in s /\ \A y \in s : Max(s) >= y
  BY <1>4 DEF Max
<1> QED BY <1>5

\* Each step function has its iteration.
LEMMA Iteration ==
    ASSUME NEW A, NEW b \in A, NEW n \in Nat, NEW G,
           \A a \in A, i \in 1..n : G[<<a, i>>] \in A
    PROVE  \E f : Iterates(f, A, b, G, n)
<1> DEFINE T == {m \in 0..n : \E f : Iterates(f, A, b, G, m)}
<1>1. 0 \in T
  <2> DEFINE f == [s \in SUBSET (1..0) |-> b]
  <2>1. f \in [SUBSET (1..0) -> A]
    OBVIOUS
  <2>2. \A s \in SUBSET (1..0) : s = {} /\ f[s] = b
    OBVIOUS
  <2> HIDE DEF f
  <2>3. Iterates(f, A, b, G, 0)
    BY <2>1, <2>2 DEF Iterates
  <2> QED BY <2>3
<1>2. ASSUME NEW m \in 0..(n - 1), m \in T
      PROVE  m + 1 \in T
  <2>1. PICK f : Iterates(f, A, b, G, m)
    BY <1>2
  <2> DEFINE g == [s \in SUBSET (1..(m + 1)) |->
                    IF m + 1 \in s THEN G[<<f[s \ {m + 1}], m + 1>>] ELSE f[s]]
  <2>2. \A s \in SUBSET (1..(m + 1)) :
            /\ s \ {m + 1} \in SUBSET (1..m)
            /\ m + 1 \notin s => s \in SUBSET (1..m)
            /\ m + 1 \in s => Max(s) = m + 1
    BY MaxOfInterval
  <2>3. g \in [SUBSET (1..(m + 1)) -> A]
    BY <2>1, <2>2 DEF Iterates
  <2>4. ASSUME NEW s \in SUBSET (1..(m + 1))
        PROVE  g[s] = IF s = {} THEN b ELSE G[<<g[s \ {Max(s)}], Max(s)>>]
    <3>1. CASE m + 1 \in s
      <4>1. g[s] = G[<<f[s \ {m + 1}], m + 1>>]
        BY <3>1
      <4>2. g[s \ {m + 1}] = f[s \ {m + 1}]
        BY <2>2
      <4> QED BY <3>1, <4>1, <4>2, <2>2
    <3>2. CASE m + 1 \notin s
      <4>1. g[s] = f[s] /\ s \in SUBSET (1..m)
        BY <3>2, <2>2
      <4>2. g[s \ {Max(s)}] = f[s \ {Max(s)}]
        BY <3>2, <4>1
      <4> QED BY <4>1, <4>2, <2>1 DEF Iterates
    <3> QED BY <3>1, <3>2
  <2> HIDE DEF g
  <2>5. Iterates(g, A, b, G, m + 1)
    BY <2>3, <2>4 DEF Iterates
  <2> QED BY <2>5
<1>3. \A m \in 0..n : m \in T
  <2> HIDE DEF T
  <2> QED BY <1>1, <1>2, CountingUp
<1> QED BY <1>3

\* h goes from one number to the next.
Steps(h, A, b, G, n) ==
    /\ h \in [0..n -> A]
    /\ h[0] = b
    /\ \A i \in 1..n : h[i] = G[<<h[i - 1], i>>]

\* it is iterated as long as it stays in A.
Unfolds(it, A, b, G, n) ==
    /\ it[{}] = b
    /\ \A s \in SUBSET (1..n) : s # {} /\ it[s \ {Max(s)}] \in A =>
            it[s] = G[<<it[s \ {Max(s)}], Max(s)>>]

\* What it makes of n is reached one number after the other.
Reaches(it, A, b, G, n) == \E h : Steps(h, A, b, G, n) /\ it[1..n] = h[n]

\* An iteration over the sets goes from one number to the next.
LEMMA IteratedSteps ==
    ASSUME NEW A, NEW b \in A, NEW n \in Nat, NEW G, NEW it,
           \A a \in A, i \in 1..n : G[<<a, i>>] \in A,
           Unfolds(it, A, b, G, n)
    PROVE  Reaches(it, A, b, G, n)
<1> DEFINE h == [i \in 0..n |-> it[1..i]]
           T == {i \in 0..n : it[1..i] \in A}
<1> USE DEF Unfolds
<1>1. 1..0 = {} /\ 0 \in 0..n
  OBVIOUS
<1>2. ASSUME NEW i \in 1..n, it[1..(i - 1)] \in A
      PROVE  it[1..i] = G[<<it[1..(i - 1)], i>>] /\ it[1..i] \in A
  <2>1. 1..i \in SUBSET (1..n) /\ 1..i # {} /\ i \in 1..i
    OBVIOUS
  <2>2. (1..i) \ {i} = 1..(i - 1)
    OBVIOUS
  <2>3. Max(1..i) = i
    BY <2>1, MaxOfInterval
  <2>4. it[1..i] = G[<<it[1..(i - 1)], i>>]
    BY <2>1, <2>2, <2>3, <1>2
  <2> QED BY <2>4, <1>2
<1>3. 0 \in T
  BY <1>1
<1>4. ASSUME NEW i \in 0..(n - 1), i \in T
      PROVE  i + 1 \in T
  <2>1. i + 1 \in 1..n /\ (i + 1) - 1 = i /\ i + 1 \in 0..n
    OBVIOUS
  <2>2. it[1..((i + 1) - 1)] \in A
    BY <2>1, <1>4
  <2> QED BY <2>1, <2>2, <1>2
<1> HIDE DEF T
<1>5. \A i \in 0..n : i \in T
  BY <1>3, <1>4, CountingUp
<1>6. \A i \in 0..n : it[1..i] \in A
  BY <1>5 DEF T
<1>7. h \in [0..n -> A] /\ h[0] = b /\ it[1..n] = h[n]
  BY <1>1, <1>6
<1>8. ASSUME NEW i \in 1..n
      PROVE  h[i] = G[<<h[i - 1], i>>]
  <2>1. i \in 0..n /\ i - 1 \in 0..n
    OBVIOUS
  <2>2. it[1..(i - 1)] \in A
    BY <2>1, <1>6
  <2>3. h[i] = it[1..i] /\ h[i - 1] = it[1..(i - 1)]
    BY <2>1
  <2> QED BY <2>2, <2>3, <1>2
<1> HIDE DEF h
<1>9. Steps(h, A, b, G, n)
  BY <1>7, <1>8 DEF Steps
<1> QED BY <1>7, <1>9 DEF Reaches

\* The sum of a list is reached one number after the other.
LEMMA SumSteps ==
    ASSUME NEW numbers \in Seq(Int)
    PROVE  \E sum \in [0..Len(numbers) -> Int] :
                /\ sum[0] = 0
                /\ \A i \in 1..Len(numbers) : sum[i] = sum[i - 1] + numbers[i]
                /\ SumOf(numbers) = sum[Len(numbers)]
<1> DEFINE n == Len(numbers)
           G == [p \in Int \X (1..n) |-> p[1] + numbers[p[2]]]
           Equation(f) == f = [s \in SUBSET DOMAIN numbers |->
                IF s = {} THEN 0 ELSE f[s \ {Max(s)}] + numbers[Max(s)]]
           it == CHOOSE f : Equation(f)
<1>1. n \in Nat /\ DOMAIN numbers = 1..n /\ \A i \in 1..n : numbers[i] \in Int
  OBVIOUS
<1>2. SumOf(numbers) = it[DOMAIN numbers]
  BY Zenon DEF SumOf, FoldLeft, MapThenFoldSet
<1> HIDE DEF n
<1>3. \A a \in Int, i \in 1..n : G[<<a, i>>] = a + numbers[i]
  OBVIOUS
<1> HIDE DEF G
<1>4. ASSUME NEW a \in Int, NEW i \in 1..n
      PROVE  G[<<a, i>>] \in Int
  <2>1. G[<<a, i>>] = a + numbers[i] /\ numbers[i] \in Int
    BY <1>1, <1>3
  <2> QED BY <2>1
<1>5. PICK f : Iterates(f, Int, 0, G, n)
  <2>1. n \in Nat /\ 0 \in Int
    BY <1>1
  <2> QED BY <2>1, <1>4, Iteration
<1>6. Equation(f)
  <2>1. \A s \in SUBSET (1..n) :
            f[s] = IF s = {} THEN 0 ELSE f[s \ {Max(s)}] + numbers[Max(s)]
    <3> SUFFICES ASSUME NEW s \in SUBSET (1..n), s # {}
                 PROVE  f[s] = f[s \ {Max(s)}] + numbers[Max(s)]
      BY <1>5 DEF Iterates
    <3>1. f[s] = G[<<f[s \ {Max(s)}], Max(s)>>] /\ f[s \ {Max(s)}] \in Int
      BY <1>5 DEF Iterates
    <3>2. Max(s) \in 1..n
      BY <1>1, MaxOf
    <3> QED BY <3>1, <3>2, <1>3
  <2>2. f \in [SUBSET (1..n) -> Int]
    BY <1>5 DEF Iterates
  <2> QED BY <2>1, <2>2, <1>1
<1>7. Equation(it)
  BY Zenon, <1>6
<1> HIDE DEF it
<1>8. \A s \in SUBSET (1..n) :
            it[s] = IF s = {} THEN 0 ELSE it[s \ {Max(s)}] + numbers[Max(s)]
  BY <1>1, <1>7
<1>9. it[{}] = 0
  BY <1>8
<1>10. ASSUME NEW s \in SUBSET (1..n), s # {}, it[s \ {Max(s)}] \in Int
       PROVE  it[s] = G[<<it[s \ {Max(s)}], Max(s)>>]
  <2>1. Max(s) \in 1..n
    BY <1>1, <1>10, MaxOf
  <2>2. it[s] = it[s \ {Max(s)}] + numbers[Max(s)]
    BY <1>8, <1>10
  <2>3. G[<<it[s \ {Max(s)}], Max(s)>>] = it[s \ {Max(s)}] + numbers[Max(s)]
    BY <2>1, <1>3, <1>10
  <2> QED BY <2>2, <2>3
<1>11. Reaches(it, Int, 0, G, n)
  <2>1. n \in Nat /\ 0 \in Int
    BY <1>1
  <2>2. Unfolds(it, Int, 0, G, n)
    BY <1>9, <1>10 DEF Unfolds
  <2> QED BY <1>4, <2>1, <2>2, IteratedSteps
<1>12. PICK h : Steps(h, Int, 0, G, n) /\ it[1..n] = h[n]
  BY <1>11 DEF Reaches
<1>13. ASSUME NEW i \in 1..n
       PROVE  h[i] = h[i - 1] + numbers[i]
  <2>1. i - 1 \in 0..n
    BY <1>1
  <2>2. h[i - 1] \in Int /\ h[i] = G[<<h[i - 1], i>>]
    BY <2>1, <1>12 DEF Steps
  <2> QED BY <2>2, <1>3
<1>14. SumOf(numbers) = h[n]
  <2>1. DOMAIN numbers = 1..n
    BY <1>1
  <2>2. it[DOMAIN numbers] = h[n]
    BY Zenon, <2>1, <1>12
  <2> QED BY Zenon, <2>2, <1>2
<1>15. h \in [0..n -> Int] /\ h[0] = 0
  BY <1>12 DEF Steps
<1> QED BY <1>13, <1>14, <1>15 DEF n

-----------------------------------------------------------------------------
(***************************************************************************)
(* Counting the items of a list                                            *)
(***************************************************************************)
\* How many items of a list are in X, and the list of these.
Amount(seq, X) == Cardinality({i \in DOMAIN seq : seq[i] \in X})
Chosen(seq, X) == At(seq, {i \in DOMAIN seq : seq[i] \in X})

\* The places of a list are finitely many, so a count is a number.
LEMMA AmountIs ==
    ASSUME NEW T, NEW seq \in Seq(T), NEW X
    PROVE  /\ IsFiniteSet({i \in DOMAIN seq : seq[i] \in X})
           /\ Amount(seq, X) \in Nat
<1>1. DOMAIN seq = 1..Len(seq) /\ Len(seq) \in Nat
  OBVIOUS
<1>2. IsFiniteSet(DOMAIN seq)
  BY <1>1, FS_Interval
<1>3. IsFiniteSet({i \in DOMAIN seq : seq[i] \in X})
  BY <1>2, FS_Subset, {i \in DOMAIN seq : seq[i] \in X} \subseteq DOMAIN seq
<1> QED BY <1>3, FS_CardinalityType DEF Amount

\* All items of a list are as many as it is long.
LEMMA AmountOfAll ==
    ASSUME NEW T, NEW seq \in Seq(T)
    PROVE  Amount(seq, T) = Len(seq)
<1> DEFINE I == {i \in DOMAIN seq : seq[i] \in T}
<1>1. I = 1..Len(seq) /\ Len(seq) \in Nat
  OBVIOUS
<1>2. Amount(seq, T) = Cardinality(I)
  BY DEF Amount
<1> HIDE DEF I
<1>3. Cardinality(1..Len(seq)) = Len(seq)
  BY <1>1, FS_Interval
<1> QED BY <1>1, <1>2, <1>3

\* Counting among the items at some places is counting these places.
LEMMA AmountAt ==
    ASSUME NEW seq, NEW I \in SUBSET Int, NEW Y, IsFiniteSet(I)
    PROVE  Amount(At(seq, I), Y) = Cardinality({i \in I : seq[i] \in Y})
<1> DEFINE J == {i \in I : seq[i] \in Y}
           e == Places(I)
           part == At(seq, I)
           n == Cardinality(I)
<1>1. I \cap J = J /\ \A i \in I : i \in J <=> seq[i] \in Y
  OBVIOUS
<1>2. Counts(e, I)
  BY PlacesOf
<1>3. /\ DOMAIN part = 1..n
      /\ \A k \in 1..n : e[k] \in I /\ part[k] = seq[e[k]]
  BY ReadAt
<1> HIDE DEF J, e, part
<1>4. Cardinality(Drawn(e, I, J)) = Cardinality(I \cap J)
  BY <1>2, CountAt
<1>5. {k \in DOMAIN part : part[k] \in Y} = Drawn(e, I, J)
  BY <1>1, <1>3 DEF Drawn
<1> QED BY <1>1, <1>4, <1>5 DEF Amount, part, J

\* The chosen items, and the counts among them.
LEMMA AmountOfChosen ==
    ASSUME NEW T, NEW seq \in Seq(T), NEW X
    PROVE  /\ Chosen(seq, X) \in Seq(T)
           /\ Len(Chosen(seq, X)) = Amount(seq, X)
           /\ Range(Chosen(seq, X)) = Range(seq) \cap X
           /\ \A Y : Amount(Chosen(seq, X), Y) = Amount(seq, X \cap Y)
<1> DEFINE I == {i \in DOMAIN seq : seq[i] \in X}
<1>1. I \in SUBSET Int /\ I \in SUBSET DOMAIN seq
  OBVIOUS
<1>2. IsFiniteSet(I) /\ \A i \in I : seq[i] \in X
  BY AmountIs
<1>3. Chosen(seq, X) = At(seq, I) /\ Amount(seq, X) = Cardinality(I)
  BY DEF Chosen, Amount
<1>4. Range(seq) \cap X = {seq[i] : i \in I}
  BY DEF Range
<1>5. ASSUME NEW Y
      PROVE  Amount(At(seq, I), Y) = Amount(seq, X \cap Y)
  <2>1. {i \in I : seq[i] \in Y} = {i \in DOMAIN seq : seq[i] \in X \cap Y}
    OBVIOUS
  <2> HIDE DEF I
  <2>2. Amount(At(seq, I), Y) = Cardinality({i \in I : seq[i] \in Y})
    BY <1>1, <1>2, AmountAt
  <2> QED BY <2>1, <2>2 DEF Amount
<1> HIDE DEF I
<1>6. At(seq, I) \in Seq(T)
  BY <1>1, PartOfList
<1>7. Len(At(seq, I)) = Cardinality(I)
  BY <1>1, <1>2, ReadAt
<1>8. Range(At(seq, I)) = {seq[i] : i \in I}
  BY <1>1, <1>2, ListAt
<1> QED BY <1>3, <1>4, <1>5, <1>6, <1>7, <1>8

\* What is counted in two parts adds up.
LEMMA AmountOfBoth ==
    ASSUME NEW T, NEW seq \in Seq(T), NEW X, NEW Y, X \cap Y = {}
    PROVE  Amount(seq, X \cup Y) = Amount(seq, X) + Amount(seq, Y)
<1> DEFINE I == {i \in DOMAIN seq : seq[i] \in X}
           J == {i \in DOMAIN seq : seq[i] \in Y}
<1>1. IsFiniteSet(I) /\ IsFiniteSet(J)
  BY AmountIs
<1>2. I \cap J = {} /\ {i \in DOMAIN seq : seq[i] \in X \cup Y} = I \cup J
  OBVIOUS
<1>6. /\ Amount(seq, X) = Cardinality(I) /\ Amount(seq, Y) = Cardinality(J)
      /\ Amount(seq, X \cup Y) = Cardinality(I \cup J)
  BY <1>2 DEF Amount
<1> HIDE DEF I, J
<1>3. Cardinality(I \cup J) = Cardinality(I) + Cardinality(J) - Cardinality(I \cap J)
  BY <1>1, FS_Union
<1>4. Cardinality(I \cap J) = 0
  BY <1>2, FS_EmptySet
<1>5. Cardinality(I) \in Nat /\ Cardinality(J) \in Nat
  BY <1>1, FS_CardinalityType
<1> QED BY <1>3, <1>4, <1>5, <1>6

\* The first of some sets together.
Together(part, n) == UNION {part[i] : i \in 1..n}

\* What is counted in several parts adds up.
LEMMA SumOfParts ==
    ASSUME NEW T, NEW seq \in Seq(T), NEW numbers \in Seq(Int), NEW part,
           \A i \in 1..Len(numbers) : numbers[i] = Amount(seq, part[i]),
           \A i, j \in 1..Len(numbers) : i # j => part[i] \cap part[j] = {}
    PROVE  SumOf(numbers) = Amount(seq, Together(part, Len(numbers)))
<1> DEFINE n == Len(numbers)
           Upto(m) == Together(part, m)
<1>1. n \in Nat
  OBVIOUS
<1>2. PICK sum \in [0..n -> Int] :
            /\ sum[0] = 0
            /\ \A i \in 1..n : sum[i] = sum[i - 1] + numbers[i]
            /\ SumOf(numbers) = sum[n]
  BY SumSteps
<1> DEFINE U == {m \in 0..n : sum[m] = Amount(seq, Upto(m))}
<1>3. 0 \in U
  <2>1. Upto(0) = {}
    <3>1. 1..0 = {}
      OBVIOUS
    <3> QED BY <3>1 DEF Together
  <2>2. {i \in DOMAIN seq : seq[i] \in Upto(0)} = {}
    BY <2>1
  <2>3. Amount(seq, Upto(0)) = 0
    BY <2>2, FS_EmptySet DEF Amount
  <2> QED BY <1>1, <1>2, <2>3
<1>4. ASSUME NEW m \in 0..(n - 1), m \in U
      PROVE  m + 1 \in U
  <2>1. m + 1 \in 1..n /\ m + 1 \in 0..n /\ (m + 1) - 1 = m
    BY <1>1
  <2>2. Upto(m + 1) = Upto(m) \cup part[m + 1]
    <3>1. 1..(m + 1) = (1..m) \cup {m + 1}
      BY <1>1
    <3> QED BY <3>1 DEF Together
  <2>3. Upto(m) \cap part[m + 1] = {}
    <3>1. \A i \in 1..m : i \in 1..n /\ i # m + 1
      BY <1>1
    <3> QED BY <2>1, <3>1 DEF Together
  <2> DEFINE before == Upto(m)
             own == part[m + 1]
  <2>6. before \cap own = {}
    BY <2>3
  <2> HIDE DEF before, own
  <2>7. Amount(seq, before \cup own) = Amount(seq, before) + Amount(seq, own)
    BY <2>6, AmountOfBoth
  <2>4. Amount(seq, Upto(m + 1)) = Amount(seq, Upto(m)) + Amount(seq, part[m + 1])
    BY Zenon, <2>2, <2>7 DEF before, own
  <2> HIDE DEF Upto
  <2>5. sum[m + 1] = sum[m] + numbers[m + 1]
    BY <1>2, <2>1
  <2> QED BY <1>4, <2>1, <2>4, <2>5
<1> HIDE DEF U, n
<1>5. n \in U
  <2>1. \A i \in 0..n : i \in U
    BY <1>1, <1>3, <1>4, CountingUp
  <2> QED BY <1>1, <2>1
<1> QED BY <1>2, <1>5 DEF U, n

\* Sorting by a number reads each place once, the numbers never falling.
LEMMA NumbersSorted ==
    ASSUME NEW n \in Nat, NEW key \in [1..n -> Int], NEW e,
           e = Enumerated(1..n, {p \in (1..n) \X (1..n) :
                \/ key[p[1]] < key[p[2]]
                \/ p[1] < p[2] /\ ~(key[p[2]] < key[p[1]])})
    PROVE  /\ e \in [1..n -> 1..n]
           /\ Counts(e, 1..n)
           /\ \A k, l \in 1..n : k < l => key[e[k]] <= key[e[l]]
<1> DEFINE B == {p \in (1..n) \X (1..n) : key[p[1]] < key[p[2]]}
<1>1. \A i, j \in 1..n : <<i, j>> \in B <=> key[i] < key[j]
  OBVIOUS
<1>2. {p \in (1..n) \X (1..n) :
            \/ key[p[1]] < key[p[2]]
            \/ p[1] < p[2] /\ ~(key[p[2]] < key[p[1]])}
        = {p \in (1..n) \X (1..n) : \/ <<p[1], p[2]>> \in B
                                    \/ p[1] < p[2] /\ <<p[2], p[1]>> \notin B}
  OBVIOUS
<1> HIDE DEF B
<1>3. WeakOrder(1..n, B)
  BY <1>1 DEF WeakOrder
<1>4. e = Enumerated(1..n, {p \in (1..n) \X (1..n) :
            \/ <<p[1], p[2]>> \in B
            \/ p[1] < p[2] /\ <<p[2], p[1]>> \notin B})
  BY Zenon, <1>2
<1>5. /\ e \in [1..n -> 1..n]
      /\ Counts(e, 1..n)
      /\ \A k, l \in 1..n : k < l => <<e[l], e[k]>> \notin B
  BY <1>3, <1>4, SortedReading
<1>6. ASSUME NEW k \in 1..n, NEW l \in 1..n, k < l
      PROVE  key[e[k]] <= key[e[l]]
  <2>1. e[k] \in 1..n /\ e[l] \in 1..n
    BY <1>5
  <2>2. <<e[l], e[k]>> \notin B
    BY <1>5, <1>6
  <2>3. ~(key[e[l]] < key[e[k]])
    BY <1>1, <2>1, <2>2
  <2>4. key[e[l]] \in Int /\ key[e[k]] \in Int
    BY <2>1
  <2> DEFINE a == key[e[k]]
             b == key[e[l]]
  <2>5. a \in Int /\ b \in Int /\ ~(b < a)
    BY <2>3, <2>4
  <2> HIDE DEF a, b
  <2>6. a <= b
    BY <2>5
  <2> QED BY <2>6 DEF a, b
<1> QED BY <1>5, <1>6

\* The members of a set, those of the greatest number first.
Descending(S, key) == Sorted(SetToSeq(S), LAMBDA x, y : key[x] > key[y])

\* They are listed once each.
LEMMA DescendingIs ==
    ASSUME NEW S, NEW key, IsFiniteSet(S), key \in [S -> Int]
    PROVE  /\ Counts(Descending(S, key), S)
           /\ DOMAIN Descending(S, key) = 1..Cardinality(S)
<1> DEFINE f == SetToSeq(S)
           n == Cardinality(S)
           D == 1..n
           low == [i \in D |-> -key[f[i]]]
           e == SortedPlaces(f, LAMBDA x, y : key[x] > key[y])
           g == Descending(S, key)
<1>1. Counts(f, S) /\ DOMAIN f = D
  BY ListOfSet
<1>2. f \in [D -> S] /\ n \in Nat
  BY <1>1 DEF Counts
<1>3. low \in [D -> Int] /\ \A i \in D : low[i] = -key[f[i]] /\ key[f[i]] \in Int
  BY <1>2
<1>4. g = [k \in DOMAIN e |-> f[e[k]]]
  BY Zenon DEF Descending, Sorted
<1>5. e = Enumerated(DOMAIN f, {p \in (DOMAIN f) \X (DOMAIN f) :
                \/ key[f[p[1]]] > key[f[p[2]]]
                \/ p[1] < p[2] /\ ~(key[f[p[2]]] > key[f[p[1]]])})
  BY Zenon DEF SortedPlaces
<1> HIDE DEF low, g, e
<1>6. {p \in D \X D :
            \/ key[f[p[1]]] > key[f[p[2]]]
            \/ p[1] < p[2] /\ ~(key[f[p[2]]] > key[f[p[1]]])}
        = {p \in D \X D : \/ low[p[1]] < low[p[2]]
                          \/ p[1] < p[2] /\ ~(low[p[2]] < low[p[1]])}
  <2>1. \A i, j \in D : key[f[i]] > key[f[j]] <=> low[i] < low[j]
    BY <1>3
  <2> QED BY <2>1
<1>7. e = Enumerated(1..n, {p \in (1..n) \X (1..n) :
                \/ low[p[1]] < low[p[2]]
                \/ p[1] < p[2] /\ ~(low[p[2]] < low[p[1]])})
  BY Zenon, <1>1, <1>5, <1>6
<1> HIDE DEF f, n
<1>8. e \in [1..n -> 1..n] /\ Counts(e, 1..n)
  BY <1>2, <1>3, <1>7, NumbersSorted
<1>9. g = [k \in 1..n |-> f[e[k]]]
  BY <1>4, <1>8
<1>10. Counts(g, S)
  BY <1>1, <1>2, <1>8, <1>9, CountedAgain DEF n
<1> QED BY <1>9, <1>10 DEF g, n
===============================================================================
