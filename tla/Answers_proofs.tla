----------------------------- MODULE Answers_proofs -----------------------------
(***************************************************************************)
(* What is answered, for every store, request and table of jobs that the   *)
(* assumptions of Answers and VersionTables allow.                         *)
(***************************************************************************)
EXTENDS Answers, VersionTables_proofs, ListFacts, TLAPS

-----------------------------------------------------------------------------
(***************************************************************************)
(* The monitor's statistics                                                *)
(***************************************************************************)
Field == {"total", "succeeded", "failed"}

\* The jobs that a field of a tally counts, and those of a day.
Counted(T, field) == {j \in T : field = "total" \/ j.status = field}
OnDay(T, day) == {j \in T : Day(j.created) = day}

\* A tally counts the jobs of the list.
LEMMA TallyIs ==
    ASSUME NEW T, NEW seq \in Seq(T), NEW field \in Field
    PROVE  /\ Tally(seq)[field] = Amount(seq, Counted(T, field))
           /\ Tally(seq)[field] \in Nat
<1>1. DOMAIN seq = 1..Len(seq) /\ \A i \in DOMAIN seq : seq[i] \in T
  OBVIOUS
<1>2. CASE field = "total"
  <2>1. Counted(T, field) = T
    BY <1>2 DEF Counted
  <2>2. Amount(seq, Counted(T, field)) = Len(seq)
    BY <2>1, AmountOfAll
  <2> QED BY <1>2, <2>2, AmountIs DEF Tally
<1>3. CASE field = "succeeded"
  <2> DEFINE A == {i \in DOMAIN seq : seq[i].status = "succeeded"}
             B == {i \in DOMAIN seq : seq[i] \in Counted(T, field)}
  <2>1. A = B
    BY <1>1, <1>3 DEF Counted
  <2>2. Tally(seq)[field] = Cardinality(A)
    BY <1>3 DEF Tally, CountOf
  <2>3. Amount(seq, Counted(T, field)) = Cardinality(B)
    BY DEF Amount
  <2> HIDE DEF A, B
  <2> QED BY <2>1, <2>2, <2>3, AmountIs
<1>4. CASE field = "failed"
  <2> DEFINE A == {i \in DOMAIN seq : seq[i].status = "failed"}
             B == {i \in DOMAIN seq : seq[i] \in Counted(T, field)}
  <2>1. A = B
    BY <1>1, <1>4 DEF Counted
  <2>2. Tally(seq)[field] = Cardinality(A)
    BY <1>4 DEF Tally, CountOf
  <2>3. Amount(seq, Counted(T, field)) = Cardinality(B)
    BY DEF Amount
  <2> HIDE DEF A, B
  <2> QED BY <2>1, <2>2, <2>3, AmountIs
<1> QED BY <1>2, <1>3, <1>4 DEF Field

\* Of the chosen jobs, a tally counts those of the list that are chosen.
LEMMA TallyOfChosen ==
    ASSUME NEW T, NEW seq \in Seq(T), NEW field \in Field, NEW X
    PROVE  /\ Tally(Chosen(seq, X))[field] = Amount(seq, X \cap Counted(T, field))
           /\ Tally(Chosen(seq, X))[field] \in Nat
<1>1. Chosen(seq, X) \in Seq(T)
  BY AmountOfChosen
<1>2. /\ Tally(Chosen(seq, X))[field] = Amount(Chosen(seq, X), Counted(T, field))
      /\ Tally(Chosen(seq, X))[field] \in Nat
  BY <1>1, TallyIs
<1>3. Amount(Chosen(seq, X), Counted(T, field)) = Amount(seq, X \cap Counted(T, field))
  BY AmountOfChosen
<1> QED BY <1>2, <1>3

\* The days' tallies add up to the whole one if no job is of another day.
LEMMA DaysAddUp ==
    ASSUME NEW T, NEW ended \in Seq(T), NEW field \in Field,
           NEW now, NEW days \in Nat, Day(now) \in Int,
           \A j \in T : Day(j.created) \in (Day(now) - days + 1)..Day(now)
    PROVE  SumOf(Each(DailySeries(ended, now, days), LAMBDA d : d[field]))
                = Tally(ended)[field]
<1> DEFINE C == Counted(T, field)
           X(i) == OnDay(T, Day(now) - days + i)
           numbers == [i \in 1..days |-> Tally(Chosen(ended, X(i)))[field]]
           part == [i \in 1..days |-> X(i) \cap C]
<1>1. ASSUME NEW i \in 1..days
      PROVE  Selected(ended, LAMBDA j : Day(j.created) = Day(now) - days + i)
                = Chosen(ended, X(i))
  <2>1. {k \in DOMAIN ended : Day(ended[k].created) = Day(now) - days + i}
            = {k \in DOMAIN ended : ended[k] \in X(i)}
    BY DEF OnDay
  <2> QED BY Zenon, <2>1 DEF Selected, Chosen
<1>2. Each(DailySeries(ended, now, days), LAMBDA d : d[field]) = numbers
  <2>1. DailySeries(ended, now, days) = [i \in 1..days |-> Tally(Chosen(ended, X(i)))]
    BY Zenon, <1>1 DEF DailySeries
  <2> QED BY <2>1 DEF Each
<1>3. \A i \in 1..days : /\ numbers[i] = Amount(ended, part[i])
                         /\ numbers[i] \in Int
  <2> SUFFICES ASSUME NEW i \in 1..days
               PROVE  numbers[i] = Amount(ended, part[i]) /\ numbers[i] \in Int
    OBVIOUS
  <2> DEFINE Y == X(i)
  <2> HIDE DEF Y
  <2>1. /\ Tally(Chosen(ended, Y))[field] = Amount(ended, Y \cap Counted(T, field))
        /\ Tally(Chosen(ended, Y))[field] \in Nat
    BY TallyOfChosen
  <2> QED BY <2>1 DEF Y
<1>4. numbers \in Seq(Int) /\ Len(numbers) = days
  <2>1. numbers \in [1..days -> Int]
    BY <1>3
  <2> HIDE DEF numbers
  <2> QED BY <2>1
<1>5. \A i, j \in 1..days : i # j => part[i] \cap part[j] = {}
  BY DEF OnDay
<1>6. Together(part, days) = C
  <2>1. \A j \in C : j \in part[Day(j.created) - Day(now) + days]
                        /\ Day(j.created) - Day(now) + days \in 1..days
    <3> SUFFICES ASSUME NEW j \in C
                 PROVE  j \in part[Day(j.created) - Day(now) + days]
                            /\ Day(j.created) - Day(now) + days \in 1..days
      OBVIOUS
    <3> DEFINE i == Day(j.created) - Day(now) + days
    <3>1. j \in T
      BY DEF Counted
    <3>2. i \in 1..days /\ Day(now) - days + i = Day(j.created)
      BY <3>1
    <3> HIDE DEF i
    <3>3. j \in X(i)
      BY <3>1, <3>2 DEF OnDay
    <3> QED BY <3>2, <3>3 DEF i
  <2>2. \A i \in 1..days : part[i] \subseteq C
    OBVIOUS
  <2> HIDE DEF part
  <2> QED BY <2>1, <2>2 DEF Together
<1> HIDE DEF numbers, part
<1>7. SumOf(numbers) = Amount(ended, Together(part, Len(numbers)))
  <2>1. /\ \A i \in 1..Len(numbers) : numbers[i] = Amount(ended, part[i])
        /\ \A i, j \in 1..Len(numbers) : i # j => part[i] \cap part[j] = {}
    BY <1>3, <1>4, <1>5
  <2> QED BY <1>4, <2>1, SumOfParts
<1>8. SumOf(numbers) = Amount(ended, C)
  BY Zenon, <1>4, <1>6, <1>7
<1>9. Tally(ended)[field] = Amount(ended, C)
  BY TallyIs
<1> QED BY Zenon, <1>2, <1>8, <1>9

-----------------------------------------------------------------------------
\* The jobs that have ended, and those of a package.
EndedOf(T) == {j \in T : j.status \in Terminal}
PackageOf(T, p) == {j \in T : j.package = p}

\* The ended jobs, and those of them of a package, are chosen from the list.
LEMMA EndedIs ==
    ASSUME NEW T, NEW jobs \in Seq(T)
    PROVE  /\ Ended(jobs) = Chosen(jobs, EndedOf(T))
           /\ Ended(jobs) \in Seq(T)
           /\ Range(Ended(jobs)) = Range(jobs) \cap EndedOf(T)
           /\ IsFiniteSet(Range(Ended(jobs)))
           /\ \A p : Selected(Ended(jobs), LAMBDA j : j.package = p)
                        = Chosen(Ended(jobs), PackageOf(T, p))
<1>1. Ended(jobs) = Chosen(jobs, EndedOf(T))
  <2>1. {k \in DOMAIN jobs : jobs[k].status \in Terminal}
            = {k \in DOMAIN jobs : jobs[k] \in EndedOf(T)}
    BY DEF EndedOf
  <2> QED BY Zenon, <2>1 DEF Ended, Selected, Chosen
<1>2. Ended(jobs) \in Seq(T) /\ Range(Ended(jobs)) = Range(jobs) \cap EndedOf(T)
  BY <1>1, AmountOfChosen
<1> DEFINE ended == Ended(jobs)
<1> HIDE DEF ended
<1>3. ASSUME NEW p
      PROVE  Selected(ended, LAMBDA j : j.package = p)
                = Chosen(ended, PackageOf(T, p))
  <2>1. {k \in DOMAIN ended : ended[k].package = p}
            = {k \in DOMAIN ended : ended[k] \in PackageOf(T, p)}
    BY <1>2 DEF PackageOf, ended
  <2> QED BY Zenon, <2>1 DEF Selected, Chosen
<1>4. IsFiniteSet(Range(ended))
  <2>1. DOMAIN ended = 1..Len(ended) /\ Len(ended) \in Nat
    BY <1>2 DEF ended
  <2>2. IsFiniteSet(DOMAIN ended)
    BY <2>1, FS_Interval
  <2>3. ended \in Surjection(DOMAIN ended, Range(ended))
    <3>1. ended = [i \in DOMAIN ended |-> ended[i]]
      BY <1>2 DEF ended
    <3> QED BY <3>1 DEF Surjection, Range
  <2> QED BY <2>2, <2>3, FS_Surjection
<1> QED BY Zenon, <1>1, <1>2, <1>3, <1>4 DEF ended

\* The list has one entry for each package of some ended jobs, of its own ones.
EachPackage(T, ended, list) ==
    LET Its(p) == Chosen(ended, PackageOf(T, p)) IN
    /\ IsList(list)
    /\ \A k \in DOMAIN list :
          /\ list[k].tally = Tally(Its(list[k].package))
          /\ list[k].p95 =
                Percentile(Ascending(Durations(Its(list[k].package))), 95)
    /\ \A k, l \in DOMAIN list : list[k].package = list[l].package => k = l
    /\ \A j \in Range(ended) :
            \E k \in DOMAIN list : list[k].package = j.package

\* So has the list of the packages' statistics.
LEMMA PackageEntries ==
    ASSUME NEW T, NEW jobs \in Seq(T)
    PROVE  EachPackage(T, Ended(jobs), PerPackageStats(jobs))
<1> DEFINE Of(p) == Selected(Ended(jobs), LAMBDA j : j.package = p)
           Its(p) == Chosen(Ended(jobs), PackageOf(T, p))
           Entry(p) == [package |-> p, tally |-> Tally(Of(p)),
                mean |-> Mean(Ascending(Durations(Of(p)))),
                p95 |-> Percentile(Ascending(Durations(Of(p))), 95)]
           E == {Entry(j.package) : j \in Range(Ended(jobs))}
           key == [e \in E |-> e.tally.total]
           list == PerPackageStats(jobs)
<1>1. list = Sorted(SetToSeq(E), LAMBDA e, f : e.tally.total > f.tally.total)
  BY Zenon DEF PerPackageStats
<1>2. \A p : /\ Entry(p).package = p
             /\ Entry(p).tally = Tally(Its(p))
             /\ Entry(p).p95 = Percentile(Ascending(Durations(Its(p))), 95)
  <2> SUFFICES ASSUME NEW p
               PROVE  /\ Entry(p).package = p
                      /\ Entry(p).tally = Tally(Its(p))
                      /\ Entry(p).p95 = Percentile(Ascending(Durations(Its(p))), 95)
    BY Zenon
  <2>1. Of(p) = Its(p)
    BY Zenon, EndedIs
  <2> HIDE DEF Of, Its
  <2>2. /\ Entry(p).package = p
        /\ Entry(p).tally = Tally(Of(p))
        /\ Entry(p).p95 = Percentile(Ascending(Durations(Of(p))), 95)
    OBVIOUS
  <2> QED BY Zenon, <2>1, <2>2
<1> HIDE DEF Entry, Its
<1>3. IsFiniteSet(E)
  <2> DEFINE f == [j \in Range(Ended(jobs)) |-> Entry(j.package)]
  <2>1. f \in Surjection(Range(Ended(jobs)), E)
    BY DEF Surjection
  <2> QED BY <2>1, EndedIs, FS_Surjection
<1>4. key \in [E -> Int]
  <2>1. \A e \in E : e.tally.total \in Int
    <3> SUFFICES ASSUME NEW p
                 PROVE  Entry(p).tally.total \in Int
      OBVIOUS
    <3>1. Ended(jobs) \in Seq(T)
      BY EndedIs
    <3>2. "total" \in Field
      BY DEF Field
    <3>3. Tally(Its(p))["total"] \in Nat
      BY <3>1, <3>2, TallyOfChosen DEF Its
    <3>4. Entry(p).tally = Tally(Its(p))
      BY <1>2
    <3> QED BY <3>3, <3>4
  <2> QED BY <2>1
<1>5. list = Descending(E, key)
  <2> DEFINE f == SetToSeq(E)
             D == DOMAIN f
  <2>6. Counts(f, E) /\ D = 1..Cardinality(E)
    BY <1>3, ListOfSet
  <2>1. \A i \in D : f[i] \in E
    <3> HIDE DEF f, E
    <3> QED BY <2>6 DEF Counts
  <2>2. \A i \in D : key[f[i]] = f[i].tally.total
    BY <2>1
  <2> HIDE DEF E, key, f
  <2>3. {p \in D \X D :
            \/ f[p[1]].tally.total > f[p[2]].tally.total
            \/ p[1] < p[2] /\ ~(f[p[2]].tally.total > f[p[1]].tally.total)}
        = {p \in D \X D : \/ key[f[p[1]]] > key[f[p[2]]]
                          \/ p[1] < p[2] /\ ~(key[f[p[2]]] > key[f[p[1]]])}
    BY <2>2
  <2>4. SortedPlaces(f, LAMBDA e, g : e.tally.total > g.tally.total)
            = SortedPlaces(f, LAMBDA x, y : key[x] > key[y])
    BY Zenon, <2>3 DEF SortedPlaces
  <2>5. Sorted(f, LAMBDA e, g : e.tally.total > g.tally.total)
            = Sorted(f, LAMBDA x, y : key[x] > key[y])
    BY Zenon, <2>4 DEF Sorted
  <2> QED BY Zenon, <1>1, <2>5 DEF Descending, f
<1> HIDE DEF key
<1>6. Counts(list, E) /\ DOMAIN list = 1..Cardinality(E)
  BY <1>3, <1>4, <1>5, DescendingIs
<1> HIDE DEF list
<1>7. \A k \in DOMAIN list : \E j \in Range(Ended(jobs)) : list[k] = Entry(j.package)
  <2>1. \A k \in DOMAIN list : list[k] \in E
    BY <1>6 DEF Counts
  <2> QED BY <2>1
<1>8. IsList(list)
  <2>1. list \in Seq(E)
    <3> HIDE DEF E
    <3> QED BY <1>6 DEF Counts
  <2> QED BY <2>1, ListIs
<1>9. \A k \in DOMAIN list :
            /\ list[k].tally = Tally(Its(list[k].package))
            /\ list[k].p95 = Percentile(
                    Ascending(Durations(Its(list[k].package))), 95)
  <2> SUFFICES ASSUME NEW k \in DOMAIN list
               PROVE  /\ list[k].tally = Tally(Its(list[k].package))
                      /\ list[k].p95 = Percentile(
                            Ascending(Durations(Its(list[k].package))), 95)
    BY Zenon
  <2>1. PICK p : list[k] = Entry(p)
    BY <1>7
  <2>2. list[k].package = p
    BY <1>2, <2>1
  <2> QED BY Zenon, <1>2, <2>1, <2>2
<1>10. \A k, l \in DOMAIN list : list[k].package = list[l].package => k = l
  <2> SUFFICES ASSUME NEW k \in DOMAIN list, NEW l \in DOMAIN list,
                      list[k].package = list[l].package
               PROVE  k = l
    OBVIOUS
  <2>1. list[k] = list[l]
    BY <1>2, <1>7
  <2> QED BY <1>6, <2>1 DEF Counts
<1>11. \A j \in Range(Ended(jobs)) : \E k \in DOMAIN list : list[k].package = j.package
  <2> SUFFICES ASSUME NEW j \in Range(Ended(jobs))
               PROVE  \E k \in DOMAIN list : list[k].package = j.package
    OBVIOUS
  <2>1. Entry(j.package) \in E
    OBVIOUS
  <2>2. \E k \in DOMAIN list : list[k] = Entry(j.package)
    BY <1>6, <2>1 DEF Counts
  <2> QED BY <1>2, <2>2
<1> QED BY Zenon, <1>8, <1>9, <1>10, <1>11 DEF EachPackage, list, Its

\* The packages' tallies add up to the whole one.
LEMMA PackagesAddUp ==
    ASSUME NEW T, NEW jobs \in Seq(T), NEW field \in Field
    PROVE  SumOf(Each(PerPackageStats(jobs), LAMBDA e : e.tally[field]))
                = Tally(Ended(jobs))[field]
<1> DEFINE list == PerPackageStats(jobs)
           ended == Ended(jobs)
           C == Counted(T, field)
           numbers == [k \in DOMAIN list |-> list[k].tally[field]]
           part == [k \in DOMAIN list |-> PackageOf(T, list[k].package) \cap C]
<1>1. ended \in Seq(T)
  BY EndedIs
<1>2. /\ IsList(list)
      /\ \A k \in DOMAIN list :
            list[k].tally = Tally(Chosen(ended, PackageOf(T, list[k].package)))
      /\ \A k, l \in DOMAIN list : list[k].package = list[l].package => k = l
      /\ \A j \in Range(ended) : \E k \in DOMAIN list : list[k].package = j.package
  <2>1. EachPackage(T, ended, list)
    BY PackageEntries
  <2> HIDE DEF ended, list
  <2> QED BY <2>1 DEF EachPackage
<1>3. Each(list, LAMBDA e : e.tally[field]) = numbers
  BY DEF Each
<1> HIDE DEF ended, list
<1>4. DOMAIN list = 1..Len(list) /\ Len(list) \in Nat
  BY <1>2, ListIs DEF IsList
<1>5. \A k \in DOMAIN list : /\ numbers[k] = Amount(ended, part[k])
                              /\ numbers[k] \in Int
  <2> SUFFICES ASSUME NEW k \in DOMAIN list
               PROVE  numbers[k] = Amount(ended, part[k]) /\ numbers[k] \in Int
    OBVIOUS
  <2> DEFINE X == PackageOf(T, list[k].package)
  <2>1. list[k].tally = Tally(Chosen(ended, X))
    BY <1>2
  <2> HIDE DEF X
  <2>2. /\ Tally(Chosen(ended, X))[field] = Amount(ended, X \cap C)
        /\ Tally(Chosen(ended, X))[field] \in Nat
    BY <1>1, TallyOfChosen
  <2> QED BY <2>1, <2>2 DEF X
<1>6. \A k, l \in DOMAIN list : k # l => part[k] \cap part[l] = {}
  BY <1>2 DEF PackageOf
<1>7. \A k \in DOMAIN list : \A j : j \in part[k] <=>
            j \in C /\ j \in T /\ j.package = list[k].package
  BY DEF PackageOf
<1>8. numbers \in [1..Len(list) -> Int]
  BY <1>4, <1>5
<1> HIDE DEF numbers, part
<1>9. numbers \in Seq(Int) /\ Len(numbers) = Len(list)
  BY <1>4, <1>8
<1>10. SumOf(numbers) = Amount(ended, Together(part, Len(numbers)))
  <2>1. /\ \A i \in 1..Len(numbers) : numbers[i] = Amount(ended, part[i])
        /\ \A i, j \in 1..Len(numbers) : i # j => part[i] \cap part[j] = {}
    BY <1>4, <1>5, <1>6, <1>9
  <2> QED BY <1>1, <1>9, <2>1, SumOfParts
<1>11. Amount(ended, Together(part, Len(numbers))) = Amount(ended, C)
  <2>1. ASSUME NEW i \in DOMAIN ended
        PROVE  ended[i] \in Together(part, Len(numbers)) <=> ended[i] \in C
    <3>1. ended[i] \in T /\ ended[i] \in Range(ended)
      BY <1>1 DEF Range
    <3>2. PICK k \in DOMAIN list : list[k].package = ended[i].package
      BY <1>2, <3>1
    <3>3. k \in 1..Len(numbers)
      BY <1>4, <1>9
    <3>4. ended[i] \in C => ended[i] \in part[k]
      BY <1>7, <3>1, <3>2
    <3>5. \A l \in 1..Len(numbers) : ended[i] \in part[l] => ended[i] \in C
      BY <1>4, <1>7, <1>9
    <3> QED BY <3>3, <3>4, <3>5 DEF Together
  <2>2. {i \in DOMAIN ended : ended[i] \in Together(part, Len(numbers))}
            = {i \in DOMAIN ended : ended[i] \in C}
    BY <2>1
  <2> QED BY Zenon, <2>2 DEF Amount
<1>12. Tally(ended)[field] = Amount(ended, C)
  BY <1>1, TallyIs
<1> QED BY Zenon, <1>3, <1>10, <1>11, <1>12 DEF ended, list

-----------------------------------------------------------------------------
\* _providers: where the downloads that succeeded came from, if that is known.
Hits(jobs) == Selected(Each(Selected(jobs, LAMBDA j : j.status = "succeeded"),
                            HitProvider),
                       LAMBDA p : p # None)

\* The successes whose provider is not known.
Unknown(T) == {j \in T : j.status = "succeeded" /\ HitProvider(j) = None}

\* The known providers are those of the jobs that succeeded, but for the unknown.
LEMMA HitsAre ==
    ASSUME NEW T, NEW jobs \in Seq(T)
    PROVE  /\ IsList(Hits(jobs))
           /\ Len(Hits(jobs)) \in Nat
           /\ Len(Hits(jobs)) + Amount(jobs, Unknown(T))
                    = Amount(jobs, Counted(T, "succeeded"))
<1> DEFINE succ == Chosen(jobs, Counted(T, "succeeded"))
           U == {HitProvider(j) : j \in T}
           all == Each(succ, HitProvider)
           known == {j \in T : HitProvider(j) # None}
<1>1. Selected(jobs, LAMBDA j : j.status = "succeeded") = succ
  <2>1. {k \in DOMAIN jobs : jobs[k].status = "succeeded"}
            = {k \in DOMAIN jobs : jobs[k] \in Counted(T, "succeeded")}
    BY DEF Counted
  <2> QED BY Zenon, <2>1 DEF Selected, Chosen
<1>2. succ \in Seq(T)
  BY AmountOfChosen
<1>3. Amount(succ, known) = Amount(jobs, Counted(T, "succeeded") \cap known)
  BY AmountOfChosen
<1> HIDE DEF succ
<1>4. all = [k \in DOMAIN succ |-> HitProvider(succ[k])]
  BY Zenon DEF Each
<1>5. all \in Seq(U) /\ DOMAIN all = DOMAIN succ
  <2>1. \A k \in DOMAIN succ : HitProvider(succ[k]) \in U
    BY <1>2
  <2> HIDE DEF U
  <2>2. DOMAIN succ = 1..Len(succ) /\ Len(succ) \in Nat
    BY <1>2
  <2>3. [k \in DOMAIN succ |-> HitProvider(succ[k])] \in [1..Len(succ) -> U]
    BY <2>1, <2>2
  <2>4. all \in [1..Len(succ) -> U]
    BY Zenon, <1>4, <2>3
  <2> HIDE DEF all
  <2> QED BY <2>2, <2>4
<1>6. \A k \in DOMAIN succ : all[k] = HitProvider(succ[k])
  BY Zenon, <1>4
<1> HIDE DEF all, U
<1>7. Hits(jobs) = Chosen(all, U \ {None})
  <2>1. {k \in DOMAIN all : all[k] # None}
            = {k \in DOMAIN all : all[k] \in U \ {None}}
    BY <1>5
  <2>2. Hits(jobs) = Selected(all, LAMBDA p : p # None)
    BY Zenon, <1>1 DEF Hits, all
  <2>3. Hits(jobs) = At(all, {k \in DOMAIN all : all[k] # None})
    BY Zenon, <2>2 DEF Selected
  <2> QED BY Zenon, <2>1, <2>3 DEF Chosen
<1>8. /\ Hits(jobs) \in Seq(U)
      /\ Len(Hits(jobs)) = Amount(all, U \ {None})
  BY <1>5, <1>7, AmountOfChosen
<1>9. Amount(all, U \ {None}) = Amount(succ, known)
  <2>1. \A k \in DOMAIN succ : succ[k] \in T /\ all[k] \in U
    BY <1>2, <1>5
  <2>2. {k \in DOMAIN all : all[k] \in U \ {None}}
            = {k \in DOMAIN succ : succ[k] \in known}
    BY <1>5, <1>6, <2>1
  <2> QED BY Zenon, <2>2 DEF Amount
<1>10. Amount(jobs, Counted(T, "succeeded"))
        = Amount(jobs, Counted(T, "succeeded") \cap known) + Amount(jobs, Unknown(T))
  <2> DEFINE A == Counted(T, "succeeded") \cap known
             B == Unknown(T)
  <2>1. A \cap B = {} /\ A \cup B = Counted(T, "succeeded")
    BY DEF Unknown, Counted
  <2> HIDE DEF A, B
  <2>2. Amount(jobs, A \cup B) = Amount(jobs, A) + Amount(jobs, B)
    BY <2>1, AmountOfBoth
  <2> QED BY Zenon, <2>1, <2>2 DEF A, B
<1>11. IsList(Hits(jobs)) /\ Len(Hits(jobs)) \in Nat
  BY <1>8, ListIs
<1> HIDE DEF known
<1> QED BY <1>3, <1>8, <1>9, <1>10, <1>11

\* The list has one entry for each provider of some hits, of its own ones.
EachProvider(hits, list) ==
    /\ IsList(list)
    /\ \A k \in DOMAIN list :
            list[k].successes = Amount(hits, {list[k].provider})
    /\ \A k, l \in DOMAIN list : list[k].provider = list[l].provider => k = l
    /\ \A h \in Range(hits) : \E k \in DOMAIN list : list[k].provider = h

\* So has the list of the providers' statistics.
LEMMA ProviderEntries ==
    ASSUME NEW T, NEW jobs \in Seq(T), \A j \in T : IsList(j.errors)
    PROVE  EachProvider(Hits(jobs), Providers(jobs))
<1> DEFINE hits == Hits(jobs)
           failed == Selected(jobs, LAMBDA j : j.status = "failed")
           misses == UNION {{<<i, k>> : k \in DOMAIN failed[i].errors} :
                            i \in DOMAIN failed}
           Name(m) == Either(failed[m[1]].errors[m[2]].provider, "unknown")
           Error(m) == Either(failed[m[1]].errors[m[2]].error, "UNKNOWN")
           Of(p) == {m \in misses : Name(m) = p}
           Entry(p) == [provider |-> p,
                        successes |-> CountOf(hits, LAMBDA h : h = p),
                        failures |-> Cardinality(Of(p)),
                        errors |-> [c \in {Error(m) : m \in Of(p)} |->
                                Cardinality({m \in Of(p) : Error(m) = c})]]
           names == Range(hits) \cup {Name(m) : m \in misses}
           E == {Entry(p) : p \in names}
           key == [e \in E |-> e.successes + e.failures]
           list == Providers(jobs)
<1>1. list = Sorted(SetToSeq(E),
                LAMBDA e, f : e.successes + e.failures > f.successes + f.failures)
  BY Zenon DEF Providers, Hits
<1>2. IsList(hits) /\ DOMAIN hits = 1..Len(hits) /\ Len(hits) \in Nat
  <2>1. IsList(hits)
    BY HitsAre
  <2> HIDE DEF hits
  <2> QED BY <2>1, ListIs DEF IsList
<1>3. IsFiniteSet(misses)
  <2>1. failed \in Seq(T)
    <3> DEFINE I == {i \in DOMAIN jobs : jobs[i].status = "failed"}
    <3>1. I \in SUBSET DOMAIN jobs /\ failed = At(jobs, I)
      BY Zenon DEF Selected
    <3> HIDE DEF I, failed
    <3> QED BY <3>1, PartOfList
  <2> HIDE DEF failed
  <2>2. DOMAIN failed = 1..Len(failed) /\ Len(failed) \in Nat
    BY <2>1
  <2> DEFINE Row(i) == {<<i, k>> : k \in DOMAIN failed[i].errors}
             rows_ == {Row(i) : i \in DOMAIN failed}
  <2>3. ASSUME NEW i \in DOMAIN failed
        PROVE  IsFiniteSet(Row(i))
    <3> DEFINE errors == failed[i].errors
               f == [k \in DOMAIN errors |-> <<i, k>>]
    <3>1. IsList(errors)
      BY <2>1
    <3> HIDE DEF errors
    <3>2. DOMAIN errors = 1..Len(errors) /\ Len(errors) \in Nat
      BY <3>1, ListIs DEF IsList
    <3>3. IsFiniteSet(DOMAIN errors)
      BY <3>2, FS_Interval
    <3>4. f \in Surjection(DOMAIN errors, {<<i, k>> : k \in DOMAIN errors})
      BY DEF Surjection
    <3> HIDE DEF f
    <3>5. IsFiniteSet({<<i, k>> : k \in DOMAIN errors})
      BY <3>3, <3>4, FS_Surjection
    <3> QED BY <3>5 DEF errors
  <2>4. IsFiniteSet(rows_)
    <3> DEFINE f == [i \in DOMAIN failed |-> Row(i)]
    <3>1. f \in Surjection(DOMAIN failed, rows_)
      BY DEF Surjection
    <3>2. IsFiniteSet(DOMAIN failed)
      BY <2>2, FS_Interval
    <3> HIDE DEF f, rows_
    <3> QED BY <3>1, <3>2, FS_Surjection
  <2>5. \A r \in rows_ : IsFiniteSet(r)
    BY <2>3
  <2> QED BY <2>4, <2>5, FS_UNION
<1> HIDE DEF misses, Name, Error
<1>4. \A p : /\ Entry(p).provider = p
             /\ Entry(p).successes = Amount(hits, {p})
             /\ Entry(p).successes \in Int /\ Entry(p).failures \in Int
  <2> SUFFICES ASSUME NEW p
               PROVE  /\ Entry(p).provider = p
                      /\ Entry(p).successes = Amount(hits, {p})
                      /\ Entry(p).successes \in Int /\ Entry(p).failures \in Int
    BY Zenon
  <2>1. CountOf(hits, LAMBDA h : h = p) = Amount(hits, {p})
    <3>1. {i \in DOMAIN hits : hits[i] = p} = {i \in DOMAIN hits : hits[i] \in {p}}
      OBVIOUS
    <3> QED BY Zenon, <3>1 DEF CountOf, Amount
  <2>2. Amount(hits, {p}) \in Nat
    BY <1>2, AmountIs DEF IsList
  <2>3. Cardinality(Of(p)) \in Nat
    <3>1. Of(p) \subseteq misses
      OBVIOUS
    <3> HIDE DEF Of
    <3>2. IsFiniteSet(Of(p))
      BY <1>3, <3>1, FS_Subset
    <3> QED BY <3>2, FS_CardinalityType
  <2>4. /\ Entry(p).provider = p
        /\ Entry(p).successes = CountOf(hits, LAMBDA h : h = p)
        /\ Entry(p).failures = Cardinality(Of(p))
    BY Zenon
  <2> HIDE DEF Entry, Of, hits
  <2> QED BY <2>1, <2>2, <2>3, <2>4
<1>5. IsFiniteSet(names)
  <2>1. IsFiniteSet(Range(hits))
    <3>1. hits \in Surjection(DOMAIN hits, Range(hits))
      <4>1. hits = [i \in DOMAIN hits |-> hits[i]]
        BY <1>2 DEF IsList
      <4> HIDE DEF hits
      <4> QED BY <4>1 DEF Surjection, Range
    <3>2. IsFiniteSet(DOMAIN hits)
      BY <1>2, FS_Interval
    <3> HIDE DEF hits
    <3> QED BY <3>1, <3>2, FS_Surjection
  <2>2. IsFiniteSet({Name(m) : m \in misses})
    <3> DEFINE f == [m \in misses |-> Name(m)]
    <3>1. f \in Surjection(misses, {Name(m) : m \in misses})
      BY DEF Surjection
    <3> HIDE DEF f
    <3> QED BY <1>3, <3>1, FS_Surjection
  <2> HIDE DEF hits
  <2> QED BY <2>1, <2>2, FS_Union
<1>6. \A h \in Range(hits) : h \in names
  OBVIOUS
<1> HIDE DEF Entry, Of, hits, names
<1>7. IsFiniteSet(E)
  <2> DEFINE f == [p \in names |-> Entry(p)]
  <2>1. f \in Surjection(names, E)
    BY DEF Surjection
  <2> HIDE DEF f, E
  <2> QED BY <1>5, <2>1, FS_Surjection
<1>8. key \in [E -> Int]
  <2>1. \A e \in E : e.successes \in Int /\ e.failures \in Int
    BY <1>4
  <2> HIDE DEF E
  <2> QED BY <2>1
<1>9. list = Descending(E, key)
  <2> DEFINE f == SetToSeq(E)
             D == DOMAIN f
  <2>1. Counts(f, E) /\ D = 1..Cardinality(E)
    BY <1>7, ListOfSet
  <2>2. \A i \in D : f[i] \in E
    <3> HIDE DEF f, E
    <3> QED BY <2>1 DEF Counts
  <2>3. \A i \in D : key[f[i]] = f[i].successes + f[i].failures
    BY <2>2
  <2> HIDE DEF E, key, f
  <2>4. {p \in D \X D :
            \/ f[p[1]].successes + f[p[1]].failures
                    > f[p[2]].successes + f[p[2]].failures
            \/ /\ p[1] < p[2]
               /\ ~(f[p[2]].successes + f[p[2]].failures
                        > f[p[1]].successes + f[p[1]].failures)}
        = {p \in D \X D : \/ key[f[p[1]]] > key[f[p[2]]]
                          \/ p[1] < p[2] /\ ~(key[f[p[2]]] > key[f[p[1]]])}
    BY <2>3
  <2>5. SortedPlaces(f, LAMBDA e, g :
                e.successes + e.failures > g.successes + g.failures)
            = SortedPlaces(f, LAMBDA x, y : key[x] > key[y])
    BY Zenon, <2>4 DEF SortedPlaces
  <2>6. Sorted(f, LAMBDA e, g :
                e.successes + e.failures > g.successes + g.failures)
            = Sorted(f, LAMBDA x, y : key[x] > key[y])
    BY Zenon, <2>5 DEF Sorted
  <2> QED BY Zenon, <1>1, <2>6 DEF Descending, f
<1> HIDE DEF key
<1>10. Counts(list, E) /\ DOMAIN list = 1..Cardinality(E)
  BY <1>7, <1>8, <1>9, DescendingIs
<1> HIDE DEF list
<1>11. list \in [DOMAIN list -> E] /\ list \in Seq(E)
  <2> HIDE DEF E
  <2> QED BY <1>10 DEF Counts
<1>12. IsList(list)
  BY <1>11, ListIs
<1>13. \A k \in DOMAIN list : \E p : list[k] = Entry(p)
  BY <1>11
<1>14. \A k \in DOMAIN list : list[k].successes = Amount(hits, {list[k].provider})
  <2> SUFFICES ASSUME NEW k \in DOMAIN list
               PROVE  list[k].successes = Amount(hits, {list[k].provider})
    OBVIOUS
  <2>1. PICK p : list[k] = Entry(p)
    BY <1>13
  <2>2. list[k].provider = p
    BY <1>4, <2>1
  <2> QED BY Zenon, <1>4, <2>1, <2>2
<1>15. \A k, l \in DOMAIN list : list[k].provider = list[l].provider => k = l
  <2> SUFFICES ASSUME NEW k \in DOMAIN list, NEW l \in DOMAIN list,
                      list[k].provider = list[l].provider
               PROVE  k = l
    OBVIOUS
  <2>1. list[k] = list[l]
    BY <1>4, <1>13
  <2> QED BY <1>10, <2>1 DEF Counts
<1>16. \A h \in Range(hits) : \E k \in DOMAIN list : list[k].provider = h
  <2> SUFFICES ASSUME NEW h \in Range(hits)
               PROVE  \E k \in DOMAIN list : list[k].provider = h
    OBVIOUS
  <2>1. Entry(h) \in E
    BY <1>6
  <2>2. \E k \in DOMAIN list : list[k] = Entry(h)
    BY <1>10, <2>1 DEF Counts
  <2> QED BY <1>4, <2>2
<1> QED BY Zenon, <1>12, <1>14, <1>15, <1>16 DEF EachProvider, list, hits

\* The providers' successes are those of the jobs whose provider is known.
LEMMA ProvidersAddUp ==
    ASSUME NEW T, NEW jobs \in Seq(T), \A j \in T : IsList(j.errors)
    PROVE  SumOf(Each(Providers(jobs), LAMBDA e : e.successes)) = Len(Hits(jobs))
<1> DEFINE list == Providers(jobs)
           hits == Hits(jobs)
           numbers == [k \in DOMAIN list |-> list[k].successes]
           part == [k \in DOMAIN list |-> {list[k].provider}]
           U == Range(hits)
<1>1. EachProvider(hits, list)
  BY ProviderEntries
<1>2. hits \in Seq(U)
  BY HitsAre DEF IsList
<1>3. Each(list, LAMBDA e : e.successes) = numbers
  BY DEF Each
<1> HIDE DEF hits, list
<1>4. DOMAIN list = 1..Len(list) /\ Len(list) \in Nat
  BY <1>1, ListIs DEF IsList, EachProvider
<1>5. \A k \in DOMAIN list : /\ numbers[k] = Amount(hits, part[k])
                              /\ numbers[k] \in Int
  <2> SUFFICES ASSUME NEW k \in DOMAIN list
               PROVE  numbers[k] = Amount(hits, part[k]) /\ numbers[k] \in Int
    OBVIOUS
  <2>1. numbers[k] = Amount(hits, part[k])
    BY <1>1 DEF EachProvider
  <2>2. Amount(hits, part[k]) \in Nat
    <3> HIDE DEF part
    <3> QED BY <1>2, AmountIs
  <2> QED BY <2>1, <2>2
<1>6. \A k, l \in DOMAIN list : k # l => part[k] \cap part[l] = {}
  BY <1>1 DEF EachProvider
<1>7. \A h \in U : \E k \in DOMAIN list : h \in part[k]
  BY <1>1 DEF EachProvider
<1>8. numbers \in [1..Len(list) -> Int]
  BY <1>4, <1>5
<1> HIDE DEF numbers, part
<1>9. numbers \in Seq(Int) /\ Len(numbers) = Len(list)
  BY <1>4, <1>8
<1>10. SumOf(numbers) = Amount(hits, Together(part, Len(numbers)))
  <2>1. /\ \A i \in 1..Len(numbers) : numbers[i] = Amount(hits, part[i])
        /\ \A i, j \in 1..Len(numbers) : i # j => part[i] \cap part[j] = {}
    BY <1>4, <1>5, <1>6, <1>9
  <2> HIDE DEF U
  <2> QED BY <1>2, <1>9, <2>1, SumOfParts
<1>11. Amount(hits, Together(part, Len(numbers))) = Amount(hits, U)
  <2>1. ASSUME NEW i \in DOMAIN hits
        PROVE  hits[i] \in Together(part, Len(numbers)) /\ hits[i] \in U
    <3>1. hits[i] \in U
      BY <1>2
    <3>2. PICK k \in DOMAIN list : hits[i] \in part[k]
      BY <1>7, <3>1
    <3>3. k \in 1..Len(numbers)
      BY <1>4, <1>9
    <3> QED BY <3>1, <3>2, <3>3 DEF Together
  <2>2. {i \in DOMAIN hits : hits[i] \in Together(part, Len(numbers))}
            = {i \in DOMAIN hits : hits[i] \in U}
    BY <2>1
  <2> QED BY Zenon, <2>2 DEF Amount
<1>12. Amount(hits, U) = Len(hits)
  <2> HIDE DEF U
  <2> QED BY <1>2, AmountOfAll
<1> QED BY Zenon, <1>3, <1>10, <1>11, <1>12 DEF hits, list

-----------------------------------------------------------------------------
\* _tasks: the first of the jobs of a status, in some order.
Board(found, R, limit) ==
    LET place == Enumerated(DOMAIN found, R)
        sorted == [k \in DOMAIN place |-> found[place[k]]]
    IN SubSeq(sorted, 1, IF Len(sorted) < limit THEN Len(sorted) ELSE limit)

\* The board shows as many of them as there are, up to the limit.
LEMMA BoardLength ==
    ASSUME NEW T, NEW found \in Seq(T), NEW R, NEW limit \in Nat
    PROVE  /\ IsList(Board(found, R, limit))
           /\ Len(Board(found, R, limit)) = Min({Len(found), limit})
<1> DEFINE place == Enumerated(DOMAIN found, R)
           sorted == [k \in DOMAIN place |-> found[place[k]]]
           n == Len(found)
           m == IF n < limit THEN n ELSE limit
           S == {sorted[k] : k \in 1..n}
<1>1. DOMAIN found = 1..n /\ n \in Nat /\ m \in Nat /\ m <= n
  OBVIOUS
<1>2. DOMAIN place = 1..n
  <2> HIDE DEF n
  <2>1. Cardinality(1..n) = n
    BY <1>1, FS_Interval
  <2>2. Cardinality(DOMAIN found) = n
    BY Zenon, <1>1, <2>1
  <2>3. DOMAIN place = 1..Cardinality(DOMAIN found)
    BY DEF Enumerated
  <2> QED BY Zenon, <2>2, <2>3
<1>3. DOMAIN sorted = 1..n
  BY <1>2
<1> HIDE DEF place
<1>4. sorted \in [1..n -> S]
  BY <1>2
<1> HIDE DEF sorted, S
<1>5. sorted \in Seq(S) /\ Len(sorted) = n
  BY <1>1, <1>4
<1>6. Board(found, R, limit) = SubSeq(sorted, 1, m)
  BY Zenon, <1>5 DEF Board, sorted, place
<1> HIDE DEF n, m
<1>7. SubSeq(sorted, 1, m) \in Seq(S) /\ Len(SubSeq(sorted, 1, m)) = m
  BY <1>1, <1>5
<1>8. Min({n, limit}) = m
  <2>1. Min({n, limit}) \in {n, limit} /\ \A y \in {n, limit} : Min({n, limit}) <= y
    <3>1. \E x \in {n, limit} : \A y \in {n, limit} : x <= y
      BY <1>1
    <3> QED BY <3>1 DEF Min
  <2> QED BY <1>1, <2>1 DEF m
<1> QED BY <1>6, <1>7, <1>8, ListIs DEF n

\* The snapshot's four boards.
LEMMA BoardsShow ==
    ASSUME NEW T, NEW jobs \in Seq(T), NEW now
    PROVE  LET board == Tasks(jobs, now)
               All(status) == CountOf(jobs, LAMBDA j : j.status = status)
           IN /\ Len(board.running) = Min({All("running"), ActiveLimit})
              /\ Len(board.queued) = Min({All("queued"), ActiveLimit})
              /\ Len(board.failed) = Min({All("failed"), RecentLimit})
              /\ Len(board.succeeded) = Min({All("succeeded"), RecentLimit})
<1> DEFINE Listed(status) == Selected(jobs, LAMBDA j : j.status = status)
           All(status) == CountOf(jobs, LAMBDA j : j.status = status)
           View(list) == Each(list, LAMBDA j : JobView(j, now))
<1>1. ActiveLimit \in Nat /\ RecentLimit \in Nat
  BY SnapshotsAssumption
<1>2. ASSUME NEW status
      PROVE  Listed(status) \in Seq(T) /\ Len(Listed(status)) = All(status)
  <2> DEFINE X == {j \in T : j.status = status}
  <2>1. {i \in DOMAIN jobs : jobs[i].status = status} = {i \in DOMAIN jobs : jobs[i] \in X}
    OBVIOUS
  <2>2. Listed(status) = Chosen(jobs, X)
    BY Zenon, <2>1 DEF Selected, Chosen
  <2>3. All(status) = Amount(jobs, X)
    BY Zenon, <2>1 DEF CountOf, Amount
  <2> HIDE DEF X, Listed, All
  <2> QED BY <2>2, <2>3, AmountOfChosen
<1> HIDE DEF Listed, All
<1>3. ASSUME NEW status, NEW R, NEW limit \in Nat
      PROVE  Len(View(Board(Listed(status), R, limit))) = Min({All(status), limit})
  <2> DEFINE shown == Board(Listed(status), R, limit)
  <2>1. IsList(shown) /\ Len(shown) = Min({All(status), limit})
    <3>1. Listed(status) \in Seq(T) /\ Len(Listed(status)) = All(status)
      BY <1>2
    <3> QED BY <3>1, BoardLength
  <2>2. View(shown) = [i \in DOMAIN shown |-> JobView(shown[i], now)]
    BY Zenon DEF Each
  <2> HIDE DEF shown
  <2>3. shown \in Seq(Range(shown))
    BY <2>1 DEF IsList
  <2>4. DOMAIN shown = 1..Len(shown) /\ Len(shown) \in Nat
    BY <2>3
  <2>5. Len([i \in DOMAIN shown |-> JobView(shown[i], now)]) = Len(shown)
    BY <2>4
  <2>6. Len(View(shown)) = Len(shown)
    BY Zenon, <2>2, <2>5
  <2> HIDE DEF View
  <2> QED BY Zenon, <2>1, <2>6 DEF shown
<1> DEFINE R(found, Before(_, _)) == {p \in (DOMAIN found) \X (DOMAIN found) :
            \/ Before(found[p[1]], found[p[2]])
            \/ p[1] < p[2] /\ ~Before(found[p[2]], found[p[1]])}
           R1 == R(Listed("running"), LAMBDA j, k : j.started < k.started)
           R2 == R(Listed("queued"), LAMBDA j, k : j.created < k.created)
           R3 == R(Listed("failed"), LastFinished)
           R4 == R(Listed("succeeded"), LastFinished)
<1>4. Tasks(jobs, now) =
        [running   |-> View(Board(Listed("running"), R1, ActiveLimit)),
         queued    |-> View(Board(Listed("queued"), R2, ActiveLimit)),
         failed    |-> View(Board(Listed("failed"), R3, RecentLimit)),
         succeeded |-> View(Board(Listed("succeeded"), R4, RecentLimit))]
  BY Zenon DEF Tasks, Query, Board, Sorted, SortedPlaces, Listed
<1> DEFINE board == Tasks(jobs, now)
<1> HIDE DEF View, R1, R2, R3, R4
<1>5. /\ Len(board.running) = Min({All("running"), ActiveLimit})
      /\ Len(board.queued) = Min({All("queued"), ActiveLimit})
      /\ Len(board.failed) = Min({All("failed"), RecentLimit})
      /\ Len(board.succeeded) = Min({All("succeeded"), RecentLimit})
  BY <1>1, <1>3, <1>4
<1> QED BY Zenon, <1>5 DEF All

-----------------------------------------------------------------------------
\* Products.
LEMMA ProductsRise ==
    ASSUME NEW a \in Int, NEW b \in Int, NEW d \in Nat, a <= b
    PROVE  d * a <= d * b
<1>1. PICK k \in Nat : b = a + k
  <2>1. b - a \in Nat /\ b = a + (b - a)
    OBVIOUS
  <2> QED BY <2>1
<1>2. d * k \in Nat
  OBVIOUS
<1>3. d * b = d * a + d * k
  BY <1>1
<1> QED BY <1>2, <1>3

\* A time after the start of a day is of that day or a later one.
LEMMA DayFrom ==
    ASSUME NEW day \in Int, NEW time \in Int, time >= day * DaySeconds
    PROVE  Day(time) \in Int /\ Day(time) >= day
<1> DEFINE d == Day(time)
           r == time % DaySeconds
<1>1. DaySeconds \in Nat \ {0}
  BY SnapshotsAssumption
<1>2. d \in Int /\ r \in 0..(DaySeconds - 1) /\ time = DaySeconds * d + r
  BY <1>1 DEF Day
<1> HIDE DEF d, r
<1>3. ASSUME ~(d >= day)
      PROVE  FALSE
  <2>1. d <= day - 1 /\ day - 1 \in Int
    BY <1>2, <1>3
  <2>2. DaySeconds * d <= DaySeconds * (day - 1)
    BY <1>1, <1>2, <2>1, ProductsRise
  <2>3. DaySeconds * (day - 1) = day * DaySeconds - DaySeconds
    BY <1>1
  <2> QED BY <1>1, <1>2, <2>2, <2>3
<1> QED BY <1>2, <1>3 DEF d

\* What a snapshot is of.
SnapshotIs(s, T) ==
    /\ s.jobs \in Seq(T) /\ s.now \in Int /\ s.days \in Nat \ {0}
    /\ \A job \in T :
        /\ job.status \in Status
        /\ IsList(job.errors)
        /\ job.created \in Int /\ Day(job.created) <= Day(s.now)
        /\ job.started \in Int \cup {None}
        /\ job.finished \in Int \cup {None}

\* The jobs of the window.
Recent(s, T) == {j \in T : j.created >= Cutoff(s.now, s.days)}
Window(s) == WindowJobs(s.jobs, s.now, s.days)

\* The window is chosen from the jobs, and all of it is of the last days.
LEMMA WindowIs ==
    ASSUME NEW s, NEW T, SnapshotIs(s, T)
    PROVE  /\ Window(s) = Chosen(s.jobs, Recent(s, T))
           /\ Window(s) \in Seq(Recent(s, T))
           /\ Day(s.now) \in Int
           /\ \A j \in Recent(s, T) :
                 Day(j.created) \in (Day(s.now) - s.days + 1)..Day(s.now)
<1> DEFINE c == Cutoff(s.now, s.days)
           R == Recent(s, T)
<1>1. {k \in DOMAIN s.jobs : s.jobs[k].created >= c} = {k \in DOMAIN s.jobs : s.jobs[k] \in R}
  BY DEF SnapshotIs, Recent
<1>2. Window(s) = Chosen(s.jobs, R)
  BY Zenon, <1>1 DEF Window, WindowJobs, Selected, Chosen
<1>3. Window(s) \in Seq(R)
  <2> DEFINE I == {k \in DOMAIN s.jobs : s.jobs[k] \in R}
  <2>1. I \in SUBSET Int /\ IsFiniteSet(I) /\ \A i \in I : s.jobs[i] \in R
    <3>1. s.jobs \in Seq(T)
      BY DEF SnapshotIs
    <3>2. IsFiniteSet(I)
      <4> HIDE DEF R
      <4> QED BY <3>1, AmountIs
    <3> QED BY <3>1, <3>2
  <2>2. Chosen(s.jobs, R) = At(s.jobs, I)
    BY Zenon DEF Chosen
  <2> HIDE DEF I, R
  <2>3. At(s.jobs, I) \in Seq(R)
    BY <2>1, ListAt
  <2> QED BY <1>2, <2>2, <2>3
<1>4. Day(s.now) \in Int
  BY SnapshotsAssumption DEF SnapshotIs, Day
<1>5. ASSUME NEW j \in R
      PROVE  Day(j.created) \in (Day(s.now) - s.days + 1)..Day(s.now)
  <2> DEFINE first == Day(s.now) - (s.days - 1)
  <2>1. s.days \in Int /\ first \in Int /\ j.created \in Int /\ Day(j.created) <= Day(s.now)
    BY <1>4 DEF SnapshotIs, Recent
  <2>2. j.created >= first * DaySeconds
    BY DEF Recent, Cutoff
  <2> HIDE DEF first
  <2>3. Day(j.created) \in Int /\ Day(j.created) >= first
    BY <2>1, <2>2, DayFrom
  <2> QED BY <1>4, <2>1, <2>3 DEF first
<1> QED BY <1>2, <1>3, <1>4, <1>5

\* The parts of a snapshot agree.
Agreed(s, seen) ==
    LET totals == seen.analytics.totals
        board  == seen.tasks
        Shown(list, status, limit) ==
            Len(list) = Min({seen.overview.jobs[status], limit})
    IN /\ \A field \in Field :
            /\ SumOf(Each(seen.analytics.daily, LAMBDA d : d[field])) = totals[field]
            /\ SumOf(Each(seen.analytics.perPackage, LAMBDA e : e.tally[field]))
                    = totals[field]
       /\ totals.total = totals.succeeded + totals.failed
       /\ SumOf(Each(seen.providers, LAMBDA e : e.successes))
            + Len(Selected(s.jobs, LAMBDA j :
                    /\ j.status = "succeeded"
                    /\ HitProvider(j) = None
                    /\ j.created >= Cutoff(s.now, s.days)))
            = totals.succeeded
       /\ Shown(board.running, "running", ActiveLimit)
       /\ Shown(board.queued, "queued", ActiveLimit)
       /\ Shown(board.failed, "failed", RecentLimit)
       /\ Shown(board.succeeded, "succeeded", RecentLimit)

\* The ended jobs are those that succeeded and those that failed.
LEMMA TotalsAdd ==
    ASSUME NEW T, NEW jobs \in Seq(T)
    PROVE  /\ Tally(Ended(jobs)).total
                = Tally(Ended(jobs)).succeeded + Tally(Ended(jobs)).failed
           /\ Tally(Ended(jobs)).succeeded = Amount(jobs, Counted(T, "succeeded"))
<1> DEFINE A == Counted(T, "succeeded")
           B == Counted(T, "failed")
           tally == Tally(Ended(jobs))
<1>1. A \cap B = {} /\ EndedOf(T) = A \cup B
  BY DEF Counted, EndedOf, Terminal
<1>2. /\ EndedOf(T) \cap Counted(T, "total") = A \cup B
      /\ EndedOf(T) \cap A = A /\ EndedOf(T) \cap B = B
  BY DEF Counted, EndedOf, Terminal
<1>3. Ended(jobs) = Chosen(jobs, EndedOf(T))
  BY EndedIs
<1>4. \A field \in Field :
            tally[field] = Amount(jobs, EndedOf(T) \cap Counted(T, field))
  BY <1>3, TallyOfChosen
<1>5. {"total", "succeeded", "failed"} \subseteq Field
  BY DEF Field
<1>6. tally["total"] = Amount(jobs, EndedOf(T) \cap Counted(T, "total"))
  BY <1>4, <1>5
<1>7. tally["succeeded"] = Amount(jobs, EndedOf(T) \cap A)
  BY <1>4, <1>5
<1>8. tally["failed"] = Amount(jobs, EndedOf(T) \cap B)
  BY <1>4, <1>5
<1> HIDE DEF A, B, tally
<1>9. Amount(jobs, A \cup B) = Amount(jobs, A) + Amount(jobs, B)
  BY <1>1, AmountOfBoth
<1>10. /\ tally["total"] = Amount(jobs, A \cup B)
       /\ tally["succeeded"] = Amount(jobs, A)
       /\ tally["failed"] = Amount(jobs, B)
  BY Zenon, <1>2, <1>6, <1>7, <1>8
<1> QED BY <1>9, <1>10 DEF A, tally

\* The parts of each snapshot agree.
LEMMA SnapshotsAgree ==
    ASSUME NEW s, NEW T, SnapshotIs(s, T)
    PROVE  Agreed(s, Snapshot(s))
<1> DEFINE R == Recent(s, T)
           W == Window(s)
           seen == Snapshot(s)
<1>1. /\ W = Chosen(s.jobs, R) /\ W \in Seq(R) /\ Day(s.now) \in Int
      /\ \A j \in R : Day(j.created) \in (Day(s.now) - s.days + 1)..Day(s.now)
  BY WindowIs
<1>2. /\ s.jobs \in Seq(T) /\ s.days \in Nat /\ \A j \in R : IsList(j.errors)
  BY DEF SnapshotIs, Recent
<1>3. /\ seen.analytics.totals = Tally(Ended(W))
      /\ seen.analytics.daily = DailySeries(Ended(W), s.now, s.days)
      /\ seen.analytics.perPackage = PerPackageStats(W)
      /\ seen.providers = Providers(W)
      /\ seen.tasks = Tasks(s.jobs, s.now)
  BY DEF Snapshot, Analytics, Window
<1>4. \A status \in Status : seen.overview.jobs[status]
            = CountOf(s.jobs, LAMBDA j : j.status = status)
  <2>1. seen.overview.jobs = [st \in Status |-> CountOf(s.jobs, LAMBDA j : j.status = st)]
    BY Zenon DEF Snapshot, Overview
  <2> HIDE DEF seen
  <2> QED BY Zenon, <2>1
<1>5. {"running", "queued", "failed", "succeeded"} \subseteq Status
  BY DEF Status
<1> HIDE DEF seen, W, R
<1>6. Ended(W) \in Seq(R)
  BY <1>1, EndedIs
<1>7. ASSUME NEW field \in Field
      PROVE  SumOf(Each(DailySeries(Ended(W), s.now, s.days), LAMBDA d : d[field]))
                = Tally(Ended(W))[field]
  BY <1>1, <1>2, <1>6, DaysAddUp
<1>8. ASSUME NEW field \in Field
      PROVE  SumOf(Each(PerPackageStats(W), LAMBDA e : e.tally[field]))
                = Tally(Ended(W))[field]
  BY <1>1, PackagesAddUp
<1>9. /\ Tally(Ended(W)).total = Tally(Ended(W)).succeeded + Tally(Ended(W)).failed
      /\ Tally(Ended(W)).succeeded = Amount(W, Counted(R, "succeeded"))
  BY <1>1, TotalsAdd
<1> DEFINE Lost(j) == /\ j.status = "succeeded"
                      /\ HitProvider(j) = None
                      /\ j.created >= Cutoff(s.now, s.days)
<1>10. SumOf(Each(Providers(W), LAMBDA e : e.successes)) + Len(Selected(s.jobs, Lost))
            = Tally(Ended(W)).succeeded
  <2> DEFINE L == {j \in T : Lost(j)}
  <2>1. SumOf(Each(Providers(W), LAMBDA e : e.successes)) = Len(Hits(W))
    BY <1>1, <1>2, ProvidersAddUp
  <2>2. Len(Hits(W)) + Amount(W, Unknown(R)) = Amount(W, Counted(R, "succeeded"))
    BY <1>1, HitsAre
  <2>3. Selected(s.jobs, Lost) = Chosen(s.jobs, L)
    <3>1. {k \in DOMAIN s.jobs : Lost(s.jobs[k])} = {k \in DOMAIN s.jobs : s.jobs[k] \in L}
      BY <1>2
    <3> HIDE DEF Lost
    <3> QED BY Zenon, <3>1 DEF Selected, Chosen
  <2>4. R \cap Unknown(R) = L
    BY DEF Unknown, Recent, R
  <2> HIDE DEF L
  <2>5. Len(Chosen(s.jobs, L)) = Amount(s.jobs, L)
    BY <1>2, AmountOfChosen
  <2>6. Amount(Chosen(s.jobs, R), Unknown(R)) = Amount(s.jobs, R \cap Unknown(R))
    BY <1>2, AmountOfChosen
  <2>7. Len(Selected(s.jobs, Lost)) = Amount(W, Unknown(R))
    BY Zenon, <1>1, <2>3, <2>4, <2>5, <2>6
  <2> HIDE DEF Lost
  <2> QED BY Zenon, <1>9, <2>1, <2>2, <2>7
<1>11. /\ Len(seen.tasks.running) = Min({seen.overview.jobs["running"], ActiveLimit})
       /\ Len(seen.tasks.queued) = Min({seen.overview.jobs["queued"], ActiveLimit})
       /\ Len(seen.tasks.failed) = Min({seen.overview.jobs["failed"], RecentLimit})
       /\ Len(seen.tasks.succeeded) = Min({seen.overview.jobs["succeeded"], RecentLimit})
  <2> DEFINE All(status) == CountOf(s.jobs, LAMBDA j : j.status = status)
             board == Tasks(s.jobs, s.now)
  <2>1. /\ Len(board.running) = Min({All("running"), ActiveLimit})
        /\ Len(board.queued) = Min({All("queued"), ActiveLimit})
        /\ Len(board.failed) = Min({All("failed"), RecentLimit})
        /\ Len(board.succeeded) = Min({All("succeeded"), RecentLimit})
    BY Zenon, <1>2, BoardsShow
  <2>2. \A status \in Status : seen.overview.jobs[status] = All(status)
    BY Zenon, <1>4
  <2>3. seen.tasks = board
    BY <1>3
  <2> HIDE DEF All, board
  <2> QED BY <1>5, <2>1, <2>2, <2>3
<1>12. ASSUME NEW field \in Field
       PROVE  /\ SumOf(Each(seen.analytics.daily, LAMBDA d : d[field]))
                    = seen.analytics.totals[field]
              /\ SumOf(Each(seen.analytics.perPackage, LAMBDA e : e.tally[field]))
                    = seen.analytics.totals[field]
  BY Zenon, <1>3, <1>7, <1>8
<1>13. /\ seen.analytics.totals.total
                = seen.analytics.totals.succeeded + seen.analytics.totals.failed
       /\ SumOf(Each(seen.providers, LAMBDA e : e.successes))
                + Len(Selected(s.jobs, Lost)) = seen.analytics.totals.succeeded
  BY Zenon, <1>3, <1>9, <1>10
<1> QED BY Zenon, <1>11, <1>12, <1>13 DEF Agreed, seen

-----------------------------------------------------------------------------
\* The list never falls.
Rising(list) == \A k, l \in DOMAIN list : k < l => list[k] <= list[l]

\* Sorting keeps the numbers and makes them rise.
LEMMA AscendingIs ==
    ASSUME NEW numbers \in Seq(Int)
    PROVE  /\ Ascending(numbers) \in Seq(Int)
           /\ Len(Ascending(numbers)) = Len(numbers)
           /\ Range(Ascending(numbers)) = Range(numbers)
           /\ Rising(Ascending(numbers))
<1> DEFINE n == Len(numbers)
           e == SortedPlaces(numbers, LAMBDA a, b : a < b)
           g == Ascending(numbers)
<1>1. DOMAIN numbers = 1..n /\ n \in Nat /\ numbers \in [1..n -> Int]
  OBVIOUS
<1>2. g = [k \in DOMAIN e |-> numbers[e[k]]]
  BY Zenon DEF Ascending, Sorted
<1>3. e = Enumerated(DOMAIN numbers, {p \in (DOMAIN numbers) \X (DOMAIN numbers) :
                \/ numbers[p[1]] < numbers[p[2]]
                \/ p[1] < p[2] /\ ~(numbers[p[2]] < numbers[p[1]])})
  BY Zenon DEF SortedPlaces
<1> HIDE DEF e, g, n
<1>4. e = Enumerated(1..n, {p \in (1..n) \X (1..n) :
                \/ numbers[p[1]] < numbers[p[2]]
                \/ p[1] < p[2] /\ ~(numbers[p[2]] < numbers[p[1]])})
  BY Zenon, <1>1, <1>3
<1>5. /\ e \in [1..n -> 1..n] /\ Counts(e, 1..n)
      /\ \A k, l \in 1..n : k < l => numbers[e[k]] <= numbers[e[l]]
  BY <1>1, <1>4, NumbersSorted
<1>6. DOMAIN g = 1..n /\ \A k \in 1..n : g[k] = numbers[e[k]] /\ g[k] \in Int
  BY <1>1, <1>2, <1>5
<1>7. g \in [1..n -> Int]
  BY <1>2, <1>6
<1>8. g \in Seq(Int) /\ Len(g) = n
  BY <1>1, <1>7
<1>9. Range(g) = Range(numbers)
  <2>1. Cardinality(1..n) = n
    BY <1>1, FS_Interval
  <2>2. \A i \in 1..n : \E k \in 1..n : e[k] = i
    BY <1>5, <2>1 DEF Counts
  <2>3. ASSUME NEW k \in 1..n
        PROVE  g[k] \in Range(numbers)
    <3>1. e[k] \in DOMAIN numbers /\ g[k] = numbers[e[k]]
      BY <1>1, <1>5, <1>6
    <3> QED BY <3>1 DEF Range
  <2>4. ASSUME NEW i \in 1..n
        PROVE  numbers[i] \in Range(g)
    <3>1. PICK k \in 1..n : e[k] = i
      BY <2>2
    <3>2. k \in DOMAIN g /\ g[k] = numbers[i]
      BY <1>6, <3>1
    <3> QED BY <3>2 DEF Range
  <2>5. Range(g) = {g[k] : k \in 1..n} /\ Range(numbers) = {numbers[i] : i \in 1..n}
    BY <1>1, <1>6 DEF Range
  <2> QED BY <2>3, <2>4, <2>5
<1>10. Rising(g)
  BY <1>5, <1>6 DEF Rising
<1> QED BY <1>8, <1>9, <1>10 DEF g, n

\* The value between the two ranks around r hundredths of a rank.
Between(sorted, r) ==
    LET low  == r \div 100 + 1
        part == r % 100
    IN IF part = 0 THEN 100 * sorted[low]
       ELSE (100 - part) * sorted[low] + part * sorted[low + 1]

\* Rank r is a hundredths of the way from rank l, with value x, to the next, y.
Weighed(sorted, r, x, y, l, a) ==
    /\ r = 100 * l + a /\ x <= y
    /\ x = sorted[l + 1]
    /\ y = sorted[IF a = 0 THEN l + 1 ELSE l + 2]
    /\ a # 0 => l + 2 <= Len(sorted)
    /\ Between(sorted, r) = 100 * x + a * (y - x)

\* Such a value lies between those of the two ranks.
LEMMA BetweenIs ==
    ASSUME NEW sorted \in Seq(Int), NEW r \in 0..(100 * (Len(sorted) - 1)),
           sorted # <<>>, Rising(sorted)
    PROVE  \E x, y \in Int, l \in 0..(Len(sorted) - 1), a \in 0..99 :
                Weighed(sorted, r, x, y, l, a)
<1> DEFINE n == Len(sorted)
           d == r \div 100
           c == r % 100
           u == sorted[d + 1]
           v == sorted[IF c = 0 THEN d + 1 ELSE d + 2]
<1>1. n \in Nat /\ n >= 1 /\ \A k \in 1..n : k \in DOMAIN sorted /\ sorted[k] \in Int
  OBVIOUS
<1>2. d \in 0..(n - 1) /\ c \in 0..99 /\ r = 100 * d + c
  BY <1>1
<1>3. c # 0 => d + 2 <= n
  BY <1>1, <1>2
<1>4. Between(sorted, r) = IF c = 0 THEN 100 * sorted[d + 1]
                           ELSE (100 - c) * sorted[d + 1] + c * sorted[d + 2]
  <2>1. (d + 1) + 1 = d + 2
    BY <1>2
  <2> QED BY <2>1 DEF Between
<1> HIDE DEF d, c, n
<1>5. u \in Int /\ v \in Int
  BY <1>1, <1>2, <1>3
<1>6. u <= v
  <2>1. CASE c = 0
    BY <1>5, <2>1
  <2>2. CASE c # 0
    <3>1. d + 1 \in DOMAIN sorted /\ d + 2 \in DOMAIN sorted /\ d + 1 < d + 2
      BY <1>1, <1>2, <1>3, <2>2
    <3> QED BY <2>2, <3>1 DEF Rising
  <2> QED BY <2>1, <2>2
<1>7. Between(sorted, r) = 100 * u + c * (v - u)
  <2>1. CASE c = 0
    BY <1>4, <1>5, <2>1
  <2>2. CASE c # 0
    <3>1. Between(sorted, r) = (100 - c) * u + c * v
      BY <1>4, <2>2
    <3> HIDE DEF u, v
    <3>2. c \in Int
      BY <1>2
    <3> QED BY <1>5, <3>1, <3>2
  <2> QED BY <2>1, <2>2
<1> HIDE DEF u, v
<1>8. u = sorted[d + 1] /\ v = sorted[IF c = 0 THEN d + 1 ELSE d + 2]
  BY DEF u, v
<1>9. d \in 0..(Len(sorted) - 1)
  BY <1>2 DEF n
<1>10. Weighed(sorted, r, u, v, d, c)
  BY <1>2, <1>3, <1>6, <1>7, <1>8 DEF Weighed, n
<1> QED BY <1>2, <1>5, <1>9, <1>10

\* A higher rank has no lower value.
LEMMA BetweenRises ==
    ASSUME NEW sorted \in Seq(Int), NEW r \in 0..(100 * (Len(sorted) - 1)),
           NEW q \in 0..(100 * (Len(sorted) - 1)),
           sorted # <<>>, Rising(sorted), r <= q
    PROVE  /\ Between(sorted, r) \in Int
           /\ Between(sorted, r) <= Between(sorted, q)
<1> DEFINE n == Len(sorted)
<1>1. n \in Nat /\ \A k, l \in 1..n : k <= l => sorted[k] <= sorted[l]
  <2>1. \A k \in 1..n : sorted[k] \in Int /\ k \in DOMAIN sorted
    OBVIOUS
  <2>2. \A k, l \in 1..n : k < l => sorted[k] <= sorted[l]
    BY <2>1 DEF Rising
  <2> HIDE DEF n
  <2>3. \A k, l \in 1..n : k = l => sorted[k] <= sorted[l]
    BY <2>1
  <2>4. \A k, l \in 1..n : k <= l => k < l \/ k = l
    OBVIOUS
  <2>5. n \in Nat
    BY DEF n
  <2> QED BY <2>2, <2>3, <2>4, <2>5
<1>2. PICK x, y \in Int, l \in 0..(n - 1), a \in 0..99 :
            Weighed(sorted, r, x, y, l, a)
  BY BetweenIs
<1>3. PICK v, w \in Int, m \in 0..(n - 1), b \in 0..99 :
            Weighed(sorted, q, v, w, m, b)
  BY BetweenIs
<1>11. /\ r = 100 * l + a /\ x <= y
       /\ x = sorted[l + 1]
       /\ y = sorted[IF a = 0 THEN l + 1 ELSE l + 2]
       /\ a # 0 => l + 2 <= n
       /\ Between(sorted, r) = 100 * x + a * (y - x)
  BY Zenon, <1>2 DEF Weighed
<1>12. /\ q = 100 * m + b /\ v <= w
       /\ v = sorted[m + 1]
       /\ w = sorted[IF b = 0 THEN m + 1 ELSE m + 2]
       /\ b # 0 => m + 2 <= n
       /\ Between(sorted, q) = 100 * v + b * (w - v)
  BY Zenon, <1>3 DEF Weighed
<1> HIDE DEF n
<1>4. PICK d \in Nat : d = y - x
  <2>1. x <= y
    BY Zenon, <1>11
  <2>2. y - x \in Nat
    BY <2>1
  <2> QED BY <2>2
<1>5. PICK f \in Nat : f = w - v
  <2>1. v <= w
    BY Zenon, <1>12
  <2>2. w - v \in Nat
    BY <2>1
  <2> QED BY <2>2
<1>6. a * d \in Nat /\ b * f \in Nat /\ a * d <= 100 * d
  <2>1. d * a <= d * 100
    BY ProductsRise
  <2> QED BY <2>1
<1>7. Between(sorted, r) = 100 * x + a * d /\ Between(sorted, q) = 100 * v + b * f
  BY <1>11, <1>12, <1>4, <1>5
<1>8. l <= m
  <2>1. 100 * l + a <= 100 * m + b /\ l \in Int /\ m \in Int
    BY <1>1, <1>11, <1>12
  <2> QED BY <2>1
<1>9. CASE l = m
  <2>1. x = v /\ a <= b
    BY <1>11, <1>12, <1>9
  <2>2. a # 0 => y = w
    BY <1>11, <1>12, <1>9, <2>1
  <2>3. a * d <= b * f
    <3>1. CASE a = 0
      BY <1>6, <3>1
    <3>2. CASE a # 0
      <4>1. d = f
        BY <1>4, <1>5, <2>1, <2>2, <3>2
      <4>2. d * a <= d * b
        BY <2>1, ProductsRise
      <4> QED BY <4>1, <4>2
    <3> QED BY <3>1, <3>2
  <2> QED BY <1>6, <1>7, <2>1, <2>3
<1>10. CASE l < m
  <2>1. y <= v
    <3> DEFINE k == IF a = 0 THEN l + 1 ELSE l + 2
    <3>1. k \in 1..n /\ m + 1 \in 1..n /\ k <= m + 1
      BY <1>1, <1>11, <1>10
    <3>2. sorted[k] <= sorted[m + 1]
      <4> HIDE DEF k
      <4> QED BY <1>1, <3>1
    <3> QED BY <1>11, <1>12, <3>2
  <2>2. 100 * x + a * d <= 100 * y
    BY <1>4, <1>6
  <2> QED BY <1>6, <1>7, <2>1, <2>2
<1> QED BY <1>8, <1>9, <1>10

\* The percentiles are numbers.
LEMMA PercentileIs ==
    ASSUME NEW sorted \in Seq(Int), sorted # <<>>, Rising(sorted)
    PROVE  Percentile(sorted, 50) \in Int /\ Percentile(sorted, 95) \in Int
<1> DEFINE n == Len(sorted)
<1>1. n \in Nat /\ n >= 1
  OBVIOUS
<1>2. /\ Percentile(sorted, 50) = Between(sorted, (n - 1) * 50)
      /\ Percentile(sorted, 95) = Between(sorted, (n - 1) * 95)
  BY DEF Percentile, Between
<1>3. \A r \in 0..(100 * (n - 1)) : Between(sorted, r) \in Int
  <2> SUFFICES ASSUME NEW r \in 0..(100 * (n - 1))
               PROVE  Between(sorted, r) \in Int
    OBVIOUS
  <2>1. r <= r
    OBVIOUS
  <2> QED BY <2>1, BetweenRises
<1>4. (n - 1) * 50 \in 0..(100 * (n - 1)) /\ (n - 1) * 95 \in 0..(100 * (n - 1))
  BY <1>1
<1> HIDE DEF n
<1> QED BY <1>2, <1>3, <1>4

\* Three percentiles of a list that rises.
LEMMA PercentilesRise ==
    ASSUME NEW sorted \in Seq(Int), sorted # <<>>, Rising(sorted)
    PROVE  /\ 100 * sorted[1] <= Percentile(sorted, 50)
           /\ Percentile(sorted, 50) <= Percentile(sorted, 90)
           /\ Percentile(sorted, 90) <= Percentile(sorted, 95)
           /\ Percentile(sorted, 95) <= 100 * sorted[Len(sorted)]
           /\ 100 * sorted[1] <= Percentile(sorted, 95)
<1> DEFINE n == Len(sorted)
           P(r) == Between(sorted, r)
<1>1. n \in Nat /\ n >= 1
  OBVIOUS
<1>2. /\ Percentile(sorted, 50) = P((n - 1) * 50)
      /\ Percentile(sorted, 90) = P((n - 1) * 90)
      /\ Percentile(sorted, 95) = P((n - 1) * 95)
  BY DEF Percentile, Between
<1>3. P(0) = 100 * sorted[1]
  BY DEF Between
<1>4. P(100 * (n - 1)) = 100 * sorted[n]
  <2>1. (100 * (n - 1)) \div 100 + 1 = n /\ (100 * (n - 1)) % 100 = 0
    BY <1>1
  <2> HIDE DEF n
  <2> QED BY <2>1 DEF Between
<1> HIDE DEF P
<1>5. \A r, q \in 0..(100 * (n - 1)) : r <= q => P(r) \in Int /\ P(r) <= P(q)
  BY BetweenRises DEF P
<1> DEFINE r1 == (n - 1) * 50
           r2 == (n - 1) * 90
           r3 == (n - 1) * 95
           r4 == 100 * (n - 1)
<1>6. /\ 0 \in 0..r4 /\ r1 \in 0..r4 /\ r2 \in 0..r4 /\ r3 \in 0..r4 /\ r4 \in 0..r4
      /\ 0 <= r1 /\ r1 <= r2 /\ r2 <= r3 /\ r3 <= r4 /\ 0 <= r3
  BY <1>1
<1> HIDE DEF n
<1>7. /\ P(0) <= P(r1) /\ P(r1) <= P(r2) /\ P(r2) <= P(r3) /\ P(r3) <= P(r4)
      /\ P(0) <= P(r3)
  BY <1>5, <1>6
<1> QED BY <1>2, <1>3, <1>4, <1>7 DEF n

-----------------------------------------------------------------------------
\* How long the downloads of some jobs took.
Times(J) == {Ms(j.started, j.finished) :
                j \in {i \in J : i.status = "succeeded"}} \ {None}

\* The durations of a list of jobs are those of its jobs, and none is negative.
LEMMA DurationsAre ==
    ASSUME NEW T, NEW jobs \in Seq(T),
           \A j \in T : j.started \in Int \cup {None} /\ j.finished \in Int \cup {None}
    PROVE  /\ Durations(jobs) \in Seq(Nat)
           /\ Range(Durations(jobs)) = Times(Range(jobs))
<1> DEFINE succ == Chosen(jobs, Counted(T, "succeeded"))
           U == Nat \cup {None}
           all == [k \in DOMAIN succ |-> Ms(succ[k].started, succ[k].finished)]
           known == Nat \ {None}
<1>1. Selected(jobs, LAMBDA j : j.status = "succeeded") = succ
  <2>1. {k \in DOMAIN jobs : jobs[k].status = "succeeded"}
            = {k \in DOMAIN jobs : jobs[k] \in Counted(T, "succeeded")}
    BY DEF Counted
  <2> QED BY Zenon, <2>1 DEF Selected, Chosen
<1>2. succ \in Seq(T) /\ Range(succ) = Range(jobs) \cap Counted(T, "succeeded")
  BY AmountOfChosen
<1> HIDE DEF succ
<1>3. \A j \in T : Ms(j.started, j.finished) \in U
  BY DEF Ms
<1>4. Each(succ, LAMBDA j : Ms(j.started, j.finished)) = all
  BY Zenon DEF Each
<1>5. DOMAIN succ = 1..Len(succ) /\ Len(succ) \in Nat /\ \A k \in DOMAIN succ : succ[k] \in T
  BY <1>2
<1>6. \A k \in DOMAIN succ : all[k] = Ms(succ[k].started, succ[k].finished)
                            /\ all[k] \in U
  BY <1>3, <1>5
<1>7. all \in [1..Len(succ) -> U] /\ DOMAIN all = DOMAIN succ
  BY <1>5, <1>6
<1> HIDE DEF all, U
<1>8. all \in Seq(U)
  BY <1>5, <1>7
<1>9. Durations(jobs) = Chosen(all, known)
  <2>1. {k \in DOMAIN all : all[k] # None} = {k \in DOMAIN all : all[k] \in known}
    BY <1>6, <1>7 DEF U
  <2>2. Durations(jobs) = Selected(all, LAMBDA d : d # None)
    BY Zenon, <1>1, <1>4 DEF Durations
  <2>3. Durations(jobs) = At(all, {k \in DOMAIN all : all[k] # None})
    BY Zenon, <2>2 DEF Selected
  <2> QED BY Zenon, <2>1, <2>3 DEF Chosen
<1> HIDE DEF known
<1>10. Chosen(all, known) \in Seq(Nat)
  <2> DEFINE I == {k \in DOMAIN all : all[k] \in known}
  <2>1. IsFiniteSet(I)
    BY <1>8, AmountIs
  <2>2. I \in SUBSET Int /\ \A i \in I : all[i] \in Nat
    BY <1>5, <1>7 DEF known
  <2>3. Chosen(all, known) = At(all, I)
    BY Zenon DEF Chosen
  <2> HIDE DEF I
  <2>4. At(all, I) \in Seq(Nat)
    BY <2>1, <2>2, ListAt
  <2> QED BY <2>3, <2>4
<1>11. Range(Chosen(all, known)) = Range(all) \cap known
  BY <1>8, AmountOfChosen
<1>12. Range(all) \cap known = Times(Range(jobs))
  <2>1. Range(all) = {Ms(j.started, j.finished) : j \in Range(succ)}
    BY <1>6, <1>7 DEF Range
  <2>2. Range(succ) = {j \in Range(jobs) : j.status = "succeeded"}
    <3>1. \A j \in Range(jobs) : j \in T
      BY DEF Range
    <3> QED BY <1>2, <3>1 DEF Counted
  <2>3. \A d \in Range(all) : d \in known <=> d # None
    BY <1>6, <1>7 DEF known, U, Range
  <2> QED BY <2>1, <2>2, <2>3 DEF Times
<1> QED BY <1>9, <1>10, <1>11, <1>12

\* Each duration is in one of the buckets.
LEMMA BucketIs ==
    ASSUME NEW d \in Nat
    PROVE  Bucket(d) \in 1..7 /\ Len(BucketEdges) = 6
<1> DEFINE I == {i \in 1..6 : d < BucketEdges[i]}
<1>1. Len(BucketEdges) = 6
  BY DEF BucketEdges
<1>2. Bucket(d) = LET i == IF I # {} THEN Min(I) ELSE 0 IN IF i = 0 THEN 7 ELSE i
  BY <1>1 DEF Bucket, SelectInSeq
<1>3. I # {} => Min(I) \in I
  <2>1. I \in SUBSET Nat
    OBVIOUS
  <2> HIDE DEF I
  <2>2. I # {} => \E x \in I : \A y \in I : x <= y
    BY <2>1, LeastOf
  <2> QED BY <2>2 DEF Min
<1>4. I \subseteq 1..6
  OBVIOUS
<1> HIDE DEF I
<1>5. CASE I = {}
  BY <1>1, <1>2, <1>5
<1>6. CASE I # {}
  <2>1. Min(I) \in 1..6
    BY <1>3, <1>4, <1>6
  <2>2. Bucket(d) = Min(I)
    BY <1>2, <1>6, <2>1
  <2> QED BY <1>1, <2>1, <2>2
<1> QED BY <1>5, <1>6

\* The histogram's counts add up to the number of downloads.
LEMMA HistogramAddsUp ==
    ASSUME NEW durations \in Seq(Nat)
    PROVE  SumOf(DurationStats(durations).histogram) = Len(durations)
<1> DEFINE X(b) == {d \in Nat : Bucket(d) = b}
           part == [b \in 1..7 |-> X(b)]
           numbers == [b \in 1..7 |-> Amount(durations, X(b))]
<1>1. Len(BucketEdges) + 1 = 7
  BY DEF BucketEdges
<1>2. \A b : CountOf(durations, LAMBDA d : Bucket(d) = b) = Amount(durations, X(b))
  <2> SUFFICES ASSUME NEW b
               PROVE  CountOf(durations, LAMBDA d : Bucket(d) = b) = Amount(durations, X(b))
    BY Zenon
  <2>1. {i \in DOMAIN durations : Bucket(durations[i]) = b}
            = {i \in DOMAIN durations : durations[i] \in X(b)}
    OBVIOUS
  <2> QED BY Zenon, <2>1 DEF CountOf, Amount
<1>3. DurationStats(durations).histogram = numbers
  <2>1. DurationStats(durations).histogram
            = [b \in 1..(Len(BucketEdges) + 1) |->
                    CountOf(durations, LAMBDA d : Bucket(d) = b)]
    BY Zenon DEF DurationStats
  <2> QED BY Zenon, <1>1, <1>2, <2>1
<1>4. \A b \in 1..7 : numbers[b] = Amount(durations, part[b]) /\ numbers[b] \in Int
  <2> SUFFICES ASSUME NEW b \in 1..7
               PROVE  numbers[b] = Amount(durations, part[b]) /\ numbers[b] \in Int
    OBVIOUS
  <2>1. numbers[b] = Amount(durations, X(b)) /\ part[b] = X(b)
    OBVIOUS
  <2> HIDE DEF X, numbers, part
  <2>2. Amount(durations, X(b)) \in Nat
    BY AmountIs
  <2> QED BY <2>1, <2>2
<1>5. \A b, c \in 1..7 : b # c => part[b] \cap part[c] = {}
  OBVIOUS
<1>6. Together(part, 7) = Nat
  <2>1. ASSUME NEW d \in Nat
        PROVE  \E b \in 1..7 : d \in part[b]
    <3>1. Bucket(d) \in 1..7
      BY BucketIs
    <3>2. d \in part[Bucket(d)]
      BY <3>1
    <3> QED BY <3>1, <3>2
  <2>2. \A b \in 1..7 : part[b] \subseteq Nat
    OBVIOUS
  <2> HIDE DEF part
  <2> QED BY <2>1, <2>2 DEF Together
<1>7. numbers \in [1..7 -> Int]
  BY <1>4
<1> HIDE DEF numbers, part
<1>8. numbers \in Seq(Int) /\ Len(numbers) = 7
  <2>1. PICK m \in Nat : m = 7
    OBVIOUS
  <2>2. numbers \in [1..m -> Int]
    BY <1>7, <2>1
  <2>3. numbers \in Seq(Int) /\ Len(numbers) = m
    BY <2>2
  <2> QED BY <2>1, <2>3
<1>9. SumOf(numbers) = Amount(durations, Together(part, Len(numbers)))
  <2>1. /\ \A i \in 1..Len(numbers) : numbers[i] = Amount(durations, part[i])
        /\ \A i, j \in 1..Len(numbers) : i # j => part[i] \cap part[j] = {}
    BY <1>4, <1>5, <1>8
  <2> QED BY <1>8, <2>1, SumOfParts
<1>10. Amount(durations, Nat) = Len(durations)
  BY AmountOfAll
<1> QED BY Zenon, <1>3, <1>6, <1>8, <1>9, <1>10

\* The percentiles of a snapshot lie where percentiles must.
Ordered(s, shown) ==
    LET d    == shown.analytics.duration
        seen == Range(Durations(s.jobs))
    IN /\ SumOf(d.histogram) = d.count
       /\ d.count > 0 =>
            /\ 100 * Min(seen) <= d.p50 /\ d.p50 <= d.p90
            /\ d.p90 <= d.p95 /\ d.p95 <= 100 * d.max
       /\ \A e \in Range(shown.analytics.perPackage) : e.p95 # None =>
            100 * Min(seen) <= e.p95 /\ e.p95 <= 100 * d.max

\* The percentiles of the durations of some of the jobs.
LEMMA PercentilesWithin ==
    ASSUME NEW durations \in Seq(Nat), NEW seen \in SUBSET Nat,
           Range(durations) \subseteq seen, durations # <<>>
    PROVE  LET sorted == Ascending(durations) IN
           /\ sorted # <<>> /\ Len(sorted) = Len(durations)
           /\ 100 * Min(seen) <= Percentile(sorted, 50)
           /\ Percentile(sorted, 50) <= Percentile(sorted, 90)
           /\ Percentile(sorted, 90) <= Percentile(sorted, 95)
           /\ 100 * Min(seen) <= Percentile(sorted, 95)
           /\ Percentile(sorted, 95) <= 100 * sorted[Len(sorted)]
           /\ sorted[Len(sorted)] \in Range(durations)
           /\ \A d \in Range(durations) : d <= sorted[Len(sorted)]
<1> DEFINE sorted == Ascending(durations)
           n == Len(sorted)
<1>1. durations \in Seq(Int)
  OBVIOUS
<1>2. /\ sorted \in Seq(Int) /\ n = Len(durations) /\ Rising(sorted)
      /\ Range(sorted) = Range(durations)
  BY <1>1, AscendingIs
<1> HIDE DEF sorted
<1>3. n \in Nat /\ n >= 1 /\ sorted # <<>> /\ DOMAIN sorted = 1..n
  BY <1>2
<1>4. /\ 100 * sorted[1] <= Percentile(sorted, 50)
      /\ Percentile(sorted, 50) <= Percentile(sorted, 90)
      /\ Percentile(sorted, 90) <= Percentile(sorted, 95)
      /\ Percentile(sorted, 95) <= 100 * sorted[n]
      /\ 100 * sorted[1] <= Percentile(sorted, 95)
  BY <1>2, <1>3, PercentilesRise
<1>5. sorted[1] \in Range(durations) /\ sorted[n] \in Range(durations)
  <2>1. 1 \in DOMAIN sorted /\ n \in DOMAIN sorted
    BY <1>3
  <2> QED BY <1>2, <2>1 DEF Range
<1>6. Min(seen) \in Nat /\ Min(seen) <= sorted[1] /\ sorted[1] \in Nat
  <2>1. sorted[1] \in seen
    BY <1>5
  <2>2. \E x \in seen : \A y \in seen : x <= y
    BY <2>1, LeastOf
  <2>3. Min(seen) \in seen /\ \A y \in seen : Min(seen) <= y
    BY <2>2 DEF Min
  <2> QED BY <2>1, <2>3
<1>7. \A d \in Range(durations) : d <= sorted[n]
  <2> SUFFICES ASSUME NEW d \in Range(sorted)
               PROVE  d <= sorted[n]
    BY <1>2
  <2>1. PICK k \in 1..n : d = sorted[k]
    BY <1>3 DEF Range
  <2>2. n \in DOMAIN sorted /\ k \in DOMAIN sorted /\ d \in Int
    BY <1>2, <1>3, <2>1
  <2>3. CASE k = n
    BY <2>1, <2>2, <2>3
  <2>4. CASE k < n
    BY <1>2, <2>1, <2>2, <2>4 DEF Rising
  <2>5. k = n \/ k < n
    <3>1. \A i \in 1..n : i = n \/ i < n
      <4> HIDE DEF n
      <4> QED BY <1>3
    <3> QED BY <3>1
  <2> QED BY <2>3, <2>4, <2>5
<1>8. /\ 100 * Min(seen) <= Percentile(sorted, 50)
      /\ 100 * Min(seen) <= Percentile(sorted, 95)
  <2>1. Percentile(sorted, 50) \in Int /\ Percentile(sorted, 95) \in Int
    BY <1>2, <1>3, PercentileIs
  <2> QED BY <1>4, <1>6, <2>1
<1> QED BY <1>2, <1>3, <1>4, <1>5, <1>7, <1>8 DEF sorted

\* The percentiles of each snapshot lie where percentiles must.
LEMMA SnapshotsOrdered ==
    ASSUME NEW s, NEW T, SnapshotIs(s, T)
    PROVE  Ordered(s, Snapshot(s))
<1> DEFINE R == Recent(s, T)
           W == Window(s)
           all == Durations(W)
           sorted == Ascending(all)
           seen == Range(Durations(s.jobs))
           list == PerPackageStats(W)
           d == Snapshot(s).analytics.duration
<1>1. /\ W = Chosen(s.jobs, R) /\ W \in Seq(R) /\ s.jobs \in Seq(T)
  BY WindowIs DEF SnapshotIs
<1>2. \A J : J \subseteq T => \A j \in J : /\ j.started \in Int \cup {None}
                                         /\ j.finished \in Int \cup {None}
  BY DEF SnapshotIs
<1>3. R \subseteq T /\ Range(W) \subseteq Range(s.jobs)
  <2>1. Range(Chosen(s.jobs, R)) = Range(s.jobs) \cap R
    BY <1>1, AmountOfChosen
  <2> QED BY <1>1, <2>1 DEF Recent
<1>4. /\ d = DurationStats(all)
      /\ Snapshot(s).analytics.perPackage = list
  BY DEF Snapshot, Analytics, Window
<1>5. /\ d.count = Len(sorted) /\ d.p50 = Percentile(sorted, 50)
      /\ d.p90 = Percentile(sorted, 90) /\ d.p95 = Percentile(sorted, 95)
      /\ d.max = IF sorted = <<>> THEN None ELSE sorted[Len(sorted)]
  BY <1>4 DEF DurationStats
<1>6. all \in Seq(Nat) /\ Range(all) = Times(Range(W))
  <2> HIDE DEF R, W
  <2> QED BY <1>1, <1>2, <1>3, DurationsAre
<1>7. seen \in SUBSET Nat /\ seen = Times(Range(s.jobs))
  <2>1. Durations(s.jobs) \in Seq(Nat) /\ Range(Durations(s.jobs)) = Times(Range(s.jobs))
    BY <1>1, <1>2, DurationsAre
  <2>2. Range(Durations(s.jobs)) \subseteq Nat
    BY <2>1 DEF Range
  <2> QED BY <2>1, <2>2
<1>8. Range(all) \subseteq seen
  BY <1>3, <1>6, <1>7 DEF Times
<1> HIDE DEF d, seen, all
<1>9. SumOf(d.histogram) = d.count
  <2>1. SumOf(DurationStats(all).histogram) = Len(all)
    BY <1>6, HistogramAddsUp
  <2>2. Len(sorted) = Len(all)
    BY <1>6, AscendingIs
  <2> QED BY <1>4, <1>5, <2>1, <2>2
<1>10. all # <<>> =>
            /\ sorted # <<>>
            /\ 100 * Min(seen) <= Percentile(sorted, 50)
            /\ Percentile(sorted, 50) <= Percentile(sorted, 90)
            /\ Percentile(sorted, 90) <= Percentile(sorted, 95)
            /\ Percentile(sorted, 95) <= 100 * sorted[Len(sorted)]
            /\ \A t \in Range(all) : t <= sorted[Len(sorted)]
  BY <1>6, <1>7, <1>8, PercentilesWithin
<1>11. ASSUME d.count > 0
       PROVE  /\ 100 * Min(seen) <= d.p50 /\ d.p50 <= d.p90
              /\ d.p90 <= d.p95 /\ d.p95 <= 100 * d.max
  <2>1. all # <<>>
    <3>1. Len(sorted) = Len(all)
      BY <1>6, AscendingIs
    <3> HIDE DEF sorted
    <3> QED BY <1>5, <1>11, <3>1
  <2> HIDE DEF sorted
  <2> QED BY <1>5, <1>10, <2>1
<1>12. ASSUME NEW k \in DOMAIN list, list[k].p95 # None
       PROVE  100 * Min(seen) <= list[k].p95 /\ list[k].p95 <= 100 * d.max
  <2> DEFINE jobs == Chosen(Ended(W), PackageOf(R, list[k].package))
             own == Durations(jobs)
             top == Ascending(own)[Len(Ascending(own))]
  <2>1. list[k].p95 = Percentile(Ascending(own), 95)
    <3>1. EachPackage(R, Ended(W), list)
      BY <1>1, PackageEntries
    <3> HIDE DEF list, W, R
    <3> QED BY Zenon, <1>12, <3>1 DEF EachPackage
  <2>2. jobs \in Seq(R) /\ Range(jobs) \subseteq Range(W)
    <3>1. Ended(W) \in Seq(R) /\ Range(Ended(W)) = Range(W) \cap EndedOf(R)
      BY <1>1, EndedIs
    <3> HIDE DEF R, W, list
    <3>2. /\ jobs \in Seq(R)
          /\ Range(jobs) = Range(Ended(W)) \cap PackageOf(R, list[k].package)
      BY <3>1, AmountOfChosen
    <3> QED BY <3>1, <3>2
  <2> HIDE DEF jobs, list
  <2>3. own \in Seq(Nat) /\ Range(own) = Times(Range(jobs))
    <3> HIDE DEF R
    <3> QED BY <1>2, <1>3, <2>2, DurationsAre
  <2>4. Range(own) \subseteq Range(all)
    BY <1>6, <2>2, <2>3 DEF Times
  <2>5. own # <<>>
    <3>1. ASSUME own = <<>>
          PROVE  FALSE
      <4>4. Len(own) = 0 /\ own \in Seq(Int)
        BY <2>3, <3>1
      <4>1. Len(Ascending(own)) = 0 /\ Ascending(own) \in Seq(Int)
        BY <4>4, AscendingIs
      <4>2. Ascending(own) = <<>>
        BY <4>1
      <4>3. Percentile(Ascending(own), 95) = None
        BY <4>2 DEF Percentile
      <4> QED BY <1>12, <2>1, <4>3
    <3> QED BY <3>1
  <2> HIDE DEF own
  <2>6. Range(own) \subseteq seen
    BY <1>8, <2>4
  <2>7. /\ 100 * Min(seen) <= Percentile(Ascending(own), 95)
        /\ Percentile(Ascending(own), 95) <= 100 * top
        /\ top \in Range(own)
    BY <1>7, <2>3, <2>5, <2>6, PercentilesWithin
  <2>8. Ascending(own) \in Seq(Int) /\ Ascending(own) # <<>>
    BY <1>7, <2>3, <2>5, <2>6, PercentilesWithin, AscendingIs
  <2>9. all # <<>>
    <3>1. \E i \in DOMAIN all : all[i] = top
      <4> HIDE DEF top
      <4> QED BY <2>4, <2>7 DEF Range
    <3> HIDE DEF top
    <3> QED BY <3>1
  <2>10. top <= sorted[Len(sorted)] /\ d.max = sorted[Len(sorted)]
    <3> HIDE DEF sorted, top
    <3> QED BY <1>5, <1>10, <2>4, <2>7, <2>9
  <2>11. sorted[Len(sorted)] \in Int /\ top \in Int
    <3>1. sorted \in Seq(Int) /\ sorted # <<>>
      BY <1>6, <1>10, <2>9, AscendingIs
    <3> HIDE DEF sorted
    <3> QED BY <2>8, <3>1
  <2>12. Percentile(Ascending(own), 95) \in Int
    <3>1. Rising(Ascending(own))
      BY <2>3, AscendingIs
    <3> QED BY <2>8, <3>1, PercentileIs
  <2> HIDE DEF top, sorted
  <2> QED BY <2>1, <2>7, <2>10, <2>11, <2>12
<1> QED BY <1>4, <1>9, <1>11, <1>12 DEF Ordered, d, seen, Range

-----------------------------------------------------------------------------
(***************************************************************************)
(* The providers' plans                                                    *)
(***************************************************************************)
\* What RightBuild and LabelsTrue say of one plan, and RightBuild of one answer
\* to get_package_info.
FileRight(p, f, plan, request) ==
    /\ f.build \in Meant(p, request)
    /\ f.build \in Codes
    /\ plan.code \in {None, f.build} \/ (p \notin KeyedByCode /\ plan.code = request.code)
    /\ plan.name \in {None, OwnName[f.build], request.name}
PlanRight(p, plan, request) ==
    plan.error = None =>
        /\ IsList(plan.value.files)
        /\ p \notin KeyedByCode => Len(plan.value.files) = 1
        /\ \A f \in Range(plan.value.files) :
            f.build # None => FileRight(p, f, plan.value, request)
InfoRight(info, request) ==
    info.error = None /\ info.value.code # None =>
        info.value.code \in Exactly(request)

\* next() returns None or an item that passes.
FirstAt(seq, X) == LET i == IF X # {} THEN Min(X) ELSE 0
                   IN IF i = 0 THEN None ELSE seq[i]
Among(x, seq, X) == x \in Range(seq) /\ \E i \in X : x = seq[i]

\* It is among the items at these places, or there is none.
LEMMA FirstIs ==
    ASSUME NEW seq, NEW X \in SUBSET (1..Len(seq)), IsList(seq)
    PROVE  FirstAt(seq, X) = None \/ Among(FirstAt(seq, X), seq, X)
<1> DEFINE x == FirstAt(seq, X)
<1>1. DOMAIN seq = 1..Len(seq) /\ Len(seq) \in Nat
  BY ListIs DEF IsList
<1>2. CASE X = {}
  BY <1>2 DEF FirstAt
<1>3. CASE X # {}
  <2>1. X \in SUBSET Nat
    BY <1>1
  <2>2. \E y \in X : \A z \in X : y <= z
    BY <1>3, <2>1, LeastOf
  <2>3. Min(X) \in X
    BY <2>2 DEF Min
  <2>4. Min(X) \in 1..Len(seq) /\ Min(X) # 0
    <3> DEFINE m == Min(X)
               n == Len(seq)
    <3>1. m \in 1..n /\ n \in Nat
      BY <1>1, <2>3
    <3> HIDE DEF m, n
    <3>2. m \in 1..n /\ m # 0
      BY <3>1
    <3> QED BY <3>2 DEF m, n
  <2>5. x = seq[Min(X)]
    BY <1>3, <2>4 DEF FirstAt
  <2>6. x \in Range(seq)
    BY <1>1, <2>4, <2>5 DEF Range
  <2> QED BY <2>3, <2>5, <2>6 DEF Among
<1> QED BY <1>2, <1>3

\* A build of the name that is asked for is meant.
LEMMA NamedIsMeant ==
    ASSUME NEW p, p \notin KeyedByCode, NEW request \in Asked, NEW b \in Codes,
           request.name = OwnName[b]
    PROVE  b \in Meant(p, request)
BY TablesAssumption DEF Meant, NameMeant

\* So is the build that is asked for exactly.
LEMMA ExactIsMeant ==
    ASSUME NEW p, NEW request, NEW b \in Exactly(request)
    PROVE  b \in Meant(p, request)
BY DEF Meant

\* A failure is not an answer.
LEMMA Failures ==
    /\ None \notin ErrorCode
    /\ None # "raised"
    /\ \A error \in ErrorCode : Fail(error).error # None
    /\ \A word : Raised(word).error # None
BY StoresAssumption DEF Fail, Raised
\* Files made of a list of builds.
LEMMA FilesOf ==
    ASSUME NEW B, NEW w \in Seq(B), NEW Y, NEW type \in Y, NEW files,
           files = [i \in DOMAIN w |-> files[i]],
           \A i \in DOMAIN w : files[i] = File(type, w[i])
    PROVE  files \in Seq([type : Y, build : B])
<1>1. DOMAIN w = 1..Len(w) /\ Len(w) \in Nat /\ \A i \in DOMAIN w : w[i] \in B
  OBVIOUS
<1> DEFINE F == [type : Y, build : B]
           n == Len(w)
<1>2. \A i \in 1..n : files[i] \in F
  BY <1>1 DEF File
<1>3. files = [i \in 1..n |-> files[i]]
  BY <1>1
<1> HIDE DEF F, n
<1>4. files \in [1..n -> F]
  BY <1>2, <1>3
<1>5. n \in Nat
  BY <1>1 DEF n
<1> QED BY <1>4, <1>5 DEF F

-----------------------------------------------------------------------------
\* The files that google-play delivers are of the build of the versionCode.
LEMMA DeliveredIs ==
    ASSUME NEW store, GoogleTrue(store), NEW token, NEW code,
           Delivered(store, token, code).error = None
    PROVE  /\ code \in Codes
           /\ IsList(Delivered(store, token, code).value)
           /\ \A f \in Range(Delivered(store, token, code).value) :
                f.build \in {code, None}
<1> DEFINE data == Api(token, IF code \in DOMAIN store.delivery
                              THEN store.delivery[code] ELSE Raised("other"))
           I == {i \in DOMAIN data.value.splits : data.value.splits[i] # None}
           splits == Selected(data.value.splits, LAMBDA b : b # None)
           obbs == data.value.obbs
           B == {code, None}
           F == [type : {"BASE_APK", "SPLIT_APK", "OBB"}, build : B]
           first == <<File("BASE_APK", data.value.base)>>
           second == [i \in DOMAIN splits |-> File("SPLIT_APK", splits[i])]
           third == [i \in DOMAIN obbs |-> File("OBB", obbs[i])]
           files == first \o second \o third
<1>1. Delivered(store, token, code) =
        IF data.error = None
        THEN IF data.value.base = None THEN Raised("other")
             ELSE IF None \in Range(obbs) THEN Fail("BAD_RESPONSE") ELSE Got(files)
        ELSE data
  BY Zenon DEF Delivered, Then, Unless
<1>2. data.error = None /\ Delivered(store, token, code) = Got(files)
  <2> HIDE DEF data, files, obbs
  <2> QED BY <1>1, Failures DEF ErrorCode
<1>3. code \in DOMAIN store.delivery /\ data = store.delivery[code]
  BY <1>2, Failures DEF Api
<1>4. /\ code \in Codes
      /\ IsList(data.value.splits) /\ IsList(obbs)
      /\ data.value.base \in B
      /\ Range(data.value.splits) \subseteq B /\ Range(obbs) \subseteq B
  BY <1>2, <1>3 DEF GoogleTrue
<1> HIDE DEF data
<1>5. splits = At(data.value.splits, I)
  BY Zenon DEF Selected
<1>6. splits \in Seq(B)
  <2> DEFINE w == data.value.splits
  <2>1. w \in Seq(Range(w)) /\ Range(w) \subseteq B
    BY <1>4 DEF IsList
  <2>2. splits = At(w, {i \in DOMAIN w : w[i] # None})
    BY <1>5
  <2> HIDE DEF w, splits, B
  <2>3. w \in Seq(B)
    BY <2>1
  <2> QED BY <2>2, <2>3, PartOfList
<1>7. obbs \in Seq(B)
  BY <1>4 DEF IsList
<1> HIDE DEF splits, obbs, B
<1>8. first \in Seq(F) /\ second \in Seq(F) /\ third \in Seq(F)
  <2> DEFINE n == data.value.base
  <2>1. n \in B
    BY <1>4
  <2>2. <<[type |-> "BASE_APK", build |-> n]>> \in Seq(F)
    <3> HIDE DEF n
    <3> QED BY <2>1
  <2>3. first \in Seq(F)
    BY <2>2 DEF File
  <2>4. \A i \in DOMAIN splits : second[i] = File("SPLIT_APK", splits[i])
    OBVIOUS
  <2>5. \A i \in DOMAIN obbs : third[i] = File("OBB", obbs[i])
    OBVIOUS
  <2>6. second \in Seq(F)
    BY <1>6, <2>4, FilesOf
  <2>7. third \in Seq(F)
    BY <1>7, <2>5, FilesOf
  <2> QED BY <2>3, <2>6, <2>7
<1> HIDE DEF first, second, third
<1>9. files \in Seq(F)
  <2> HIDE DEF F
  <2> QED BY <1>8
<1>10. IsList(files) /\ \A f \in Range(files) : f \in F
  <2> HIDE DEF files, F
  <2> QED BY <1>9, ListIs DEF Range
<1>11. Delivered(store, token, code).value = files
  <2> HIDE DEF files
  <2> QED BY <1>2 DEF Got
<1> HIDE DEF files
<1> QED BY <1>4, <1>10, <1>11 DEF B

\* A plan of google-play is right with whatever token.
LEMMA GoogleWithRight ==
    ASSUME NEW p \in KeyedByCode, NEW store, GoogleTrue(store), NEW request \in Asked, NEW token
    PROVE  PlanRight(p, GooglePlanWith(store, request, token), request)
<1> DEFINE plan == GooglePlanWith(store, request, token)
<1> SUFFICES ASSUME plan.error = None
             PROVE  /\ IsList(plan.value.files)
                    /\ \A f \in Range(plan.value.files) :
                        f.build # None => FileRight(p, f, plan.value, request)
  BY DEF PlanRight
<1>1. CASE request.code # None
  <2> DEFINE files == Delivered(store, token, request.code)
  <2>1. plan = IF files.error = None
               THEN Got(Plan(request.code, request.name, files.value)) ELSE files
    BY Zenon, <1>1 DEF GooglePlanWith, Then
  <2> HIDE DEF plan, files
  <2>2. /\ files.error = None
        /\ plan.value.code = request.code
        /\ plan.value.name = request.name
        /\ plan.value.files = files.value
    BY <2>1 DEF Got, Plan
  <2>3. /\ request.code \in Codes
        /\ IsList(files.value)
        /\ \A f \in Range(files.value) : f.build \in {request.code, None}
    BY <2>2, DeliveredIs DEF files
  <2> QED BY <1>1, <2>2, <2>3 DEF FileRight, Meant, Exactly
<1>2. CASE request.code = None
  <2> DEFINE details == Api(token, store.details)
             app == details.value.app
             files == Delivered(store, token, app.code)
  <2>1. plan =
          IF details.error = None
          THEN IF app = None THEN Fail("BAD_RESPONSE")
               ELSE IF OtherName(app, request) THEN Fail("UNSUPPORTED")
               ELSE IF app.code = None THEN Fail("BAD_RESPONSE")
               ELSE IF files.error = None
                    THEN Got(Plan(app.code, app.name, files.value)) ELSE files
          ELSE details
    <3>1. AppDetails(store, token) =
            IF details.error = None
            THEN IF app = None THEN Fail("BAD_RESPONSE") ELSE Got(app)
            ELSE details
      BY Zenon DEF AppDetails, Then, Unless
    <3> DEFINE found == AppDetails(store, token)
    <3>2. plan = IF found.error = None
                 THEN IF OtherName(found.value, request) THEN Fail("UNSUPPORTED")
                      ELSE IF found.value.code = None THEN Fail("BAD_RESPONSE")
                      ELSE IF Delivered(store, token, found.value.code).error = None
                           THEN Got(Plan(found.value.code, found.value.name,
                                    Delivered(store, token, found.value.code).value))
                           ELSE Delivered(store, token, found.value.code)
                 ELSE found
      BY Zenon, <1>2 DEF GooglePlanWith, Then, Unless
    <3> HIDE DEF plan, found, details
    <3>3. Fail("BAD_RESPONSE").error # None
      BY Failures DEF ErrorCode
    <3>4. found = IF details.error = None
            THEN IF app = None THEN Fail("BAD_RESPONSE") ELSE Got(app)
            ELSE details
      BY <3>1 DEF found
    <3>5. Got(app).error = None /\ Got(app).value = app
      BY DEF Got
    <3> QED BY <3>2, <3>3, <3>4, <3>5
  <2> HIDE DEF plan, files
  <2>2. /\ details.error = None /\ app # None /\ ~OtherName(app, request)
        /\ files.error = None /\ app.code # None
        /\ plan = Got(Plan(app.code, app.name, files.value))
    BY <2>1, Failures DEF ErrorCode
  <2>3. details = store.details
    BY <2>2, Failures DEF Api
  <2>4. PICK b \in Codes : IsOf(app, b)
    BY <2>2, <2>3 DEF GoogleTrue
  <2> HIDE DEF details
  <2>5. app.code = b /\ app.name \in {None, OwnName[b]}
    BY <2>2, <2>4 DEF IsOf
  <2>6. IsList(files.value) /\ \A f \in Range(files.value) : f.build \in {b, None}
    BY <2>2, <2>5, DeliveredIs DEF files
  <2>7. plan.value.code = b /\ plan.value.name = app.name
        /\ plan.value.files = files.value
    BY <2>2, <2>5 DEF Got, Plan
  <2>8. b \in Exactly(request)
    BY <1>2, <2>2, <2>5 DEF OtherName, Exactly
  <2> QED BY <2>5, <2>6, <2>7, <2>8 DEF FileRight, Meant
<1> QED BY <1>1, <1>2

\* What _gp_call returns is what one of the attempts returned.
LEMMA GpCallIs ==
    ASSUME NEW first, NEW second, GpCall(first, second).error = None
    PROVE  GpCall(first, second) \in {first, second}
<1>1. \A word : Classified(word) \in ErrorCode
  BY DEF Classified, ErrorCode
<1>2. \A word : Fail(Classified(word)).error # None
  BY <1>1, Failures
<1> QED BY <1>2 DEF GpCall

\* A plan of google-play is right.
LEMMA GoogleRight ==
    ASSUME NEW p \in KeyedByCode, NEW store, GoogleTrue(store), NEW request \in Asked
    PROVE  PlanRight(p, GooglePlan(store, request), request)
<1> DEFINE A(forced) == Then(Token(store, forced), LAMBDA token :
                             GooglePlanWith(store, request, token))
           A1 == A(FALSE)
           A2 == A(TRUE)
<1>1. GooglePlan(store, request) = GpCall(A1, A2)
  BY Zenon DEF GooglePlan
<1>2. ASSUME NEW forced, A(forced).error = None
      PROVE  PlanRight(p, A(forced), request)
  <2> DEFINE token == Token(store, forced)
             plan == GooglePlanWith(store, request, token.value)
  <2>1. A(forced) = IF token.error = None THEN plan ELSE token
    BY Zenon DEF Then
  <2>2. PlanRight(p, plan, request)
    BY GoogleWithRight
  <2> HIDE DEF A, plan, token
  <2>3. A(forced) = plan
    BY <1>2, <2>1
  <2> QED BY <2>2, <2>3
<1>3. PlanRight(p, A1, request) /\ PlanRight(p, A2, request)
  <2>1. A1.error = None => PlanRight(p, A1, request)
    BY <1>2
  <2>2. A2.error = None => PlanRight(p, A2, request)
    BY <1>2
  <2> HIDE DEF A1, A2, A
  <2> QED BY <2>1, <2>2 DEF PlanRight
<1> HIDE DEF A1, A2, A
<1>4. CASE GpCall(A1, A2).error = None
  <2>1. GpCall(A1, A2) \in {A1, A2}
    BY <1>4, GpCallIs
  <2> QED BY <1>1, <1>3, <2>1
<1>5. CASE GpCall(A1, A2).error # None
  BY <1>1, <1>5 DEF PlanRight
<1> QED BY <1>4, <1>5

\* The version that google-play shows is the one asked for.
LEMMA GoogleInfoRight ==
    ASSUME NEW store, GoogleTrue(store), NEW request \in Asked
    PROVE  InfoRight(GoogleInfo(store, request), request)
<1> DEFINE A(forced) == Then(Token(store, forced), LAMBDA token :
                             Api(token, store.details))
           A1 == A(FALSE)
           A2 == A(TRUE)
           call == GpCall(A1, A2)
           app == call.value.app
           info == GoogleInfo(store, request)
<1>1. info =
        IF call.error = None
        THEN IF app = None THEN Fail("BAD_RESPONSE")
             ELSE IF request.code # None /\ request.code # app.code
                  THEN Fail("UNSUPPORTED")
             ELSE IF OtherName(app, request) THEN Fail("UNSUPPORTED")
             ELSE Got(Info(app.code, app.name, <<app>>))
        ELSE call
  BY Zenon DEF GoogleInfo, Then, Unless
<1> SUFFICES ASSUME info.error = None, info.value.code # None
             PROVE  info.value.code \in Exactly(request)
  BY DEF InfoRight
<1>2. ASSUME NEW forced, A(forced).error = None
      PROVE  A(forced) = store.details
  <2> DEFINE token == Token(store, forced)
  <2>1. A(forced) = IF token.error = None THEN Api(token.value, store.details)
                    ELSE token
    BY Zenon DEF Then
  <2> HIDE DEF A, token
  <2> QED BY <1>2, <2>1, Failures DEF Api
<1>3. (A1.error = None => A1 = store.details) /\ (A2.error = None => A2 = store.details)
  BY <1>2
<1> HIDE DEF A1, A2, A, info
<1>4. /\ call.error = None /\ app # None
      /\ request.code = None \/ request.code = app.code
      /\ ~OtherName(app, request)
      /\ info = Got(Info(app.code, app.name, <<app>>))
  <2> HIDE DEF call
  <2> QED BY <1>1, Failures DEF ErrorCode
<1>5. call = store.details
  BY <1>3, <1>4, GpCallIs
<1> HIDE DEF call
<1>6. PICK b \in Codes : IsOf(app, b)
  BY <1>4, <1>5 DEF GoogleTrue
<1>7. info.value.code = app.code
  BY <1>4 DEF Got, Info
<1>8. app.code = b /\ app.name \in {None, OwnName[b]}
  BY <1>6, <1>7 DEF IsOf
<1> QED BY <1>4, <1>7, <1>8 DEF OtherName, Exactly

-----------------------------------------------------------------------------
\* An item that answers the request, and is what it says it is, is meant.
LEMMA MatchIsMeant ==
    ASSUME NEW request \in Asked, NEW b \in Codes, NEW item, IsOf(item, b),
           Matches(item, request)
    PROVE  b \in Exactly(request)
BY DEF IsOf, Matches, Exactly

\* A page that is requested without an error has been answered.
LEMMA AnsweredPage ==
    ASSUME NEW page, IsPage(page), NEW errors \in {Refusal, AptoideRefusal},
           Requested(page, errors).error = None
    PROVE  page.http = "ok" /\ Requested(page, errors) = Got(page.body)
<1>1. \A h \in DOMAIN Refusal : Refusal[h] \in ErrorCode /\ AptoideRefusal[h] \in ErrorCode
  BY DEF Refusal, AptoideRefusal, ErrorCode
<1>2. page.http # "ok" => errors[page.http] # None
  BY <1>1, Failures DEF IsPage
<1> QED BY <1>2 DEF Requested, Fail

\* A page asked for by a key shows an app.
LEMMA ByKeyIs ==
    ASSUME NEW store, AptoideTrue(store), NEW key, GetByKey(store, key).error = None
    PROVE  /\ key \in DOMAIN store.byKey
           /\ store.byKey[key] \in AppPages(store)
           /\ GetByKey(store, key) = Got(store.byKey[key].body)
<1> DEFINE page == IF key \in DOMAIN store.byKey THEN store.byKey[key]
                   ELSE [http |-> "missing", body |-> <<>>]
<1>1. GetByKey(store, key) = Requested(page, AptoideRefusal)
  BY DEF GetByKey
<1>2. IsPage(page)
  <2>1. "missing" \in DOMAIN Refusal
    BY DEF Refusal
  <2> QED BY <2>1 DEF AptoideTrue, IsPage, Range
<1> HIDE DEF page
<1>3. page.http = "ok" /\ GetByKey(store, key) = Got(page.body)
  BY <1>1, <1>2, AnsweredPage
<1> QED BY <1>3 DEF page, AppPages, Range

\* The app's page, or the one found by a search.
LEMMA PayloadIs ==
    ASSUME NEW store, AptoideTrue(store), GetAppOrSearch(store).error = None
    PROVE  \E page \in AppPages(store) : GetAppOrSearch(store) = Got(page.body)
<1> DEFINE direct == Requested(store.byPackage, AptoideRefusal)
           items == Requested(store.search, AptoideRefusal)
           exact == First(items.value, LAMBDA item : item.own)
           result == GetAppOrSearch(store)
<1>1. result = IF direct.error # "NOT_FOUND" THEN direct
               ELSE IF items.error = None
                    THEN IF exact = None THEN Fail("NOT_FOUND")
                         ELSE IF exact.id = None THEN Fail("BAD_RESPONSE")
                         ELSE GetByKey(store, exact.id)
                    ELSE items
  BY Zenon DEF GetAppOrSearch, Then, Unless
<1>2. IsPage(store.byPackage)
  BY DEF AptoideTrue
<1> HIDE DEF result, exact
<1>3. CASE result = direct
  <2>1. direct.error = None
    BY <1>3 DEF result
  <2>2. store.byPackage.http = "ok" /\ direct = Got(store.byPackage.body)
    BY <1>2, <2>1, AnsweredPage
  <2> QED BY <1>3, <2>2 DEF AppPages, result
<1>4. CASE result = GetByKey(store, exact.id)
  <2>1. GetByKey(store, exact.id).error = None
    BY <1>4 DEF result
  <2> QED BY <1>4, <2>1, ByKeyIs DEF result
<1>5. result = direct \/ result = GetByKey(store, exact.id)
  <2> HIDE DEF direct, items
  <2>1. result.error = None
    BY DEF result
  <2> QED BY <1>1, <2>1, Failures DEF ErrorCode
<1> QED BY <1>3, <1>4, <1>5

\* The app that is selected is a build that is meant.
LEMMA SelectedApp ==
    ASSUME NEW store, AptoideTrue(store), NEW request \in Asked,
           NEW page \in AppPages(store),
           SelectApp(store, page.body, request).error = None
    PROVE  \E b \in Codes :
            /\ b \in Exactly(request)
            /\ AppTrue(store, SelectApp(store, page.body, request).value, b)
<1> DEFINE payload == page.body
           current == AppData(payload)
           X == {i \in 1..Len(payload.versions) : Matches(payload.versions[i], request)}
           item == First(payload.versions, LAMBDA v : Matches(v, request))
           key == IF item.id # None THEN item.id ELSE item.md5
           found == GetByKey(store, key)
           app == AppData(found.value)
           result == SelectApp(store, payload, request)
<1>1. result = IF current.error = None
               THEN IF Matches(current.value, request) THEN Got(current.value)
                    ELSE IF item = None THEN Fail("NOT_FOUND")
                    ELSE IF key = None THEN Fail("BAD_RESPONSE")
                    ELSE IF found.error = None THEN app ELSE found
               ELSE current
  BY Zenon DEF SelectApp, Then, Unless
<1>2. item = FirstAt(payload.versions, X)
  BY Zenon DEF First, SelectInSeq, FirstAt
<1>3. /\ page \in {store.byPackage} \cup Range(store.byKey) /\ page.http = "ok"
      /\ IsList(payload.versions)
  BY DEF AppPages, AptoideTrue
<1>4. ASSUME NEW data, AppData(data).error = None
      PROVE  data.app # None /\ AppData(data) = Got(data.app)
  BY <1>4, Failures DEF AppData, Unless, ErrorCode
<1>5. item = None \/ Among(item, payload.versions, X)
  BY <1>2, <1>3, FirstIs
<1>6. result.error = None
  OBVIOUS
<1> HIDE DEF item, result
<1>7. CASE result = Got(current.value) /\ current.error = None
           /\ Matches(current.value, request)
  <2>1. payload.app # None /\ current.value = payload.app
    BY <1>4, <1>7 DEF Got
  <2>2. PICK b \in Codes : AppTrue(store, payload.app, b)
    BY <1>3, <2>1 DEF AptoideTrue
  <2>3. b \in Exactly(request)
    BY <1>7, <2>1, <2>2, MatchIsMeant DEF AppTrue
  <2>4. result.value = payload.app
    BY <1>7, <2>1 DEF Got
  <2> QED BY <2>2, <2>3, <2>4 DEF result
<1>8. CASE result = app /\ item # None /\ key # None /\ found.error = None
  <2>1. /\ key \in DOMAIN store.byKey
        /\ store.byKey[key] \in AppPages(store)
        /\ found = Got(store.byKey[key].body)
    <3> HIDE DEF key
    <3> QED BY <1>8, ByKeyIs
  <2>2. found.value.app # None /\ result.value = found.value.app
    BY <1>4, <1>6, <1>8 DEF Got
  <2>3. item \in Range(payload.versions) /\ Matches(item, request)
    BY <1>5, <1>8 DEF Among
  <2>4. key \in {item.id, item.md5} \cap DOMAIN store.byKey
    BY <2>1
  <2> DEFINE there == store.byKey[key]
  <2>5. there.http = "ok" /\ there.body.app # None /\ result.value = there.body.app
    BY <2>1, <2>2 DEF AppPages, Got
  <2> HIDE DEF key
  <2>6. PICK b \in Codes : IsOf(item, b) /\ AppTrue(store, there.body.app, b)
    BY <1>3, <2>3, <2>4, <2>5 DEF AptoideTrue
  <2>7. b \in Exactly(request)
    BY <2>3, <2>6, MatchIsMeant
  <2> QED BY <2>5, <2>6, <2>7 DEF result
<1>9. \/ result = Got(current.value) /\ current.error = None
         /\ Matches(current.value, request)
      \/ result = app /\ item # None /\ key # None /\ found.error = None
  <2> HIDE DEF current, found, app, key
  <2> QED BY <1>1, <1>6, Failures DEF ErrorCode
<1> QED BY <1>7, <1>8, <1>9

\* What is made of the places up to a number is a list.
LEMMA ListOver ==
    ASSUME NEW F, NEW n \in Nat, NEW files, files = [i \in 1..n |-> files[i]],
           \A i \in 1..n : files[i] \in F
    PROVE  files \in Seq(F)
<1>1. files \in [1..n -> F]
  OBVIOUS
<1> QED BY <1>1

\* The files of an app lead to the app's build.
LEMMA AptoideFilesAre ==
    ASSUME NEW store, AptoideTrue(store), NEW b, NEW app, AppTrue(store, app, b),
           AptoideFiles(store, app).error = None
    PROVE  /\ IsList(AptoideFiles(store, app).value)
           /\ \A f \in Range(AptoideFiles(store, app).value) : f.build = b
<1> DEFINE wanted == app.splits = <<>> /\ app.wanted /\ app.md5 # None
           more == IF wanted THEN DynamicSplits(store) ELSE Got(app.splits)
           splits == Selected(more.value, LAMBDA s : s.url # None)
           I == {i \in DOMAIN more.value : more.value[i].url # None}
           all == <<app.base>> \o splits
           urls == KeepFirst(all, LAMBDA s : s.url)
           J == {i \in DOMAIN all : \A j \in 1..(i - 1) : all[j].url # all[i].url}
           first == [i \in DOMAIN urls |->
                        File(IF i = 1 THEN "BASE_APK" ELSE "SPLIT_APK", urls[i].build)]
           second == [i \in DOMAIN app.obbs |-> File("OBB", app.obbs[i].build)]
           result == AptoideFiles(store, app)
           F == [type : {"BASE_APK", "SPLIT_APK", "OBB"}, build : {b}]
<1>1. result = IF app.base = None THEN Fail("BAD_RESPONSE")
               ELSE IF more.error = None THEN Got(first \o second) ELSE more
  BY Zenon DEF AptoideFiles, Then, Unless
<1>2. result.error = None
  OBVIOUS
<1> HIDE DEF result
<1>3. app.base # None /\ more.error = None /\ result = Got(first \o second)
  <2> HIDE DEF more, first, second
  <2> QED BY <1>1, <1>2, Failures DEF ErrorCode
<1>4. IsList(more.value) /\ \A url \in Range(more.value) : url.build = b
  <2>1. CASE wanted
    <3> DEFINE dynamic == Requested(store.dynamic, AptoideRefusal)
    <3>1. DynamicSplits(store) =
            IF dynamic.error = None
            THEN Got(IF dynamic.value.ok THEN dynamic.value.splits ELSE <<>>)
            ELSE dynamic
      BY Zenon DEF DynamicSplits, Then
    <3>2. more = DynamicSplits(store)
      BY <2>1
    <3> HIDE DEF more, dynamic
    <3>3. /\ dynamic.error = None
          /\ more = Got(IF dynamic.value.ok THEN dynamic.value.splits ELSE <<>>)
      BY <1>3, <3>1, <3>2
    <3>4. IsPage(store.dynamic)
      BY DEF AptoideTrue
    <3>5. store.dynamic.http = "ok" /\ dynamic.value = store.dynamic.body
      BY <3>3, <3>4, AnsweredPage DEF dynamic, Got
    <3>6. CASE store.dynamic.body.ok
      BY <2>1, <3>3, <3>5, <3>6 DEF AppTrue, Got
    <3>7. CASE ~store.dynamic.body.ok
      <4>1. more.value = <<>>
        BY <3>3, <3>5, <3>7 DEF Got
      <4> QED BY <4>1 DEF IsList, Range
    <3> QED BY <3>6, <3>7
  <2>2. CASE ~wanted
    <3>1. more.value = app.splits
      BY <2>2 DEF Got
    <3> QED BY <3>1 DEF AppTrue
  <2> QED BY <2>1, <2>2
<1>5. splits = At(more.value, I)
  BY Zenon DEF Selected
<1> HIDE DEF more
<1> DEFINE T == Range(more.value)
           U == T \cup {app.base}
<1>6. splits \in Seq(U)
  <2> DEFINE w == more.value
  <2>1. w \in Seq(T)
    BY <1>4 DEF IsList
  <2>2. splits = At(w, {i \in DOMAIN w : w[i].url # None})
    BY <1>5
  <2> HIDE DEF w, splits, T
  <2>3. w \in Seq(U)
    BY <2>1
  <2> HIDE DEF U
  <2> QED BY <2>2, <2>3, PartOfList
<1>7. \A url \in U : url.build = b
  BY <1>3, <1>4 DEF AppTrue
<1> HIDE DEF splits
<1>8. all \in Seq(U)
  <2>1. app.base \in U
    OBVIOUS
  <2> HIDE DEF U
  <2> QED BY <1>6, <2>1
<1>9. urls = At(all, J)
  BY Zenon DEF KeepFirst
<1> HIDE DEF all, U
<1>10. urls \in Seq(U)
  BY <1>8, <1>9, PartOfList
<1> HIDE DEF urls
<1>11. first \in Seq(F)
  <2> DEFINE n == Len(urls)
  <2>1. n \in Nat /\ DOMAIN urls = 1..n /\ \A i \in 1..n : urls[i].build = b
    BY <1>7, <1>10
  <2>2. \A i \in 1..n : first[i] \in F
    BY <2>1 DEF File
  <2>3. first = [i \in 1..n |-> first[i]]
    BY <2>1
  <2>4. n \in Nat
    BY <2>1
  <2> HIDE DEF first, F, n
  <2> QED BY <2>2, <2>3, <2>4, ListOver
<1>12. second \in Seq(F)
  <2> DEFINE n == Len(app.obbs)
  <2>1. n \in Nat /\ DOMAIN app.obbs = 1..n /\ \A i \in 1..n : app.obbs[i].build = b
    <3>1. IsList(app.obbs) /\ \A url \in Range(app.obbs) : url.build = b
      BY DEF AppTrue
    <3>2. n \in Nat /\ DOMAIN app.obbs = 1..n
      BY <3>1, ListIs DEF IsList
    <3> QED BY <3>1, <3>2 DEF Range
  <2>2. \A i \in 1..n : second[i] \in F
    BY <2>1 DEF File
  <2>3. second = [i \in 1..n |-> second[i]]
    BY <2>1
  <2>4. n \in Nat
    BY <2>1
  <2> HIDE DEF second, F, n
  <2> QED BY <2>2, <2>3, <2>4, ListOver
<1> HIDE DEF first, second
<1>13. IsList(first \o second) /\ \A f \in Range(first \o second) : f \in F
  <2> HIDE DEF F
  <2>1. first \o second \in Seq(F)
    BY <1>11, <1>12
  <2> DEFINE files == first \o second
  <2>2. files \in Seq(F)
    BY <2>1
  <2> HIDE DEF files
  <2>3. IsList(files) /\ \A f \in Range(files) : f \in F
    BY <2>2, ListIs DEF Range
  <2> QED BY <2>3 DEF files
<1>14. result.value = first \o second
  BY <1>3 DEF Got
<1> QED BY <1>13, <1>14 DEF result

\* A plan of aptoide is right.
LEMMA AptoideRight ==
    ASSUME NEW p \in KeyedByCode, NEW store, AptoideTrue(store), NEW request \in Asked
    PROVE  PlanRight(p, AptoidePlan(store, request), request)
<1> DEFINE plan == AptoidePlan(store, request)
           payload == GetAppOrSearch(store)
           app == SelectApp(store, payload.value, request)
           files == AptoideFiles(store, app.value)
<1> SUFFICES ASSUME plan.error = None
             PROVE  /\ IsList(plan.value.files)
                    /\ \A f \in Range(plan.value.files) :
                        f.build # None => FileRight(p, f, plan.value, request)
  BY DEF PlanRight
<1>1. plan = IF payload.error = None
             THEN IF app.error = None
                  THEN IF ~app.value.package THEN Fail("BAD_RESPONSE")
                       ELSE IF files.error = None
                            THEN Got(Plan(app.value.code, app.value.name, files.value))
                            ELSE files
                  ELSE app
             ELSE payload
  BY Zenon DEF AptoidePlan, Then, Unless
<1> HIDE DEF plan
<1>2. /\ payload.error = None /\ app.error = None /\ files.error = None
      /\ plan = Got(Plan(app.value.code, app.value.name, files.value))
  <2> HIDE DEF payload, app, files
  <2> QED BY <1>1, Failures DEF ErrorCode
<1>3. PICK page \in AppPages(store) : payload = Got(page.body)
  BY <1>2, PayloadIs
<1> HIDE DEF payload
<1>4. app = SelectApp(store, page.body, request)
  BY <1>3 DEF Got
<1>5. PICK b \in Codes : b \in Exactly(request) /\ AppTrue(store, app.value, b)
  BY <1>2, <1>4, SelectedApp
<1> HIDE DEF app
<1>6. IsList(files.value) /\ \A f \in Range(files.value) : f.build = b
  BY <1>2, <1>5, AptoideFilesAre
<1>7. app.value.code \in {None, b} /\ app.value.name \in {None, OwnName[b]}
  BY <1>5 DEF AppTrue, IsOf
<1> HIDE DEF files
<1>8. /\ plan.value.code = app.value.code
      /\ plan.value.name = app.value.name
      /\ plan.value.files = files.value
  BY <1>2 DEF Got, Plan
<1> QED BY <1>5, <1>6, <1>7, <1>8 DEF FileRight, Meant

-----------------------------------------------------------------------------
\* A page that a browser loads without an error is shown.
LEMMA LoadedPage ==
    ASSUME NEW page, Loaded(page).error = None
    PROVE  Shows(page) /\ Loaded(page) = Got(page.body)
<1>1. \A h \in DOMAIN Refusal : Refusal[h] \in ErrorCode
  BY DEF Refusal, ErrorCode
<1>2. {"missing", "broken", "unreachable"} \subseteq DOMAIN Refusal
  BY DEF Refusal
<1> QED BY <1>1, <1>2, Failures DEF Loaded, Fail, Shows

\* The rows whose release pages are what they say.
Releases(site) ==
    {row \in UNION {Range(Loaded(site.uploads[i]).value) : i \in 1..PagesRead(site)} :
        ReleaseTrue(site, row.release, row.name)}

\* list_versions lists such rows.
LEMMA UploadsAre ==
    ASSUME NEW site, MirrorTrue(site), ListUploads(site).error = None
    PROVE  ListUploads(site).value \in Seq(Releases(site))
<1>1. PagesRead(site) \in Nat
  BY DEF MirrorTrue
<1>2. ASSUME NEW i \in 1..PagesRead(site), Loaded(site.uploads[i]).error = None
      PROVE  /\ IsList(Loaded(site.uploads[i]).value)
             /\ \A row \in Range(Loaded(site.uploads[i]).value) :
                    row.own /\ row.name # None => row \in Releases(site)
  <2>1. Shows(site.uploads[i]) /\ Loaded(site.uploads[i]) = Got(site.uploads[i].body)
    BY <1>2, LoadedPage
  <2>2. Loaded(site.uploads[i]).value = site.uploads[i].body
    BY <2>1 DEF Got
  <2>3. /\ IsList(site.uploads[i].body)
        /\ \A row \in Range(site.uploads[i].body) :
                row.own /\ row.name # None => ReleaseTrue(site, row.release, row.name)
    BY <2>1 DEF MirrorTrue
  <2> QED BY <2>2, <2>3 DEF Releases
<1> QED BY <1>1, <1>2, UploadsList

\* select_variant returns a variant of the page, if any.
LEMMA VariantIs ==
    ASSUME NEW variants, IsList(variants), SelectVariant(variants) # None
    PROVE  SelectVariant(variants) \in Range(variants)
<1> DEFINE distinct == KeepFirst(variants, LAMBDA v : v.url)
           J == {i \in DOMAIN variants :
                    \A j \in 1..(i - 1) : variants[j].url # variants[i].url}
           X == {i \in 1..Len(distinct) : distinct[i].bundle}
           Y == {i \in 1..Len(distinct) : TRUE}
           T == Range(variants)
<1>1. distinct = At(variants, J)
  BY Zenon DEF KeepFirst
<1>2. variants \in Seq(T)
  BY DEF IsList
<1>3. SelectVariant(variants) =
        IF FirstAt(distinct, X) # None THEN FirstAt(distinct, X)
        ELSE FirstAt(distinct, Y)
  BY Zenon DEF SelectVariant, First, SelectInSeq, FirstAt
<1> HIDE DEF distinct, T
<1>4. distinct \in Seq(T)
  BY <1>1, <1>2, PartOfList
<1>5. IsList(distinct) /\ \A x \in Range(distinct) : x \in T
  <2>1. IsList(distinct) /\ DOMAIN distinct = 1..Len(distinct)
    BY <1>4, ListIs
  <2> QED BY <1>4, <2>1 DEF Range
<1>6. FirstAt(distinct, X) = None \/ FirstAt(distinct, X) \in T
  <2>1. X \in SUBSET (1..Len(distinct))
    OBVIOUS
  <2> HIDE DEF X
  <2>2. FirstAt(distinct, X) = None \/ Among(FirstAt(distinct, X), distinct, X)
    BY <1>5, <2>1, FirstIs
  <2> QED BY <1>5, <2>2 DEF Among
<1>7. FirstAt(distinct, Y) = None \/ FirstAt(distinct, Y) \in T
  <2>1. Y \in SUBSET (1..Len(distinct))
    OBVIOUS
  <2> HIDE DEF Y
  <2>2. FirstAt(distinct, Y) = None \/ Among(FirstAt(distinct, Y), distinct, Y)
    BY <1>5, <2>1, FirstIs
  <2> QED BY <1>5, <2>2 DEF Among
<1> QED BY <1>3, <1>6, <1>7 DEF T

\* What a release page leads to is a build of the release's name.
LeadsTo(found, name) ==
    /\ found.build \in Codes /\ OwnName[found.build] = name
    /\ IsOf(found, found.build)

\* That is what resolve_download_url returns.
LEMMA ResolvedIs ==
    ASSUME NEW site, NEW release, NEW name, ReleaseTrue(site, release, name),
           ResolveDownload(site, release).error = None
    PROVE  LeadsTo(ResolveDownload(site, release).value, name)
<1> DEFINE page == IF release \in DOMAIN site.releases THEN site.releases[release]
                   ELSE [http |-> "missing", body |-> <<>>]
           variants == Loaded(page)
           variant == SelectVariant(variants.value)
           shown == Loaded(variant.page)
           link == Loaded(site.final)
           found == [code |-> shown.value.code, name |-> shown.value.name,
                     build |-> variant.build]
           result == ResolveDownload(site, release)
<1>1. result =
        IF variants.error = None
        THEN IF variant = None THEN Fail("NOT_FOUND")
             ELSE IF shown.error = None
                  THEN IF ~shown.value.button THEN Fail("BAD_RESPONSE")
                       ELSE IF link.error = None
                            THEN IF link.value # "ok" THEN Fail("BAD_RESPONSE")
                                 ELSE Got(found)
                            ELSE link
                  ELSE shown
        ELSE variants
  BY Zenon DEF ResolveDownload, Then, Unless
<1>2. result.error = None
  OBVIOUS
<1> HIDE DEF result
<1>3. /\ variants.error = None /\ variant # None /\ shown.error = None
      /\ result = Got(found)
  <2> HIDE DEF variants, variant, shown, link, found
  <2> QED BY <1>1, <1>2, Failures DEF ErrorCode
<1>4. Shows(page) /\ variants = Got(page.body)
  <2> HIDE DEF page
  <2> QED BY <1>3, LoadedPage
<1>5. Shows(variant.page) /\ shown = Got(variant.page.body)
  <2> HIDE DEF variant
  <2> QED BY <1>3, LoadedPage
<1>6. release \in DOMAIN site.releases /\ page = site.releases[release]
  <2>1. "missing" \in DOMAIN Refusal /\ Refusal["missing"] = "NOT_FOUND"
    BY DEF Refusal
  <2> QED BY <1>4, <2>1, Failures DEF Shows, Loaded, Fail, ErrorCode
<1>7. variants.value = site.releases[release].body
  BY <1>4, <1>6 DEF Got
<1> HIDE DEF variants, page, shown
<1>8. /\ IsList(variants.value)
      /\ \A v \in Range(variants.value) :
            /\ v.build \in Codes /\ OwnName[v.build] = name
            /\ Shows(v.page) => IsOf(v.page.body, v.build)
  BY <1>4, <1>6, <1>7 DEF ReleaseTrue
<1>9. variant \in Range(variants.value)
  BY <1>3, <1>8, VariantIs
<1> HIDE DEF variant
<1>10. /\ variant.build \in Codes /\ OwnName[variant.build] = name
       /\ IsOf(variant.page.body, variant.build)
  BY <1>5, <1>8, <1>9
<1>11. shown.value = variant.page.body
  BY <1>5 DEF Got
<1>12. /\ result.value.build = variant.build
       /\ result.value.code = variant.page.body.code
       /\ result.value.name = variant.page.body.name
  BY <1>3, <1>11 DEF Got
<1> QED BY <1>10, <1>12 DEF IsOf, LeadsTo, result

\* What is found for a name, by the constructed URL or by the list's, is a build of
\* that name.
LEMMA NamedDownload ==
    ASSUME NEW site, MirrorTrue(site), NEW request \in Asked, request.name # None,
           ResolveOrList(site, request, request.name).error = None
    PROVE  LeadsTo(ResolveOrList(site, request, request.name).value, request.name)
<1> DEFINE direct == ResolveDownload(site, request.name)
           listed == ListUploads(site)
           X == {i \in 1..Len(listed.value) : listed.value[i].name = request.name}
           match == FirstAt(listed.value, X)
           other == ResolveDownload(site, match.release)
           result == ResolveOrList(site, request, request.name)
<1>1. result = IF direct.error = None \/ request.name = None THEN direct
               ELSE IF listed.error = None
                    THEN IF match = None THEN Fail("NOT_FOUND")
                         ELSE IF match.release = request.name THEN Fail("NOT_FOUND")
                         ELSE other
                    ELSE listed
  BY Zenon DEF ResolveOrList, Then, Unless, First, SelectInSeq, FirstAt
<1>2. result.error = None
  OBVIOUS
<1> HIDE DEF result
<1>3. \/ result = direct /\ direct.error = None
      \/ result = other /\ other.error = None /\ match # None /\ listed.error = None
  <2> HIDE DEF direct, listed, match, other
  <2> QED BY <1>1, <1>2, Failures DEF ErrorCode
<1>4. CASE result = direct /\ direct.error = None
  <2>1. ReleaseTrue(site, request.name, request.name)
    BY RequestsAssumption DEF MirrorTrue
  <2>2. LeadsTo(direct.value, request.name)
    BY <1>4, <2>1, ResolvedIs
  <2> QED BY <1>4, <2>2 DEF result
<1>5. CASE result = other /\ other.error = None /\ match # None /\ listed.error = None
  <2> DEFINE S == Releases(site)
             seq == listed.value
  <2>1. seq \in Seq(S)
    BY <1>5, UploadsAre
  <2>2. X \in SUBSET (1..Len(seq))
    OBVIOUS
  <2>3. \A i \in X : seq[i].name = request.name
    OBVIOUS
  <2> HIDE DEF S, seq, X
  <2>4. IsList(seq) /\ DOMAIN seq = 1..Len(seq)
    BY <2>1, ListIs
  <2>5. match = FirstAt(seq, X)
    BY DEF seq
  <2> HIDE DEF match
  <2>6. Among(match, seq, X)
    BY <1>5, <2>2, <2>4, <2>5, FirstIs
  <2>7. match \in S /\ match.name = request.name
    BY <2>1, <2>3, <2>4, <2>6 DEF Among, Range
  <2>8. ReleaseTrue(site, match.release, request.name)
    BY <2>7 DEF S, Releases
  <2>9. LeadsTo(other.value, request.name)
    BY <1>5, <2>8, ResolvedIs
  <2> QED BY <1>5, <2>9 DEF result
<1> QED BY <1>3, <1>4, <1>5

\* A plan of apkmirror is right.
LEMMA MirrorRight ==
    ASSUME NEW p, p \notin KeyedByCode, NEW site, MirrorTrue(site), NEW request \in Asked
    PROVE  PlanRight(p, MirrorPlan(site, request), request)
<1> DEFINE plan == MirrorPlan(site, request)
           slugs == Slugs(site)
           release == ReleaseUrl(site, request)
           download == ResolveOrList(site, request, release.value)
           made == Plan(Either(request.code, download.value.code),
                        Either(request.name, download.value.name),
                        <<File("APKM", download.value.build)>>)
<1> SUFFICES ASSUME plan.error = None
             PROVE  /\ IsList(plan.value.files) /\ Len(plan.value.files) = 1
                    /\ \A f \in Range(plan.value.files) :
                        f.build # None => FileRight(p, f, plan.value, request)
  BY DEF PlanRight
<1>1. plan = IF slugs.error = None
             THEN IF release.error = None
                  THEN IF download.error = None THEN Got(made) ELSE download
                  ELSE release
             ELSE slugs
  BY Zenon DEF MirrorPlan, Then
<1> HIDE DEF plan
<1>2. release.error = None /\ download.error = None /\ plan = Got(made)
  <2> HIDE DEF slugs, release, download, made
  <2> QED BY <1>1
<1> DEFINE b == download.value.build
<1>3. /\ plan.value.code = Either(request.code, download.value.code)
      /\ plan.value.name = Either(request.name, download.value.name)
      /\ IsList(plan.value.files) /\ Len(plan.value.files) = 1
      /\ \A f \in Range(plan.value.files) : f.build = b
  <2> HIDE DEF download
  <2>1. plan.value = made
    BY <1>2 DEF Got
  <2>2. /\ Range(made.files) = {File("APKM", b)} /\ Len(made.files) = 1
        /\ IsList(made.files)
    BY DEF Plan, Range, IsList
  <2>3. File("APKM", b).build = b
    BY DEF File
  <2> HIDE DEF b
  <2> QED BY <2>1, <2>2, <2>3 DEF Plan
<1>4. CASE request.name # None
  <2>1. release.value = request.name
    BY <1>4 DEF ReleaseUrl, Got
  <2>2. LeadsTo(download.value, request.name)
    BY <1>2, <1>4, <2>1, NamedDownload
  <2> HIDE DEF download
  <2>3. b \in Codes /\ OwnName[b] = request.name
        /\ download.value.code \in {None, b}
    BY <2>2 DEF LeadsTo, IsOf
  <2>4. b \in Meant(p, request)
    BY <2>3, NamedIsMeant
  <2> QED BY <1>3, <1>4, <2>3, <2>4 DEF FileRight, Either
<1>5. CASE request.name = None
  <2> DEFINE listed == ListUploads(site)
             S == Releases(site)
  <2>1. release = IF request.code # None THEN Fail("NOT_FOUND")
                  ELSE IF listed.error = None
                       THEN IF listed.value = <<>> THEN Fail("NOT_FOUND")
                            ELSE Got(listed.value[1].release)
                       ELSE listed
    <3>1. release = IF ~(request.code # None) THEN
                       IF listed.error = None
                       THEN IF listed.value = <<>> THEN Fail("NOT_FOUND")
                            ELSE Got(listed.value[1].release)
                       ELSE listed
                    ELSE Fail("NOT_FOUND")
      BY Zenon, <1>5 DEF ReleaseUrl, Then, Unless
    <3> QED BY <3>1
  <2>2. /\ request.code = None /\ listed.error = None /\ listed.value # <<>>
        /\ release = Got(listed.value[1].release)
    <3> HIDE DEF listed, release
    <3> QED BY <1>2, <2>1, Failures DEF ErrorCode
  <2> DEFINE row == listed.value[1]
  <2>3. row \in S
    <3>1. listed.value \in Seq(S)
      BY <2>2, UploadsAre
    <3> HIDE DEF listed, S
    <3> QED BY <2>2, <3>1
  <2>4. ReleaseTrue(site, row.release, row.name)
    BY <2>3 DEF Releases
  <2>5. release.value = row.release
    BY <2>2 DEF Got
  <2>6. download = ResolveDownload(site, row.release)
    BY Zenon, <1>5, <2>5 DEF ResolveOrList
  <2>7. LeadsTo(download.value, row.name)
    BY <1>2, <2>4, <2>6, ResolvedIs
  <2> HIDE DEF download, row
  <2>8. b \in Codes /\ download.value.code \in {None, b}
        /\ download.value.name \in {None, OwnName[b]}
    BY <2>7 DEF LeadsTo, IsOf
  <2>9. b \in Meant(p, request)
    BY <1>5, <2>2, <2>8, ExactIsMeant DEF Exactly
  <2> QED BY <1>3, <1>5, <2>2, <2>8, <2>9 DEF FileRight, Either
<1> QED BY <1>4, <1>5

\* apkmirror shows no code.
LEMMA MirrorInfoRight ==
    ASSUME NEW site, NEW request
    PROVE  InfoRight(MirrorInfo(site, request), request)
<1> DEFINE info == MirrorInfo(site, request)
           slugs == Slugs(site)
           listed == ListUploads(site)
           named == First(listed.value, LAMBDA v : v.name = request.name)
           version == IF request.name = None /\ request.code = None
                      THEN listed.value[1] ELSE named
<1>1. info = IF slugs.error = None
             THEN IF listed.error = None
                  THEN IF listed.value = <<>> THEN Fail("NOT_FOUND")
                       ELSE IF version = None THEN Fail("NOT_FOUND")
                       ELSE Got(Info(None, version.name, listed.value))
                  ELSE listed
             ELSE slugs
  BY Zenon DEF MirrorInfo, Then, Unless
<1> HIDE DEF info, slugs, listed, version
<1>2. info.error = None => info = Got(Info(None, version.name, listed.value))
  BY <1>1, Failures DEF ErrorCode
<1>3. info.error = None => info.value.code = None
  BY <1>2 DEF Got, Info
<1> QED BY <1>3 DEF InfoRight, info

-----------------------------------------------------------------------------
\* A page that is of build b, and is not another version than asked for, is of a
\* build that is meant, and of exactly the one asked for if it shows a code.
LEMMA LatestIsMeant ==
    ASSUME NEW p, p \notin KeyedByCode, NEW request \in Asked, NEW b \in Codes,
           NEW latest, IsOf(latest, b), ~IsHistorical(latest, request)
    PROVE  /\ b \in Meant(p, request)
           /\ latest.code # None => b \in Exactly(request)
<1>1. CASE request.code # None /\ latest.code # None
  <2>1. b \in Exactly(request)
    BY <1>1 DEF IsHistorical, IsOf, Exactly
  <2> QED BY <2>1, ExactIsMeant
<1>2. CASE ~(request.code # None /\ latest.code # None) /\ request.name # None
  <2>1. request.name = OwnName[b]
    BY <1>2 DEF IsHistorical, IsOf
  <2>2. b \in Meant(p, request)
    BY <2>1, NamedIsMeant
  <2>3. request.code = None => b \in Exactly(request)
    BY <2>1 DEF Exactly
  <2> QED BY <1>2, <2>2, <2>3
<1>3. CASE request.code = None /\ request.name = None
  <2>1. b \in Exactly(request)
    BY <1>3 DEF Exactly
  <2> QED BY <2>1, ExactIsMeant
<1>4. ~(request.code # None /\ latest.code = None /\ request.name = None)
  BY DEF IsHistorical
<1> QED BY <1>1, <1>2, <1>3, <1>4

\* The link that is taken may be the package's.
LEMMA UrlIs ==
    ASSUME NEW page, IsList(page), DownloadUrl(page) # None
    PROVE  DownloadUrl(page) \in Range(page) /\ MayBePackage(DownloadUrl(page))
<1> DEFINE X == {i \in 1..Len(page) : /\ page[i].anchor /\ page[i].path # "none"
                                      /\ ~page[i].stub}
           Y == {i \in 1..Len(page) : page[i].path = "b"}
<1>1. DownloadUrl(page) = IF FirstAt(page, X) # None THEN FirstAt(page, X)
                          ELSE FirstAt(page, Y)
  BY Zenon DEF DownloadUrl, First, SelectInSeq, FirstAt
<1>2. X \in SUBSET (1..Len(page)) /\ \A i \in X : MayBePackage(page[i])
  BY DEF MayBePackage
<1>3. Y \in SUBSET (1..Len(page)) /\ \A i \in Y : MayBePackage(page[i])
  BY DEF MayBePackage
<1> HIDE DEF X, Y
<1>4. FirstAt(page, X) = None \/ Among(FirstAt(page, X), page, X)
  BY <1>2, FirstIs
<1>5. FirstAt(page, Y) = None \/ Among(FirstAt(page, Y), page, Y)
  BY <1>3, FirstIs
<1> QED BY <1>1, <1>2, <1>3, <1>4, <1>5 DEF Among

\* The file of a version is what its download page leads to, or its row.
FileOf(f, version) ==
    LET key == Either(version.name, version.code) IN
    \/ f.build = version.build
    \/ /\ f.build \in Codes
       /\ key \in Names => OwnName[f.build] = key
       /\ key \in Codes => f.build = key

\* That is what resolve_version_file returns.
LEMMA VersionFileIs ==
    ASSUME NEW site, PureTrue(site), NEW version,
           ResolveVersionFile(site, version).error = None
    PROVE  FileOf(ResolveVersionFile(site, version).value, version)
<1> DEFINE key == Either(version.name, version.code)
           page == DownloadPage(site, version)
           shown == Loaded(page)
           url == DownloadUrl(shown.value)
           type == FileTypeFrom(<<url.type, url.disposition>>, version.type)
           result == ResolveVersionFile(site, version)
<1>1. result = IF shown.error = None
               THEN IF url = None THEN Got(File(version.type, version.build))
                    ELSE IF type.error = None THEN Got(File(type.value, url.build))
                    ELSE type
               ELSE shown
  BY Zenon DEF ResolveVersionFile, Then
<1>2. result.error = None
  OBVIOUS
<1> HIDE DEF result
<1>3. /\ shown.error = None
      /\ \/ result = Got(File(version.type, version.build))
         \/ url # None /\ result = Got(File(type.value, url.build))
  <2> HIDE DEF shown, url, type
  <2> QED BY <1>1, <1>2
<1>4. CASE result = Got(File(version.type, version.build))
  BY <1>4 DEF result, Got, File, FileOf
<1>5. CASE url # None /\ result = Got(File(type.value, url.build))
  <2>1. Shows(page) /\ shown = Got(page.body)
    <3> HIDE DEF page
    <3> QED BY <1>3, LoadedPage
  <2>2. key \in DOMAIN site.pages /\ page = site.pages[key]
    <3>1. Refusal["missing"] = "NOT_FOUND"
      BY DEF Refusal
    <3> QED BY <2>1, <3>1, Failures DEF Shows, Loaded, Fail, ErrorCode, DownloadPage
  <2>3. shown.value = site.pages[key].body
    BY <2>1, <2>2 DEF Got
  <2> HIDE DEF page, shown
  <2>4. /\ IsList(shown.value)
        /\ \A u \in Range(shown.value) : MayBePackage(u) =>
                /\ u.build \in Codes
                /\ key \in Names => OwnName[u.build] = key
                /\ key \in Codes => u.build = key
    BY <2>1, <2>2, <2>3 DEF PureTrue
  <2>5. url \in Range(shown.value) /\ MayBePackage(url)
    BY <1>5, <2>4, UrlIs
  <2> HIDE DEF url, type
  <2>6. result.value.build = url.build
    BY <1>5 DEF Got, File
  <2> QED BY <2>4, <2>5, <2>6 DEF result, FileOf
<1> QED BY <1>3, <1>4, <1>5

\* The rows that a site lists of its own.
OwnRows(site) ==
    {row \in Range(site.versions.body) :
        \E b \in Codes : IsOf(row, b) /\ row.build \in {None, b}}

\* A version that is selected is a row of the request's.
RowOf(v, request) ==
    \E b \in Codes :
        /\ IsOf(v, b) /\ v.build \in {None, b} /\ b \in Exactly(request)
        /\ IF request.code # None THEN v.code = request.code
           ELSE request.name # None /\ v.name = request.name

\* That is what _select_historical returns.
LEMMA SelectedRow ==
    ASSUME NEW site, PureTrue(site), NEW request \in Asked,
           ListVersions(site).error = None,
           SelectHistorical(ListVersions(site).value, request).error = None
    PROVE  RowOf(SelectHistorical(ListVersions(site).value, request).value, request)
<1> DEFINE rows_ == Loaded(site.versions)
           I == {i \in DOMAIN rows_.value : rows_.value[i].own}
           own == Selected(rows_.value, LAMBDA row : row.own)
           kept == KeepFirst(own, LAMBDA row : row.code)
           J == {i \in DOMAIN own : \A j \in 1..(i - 1) : own[j].code # own[i].code}
           S == OwnRows(site)
           Test(v) == IF request.code # None THEN v.code = request.code
                      ELSE request.name # None /\ v.name = request.name
           X == {i \in 1..Len(kept) : Test(kept[i])}
           v == FirstAt(kept, X)
<1>1. ListVersions(site) = IF rows_.error = None THEN Got(kept) ELSE rows_
  BY Zenon DEF ListVersions, Then
<1>2. rows_.error = None /\ ListVersions(site).value = kept
  <2> HIDE DEF rows_, kept
  <2> QED BY <1>1 DEF Got
<1>3. SelectHistorical(kept, request)
        = IF v = None THEN Fail("NOT_FOUND") ELSE Got(v)
  BY Zenon DEF SelectHistorical, SelectVersion, First, SelectInSeq, FirstAt, Unless
<1>4. Shows(site.versions) /\ rows_ = Got(site.versions.body)
  BY <1>2, LoadedPage
<1>5. rows_.value = site.versions.body
  BY <1>4 DEF Got
<1>6. own = At(rows_.value, I)
  BY Zenon DEF Selected
<1>7. kept = At(own, J)
  BY Zenon DEF KeepFirst
<1> HIDE DEF rows_
<1>8. IsList(rows_.value) /\ \A row \in Range(rows_.value) : row.own => row \in S
  BY <1>4, <1>5 DEF PureTrue, OwnRows
<1>9. own \in Seq(S)
  <2>1. DOMAIN rows_.value = 1..Len(rows_.value) /\ Len(rows_.value) \in Nat
    BY <1>8, ListIs DEF IsList
  <2>2. IsFiniteSet(1..Len(rows_.value))
    BY <2>1, FS_Interval
  <2>3. IsFiniteSet(I) /\ I \in SUBSET Int
    BY <2>1, <2>2, FS_Subset
  <2>4. \A i \in I : rows_.value[i] \in S
    BY <1>8 DEF Range
  <2> HIDE DEF I, own, S
  <2> QED BY <1>6, <2>3, <2>4, ListAt
<1> HIDE DEF own
<1>10. kept \in Seq(S)
  BY <1>7, <1>9, PartOfList
<1> HIDE DEF kept
<1>11. X \in SUBSET (1..Len(kept)) /\ \A i \in X : Test(kept[i])
  OBVIOUS
<1> HIDE DEF X, v, S
<1>12. v # None /\ SelectHistorical(kept, request).value = v
  BY <1>2, <1>3, Failures DEF Got, ErrorCode
<1>13. IsList(kept) /\ DOMAIN kept = 1..Len(kept)
  BY <1>10, ListIs
<1>14. Among(v, kept, X)
  BY <1>11, <1>12, <1>13, FirstIs DEF v
<1>15. v \in S /\ Test(v)
  BY <1>10, <1>11, <1>13, <1>14 DEF Among, Range
<1>16. PICK b \in Codes : IsOf(v, b) /\ v.build \in {None, b}
  BY <1>15 DEF S, OwnRows
<1>17. b \in Exactly(request)
  BY <1>15, <1>16 DEF IsOf, Exactly
<1> QED BY <1>2, <1>12, <1>15, <1>16, <1>17 DEF RowOf

\* A build has a name.
LEMMA BuildsNamed == \A b \in Codes : OwnName[b] # None
BY TablesAssumption

\* A plan with one file is right if the file is.
LEMMA OneFile ==
    ASSUME NEW p, p \notin KeyedByCode, NEW request, NEW code, NEW name, NEW file,
           file.build # None => FileRight(p, file, Plan(code, name, <<file>>), request)
    PROVE  PlanRight(p, Got(Plan(code, name, <<file>>)), request)
<1> DEFINE plan == Plan(code, name, <<file>>)
<1>1. Range(plan.files) = {file} /\ Len(plan.files) = 1 /\ IsList(plan.files)
  BY DEF Plan, Range, IsList
<1> HIDE DEF plan
<1>2. Got(plan).value = plan
  BY DEF Got
<1>3. file.build # None => FileRight(p, file, plan, request)
  BY DEF plan
<1>4. PlanRight(p, Got(plan), request)
  BY <1>1, <1>2, <1>3 DEF PlanRight
<1> QED BY <1>4 DEF plan

\* A failure is right: no plan is wrong.
LEMMA WithoutPlan ==
    ASSUME NEW p, NEW request, NEW plan, plan.error # None
    PROVE  PlanRight(p, plan, request)
BY DEF PlanRight

\* A plan for a version that is not the latest is right.
LEMMA HistoricalRight ==
    ASSUME NEW p, p \notin KeyedByCode, NEW site, PureTrue(site), NEW request \in Asked
    PROVE  PlanRight(p, HistoricalPlan(site, request), request)
<1> DEFINE plan == HistoricalPlan(site, request)
           version == ResolveHistorical(site, request)
           file == ResolveVersionFile(site, version.value)
           made == Got(Plan(version.value.code, version.value.name, <<file.value>>))
<1>1. plan = IF version.error = None
             THEN IF file.error = None THEN made ELSE file
             ELSE version
  BY Zenon DEF HistoricalPlan, Then
<1> HIDE DEF plan
<1>2. CASE plan.error # None
  BY <1>2, WithoutPlan DEF plan
<1>3. CASE plan.error = None
  <2>1. version.error = None /\ file.error = None /\ plan = made
    <3> HIDE DEF version, file, made
    <3> QED BY <1>1, <1>3
  <2> DEFINE f == file.value
             v == version.value
  <2>2. FileOf(f, v)
    <3> HIDE DEF version
    <3> QED BY <2>1, VersionFileIs
  <2>3. f.build # None => FileRight(p, f, Plan(v.code, v.name, <<f>>), request)
    <3> SUFFICES ASSUME f.build # None
                 PROVE  FileRight(p, f, Plan(v.code, v.name, <<f>>), request)
      OBVIOUS
    <3>1. CASE request.name # None
      <4>1. v.build = None /\ v.code = request.code /\ v.name = request.name
        BY <3>1 DEF ResolveHistorical, Got
      <4> HIDE DEF version, file
      <4>2. f.build \in Codes /\ OwnName[f.build] = request.name
        BY <2>2, <3>1, <4>1, RequestsAssumption DEF FileOf, Either
      <4>3. f.build \in Meant(p, request)
        BY <4>2, NamedIsMeant
      <4> QED BY <4>1, <4>2, <4>3 DEF FileRight, Plan
    <3>2. CASE request.name = None
      <4> DEFINE listed == ListVersions(site)
                 selected == SelectHistorical(listed.value, request)
      <4>1. version = IF listed.error = None THEN selected ELSE listed
        BY Zenon, <3>2 DEF ResolveHistorical, Then
      <4> HIDE DEF version
      <4>2. listed.error = None /\ selected.error = None /\ version = selected
        <5> HIDE DEF listed, selected
        <5> QED BY <2>1, <4>1
      <4>3. RowOf(selected.value, request)
        BY <4>2, SelectedRow
      <4> HIDE DEF selected, file
      <4>4. PICK b \in Codes : /\ IsOf(v, b) /\ v.build \in {None, b}
                              /\ request.code = b /\ v.code = b
        BY <3>2, <4>2, <4>3 DEF RowOf, IsOf, Exactly
      <4>5. NameMeant(request) = OwnName[b]
        BY <3>2, <4>4, TablesAssumption DEF NameMeant
      <4>6. f.build \in Codes /\ OwnName[f.build] = OwnName[b]
        <5>1. CASE v.name = None
          BY <2>2, <4>4, <5>1 DEF FileOf, Either
        <5>2. CASE v.name # None
          <6>1. v.name = OwnName[b] /\ OwnName[b] \in Names
            BY <4>4, <5>2, TablesAssumption DEF IsOf
          <6> QED BY <2>2, <4>4, <5>2, <6>1 DEF FileOf, Either
        <5> QED BY <5>1, <5>2
      <4>7. f.build \in Meant(p, request)
        BY <4>5, <4>6 DEF Meant
      <4> QED BY <4>4, <4>6, <4>7 DEF FileRight, Plan, IsOf
    <3> QED BY <3>1, <3>2
  <2>4. PlanRight(p, Got(Plan(v.code, v.name, <<f>>)), request)
    <3> HIDE DEF v, f
    <3> QED BY <2>3, OneFile
  <2> QED BY <2>1, <2>4 DEF plan
<1> QED BY <1>2, <1>3

\* Nor is a version shown that was not asked for.
LEMMA HistoricalInfoRight ==
    ASSUME NEW site, PureTrue(site), NEW request \in Asked
    PROVE  InfoRight(HistoricalInfo(site, request), request)
<1> DEFINE info == HistoricalInfo(site, request)
           listed == ListVersions(site)
           selected == SelectHistorical(listed.value, request)
           v == selected.value
<1>1. info = IF listed.error = None
             THEN IF selected.error = None
                  THEN Got(Info(v.code, v.name, listed.value)) ELSE selected
             ELSE listed
  BY Zenon DEF HistoricalInfo, Then
<1> SUFFICES ASSUME info.error = None, info.value.code # None
             PROVE  info.value.code \in Exactly(request)
  BY DEF InfoRight
<1> HIDE DEF info
<1>2. /\ listed.error = None /\ selected.error = None
      /\ info = Got(Info(v.code, v.name, listed.value))
  <2> HIDE DEF listed, selected
  <2> QED BY <1>1
<1>3. RowOf(v, request)
  BY <1>2, SelectedRow
<1> HIDE DEF listed, selected
<1>4. info.value.code = v.code
  BY <1>2 DEF Got, Info
<1> QED BY <1>3, <1>4 DEF RowOf, IsOf

-----------------------------------------------------------------------------
\* What the signed API says is of one build.
SignedOf(detail, b) ==
    IsOf(detail, b) /\ (detail.asset # None => detail.asset.build \in {None, b})

\* That is what _detail returns.
LEMMA SignedDetailIs ==
    ASSUME NEW site, PureTrue(site), SignedDetail(site).error = None
    PROVE  \E b \in Codes : SignedOf(SignedDetail(site).value, b)
<1> DEFINE payload == Requested(site.api, Refusal)
           detail == payload.value.detail
           result == SignedDetail(site)
<1>1. result = IF payload.error = None
               THEN IF detail = None THEN Fail(PayloadError(payload.value.text))
                    ELSE IF detail.other THEN Fail("BAD_RESPONSE") ELSE Got(detail)
               ELSE payload
  BY Zenon DEF SignedDetail, Then, Unless
<1>2. PayloadError(payload.value.text) \in ErrorCode
  BY DEF PayloadError, ErrorCode
<1>3. Fail(PayloadError(payload.value.text)).error # None
  BY <1>2, Failures
<1>4. result.error = None
  OBVIOUS
<1> HIDE DEF result
<1>5. payload.error = None /\ detail # None /\ ~detail.other /\ result = Got(detail)
  <2> HIDE DEF payload
  <2> QED BY <1>1, <1>3, <1>4, Failures DEF ErrorCode
<1>6. IsPage(site.api)
  BY DEF PureTrue
<1>7. site.api.http = "ok" /\ payload = Got(site.api.body)
  BY <1>5, <1>6, AnsweredPage
<1>8. detail = site.api.body.detail
  BY <1>7 DEF Got
<1> HIDE DEF payload
<1>9. result.value = detail
  BY <1>5 DEF Got
<1> QED BY <1>5, <1>7, <1>8, <1>9 DEF PureTrue, SignedOf, result

\* A plan of apkpure-signed is right.
LEMMA SignedRight ==
    ASSUME NEW p, p \notin KeyedByCode, NEW site, PureTrue(site), NEW request \in Asked
    PROVE  PlanRight(p, SignedPlan(site, request), request)
<1> DEFINE plan == SignedPlan(site, request)
           d == SignedDetail(site)
           found == Found(site)
           asset == d.value.asset
           file == SignedFile(asset)
           f == file.value
           old == HistoricalPlan(site, request)
           made == Got(Plan(d.value.code, d.value.name, <<f>>))
<1>1. plan = IF d.error = None
             THEN IF IsHistorical(d.value, request)
                  THEN IF found.error = None THEN old ELSE found
                  ELSE IF file.error = None THEN made ELSE file
             ELSE d
  BY Zenon DEF SignedPlan, Then
<1>2. PlanRight(p, old, request)
  BY HistoricalRight
<1> HIDE DEF plan
<1>3. CASE plan.error # None
  BY <1>3, WithoutPlan DEF plan
<1>4. CASE plan.error = None
  <2>1. \/ plan = old
        \/ /\ d.error = None /\ ~IsHistorical(d.value, request)
           /\ file.error = None /\ plan = made
    <3> HIDE DEF d, found, file, old, made
    <3> QED BY <1>1, <1>4
  <2>2. CASE plan = old
    BY <1>2, <2>2 DEF plan
  <2>3. CASE /\ d.error = None /\ ~IsHistorical(d.value, request)
             /\ file.error = None /\ plan = made
    <3>1. PICK b \in Codes : SignedOf(d.value, b)
      BY <2>3, SignedDetailIs
    <3> HIDE DEF d
    <3>2. b \in Meant(p, request)
      BY <2>3, <3>1, LatestIsMeant DEF SignedOf
    <3>3. asset # None /\ asset.build # None /\ f.build = asset.build
      BY <2>3, Failures DEF SignedFile, Unless, ErrorCode, Got, File
    <3> HIDE DEF file
    <3>4. f.build = b
      BY <3>1, <3>3 DEF SignedOf
    <3>5. FileRight(p, f, Plan(d.value.code, d.value.name, <<f>>), request)
      BY <3>1, <3>2, <3>4 DEF FileRight, SignedOf, IsOf, Plan
    <3>6. PlanRight(p, made, request)
      <4> HIDE DEF f
      <4> QED BY <3>5, OneFile
    <3> QED BY <2>3, <3>6 DEF plan
  <2> QED BY <2>1, <2>2, <2>3
<1> QED BY <1>3, <1>4

\* So is the version it shows.
LEMMA SignedInfoRight ==
    ASSUME NEW site, PureTrue(site), NEW request \in Asked
    PROVE  InfoRight(SignedInfo(site, request), request)
<1> DEFINE info == SignedInfo(site, request)
           d == SignedDetail(site)
           found == Found(site)
           old == HistoricalInfo(site, request)
           made == Got(Info(d.value.code, d.value.name, <<d.value>>))
<1>1. info = IF d.error = None
             THEN IF IsHistorical(d.value, request)
                  THEN IF found.error = None THEN old ELSE found
                  ELSE made
             ELSE d
  BY Zenon DEF SignedInfo, Then
<1>2. InfoRight(old, request)
  BY HistoricalInfoRight
<1> SUFFICES ASSUME info.error = None, info.value.code # None
             PROVE  info.value.code \in Exactly(request)
  BY DEF InfoRight
<1> HIDE DEF info
<1>3. info = old \/ (d.error = None /\ ~IsHistorical(d.value, request) /\ info = made)
  <2> HIDE DEF d, found, old, made
  <2> QED BY <1>1
<1>4. CASE info = old
  BY <1>2, <1>4 DEF InfoRight
<1>5. CASE d.error = None /\ ~IsHistorical(d.value, request) /\ info = made
  <2>1. PICK b \in Codes : SignedOf(d.value, b)
    BY <1>5, SignedDetailIs
  <2> HIDE DEF d
  <2>2. info.value.code = d.value.code
    BY <1>5 DEF Got, Info
  <2>3. b \in Exactly(request)
    <3>1. "apkpure-web" \notin KeyedByCode
      BY DEF KeyedByCode
    <3> QED BY <1>5, <2>1, <2>2, <3>1, LatestIsMeant DEF SignedOf
  <2> QED BY <2>1, <2>2, <2>3 DEF SignedOf, IsOf
<1> QED BY <1>3, <1>4, <1>5

-----------------------------------------------------------------------------
\* What the detail page says, and its button, are of one build.
WebOf(site, detail, b) ==
    /\ IsOf(detail, b)
    /\ Shows(site.button) =>
        \A url \in Range(site.button.body) : MayBePackage(url) => url.build = b

\* That is what _load_detail returns.
LEMMA WebDetailIs ==
    ASSUME NEW site, PureTrue(site), WebDetail(site).error = None
    PROVE  \E b \in Codes : WebOf(site, WebDetail(site).value, b)
<1> DEFINE found == Found(site)
           shown == Loaded(site.detail)
           detail == shown.value
           result == WebDetail(site)
<1>1. result = IF found.error = None
               THEN IF shown.error = None
                    THEN IF detail.name = None /\ detail.code = None
                         THEN Fail("BAD_RESPONSE") ELSE Got(detail)
                    ELSE shown
               ELSE found
  BY Zenon DEF WebDetail, Then, Unless
<1>2. result.error = None
  OBVIOUS
<1> HIDE DEF result
<1>3. shown.error = None /\ result = Got(detail)
  <2> HIDE DEF found, shown
  <2> QED BY <1>1, <1>2, Failures DEF ErrorCode
<1>4. Shows(site.detail) /\ shown = Got(site.detail.body)
  BY <1>3, LoadedPage
<1>5. detail = site.detail.body
  BY <1>4 DEF Got
<1> HIDE DEF shown
<1>6. result.value = detail
  BY <1>3 DEF Got
<1> QED BY <1>4, <1>5, <1>6 DEF PureTrue, WebOf, result

\* A constructed URL leads to the page's own version.
LEMMA ConstructedIs ==
    ASSUME NEW site, NEW code, NEW raw, ConstructedFile(site, code, raw).error = None
    PROVE  ConstructedFile(site, code, raw).value.build = code
<1> DEFINE candidates == IF raw \in Types THEN <<raw>> ELSE <<"APK", "XAPK", "APKS">>
           Final(type) == FileTypeFrom(<<raw, site.heads[type]>>, None)
           Ends(type) == IF site.heads[type] = None THEN raw # None
                         ELSE Final(type).value \in {type, None}
           type == First(candidates, Ends)
           checked == IF site.heads[type] = None THEN Got(type) ELSE Final(type)
           result == ConstructedFile(site, code, raw)
<1>1. result = IF type = None THEN Fail("BAD_RESPONSE")
               ELSE IF checked.error = None THEN Got(File(checked.value, code))
               ELSE checked
  BY Zenon DEF ConstructedFile, Then, Unless
<1>2. result.error = None
  OBVIOUS
<1> HIDE DEF result, type, checked
<1>3. result = Got(File(checked.value, code))
  BY <1>1, <1>2, Failures DEF ErrorCode
<1> QED BY <1>3 DEF Got, File, result

\* A plan of apkpure-web is right.
LEMMA WebRight ==
    ASSUME NEW p, p \notin KeyedByCode, NEW site, PureTrue(site), NEW request \in Asked
    PROVE  PlanRight(p, WebPlan(site, request), request)
<1> DEFINE plan == WebPlan(site, request)
           d == WebDetail(site)
           shown == Loaded(site.button)
           url == DownloadUrl(shown.value)
           type == FileTypeFrom(<<d.value.type, url.type, url.disposition>>, None)
           linked == IF type.error = None THEN Got(File(type.value, url.build)) ELSE type
           built == ConstructedFile(site, d.value.code, d.value.type)
           file == CASE url # None -> linked
                     [] url = None /\ d.value.code # None -> built
                     [] OTHER -> Fail("BAD_RESPONSE")
           f == file.value
           old == HistoricalPlan(site, request)
           made == Got(Plan(d.value.code, d.value.name, <<f>>))
<1>1. plan = IF d.error = None
             THEN IF IsHistorical(d.value, request) THEN old
                  ELSE IF shown.error = None
                       THEN IF file.error = None THEN made ELSE file
                       ELSE shown
             ELSE d
  BY Zenon DEF WebPlan, Then
<1>2. PlanRight(p, old, request)
  BY HistoricalRight
<1> HIDE DEF plan
<1>3. CASE plan.error # None
  BY <1>3, WithoutPlan DEF plan
<1>4. CASE plan.error = None
  <2>1. \/ plan = old
        \/ /\ d.error = None /\ ~IsHistorical(d.value, request)
           /\ shown.error = None /\ file.error = None /\ plan = made
    <3> HIDE DEF d, shown, file, old, made
    <3> QED BY <1>1, <1>4
  <2>2. CASE plan = old
    BY <1>2, <2>2 DEF plan
  <2>3. CASE /\ d.error = None /\ ~IsHistorical(d.value, request)
             /\ shown.error = None /\ file.error = None /\ plan = made
    <3>1. PICK b \in Codes : WebOf(site, d.value, b)
      BY <2>3, WebDetailIs
    <3> HIDE DEF d
    <3>2. b \in Meant(p, request)
      BY <2>3, <3>1, LatestIsMeant DEF WebOf
    <3>3. Shows(site.button) /\ shown = Got(site.button.body)
      BY <2>3, LoadedPage
    <3>4. shown.value = site.button.body /\ IsList(site.button.body)
      BY <3>3 DEF Got, PureTrue
    <3> HIDE DEF shown
    <3>5. f.build = b
      <4>1. CASE url # None
        <5>1. file = linked
          <6> HIDE DEF url, linked, built
          <6> QED BY <4>1
        <5>2. url.build = b
          <6>1. url \in Range(shown.value) /\ MayBePackage(url)
            BY <3>4, <4>1, UrlIs
          <6> HIDE DEF url
          <6> QED BY <3>1, <3>3, <3>4, <6>1 DEF WebOf
        <5> HIDE DEF url, type, file
        <5>3. file = Got(File(type.value, url.build))
          BY <2>3, <5>1
        <5> QED BY <5>2, <5>3 DEF Got, File
      <4>2. CASE url = None
        <5>1. d.value.code # None /\ file = built
          <6> HIDE DEF url, linked, built
          <6>1. Fail("BAD_RESPONSE").error # None
            BY Failures DEF ErrorCode
          <6> QED BY <2>3, <4>2, <6>1
        <5> HIDE DEF file, url
        <5>2. file.value.build = d.value.code
          BY <2>3, <5>1, ConstructedIs
        <5> QED BY <3>1, <5>1, <5>2 DEF WebOf, IsOf
      <4> QED BY <4>1, <4>2
    <3> HIDE DEF file
    <3>6. FileRight(p, f, Plan(d.value.code, d.value.name, <<f>>), request)
      BY <3>1, <3>2, <3>5 DEF FileRight, WebOf, IsOf, Plan
    <3>7. PlanRight(p, made, request)
      <4> HIDE DEF f
      <4> QED BY <3>6, OneFile
    <3> QED BY <2>3, <3>7 DEF plan
  <2> QED BY <2>1, <2>2, <2>3
<1> QED BY <1>3, <1>4

\* So is the version it shows.
LEMMA WebInfoRight ==
    ASSUME NEW site, PureTrue(site), NEW request \in Asked
    PROVE  InfoRight(WebInfo(site, request), request)
<1> DEFINE info == WebInfo(site, request)
           d == WebDetail(site)
           old == HistoricalInfo(site, request)
           made == Got(Info(d.value.code, d.value.name, <<d.value>>))
<1>1. info = IF d.error = None
             THEN IF IsHistorical(d.value, request) THEN old ELSE made
             ELSE d
  BY Zenon DEF WebInfo, Then
<1>2. InfoRight(old, request)
  BY HistoricalInfoRight
<1> SUFFICES ASSUME info.error = None, info.value.code # None
             PROVE  info.value.code \in Exactly(request)
  BY DEF InfoRight
<1> HIDE DEF info
<1>3. info = old \/ (d.error = None /\ ~IsHistorical(d.value, request) /\ info = made)
  <2> HIDE DEF d, old, made
  <2> QED BY <1>1
<1>4. CASE info = old
  BY <1>2, <1>4 DEF InfoRight
<1>5. CASE d.error = None /\ ~IsHistorical(d.value, request) /\ info = made
  <2>1. PICK b \in Codes : WebOf(site, d.value, b)
    BY <1>5, WebDetailIs
  <2> HIDE DEF d
  <2>2. info.value.code = d.value.code
    BY <1>5 DEF Got, Info
  <2>3. b \in Exactly(request)
    <3>1. "apkpure-web" \notin KeyedByCode
      BY DEF KeyedByCode
    <3> QED BY <1>5, <2>1, <2>2, <3>1, LatestIsMeant DEF WebOf
  <2> QED BY <2>1, <2>2, <2>3 DEF WebOf, IsOf
<1> QED BY <1>3, <1>4, <1>5

-----------------------------------------------------------------------------
\* An anchor's name is its build's.
Anchors(site) ==
    {a \in Range(site.proto.body) :
        a.build # None => a.build \in Codes /\ a.name = OwnName[a.build]}

\* _versions returns such anchors.
LEMMA AnchorsAre ==
    ASSUME NEW site, PureTrue(site), ProtoVersions(site).error = None
    PROVE  /\ ProtoVersions(site).value \in Seq(Anchors(site))
           /\ ProtoVersions(site).value # <<>>
<1> DEFINE anchors == Requested(site.proto, Refusal)
           seq == anchors.value
           I == {i \in DOMAIN seq : seq[i].type \in Types}
           kept == Selected(seq, LAMBDA a : a.type \in Types)
           S == Anchors(site)
           result == ProtoVersions(site)
<1>1. result = IF anchors.error = None
               THEN IF kept = <<>> THEN Fail("BAD_RESPONSE") ELSE Got(kept)
               ELSE anchors
  BY Zenon DEF ProtoVersions, Then, Unless
<1>2. kept = At(seq, I)
  BY Zenon DEF Selected
<1>3. result.error = None
  OBVIOUS
<1> HIDE DEF result
<1>4. anchors.error = None /\ kept # <<>> /\ result = Got(kept)
  <2> HIDE DEF anchors, kept
  <2> QED BY <1>1, <1>3, Failures DEF ErrorCode
<1>5. IsPage(site.proto)
  BY DEF PureTrue
<1>6. site.proto.http = "ok" /\ anchors = Got(site.proto.body)
  BY <1>4, <1>5, AnsweredPage
<1>7. seq = site.proto.body
  BY <1>6 DEF Got
<1> HIDE DEF anchors
<1>8. IsList(seq) /\ \A a \in Range(seq) : a.type \in Types => a \in S
  BY <1>6, <1>7 DEF PureTrue, Anchors
<1>9. kept \in Seq(S)
  <2>1. DOMAIN seq = 1..Len(seq) /\ Len(seq) \in Nat
    BY <1>8, ListIs DEF IsList
  <2>2. IsFiniteSet(1..Len(seq))
    BY <2>1, FS_Interval
  <2>3. IsFiniteSet(I) /\ I \in SUBSET Int
    BY <2>1, <2>2, FS_Subset
  <2>4. \A i \in I : seq[i] \in S
    BY <1>8 DEF Range
  <2> HIDE DEF I, kept, S
  <2> QED BY <1>2, <2>3, <2>4, ListAt
<1> HIDE DEF kept
<1>10. result.value = kept
  BY <1>4 DEF Got
<1> QED BY <1>4, <1>9, <1>10 DEF result

\* A plan of apkpure-proto is right.
LEMMA ProtoRight ==
    ASSUME NEW p, p \notin KeyedByCode, NEW site, PureTrue(site), NEW request \in Asked
    PROVE  PlanRight(p, ProtoPlan(site, request), request)
<1> DEFINE plan == ProtoPlan(site, request)
           versions == ProtoVersions(site)
           version == SelectProto(versions.value, request)
           v == version.value
           f == File(v.type, v.build)
           made == Got(Plan(None, v.name, <<f>>))
           seq == versions.value
           S == Anchors(site)
           X == {i \in 1..Len(seq) : seq[i].name = request.name}
           named == FirstAt(seq, X)
<1>1. plan = IF versions.error = None
             THEN IF version.error = None THEN made ELSE version
             ELSE versions
  BY Zenon DEF ProtoPlan, Then
<1>2. version = IF request.name # None
                THEN IF named = None THEN Fail("NOT_FOUND") ELSE Got(named)
                ELSE IF request.code # None THEN Fail("UNSUPPORTED") ELSE Got(seq[1])
  BY Zenon DEF SelectProto, First, SelectInSeq, FirstAt, Unless
<1> HIDE DEF plan
<1>3. CASE plan.error # None
  BY <1>3, WithoutPlan DEF plan
<1>4. CASE plan.error = None
  <2>1. versions.error = None /\ version.error = None /\ plan = made
    <3> HIDE DEF versions, version, made
    <3> QED BY <1>1, <1>4
  <2>2. seq \in Seq(S) /\ seq # <<>>
    BY <2>1, AnchorsAre
  <2>3. X \in SUBSET (1..Len(seq)) /\ \A i \in X : seq[i].name = request.name
    OBVIOUS
  <2> HIDE DEF seq, X, S, versions, version
  <2>4. IsList(seq) /\ DOMAIN seq = 1..Len(seq)
    BY <2>2, ListIs
  <2>5. v \in S /\ (request.name # None => v.name = request.name)
        /\ (request.name = None => request.code = None)
    <3>1. CASE request.name # None
      <4> HIDE DEF named
      <4>1. named # None /\ v = named
        BY <1>2, <2>1, <3>1, Failures DEF Got, ErrorCode
      <4>2. Among(named, seq, X)
        BY <2>3, <2>4, <4>1, FirstIs DEF named
      <4> QED BY <2>2, <2>3, <2>4, <3>1, <4>1, <4>2 DEF Among, Range
    <3>2. CASE request.name = None
      <4>1. request.code = None /\ v = seq[1]
        <5> HIDE DEF named
        <5> QED BY <1>2, <2>1, <3>2, Failures DEF Got, ErrorCode
      <4>2. seq[1] \in S
        BY <2>2
      <4> QED BY <3>2, <4>1, <4>2
    <3> QED BY <3>1, <3>2
  <2>6. f.build = v.build
    BY DEF File
  <2> HIDE DEF v, f
  <2>7. f.build # None => FileRight(p, f, Plan(None, v.name, <<f>>), request)
    <3> SUFFICES ASSUME f.build # None
                 PROVE  FileRight(p, f, Plan(None, v.name, <<f>>), request)
      OBVIOUS
    <3> DEFINE b == f.build
    <3>1. b \in Codes /\ v.name = OwnName[b]
      BY <2>5, <2>6 DEF S, Anchors
    <3>2. b \in Meant(p, request)
      <4>1. CASE request.name # None
        BY <2>5, <3>1, <4>1, NamedIsMeant
      <4>2. CASE request.name = None
        BY <2>5, <3>1, <4>2, ExactIsMeant DEF Exactly
      <4> QED BY <4>1, <4>2
    <3> QED BY <3>1, <3>2 DEF FileRight, Plan
  <2>8. PlanRight(p, made, request)
    BY <2>7, OneFile
  <2> QED BY <2>1, <2>8 DEF plan
<1> QED BY <1>3, <1>4

\* apkpure-proto shows no code.
LEMMA ProtoInfoRight ==
    ASSUME NEW site, NEW request
    PROVE  InfoRight(ProtoInfo(site, request), request)
<1> DEFINE info == ProtoInfo(site, request)
           versions == ProtoVersions(site)
           version == SelectProto(versions.value, request)
           made == Got(Info(None, version.value.name, versions.value))
<1>1. info = IF versions.error = None
             THEN IF version.error = None THEN made ELSE version
             ELSE versions
  BY Zenon DEF ProtoInfo, Then
<1>2. made.value.code = None
  BY DEF Got, Info
<1> HIDE DEF info, versions, version, made
<1>3. info.error = None => info = made
  BY <1>1
<1> QED BY <1>2, <1>3 DEF InfoRight, info

-----------------------------------------------------------------------------
\* Whoever is asked, the plan is right.
LEMMA PlansRight ==
    ASSUME NEW p \in Provider, NEW site \in Sites[p], NEW request \in Asked
    PROVE  PlanRight(p, GetPlan(p, site, request), request)
<1>1. CASE p = "google-play"
  <2>1. GoogleTrue(site)
    BY <1>1, StoresAssumption
  <2>2. GetPlan(p, site, request) = GooglePlan(site, request)
    BY <1>1 DEF GetPlan
  <2> QED BY <1>1, <2>1, <2>2, GoogleRight DEF KeyedByCode
<1>2. CASE p = "aptoide"
  <2>1. AptoideTrue(site)
    BY <1>2, StoresAssumption
  <2>2. GetPlan(p, site, request) = AptoidePlan(site, request)
    BY <1>2 DEF GetPlan
  <2> QED BY <1>2, <2>1, <2>2, AptoideRight DEF KeyedByCode
<1>3. CASE p = "apkmirror"
  <2>1. MirrorTrue(site)
    BY <1>3, StoresAssumption
  <2>2. GetPlan(p, site, request) = MirrorPlan(site, request)
    BY <1>3 DEF GetPlan
  <2> QED BY <1>3, <2>1, <2>2, MirrorRight DEF KeyedByCode
<1>4. CASE p \in {"apkpure-signed", "apkpure-web", "apkpure-proto"}
  <2>1. PureTrue(site)
    BY <1>4, StoresAssumption
  <2>2. CASE p = "apkpure-signed"
    <3>1. GetPlan(p, site, request) = SignedPlan(site, request)
      BY <2>2 DEF GetPlan
    <3> QED BY <1>4, <2>1, <3>1, SignedRight DEF KeyedByCode
  <2>3. CASE p = "apkpure-web"
    <3>1. GetPlan(p, site, request) = WebPlan(site, request)
      BY <2>3 DEF GetPlan
    <3> QED BY <1>4, <2>1, <3>1, WebRight DEF KeyedByCode
  <2>4. CASE p = "apkpure-proto"
    <3>1. GetPlan(p, site, request) = ProtoPlan(site, request)
      BY <2>4 DEF GetPlan
    <3> QED BY <1>4, <2>1, <3>1, ProtoRight DEF KeyedByCode
  <2> QED BY <1>4, <2>2, <2>3, <2>4
<1> QED BY <1>1, <1>2, <1>3, <1>4 DEF Provider

\* And so is the version that is shown, but for aptoide.
LEMMA InfosRight ==
    ASSUME NEW p \in Provider, p # "aptoide", NEW site \in Sites[p],
           NEW request \in Asked
    PROVE  InfoRight(GetInfo(p, site, request), request)
<1>1. CASE p = "google-play"
  <2>1. GoogleTrue(site)
    BY <1>1, StoresAssumption
  <2>2. GetInfo(p, site, request) = GoogleInfo(site, request)
    BY <1>1 DEF GetInfo
  <2> QED BY <2>1, <2>2, GoogleInfoRight
<1>2. CASE p = "apkmirror"
  <2>1. GetInfo(p, site, request) = MirrorInfo(site, request)
    BY <1>2 DEF GetInfo
  <2> QED BY <2>1, MirrorInfoRight
<1>3. CASE p \in {"apkpure-signed", "apkpure-web", "apkpure-proto"}
  <2>1. PureTrue(site)
    BY <1>3, StoresAssumption
  <2>2. CASE p = "apkpure-signed"
    <3>1. GetInfo(p, site, request) = SignedInfo(site, request)
      BY <2>2 DEF GetInfo
    <3> QED BY <2>1, <3>1, SignedInfoRight
  <2>3. CASE p = "apkpure-web"
    <3>1. GetInfo(p, site, request) = WebInfo(site, request)
      BY <2>3 DEF GetInfo
    <3> QED BY <2>1, <3>1, WebInfoRight
  <2>4. CASE p = "apkpure-proto"
    <3>1. GetInfo(p, site, request) = ProtoInfo(site, request)
      BY <2>4 DEF GetInfo
    <3> QED BY <3>1, ProtoInfoRight
  <2> QED BY <1>3, <2>2, <2>3, <2>4
<1> QED BY <1>1, <1>2, <1>3 DEF Provider

-----------------------------------------------------------------------------
(***************************************************************************)
(* Healthy stores serve                                                    *)
(***************************************************************************)
\* A plan with a package in it.
Served(plan) == plan.error = None /\ \E f \in Range(plan.value.files) : f.build # None

\* google-play delivers each build, with a token that is not stale.
LEMMA Deliveries ==
    ASSUME NEW store, GoogleTrue(store), GoogleServes(store),
           NEW token, token # "stale", NEW code \in Codes
    PROVE  /\ Delivered(store, token, code).error = None
           /\ \E f \in Range(Delivered(store, token, code).value) : f.build # None
<1> DEFINE data == Api(token, IF code \in DOMAIN store.delivery
                              THEN store.delivery[code] ELSE Raised("other"))
           I == {i \in DOMAIN data.value.splits : data.value.splits[i] # None}
           splits == Selected(data.value.splits, LAMBDA b : b # None)
           obbs == data.value.obbs
           file == File("BASE_APK", data.value.base)
           second == [i \in DOMAIN splits |-> File("SPLIT_APK", splits[i])]
           third == [i \in DOMAIN obbs |-> File("OBB", obbs[i])]
           files == <<file>> \o second \o third
<1>1. Delivered(store, token, code) =
        IF data.error = None
        THEN IF data.value.base = None THEN Raised("other")
             ELSE IF None \in Range(obbs) THEN Fail("BAD_RESPONSE") ELSE Got(files)
        ELSE data
  BY Zenon DEF Delivered, Then, Unless
<1>2. code \in DOMAIN store.delivery /\ data = store.delivery[code]
  BY DEF GoogleServes, Api
<1>3. /\ data.error = None /\ data.value.base # None /\ None \notin Range(obbs)
      /\ IsList(data.value.splits) /\ IsList(obbs)
  BY <1>2 DEF GoogleServes, GoogleTrue
<1>4. Delivered(store, token, code) = Got(files)
  <2> HIDE DEF data, files
  <2> QED BY <1>1, <1>3
<1>5. file.build # None
  BY <1>3 DEF File
<1>6. splits = At(data.value.splits, I)
  BY Zenon DEF Selected
<1> HIDE DEF data
<1>7. splits \in Seq(Range(data.value.splits))
  <2> DEFINE w == data.value.splits
             T == Range(w)
  <2>1. w \in Seq(T) /\ splits = At(w, {i \in DOMAIN w : w[i] # None})
    BY <1>3, <1>6 DEF IsList
  <2> HIDE DEF w, splits, T
  <2>2. splits \in Seq(T)
    BY <2>1, PartOfList
  <2> QED BY <2>2 DEF T, w
<1> HIDE DEF splits
<1>8. IsList(second)
  BY <1>7, EachIsList
<1>9. IsList(third)
  <2>1. obbs \in Seq(Range(obbs))
    BY <1>3 DEF IsList
  <2> HIDE DEF obbs
  <2> QED BY <2>1, EachIsList
<1> HIDE DEF second, third, file
<1>10. file \in Range(files)
  <2>1. second \in Seq(Range(second)) /\ third \in Seq(Range(third))
    BY <1>8, <1>9 DEF IsList
  <2>2. files[1] = file /\ 1 \in DOMAIN files
    BY <2>1
  <2> QED BY <2>2 DEF Range
<1> HIDE DEF files
<1> QED BY <1>4, <1>5, <1>10 DEF Got

\* With such a token a version that is supported is served.
LEMMA GoogleWithServed ==
    ASSUME NEW store, GoogleTrue(store), GoogleServes(store), NEW request,
           Supported("google-play", store, request), NEW token, token # "stale"
    PROVE  Served(GooglePlanWith(store, request, token))
<1> DEFINE plan == GooglePlanWith(store, request, token)
           app == store.details.value.app
           code == IF request.code # None THEN request.code ELSE app.code
           files == Delivered(store, token, code)
           name == IF request.code # None THEN request.name ELSE app.name
<1>1. \/ request.code \in Codes
      \/ request.code = None /\ request.name \in {None, app.name}
  BY DEF Supported
<1>2. store.details.error = None /\ app # None /\ app.code \in Codes
  BY DEF GoogleServes
<1>3. None \notin Codes
  BY TablesAssumption
<1>4. plan = IF files.error = None THEN Got(Plan(code, name, files.value)) ELSE files
  <2>1. CASE request.code # None
    BY Zenon, <2>1 DEF GooglePlanWith, Then
  <2>2. CASE request.code = None
    <3>1. Api(token, store.details) = store.details
      BY DEF Api
    <3>2. AppDetails(store, token) = Got(app)
      <4>1. AppDetails(store, token) =
                IF Api(token, store.details).error = None
                THEN IF Api(token, store.details).value.app = None THEN Fail("BAD_RESPONSE")
                     ELSE Got(Api(token, store.details).value.app)
                ELSE Api(token, store.details)
        BY Zenon DEF AppDetails, Then, Unless
      <4> QED BY <1>2, <3>1, <4>1
    <3> DEFINE found == AppDetails(store, token)
    <3>3. plan = IF found.error = None
                 THEN IF OtherName(found.value, request) THEN Fail("UNSUPPORTED")
                      ELSE IF found.value.code = None THEN Fail("BAD_RESPONSE")
                      ELSE IF Delivered(store, token, found.value.code).error = None
                           THEN Got(Plan(found.value.code, found.value.name,
                                    Delivered(store, token, found.value.code).value))
                           ELSE Delivered(store, token, found.value.code)
                 ELSE found
      BY Zenon, <2>2 DEF GooglePlanWith, Then, Unless
    <3>4. found.error = None /\ found.value = app
      BY <3>2 DEF Got
    <3>5. ~OtherName(app, request) /\ app.code # None
      BY <1>1, <1>2, <1>3, <2>2 DEF OtherName
    <3>6. code = app.code /\ name = app.name
      BY <2>2
    <3> HIDE DEF plan, found, code, name, app
    <3> QED BY <3>3, <3>4, <3>5, <3>6
  <2> QED BY <2>1, <2>2
<1>5. code \in Codes
  BY <1>1, <1>2
<1> HIDE DEF plan, code, name
<1>6. files.error = None /\ \E f \in Range(files.value) : f.build # None
  BY <1>5, Deliveries
<1> HIDE DEF files
<1>7. plan.error = None /\ plan.value.files = files.value
  BY <1>4, <1>6 DEF Got, Plan
<1> QED BY <1>6, <1>7 DEF Served, plan

\* A stale token is not served with, and is told from other errors.
LEMMA StaleRefused ==
    ASSUME NEW store, NEW request
    PROVE  GooglePlanWith(store, request, "stale") = Raised("auth")
<1>1. \A data : Api("stale", data) = Raised("auth")
  BY DEF Api
<1>2. Raised("auth").error # None
  BY Failures
<1> DEFINE plan == GooglePlanWith(store, request, "stale")
           files == Delivered(store, "stale", request.code)
           found == AppDetails(store, "stale")
           refused(data) == Api("stale", data)
<1>3. CASE request.code # None
  <2>1. plan = IF files.error = None
               THEN Got(Plan(request.code, request.name, files.value)) ELSE files
    BY Zenon, <1>3 DEF GooglePlanWith, Then
  <2> DEFINE data == Api("stale", IF request.code \in DOMAIN store.delivery
                              THEN store.delivery[request.code] ELSE Raised("other"))
  <2>2. data.error # None => files = data
    BY Zenon DEF Delivered, Then
  <2>3. data = Raised("auth")
    BY <1>1
  <2> HIDE DEF plan, files, data
  <2> QED BY <1>2, <2>1, <2>2, <2>3 DEF plan
<1>4. CASE request.code = None
  <2>1. found.error # None => plan = found
    BY Zenon, <1>4 DEF GooglePlanWith, Then
  <2> DEFINE data == Api("stale", store.details)
  <2>2. data.error # None => found = data
    BY Zenon DEF AppDetails, Then
  <2>3. data = Raised("auth")
    BY <1>1
  <2> HIDE DEF plan, found, data
  <2> QED BY <1>2, <2>1, <2>2, <2>3 DEF plan
<1> QED BY <1>3, <1>4

\* A healthy google-play serves what it supports, with any cached token.
LEMMA GoogleServed ==
    ASSUME NEW store, GoogleTrue(store), GoogleServes(store), NEW request,
           Supported("google-play", store, request)
    PROVE  Served(GooglePlan(store, request))
<1> DEFINE A(forced) == Then(Token(store, forced), LAMBDA token :
                             GooglePlanWith(store, request, token))
           A1 == A(FALSE)
           A2 == A(TRUE)
           cached == IF store.token # None THEN store.token ELSE "good"
<1>1. GooglePlan(store, request) = GpCall(A1, A2)
  BY Zenon DEF GooglePlan
<1>2. Token(store, FALSE) = Got(cached) /\ Token(store, TRUE) = Got("good")
  BY DEF GoogleServes, Token, Dispensed
<1>3. A1 = GooglePlanWith(store, request, cached)
      /\ A2 = GooglePlanWith(store, request, "good")
  <2>1. /\ A1 = IF Token(store, FALSE).error = None
                THEN GooglePlanWith(store, request, Token(store, FALSE).value)
                ELSE Token(store, FALSE)
        /\ A2 = IF Token(store, TRUE).error = None
                THEN GooglePlanWith(store, request, Token(store, TRUE).value)
                ELSE Token(store, TRUE)
    BY Zenon DEF Then
  <2>2. /\ Token(store, FALSE).error = None /\ Token(store, FALSE).value = cached
        /\ Token(store, TRUE).error = None /\ Token(store, TRUE).value = "good"
    <3>1. \A v : Got(v).error = None /\ Got(v).value = v
      BY DEF Got
    <3> QED BY Zenon, <1>2, <3>1
  <2> HIDE DEF A1, A2, A, cached
  <2> QED BY <2>1, <2>2
<1>4. Served(A2)
  <2>1. "good" # "stale"
    OBVIOUS
  <2>2. Served(GooglePlanWith(store, request, "good"))
    BY <2>1, GoogleWithServed
  <2> HIDE DEF A1, A2, A
  <2> QED BY <1>3, <2>2
<1>5. CASE cached # "stale"
  <2>1. Served(GooglePlanWith(store, request, cached))
    BY <1>5, GoogleWithServed
  <2> HIDE DEF A1, A2, A, cached
  <2>2. Served(A1)
    BY <1>3, <2>1
  <2>3. GpCall(A1, A2) = A1
    BY <2>2, Failures DEF GpCall, Served
  <2> QED BY <1>1, <2>2, <2>3
<1>6. CASE cached = "stale"
  <2> HIDE DEF A1, A2, A, cached
  <2>1. A1 = Raised("auth")
    BY <1>3, <1>6, StaleRefused
  <2>2. GpCall(A1, A2) = A2
    BY <1>4, <2>1 DEF GpCall, Raised, Classified, Served
  <2> QED BY <1>1, <1>4, <2>2
<1> QED BY <1>5, <1>6

-----------------------------------------------------------------------------
\* If something passes, something is found.
LEMMA FirstFound ==
    ASSUME NEW seq, NEW X \in SUBSET (1..Len(seq)), IsList(seq), X # {}
    PROVE  Among(FirstAt(seq, X), seq, X)
<1>1. DOMAIN seq = 1..Len(seq) /\ Len(seq) \in Nat
  BY ListIs DEF IsList
<1> DEFINE n == Len(seq)
           m == Min(X)
<1>2. m \in X
  <2>1. X \in SUBSET Nat
    BY <1>1
  <2>2. \E y \in X : \A z \in X : y <= z
    BY <2>1, LeastOf
  <2> QED BY <2>2 DEF Min
<1>3. FirstAt(seq, X) = IF m = 0 THEN None ELSE seq[m]
  BY DEF FirstAt
<1>4. n \in Nat /\ X \in SUBSET (1..n)
  BY <1>1
<1> HIDE DEF m
<1>5. m \in 1..n /\ m # 0
  <2> HIDE DEF n
  <2> QED BY <1>2, <1>4
<1> QED BY <1>1, <1>2, <1>3, <1>5 DEF Among, Range

\* A healthy aptoide has a page under each of its keys.
LEMMA KeyServed ==
    ASSUME NEW store, AptoideServes(store), NEW key \in DOMAIN store.byKey
    PROVE  /\ GetByKey(store, key) = Got(store.byKey[key].body)
           /\ store.byKey[key] \in AppPages(store)
<1>1. store.byKey[key] \in Range(store.byKey)
  BY DEF Range
<1>2. store.byKey[key].http = "ok"
  BY <1>1 DEF AptoideServes
<1> QED BY <1>1, <1>2 DEF AppPages, GetByKey, Requested

\* It finds the package.
LEMMA PayloadServed ==
    ASSUME NEW store, AptoideTrue(store), AptoideServes(store)
    PROVE  GetAppOrSearch(store).error = None
<1> DEFINE direct == Requested(store.byPackage, AptoideRefusal)
           items == Requested(store.search, AptoideRefusal)
           seq == items.value
           X == {i \in 1..Len(seq) : seq[i].own}
           exact == FirstAt(seq, X)
           result == GetAppOrSearch(store)
<1>1. result = IF direct.error # "NOT_FOUND" THEN direct
               ELSE IF items.error = None
                    THEN IF exact = None THEN Fail("NOT_FOUND")
                         ELSE IF exact.id = None THEN Fail("BAD_RESPONSE")
                         ELSE GetByKey(store, exact.id)
                    ELSE items
  BY Zenon DEF GetAppOrSearch, Then, Unless, First, SelectInSeq, FirstAt
<1> HIDE DEF result
<1>2. CASE store.byPackage.http = "ok"
  <2>1. direct.error = None
    BY <1>2 DEF Requested, Got
  <2> HIDE DEF direct, items, exact
  <2>2. result = direct
    BY <1>1, <2>1, Failures DEF ErrorCode
  <2> QED BY <2>1, <2>2 DEF result
<1>3. CASE store.byPackage.http # "ok"
  <2>1. /\ store.search.http = "ok" /\ store.byPackage.http = "missing"
        /\ None \notin Range(store.search.body)
        /\ \E item \in Range(store.search.body) : item.own
        /\ \A item \in Range(store.search.body) :
                item.own => item.id \in DOMAIN store.byKey
        /\ None \notin DOMAIN store.byKey
    BY <1>3 DEF AptoideServes
  <2>2. items.error = None /\ seq = store.search.body
    BY <2>1 DEF Requested, Got
  <2>3. IsList(seq)
    BY <2>1, <2>2 DEF AptoideTrue
  <2>4. DOMAIN seq = 1..Len(seq)
    BY <2>3, ListIs DEF IsList
  <2>5. direct.error = "NOT_FOUND"
    <3>1. AptoideRefusal["missing"] = "NOT_FOUND"
      BY DEF AptoideRefusal, Refusal
    <3> QED BY <2>1, <3>1 DEF Requested, Fail
  <2> HIDE DEF seq
  <2>6. X # {} /\ X \in SUBSET (1..Len(seq)) /\ \A i \in X : seq[i].own
    BY <2>1, <2>2, <2>4 DEF Range
  <2> HIDE DEF X
  <2>7. Among(exact, seq, X)
    BY <2>3, <2>6, FirstFound
  <2> HIDE DEF exact
  <2>8. exact # None /\ exact.id \in DOMAIN store.byKey
    BY <2>1, <2>2, <2>6, <2>7 DEF Among
  <2>9. GetByKey(store, exact.id).error = None
    BY <2>8, KeyServed DEF Got
  <2> HIDE DEF direct, items
  <2>10. result = GetByKey(store, exact.id)
    BY <1>1, <2>1, <2>2, <2>5, <2>8
  <2> QED BY <2>9, <2>10 DEF result
<1> QED BY <1>2, <1>3

\* It has an app for each request that is supported.
LEMMA AppServed ==
    ASSUME NEW store, AptoideTrue(store), AptoideServes(store),
           NEW request, Supported("aptoide", store, request),
           NEW page \in AppPages(store)
    PROVE  /\ SelectApp(store, page.body, request).error = None
           /\ \E other \in AppPages(store) :
                SelectApp(store, page.body, request).value = other.body.app
<1> DEFINE payload == page.body
           seq == payload.versions
           current == AppData(payload)
           X == {i \in 1..Len(seq) : Matches(seq[i], request)}
           item == FirstAt(seq, X)
           key == IF item.id # None THEN item.id ELSE item.md5
           found == GetByKey(store, key)
           app == AppData(found.value)
           result == SelectApp(store, payload, request)
<1>1. result = IF current.error = None
               THEN IF Matches(current.value, request) THEN Got(current.value)
                    ELSE IF item = None THEN Fail("NOT_FOUND")
                    ELSE IF key = None THEN Fail("BAD_RESPONSE")
                    ELSE IF found.error = None THEN app ELSE found
               ELSE current
  BY Zenon DEF SelectApp, Then, Unless, First, SelectInSeq, FirstAt
<1>2. ASSUME NEW other \in AppPages(store)
      PROVE  AppData(other.body) = Got(other.body.app)
  BY DEF AptoideServes, AppData, Unless
<1>3. current.error = None /\ current.value = payload.app
  <2>1. current = Got(payload.app)
    BY <1>2
  <2>2. \A v : Got(v).error = None /\ Got(v).value = v
    BY DEF Got
  <2> HIDE DEF current, payload
  <2> QED BY Zenon, <2>1, <2>2
<1> HIDE DEF result
<1>4. CASE Matches(payload.app, request)
  <2> HIDE DEF current, item, key, found, app
  <2>1. result = Got(payload.app)
    BY <1>1, <1>3, <1>4
  <2> QED BY <2>1 DEF Got, result
<1>5. CASE ~Matches(payload.app, request)
  <2>1. IsList(seq)
    BY DEF AptoideTrue
  <2>2. DOMAIN seq = 1..Len(seq)
    BY <2>1, ListIs DEF IsList
  <2>3. /\ None \notin Range(seq)
        /\ \A i \in Range(seq) : \/ i.id \in DOMAIN store.byKey
                                 \/ i.id = None /\ i.md5 \in DOMAIN store.byKey
        /\ \A b \in Codes : \E i \in Range(seq) : i.code = b /\ i.name = OwnName[b]
        /\ None \notin DOMAIN store.byKey
    BY DEF AptoideServes
  <2>4. \E i \in Range(seq) : Matches(i, request)
    <3> HIDE DEF seq
    <3>1. CASE request.code \in Codes
      <4>1. PICK i \in Range(seq) : i.code = request.code
        BY <2>3, <3>1
      <4>2. request.code # None
        BY <3>1, TablesAssumption
      <4> QED BY <4>1, <4>2 DEF Matches
    <3>2. CASE request.code = None /\ request.name = None
      BY <1>5, <3>2 DEF Matches
    <3>3. CASE request.code = None /\ request.name \in {OwnName[b] : b \in Codes}
      BY <2>3, <3>3 DEF Matches
    <3> QED BY <3>1, <3>2, <3>3 DEF Supported
  <2> HIDE DEF seq
  <2>5. X # {} /\ X \in SUBSET (1..Len(seq))
    BY <2>2, <2>4 DEF Range
  <2> HIDE DEF X
  <2>6. Among(item, seq, X)
    BY <2>1, <2>5, FirstFound
  <2> HIDE DEF item
  <2>7. item # None /\ key \in DOMAIN store.byKey /\ key # None
    BY <2>3, <2>6 DEF Among
  <2> HIDE DEF key
  <2> DEFINE there == store.byKey[key]
  <2>8. found = Got(there.body) /\ there \in AppPages(store)
    BY <2>7, KeyServed
  <2>9. found.error = None /\ app = Got(there.body.app)
    BY <1>2, <2>8 DEF Got
  <2> HIDE DEF current, found, app
  <2>10. result = Got(there.body.app)
    BY <1>1, <1>3, <1>5, <2>7, <2>9
  <2> QED BY <2>8, <2>10 DEF Got, result
<1> QED BY <1>4, <1>5

\* The files of the app can be had, the base first.
LEMMA FilesServed ==
    ASSUME NEW store, AptoideTrue(store), AptoideServes(store),
           NEW page \in AppPages(store)
    PROVE  /\ AptoideFiles(store, page.body.app).error = None
           /\ \E f \in Range(AptoideFiles(store, page.body.app).value) : f.build # None
<1> DEFINE app == page.body.app
           wanted == app.splits = <<>> /\ app.wanted /\ app.md5 # None
           more == IF wanted THEN DynamicSplits(store) ELSE Got(app.splits)
           splits == Selected(more.value, LAMBDA s : s.url # None)
           I == {i \in DOMAIN more.value : more.value[i].url # None}
           all == <<app.base>> \o splits
           urls == KeepFirst(all, LAMBDA s : s.url)
           J == {i \in DOMAIN all : \A j \in 1..(i - 1) : all[j].url # all[i].url}
           first == [i \in DOMAIN urls |->
                        File(IF i = 1 THEN "BASE_APK" ELSE "SPLIT_APK", urls[i].build)]
           second == [i \in DOMAIN app.obbs |-> File("OBB", app.obbs[i].build)]
           result == AptoideFiles(store, app)
<1>1. result = IF app.base = None THEN Fail("BAD_RESPONSE")
               ELSE IF more.error = None THEN Got(first \o second) ELSE more
  BY Zenon DEF AptoideFiles, Then, Unless
<1>2. PICK b \in Codes : AppTrue(store, app, b)
  BY DEF AptoideTrue, AptoideServes
<1>3. app.base # None /\ (app.wanted => store.dynamic.http = "ok")
  BY DEF AptoideServes
<1> HIDE DEF app, result
<1>4. more.error = None /\ IsList(more.value)
  <2>1. CASE wanted
    <3> DEFINE dynamic == Requested(store.dynamic, AptoideRefusal)
               body == store.dynamic.body
    <3>1. more = IF dynamic.error = None
                 THEN Got(IF dynamic.value.ok THEN dynamic.value.splits ELSE <<>>)
                 ELSE dynamic
      <4>1. DynamicSplits(store) =
            IF dynamic.error = None
            THEN Got(IF dynamic.value.ok THEN dynamic.value.splits ELSE <<>>)
            ELSE dynamic
        BY Zenon DEF DynamicSplits, Then
      <4> QED BY <2>1, <4>1
    <3>2. dynamic = Got(body)
      BY <1>3, <2>1 DEF Requested
    <3>3. dynamic.error = None /\ dynamic.value = body
      BY <3>2 DEF Got
    <3> HIDE DEF more, dynamic
    <3>4. more = Got(IF body.ok THEN body.splits ELSE <<>>)
      BY <3>1, <3>3
    <3>5. more.error = None /\ more.value = IF body.ok THEN body.splits ELSE <<>>
      BY <3>4 DEF Got
    <3>6. CASE body.ok
      <4>1. IsList(body.splits)
        BY <1>2, <1>3, <2>1, <3>6 DEF AppTrue
      <4> QED BY <3>5, <3>6, <4>1
    <3>7. CASE ~body.ok
      BY <3>5, <3>7 DEF IsList, Range
    <3> QED BY <3>6, <3>7
  <2>2. CASE ~wanted
    <3>1. more = Got(app.splits)
      BY <2>2
    <3>2. more.error = None /\ more.value = app.splits
      <4> HIDE DEF more
      <4> QED BY <3>1 DEF Got
    <3> QED BY <1>2, <3>2 DEF AppTrue
  <2> QED BY <2>1, <2>2
<1>5. splits = At(more.value, I)
  BY Zenon DEF Selected
<1> HIDE DEF more
<1>6. result.error = None /\ result.value = first \o second
  <2>1. result = Got(first \o second)
    <3> HIDE DEF first, second
    <3> QED BY <1>1, <1>3, <1>4
  <2> HIDE DEF first, second
  <2> QED BY <2>1 DEF Got
<1> DEFINE U == Range(more.value) \cup {app.base}
<1>7. splits \in Seq(U)
  <2> DEFINE w == more.value
  <2>1. w \in Seq(Range(w))
    BY <1>4 DEF IsList
  <2>2. splits = At(w, {i \in DOMAIN w : w[i].url # None})
    BY <1>5
  <2>3. w \in Seq(U)
    <3> HIDE DEF w
    <3> QED BY <2>1 DEF w
  <2> HIDE DEF U, w, splits
  <2> QED BY <2>2, <2>3, PartOfList
<1> HIDE DEF splits
<1>8. all \in Seq(U) /\ 1 \in DOMAIN all
  <2>1. app.base \in U
    OBVIOUS
  <2> HIDE DEF U
  <2> QED BY <1>7, <2>1
<1>9. urls = At(all, J) /\ J \in SUBSET DOMAIN all /\ 1 \in J
  <2>1. urls = At(all, J)
    BY Zenon DEF KeepFirst
  <2> HIDE DEF all, urls
  <2> QED BY <1>8, <2>1
<1> HIDE DEF all, urls, J, U
<1>10. urls \in Seq(U) /\ 1 \in DOMAIN urls
  <2>1. urls \in Seq(U)
    BY <1>8, <1>9, PartOfList
  <2>2. DOMAIN all = 1..Len(all) /\ Len(all) \in Nat
    BY <1>8
  <2>3. J \in SUBSET Int /\ IsFiniteSet(J)
    <3> DEFINE n == Len(all)
    <3>1. n \in Nat /\ J \in SUBSET (1..n)
      BY <1>9, <2>2
    <3> HIDE DEF n
    <3>2. IsFiniteSet(1..n)
      BY <3>1, FS_Interval
    <3>3. IsFiniteSet(J)
      BY <3>1, <3>2, FS_Subset
    <3> QED BY <3>1, <3>3
  <2>4. Range(urls) = {all[i] : i \in J}
    BY <1>9, <2>3, ListAt
  <2>5. urls # <<>>
    BY <1>9, <2>4 DEF Range
  <2> QED BY <2>1, <2>5
<1>11. IsList(first) /\ 1 \in DOMAIN first
  BY <1>10, EachIsList
<1>12. IsList(second)
  BY <1>2, EachIsList DEF AppTrue, IsList
<1> HIDE DEF first, second
<1>13. Range(first \o second) # {}
  <2>1. first \in Seq(Range(first)) /\ second \in Seq(Range(second))
    BY <1>11, <1>12 DEF IsList
  <2>2. 1 \in DOMAIN (first \o second)
    BY <1>11, <2>1
  <2> DEFINE files == first \o second
  <2> HIDE DEF files
  <2>3. Range(files) # {}
    BY <2>2 DEF Range, files
  <2> QED BY <2>3 DEF files
<1>14. \A f \in Range(result.value) : f.build = b
  BY <1>2, <1>6, AptoideFilesAre DEF result
<1>15. b # None
  BY <1>2, TablesAssumption
<1> QED BY <1>6, <1>13, <1>14, <1>15 DEF result, app

\* A healthy aptoide serves what it supports.
LEMMA AptoideServed ==
    ASSUME NEW store, AptoideTrue(store), AptoideServes(store), NEW request,
           Supported("aptoide", store, request)
    PROVE  Served(AptoidePlan(store, request))
<1> DEFINE plan == AptoidePlan(store, request)
           payload == GetAppOrSearch(store)
           app == SelectApp(store, payload.value, request)
           files == AptoideFiles(store, app.value)
<1>1. plan = IF payload.error = None
             THEN IF app.error = None
                  THEN IF ~app.value.package THEN Fail("BAD_RESPONSE")
                       ELSE IF files.error = None
                            THEN Got(Plan(app.value.code, app.value.name, files.value))
                            ELSE files
                  ELSE app
             ELSE payload
  BY Zenon DEF AptoidePlan, Then, Unless
<1>2. payload.error = None
  BY PayloadServed
<1>3. PICK page \in AppPages(store) : payload = Got(page.body)
  BY <1>2, PayloadIs
<1> HIDE DEF payload
<1>4. app = SelectApp(store, page.body, request)
  BY <1>3 DEF Got
<1> HIDE DEF app
<1>5. PICK other \in AppPages(store) : app.error = None /\ app.value = other.body.app
  BY <1>4, AppServed
<1>6. app.value.package
  BY <1>5 DEF AptoideServes
<1>7. files.error = None /\ \E f \in Range(files.value) : f.build # None
  BY <1>5, FilesServed
<1> HIDE DEF plan, files
<1>8. plan.error = None /\ plan.value.files = files.value
  BY <1>1, <1>2, <1>5, <1>6, <1>7 DEF Got, Plan
<1> QED BY <1>7, <1>8 DEF Served, plan

-----------------------------------------------------------------------------
\* The places of the first item of each name.
NewNames(seq) ==
    {i \in DOMAIN seq : \A j \in 1..(i - 1) : seq[j].name # seq[i].name}

\* No name is lost with the others.
LEMMA NamesKept ==
    ASSUME NEW S, NEW seq \in Seq(S), NEW x \in Range(seq)
    PROVE  \E y \in Range(At(seq, NewNames(seq))) : y.name = x.name
<1> DEFINE J == NewNames(seq)
           n == Len(seq)
           X == {i \in 1..n : seq[i].name = x.name}
<1>1. n \in Nat /\ DOMAIN seq = 1..n
  OBVIOUS
<1>2. X # {} /\ X \in SUBSET Nat
  BY <1>1 DEF Range
<1>3. PICK m \in X : \A k \in X : m <= k
  <2> HIDE DEF X
  <2> QED BY <1>2, LeastOf
<1>4. m \in 1..n /\ seq[m].name = x.name
  OBVIOUS
<1>5. \A j \in 1..(m - 1) : j \notin X
  BY <1>1, <1>3, <1>4
<1>6. \A j \in 1..(m - 1) : seq[j].name # seq[m].name
  BY <1>1, <1>4, <1>5
<1>7. m \in J
  BY <1>1, <1>4, <1>6 DEF NewNames
<1>8. J \in SUBSET (1..n) /\ n \in Nat
  BY <1>1 DEF NewNames
<1> HIDE DEF n, X, J
<1>9. J \in SUBSET Int /\ IsFiniteSet(J)
  <2>1. IsFiniteSet(1..n)
    BY <1>8, FS_Interval
  <2>2. IsFiniteSet(J)
    BY <1>8, <2>1, FS_Subset
  <2> QED BY <1>8, <2>2
<1>10. Range(At(seq, J)) = {seq[i] : i \in J}
  BY <1>9, ListAt
<1> QED BY <1>4, <1>7, <1>10 DEF J

\* A row about the package, with a name.
NamedRow(row) == row.own /\ row.name # None

\* The list has each name of the rows.
Lists(listed, rows_) == \A row \in Range(rows_) :
    NamedRow(row) => \E item \in Range(listed) : item.name = row.name

\* parse_uploads_versions returns each name of its page.
LEMMA VersionsOfPage ==
    ASSUME NEW rows_, IsList(rows_)
    PROVE  Lists(UploadsVersions(rows_), rows_)
<1> DEFINE I == {i \in DOMAIN rows_ : rows_[i].own /\ rows_[i].name # None}
           seq == At(rows_, I)
           T == Range(rows_)
           n == Len(rows_)
<1>1. UploadsVersions(rows_) = At(seq, NewNames(seq))
  BY Zenon DEF UploadsVersions, KeepFirst, Selected, NewNames
<1>2. rows_ \in Seq(T) /\ n \in Nat /\ DOMAIN rows_ = 1..n
  BY ListIs DEF IsList
<1>3. I \in SUBSET (1..n) /\ I \in SUBSET DOMAIN rows_
  BY <1>2
<1>4. \A row \in Range(rows_) : NamedRow(row) => \E i \in I : row = rows_[i]
  BY DEF Range, NamedRow
<1> HIDE DEF I, T, n
<1>5. seq \in Seq(T)
  BY <1>2, <1>3, PartOfList
<1>6. IsFiniteSet(I) /\ I \in SUBSET Int
  <2>1. IsFiniteSet(1..n)
    BY <1>2, FS_Interval
  <2>2. IsFiniteSet(I)
    BY <1>3, <2>1, FS_Subset
  <2> QED BY <1>2, <1>3, <2>2
<1>7. Range(seq) = {rows_[i] : i \in I}
  BY <1>6, ListAt
<1> HIDE DEF seq
<1>9. \A row \in Range(rows_) : NamedRow(row) =>
        \E item \in Range(At(seq, NewNames(seq))) : item.name = row.name
  <2> SUFFICES ASSUME NEW row \in Range(rows_), NamedRow(row)
               PROVE  \E item \in Range(At(seq, NewNames(seq))) : item.name = row.name
    OBVIOUS
  <2>1. row \in Range(seq)
    BY <1>4, <1>7
  <2> QED BY <1>5, <2>1, NamesKept
<1> QED BY <1>1, <1>9 DEF Lists

\* A page that is added keeps the names of the others and adds its own.
LEMMA PageAdded ==
    ASSUME NEW S, NEW before, before.error = None, before.value \in Seq(S),
           NEW page, Shows(page), IsList(page.body),
           UploadsVersions(page.body) \in Seq(S)
    PROVE  /\ WithPage(before, page).error = None
           /\ Lists(WithPage(before, page).value, page.body)
           /\ \A seen : Lists(before.value, seen)
                            => Lists(WithPage(before, page).value, seen)
<1> DEFINE rows_ == Loaded(page)
           new == UploadsVersions(page.body)
           seq == before.value \o UploadsVersions(rows_.value)
           result == WithPage(before, page)
<1>1. result = IF before.error = None
               THEN IF rows_.error = None THEN Got(At(seq, NewNames(seq))) ELSE rows_
               ELSE before
  BY Zenon DEF WithPage, Then, KeepFirst, NewNames
<1>2. rows_.error = None /\ rows_ = Got(page.body)
  BY LoadedPage DEF Shows
<1>3. rows_.value = page.body
  BY <1>2 DEF Got
<1> HIDE DEF rows_, result
<1>4. seq = before.value \o new
  BY <1>3
<1>6. Lists(new, page.body)
  BY VersionsOfPage
<1> HIDE DEF seq, new
<1>7. new \in Seq(S)
  BY DEF new
<1>8. seq \in Seq(S)
  BY <1>4, <1>7
<1>9. result.error = None /\ result.value = At(seq, NewNames(seq))
  BY <1>1, <1>2 DEF Got
<1>10. \A x \in Range(seq) : \E y \in Range(result.value) : y.name = x.name
  BY <1>8, <1>9, NamesKept
<1>11. \A x \in Range(before.value) \cup Range(new) : x \in Range(seq)
  <2> DEFINE a == before.value
             m == Len(a)
             k == Len(new)
  <2>1. a \in Seq(S) /\ m \in Nat /\ k \in Nat /\ seq = a \o new
        /\ DOMAIN a = 1..m /\ DOMAIN new = 1..k
    BY <1>4, <1>7
  <2>2. \A i \in 1..m : i \in DOMAIN seq /\ seq[i] = a[i]
    <3> HIDE DEF a
    <3> QED BY <1>7, <2>1
  <2>3. \A i \in 1..k : m + i \in DOMAIN seq /\ seq[m + i] = new[i]
    <3> HIDE DEF a
    <3> QED BY <1>7, <2>1
  <2> HIDE DEF m, k
  <2> QED BY <2>1, <2>2, <2>3 DEF Range
<1>12. Lists(result.value, page.body)
  BY <1>6, <1>10, <1>11 DEF Lists
<1>13. ASSUME NEW seen, Lists(before.value, seen)
       PROVE  Lists(result.value, seen)
  BY <1>10, <1>11, <1>13 DEF Lists
<1> QED BY <1>9, <1>12, <1>13 DEF result

\* The rows that a healthy apkmirror lists.
Rows(site) ==
    {row \in UNION {Range(Loaded(site.uploads[i]).value) : i \in 1..PagesRead(site)} :
        /\ row.name # None /\ row # None
        /\ ReleaseTrue(site, row.release, row.name)
        /\ ResolveDownload(site, row.release).error = None}

\* Its list is read to the end and has a row for each name.
LEMMA ListServed ==
    ASSUME NEW site, MirrorTrue(site), MirrorServes(site),
           \A i \in 1..PagesRead(site) : \A row \in Range(site.uploads[i].body) :
                NamedRow(row) => ResolveDownload(site, row.release).error = None
    PROVE  /\ ListUploads(site).error = None
           /\ ListUploads(site).value \in Seq(Rows(site))
           /\ \A i \in 1..PagesRead(site) :
                Lists(ListUploads(site).value, site.uploads[i].body)
<1> DEFINE n == PagesRead(site)
           S == Rows(site)
           body(i) == site.uploads[i].body
<1>1. n \in Nat
  BY DEF MirrorTrue
<1>2. ASSUME NEW i \in 1..n
      PROVE  /\ Shows(site.uploads[i])
             /\ Loaded(site.uploads[i]).error = None
             /\ Loaded(site.uploads[i]).value = body(i)
             /\ IsList(body(i))
             /\ \A row \in Range(body(i)) : row.own /\ row.name # None => row \in S
  <2>1. Shows(site.uploads[i])
    BY DEF MirrorServes
  <2>2. Loaded(site.uploads[i]).error = None
    BY <2>1 DEF Shows
  <2>3. Loaded(site.uploads[i]) = Got(body(i))
    BY <2>2, LoadedPage
  <2>4. Loaded(site.uploads[i]).value = body(i)
    BY <2>3 DEF Got
  <2>5. IsList(body(i))
    BY <2>1 DEF MirrorTrue
  <2>6. ASSUME NEW row \in Range(body(i)), row.own /\ row.name # None
        PROVE  row \in S
    <3>1. ReleaseTrue(site, row.release, row.name)
      BY <2>1, <2>6 DEF MirrorTrue
    <3>2. ResolveDownload(site, row.release).error = None
      BY <2>6 DEF NamedRow
    <3>3. row # None
      BY <2>6 DEF MirrorServes
    <3>4. row \in UNION {Range(Loaded(site.uploads[j]).value) : j \in 1..PagesRead(site)}
      BY <2>4
    <3> QED BY <2>6, <3>1, <3>2, <3>3, <3>4 DEF Rows
  <2> HIDE DEF body
  <2> QED BY <2>1, <2>2, <2>4, <2>5, <2>6
<1>3. PICK h : PageByPage(h, site, S)
  <2>1. \A i \in 1..PagesRead(site) : Loaded(site.uploads[i]).error = None =>
                /\ IsList(Loaded(site.uploads[i]).value)
                /\ \A row \in Range(Loaded(site.uploads[i]).value) :
                        row.own /\ row.name # None => row \in S
    BY <1>2
  <2> HIDE DEF S
  <2> QED BY <1>1, <2>1, UploadsRead
<1> HIDE DEF S
<1> DEFINE T == {i \in 0..n : /\ h[i].error = None
                              /\ \A j \in 1..i : Lists(h[i].value, body(j))}
<1>4. 0 \in T
  <2>1. h[0].error = None
    BY <1>3 DEF PageByPage, Got
  <2> QED BY <1>1, <2>1
<1>5. ASSUME NEW i \in 0..(n - 1), i \in T
      PROVE  i + 1 \in T
  <2>1. i \in 0..n /\ i + 1 \in 1..n
    BY <1>1
  <2> DEFINE k == i + 1
             before == h[i]
             page == site.uploads[k]
  <2>2. h[k] = WithPage(before, page)
    <3>1. \A j \in 1..n : h[j] = WithPage(h[j - 1], site.uploads[j])
      BY <1>3 DEF PageByPage
    <3>2. k - 1 = i
      BY <1>1
    <3> QED BY <2>1, <3>1, <3>2
  <2>3. before.error = None /\ \A j \in 1..i : Lists(before.value, body(j))
    BY <1>5
  <2>4. before.value \in Seq(S)
    BY <1>3, <2>1, <2>3 DEF PageByPage
  <2>5. Shows(page) /\ IsList(page.body)
        /\ \A row \in Range(page.body) : row.own /\ row.name # None => row \in S
    BY <1>2, <2>1
  <2> HIDE DEF before, page
  <2>6. UploadsVersions(page.body) \in Seq(S)
    BY <2>5, UploadsPart
  <2>7. /\ WithPage(before, page).error = None
        /\ Lists(WithPage(before, page).value, page.body)
        /\ \A seen : Lists(before.value, seen)
                            => Lists(WithPage(before, page).value, seen)
    BY <2>3, <2>4, <2>5, <2>6, PageAdded
  <2>8. h[k].error = None /\ Lists(h[k].value, body(k))
        /\ \A j \in 1..i : Lists(h[k].value, body(j))
    BY <2>2, <2>3, <2>7 DEF page
  <2>9. \A j \in 1..k : j = k \/ j \in 1..i
    BY <1>1
  <2>10. k \in 0..n
    BY <1>1, <2>1
  <2> HIDE DEF k, body
  <2>11. k \in T
    BY <2>8, <2>9, <2>10
  <2> QED BY <2>11 DEF k
<1> HIDE DEF T
<1>6. \A i \in 0..n : i \in T
  <2> HIDE DEF n
  <2> QED BY <1>1, <1>4, <1>5, CountingUp
<1>7. n \in T /\ n \in 0..n
  BY <1>1, <1>6
<1>8. ListUploads(site) = h[n]
  BY <1>3 DEF PageByPage
<1>9. ListUploads(site).error = None
      /\ \A j \in 1..n : Lists(ListUploads(site).value, body(j))
  BY <1>7, <1>8 DEF T
<1>10. ListUploads(site).value \in Seq(S)
  BY <1>3, <1>7, <1>8, <1>9 DEF PageByPage
<1> QED BY <1>9, <1>10 DEF S

-----------------------------------------------------------------------------
\* A page with variants has one that is selected.
LEMMA VariantServed ==
    ASSUME NEW variants, IsList(variants), variants # <<>>, None \notin Range(variants)
    PROVE  SelectVariant(variants) # None
<1> DEFINE distinct == KeepFirst(variants, LAMBDA v : v.url)
           J == {i \in DOMAIN variants :
                    \A j \in 1..(i - 1) : variants[j].url # variants[i].url}
           X == {i \in 1..Len(distinct) : distinct[i].bundle}
           Y == {i \in 1..Len(distinct) : TRUE}
           T == Range(variants)
           n == Len(variants)
<1>1. distinct = At(variants, J)
  BY Zenon DEF KeepFirst
<1>2. variants \in Seq(T) /\ n \in Nat /\ DOMAIN variants = 1..n /\ 1 \in 1..n
  <2>1. n \in Nat /\ DOMAIN variants = 1..n /\ variants \in Seq(T)
    BY ListIs DEF IsList
  <2> QED BY <2>1
<1>3. SelectVariant(variants) =
        IF FirstAt(distinct, X) # None THEN FirstAt(distinct, X)
        ELSE FirstAt(distinct, Y)
  BY Zenon DEF SelectVariant, First, SelectInSeq, FirstAt
<1>4. 1 \in J /\ J \in SUBSET (1..n)
  BY <1>2
<1> HIDE DEF distinct, T, n, J
<1>5. distinct \in Seq(T)
  BY <1>1, <1>2, <1>4, PartOfList
<1>6. J \in SUBSET Int /\ IsFiniteSet(J)
  <2>1. IsFiniteSet(1..n)
    BY <1>2, FS_Interval
  <2>2. IsFiniteSet(J)
    BY <1>4, <2>1, FS_Subset
  <2> QED BY <1>2, <1>4, <2>2
<1>7. Range(At(variants, J)) = {variants[i] : i \in J}
  BY <1>6, ListAt
<1>8. distinct # <<>>
  <2>1. variants[1] \in Range(distinct)
    BY <1>1, <1>4, <1>7
  <2>2. Range(<<>>) = {}
    BY DEF Range
  <2> QED BY <2>1, <2>2
<1>9. IsList(distinct) /\ DOMAIN distinct = 1..Len(distinct) /\ Range(distinct) \subseteq T
  <2>1. IsList(distinct) /\ DOMAIN distinct = 1..Len(distinct)
    BY <1>5, ListIs
  <2> QED BY <1>5, <2>1 DEF Range
<1>10. Y \in SUBSET (1..Len(distinct)) /\ Y # {}
  <2>1. 1 \in 1..Len(distinct)
    BY <1>5, <1>8
  <2> QED BY <2>1
<1> HIDE DEF Y
<1>11. FirstAt(distinct, Y) \in Range(distinct)
  BY <1>9, <1>10, FirstFound DEF Among
<1> QED BY <1>3, <1>9, <1>11 DEF T

\* A healthy release page leads to a download.
LEMMA ReleaseServed ==
    ASSUME NEW site, MirrorTrue(site), MirrorServes(site),
           NEW i \in 1..PagesRead(site), NEW row \in Range(site.uploads[i].body),
           NamedRow(row)
    PROVE  ResolveDownload(site, row.release).error = None
<1> DEFINE release == row.release
           page == IF release \in DOMAIN site.releases THEN site.releases[release]
                   ELSE [http |-> "missing", body |-> <<>>]
           variants == Loaded(page)
           variant == SelectVariant(variants.value)
           shown == Loaded(variant.page)
           link == Loaded(site.final)
           found == [code |-> shown.value.code, name |-> shown.value.name,
                     build |-> variant.build]
           result == ResolveDownload(site, release)
<1>1. result =
        IF variants.error = None
        THEN IF variant = None THEN Fail("NOT_FOUND")
             ELSE IF shown.error = None
                  THEN IF ~shown.value.button THEN Fail("BAD_RESPONSE")
                       ELSE IF link.error = None
                            THEN IF link.value # "ok" THEN Fail("BAD_RESPONSE")
                                 ELSE Got(found)
                            ELSE link
                  ELSE shown
        ELSE variants
  BY Zenon DEF ResolveDownload, Then, Unless
<1>2. Shows(site.uploads[i])
  BY DEF MirrorServes
<1>3. /\ release \in DOMAIN site.releases
      /\ Shows(site.releases[release])
      /\ site.releases[release].body # <<>>
      /\ None \notin Range(site.releases[release].body)
      /\ \A v \in Range(site.releases[release].body) :
                Shows(v.page) /\ v.page.body.button
  BY DEF MirrorServes, NamedRow
<1>4. ReleaseTrue(site, release, row.name)
  BY <1>2 DEF MirrorTrue, NamedRow
<1> DEFINE body == site.releases[release].body
<1>5. IsList(body)
  BY <1>3, <1>4 DEF ReleaseTrue
<1>6. variants.error = None /\ variants.value = body
  <2>1. page = site.releases[release]
    BY <1>3
  <2>2. Loaded(site.releases[release]) = Got(body)
    BY <1>3, LoadedPage DEF Shows
  <2>3. variants = Got(body)
    BY <2>1, <2>2
  <2> HIDE DEF variants, body
  <2> QED BY <2>3 DEF Got
<1> HIDE DEF variants, page
<1>7. variant # None /\ variant \in Range(body)
  BY <1>3, <1>5, <1>6, VariantServed, VariantIs
<1> HIDE DEF variant
<1>8. shown.error = None /\ shown.value.button
  <2>1. Shows(variant.page) /\ variant.page.body.button
    BY <1>3, <1>7
  <2>2. shown = Got(variant.page.body)
    BY <2>1, LoadedPage DEF Shows
  <2> HIDE DEF shown
  <2> QED BY <2>1, <2>2 DEF Got
<1>9. link.error = None /\ link.value = "ok"
  <2>1. Shows(site.final) /\ site.final.body = "ok"
    BY DEF MirrorServes
  <2>2. link = Got(site.final.body)
    BY <2>1, LoadedPage DEF Shows
  <2> HIDE DEF link
  <2> QED BY <2>1, <2>2 DEF Got
<1> HIDE DEF shown, link, found, result
<1>10. result = Got(found)
  BY <1>1, <1>6, <1>7, <1>8, <1>9
<1> QED BY <1>10 DEF Got, result, release

\* What is asked for by name is found, by the constructed URL or by the list's.
LEMMA NameServed ==
    ASSUME NEW site, MirrorTrue(site), MirrorServes(site), NEW request,
           NEW b \in Codes, request.name = OwnName[b]
    PROVE  ResolveOrList(site, request, request.name).error = None
<1> DEFINE direct == ResolveDownload(site, request.name)
           listed == ListUploads(site)
           X == {i \in 1..Len(listed.value) : listed.value[i].name = request.name}
           match == FirstAt(listed.value, X)
           other == ResolveDownload(site, match.release)
           result == ResolveOrList(site, request, request.name)
<1>1. result = IF direct.error = None \/ request.name = None THEN direct
               ELSE IF listed.error = None
                    THEN IF match = None THEN Fail("NOT_FOUND")
                         ELSE IF match.release = request.name THEN Fail("NOT_FOUND")
                         ELSE other
                    ELSE listed
  BY Zenon DEF ResolveOrList, Then, Unless, First, SelectInSeq, FirstAt
<1> HIDE DEF result
<1>2. CASE direct.error = None
  <2> HIDE DEF direct, listed, match, other
  <2> QED BY <1>1, <1>2 DEF result
<1>3. CASE direct.error # None
  <2> DEFINE seq == listed.value
             S == Rows(site)
  <2>1. /\ listed.error = None /\ seq \in Seq(S)
        /\ \A i \in 1..PagesRead(site) : Lists(seq, site.uploads[i].body)
    BY ReleaseServed, ListServed
  <2>2. request.name # None
    BY TablesAssumption
  <2>3. \E item \in Range(seq) : item.name = request.name
    <3>1. PICK i \in 1..PagesRead(site) : \E row \in Range(site.uploads[i].body) :
            row.own /\ row.name = request.name
      BY DEF MirrorServes
    <3>2. PICK row \in Range(site.uploads[i].body) : row.own /\ row.name = request.name
      BY <3>1
    <3> HIDE DEF seq
    <3>3. Lists(seq, site.uploads[i].body)
      BY <2>1
    <3> QED BY <2>2, <3>2, <3>3 DEF Lists, NamedRow
  <2> HIDE DEF listed
  <2>4. match = FirstAt(seq, X)
    OBVIOUS
  <2>5. X = {i \in 1..Len(seq) : seq[i].name = request.name}
    OBVIOUS
  <2> HIDE DEF match, seq, X
  <2>6. IsList(seq) /\ DOMAIN seq = 1..Len(seq)
    BY <2>1, ListIs
  <2>7. X \in SUBSET (1..Len(seq)) /\ X # {}
    BY <2>3, <2>5, <2>6 DEF Range
  <2>8. Among(match, seq, X)
    BY <2>4, <2>6, <2>7, FirstFound
  <2>9. match \in S
    BY <2>1, <2>6, <2>8 DEF Among, Range
  <2>10. match # None /\ other.error = None
    BY <2>9 DEF S, Rows
  <2>11. match.release # request.name
    BY <1>3, <2>10
  <2> HIDE DEF direct, other
  <2>12. result = other
    BY <1>1, <1>3, <2>1, <2>2, <2>10, <2>11
  <2> QED BY <2>10, <2>12 DEF result
<1> QED BY <1>2, <1>3

\* A healthy apkmirror serves what it supports.
LEMMA MirrorServed ==
    ASSUME NEW site, MirrorTrue(site), MirrorServes(site), NEW request \in Asked,
           Supported("apkmirror", site, request)
    PROVE  Served(MirrorPlan(site, request))
<1> DEFINE plan == MirrorPlan(site, request)
           slugs == Slugs(site)
           release == ReleaseUrl(site, request)
           download == ResolveOrList(site, request, release.value)
           b == download.value.build
           made == Plan(Either(request.code, download.value.code),
                        Either(request.name, download.value.name),
                        <<File("APKM", b)>>)
<1>1. plan = IF slugs.error = None
             THEN IF release.error = None
                  THEN IF download.error = None THEN Got(made) ELSE download
                  ELSE release
             ELSE slugs
  BY Zenon DEF MirrorPlan, Then
<1>2. slugs.error = None
  <2> DEFINE exact == Loaded(site.search)
  <2>1. slugs = IF exact.error = None
                THEN IF ~exact.value THEN Fail("NOT_FOUND") ELSE Got(TRUE)
                ELSE exact
    BY Zenon DEF Slugs, Then, Unless
  <2>2. Shows(site.search) /\ site.search.body
    BY DEF MirrorServes
  <2>3. exact = Got(site.search.body)
    BY <2>2, LoadedPage DEF Shows
  <2>4. exact.error = None /\ exact.value
    <3> HIDE DEF exact
    <3> QED BY <2>2, <2>3 DEF Got
  <2> HIDE DEF exact, slugs
  <2>5. slugs = Got(TRUE)
    BY <2>1, <2>4
  <2> QED BY <2>5 DEF Got
<1>3. None \notin Codes
  BY TablesAssumption
<1>4. /\ release.error = None /\ download.error = None
      /\ \E name : LeadsTo(download.value, name)
  <2>1. CASE request.name # None
    <3>1. release.error = None /\ release.value = request.name
      BY <2>1 DEF ReleaseUrl, Got
    <3>2. request.name \in {OwnName[c] : c \in Codes}
      BY <2>1 DEF Supported
    <3>3. download.error = None
      BY <3>1, <3>2, NameServed
    <3>4. LeadsTo(download.value, request.name)
      BY <2>1, <3>1, <3>3, NamedDownload
    <3> HIDE DEF release, download
    <3> QED BY <3>1, <3>3, <3>4
  <2>2. CASE request.name = None
    <3> DEFINE listed == ListUploads(site)
               S == Rows(site)
               row == listed.value[1]
    <3>1. request.code = None
      <4>1. None \notin {OwnName[c] : c \in Codes}
        BY TablesAssumption
      <4> QED BY <2>2, <4>1 DEF Supported
    <3>2. release = IF listed.error = None
                    THEN IF listed.value = <<>> THEN Fail("NOT_FOUND")
                         ELSE Got(row.release)
                    ELSE listed
      <4>1. release = IF ~(request.code # None) THEN
                         IF listed.error = None
                         THEN IF listed.value = <<>> THEN Fail("NOT_FOUND")
                              ELSE Got(row.release)
                         ELSE listed
                      ELSE Fail("NOT_FOUND")
        BY Zenon, <2>2 DEF ReleaseUrl, Then, Unless
      <4> QED BY <3>1, <4>1
    <3>3. /\ listed.error = None /\ listed.value \in Seq(S)
          /\ \A i \in 1..PagesRead(site) : Lists(listed.value, site.uploads[i].body)
      BY ReleaseServed, ListServed
    <3>4. listed.value # <<>>
      <4>1. PICK c \in Codes : TRUE
        BY DEF MirrorServes
      <4>2. PICK i \in 1..PagesRead(site) : \E item \in Range(site.uploads[i].body) :
                item.own /\ item.name = OwnName[c]
        BY <4>1 DEF MirrorServes
      <4>3. OwnName[c] # None
        BY TablesAssumption
      <4> HIDE DEF listed
      <4>4. Range(listed.value) # {}
        BY <3>3, <4>2, <4>3 DEF Lists, NamedRow
      <4> QED BY <4>4 DEF Range
    <3>5. row \in S
      <4> HIDE DEF listed, S
      <4> QED BY <3>3, <3>4
    <3>6. release.error = None /\ release.value = row.release
      <4> HIDE DEF listed, release, row
      <4>1. release = Got(row.release)
        BY <3>2, <3>3, <3>4
      <4> QED BY <4>1 DEF Got
    <3>7. download = ResolveDownload(site, row.release)
      BY Zenon, <2>2, <3>6 DEF ResolveOrList
    <3>8. download.error = None /\ ReleaseTrue(site, row.release, row.name)
      BY <3>5, <3>7 DEF S, Rows
    <3>9. LeadsTo(download.value, row.name)
      BY <3>7, <3>8, ResolvedIs
    <3> HIDE DEF release, download, row
    <3> QED BY <3>6, <3>8, <3>9
  <2> QED BY <2>1, <2>2
<1>5. b # None
  <2> HIDE DEF download
  <2> QED BY <1>3, <1>4 DEF LeadsTo
<1> HIDE DEF plan, slugs, release, download, b
<1>6. plan = Got(made)
  BY <1>1, <1>2, <1>4
<1>7. plan.error = None /\ File("APKM", b) \in Range(plan.value.files)
  <2>1. plan.error = None /\ plan.value.files = <<File("APKM", b)>>
    BY <1>6 DEF Got, Plan
  <2> QED BY <2>1 DEF Range
<1>8. File("APKM", b).build = b
  BY DEF File
<1> QED BY <1>5, <1>7, <1>8 DEF Served, plan

-----------------------------------------------------------------------------
\* apkpure's search page leads to the package.
LEMMA FoundServed ==
    ASSUME NEW site, Shows(site.search), site.search.body
    PROVE  Found(site).error = None
<1> DEFINE exact == Loaded(site.search)
           result == Found(site)
<1>1. result = IF exact.error = None
               THEN IF ~exact.value THEN Fail("NOT_FOUND") ELSE Got(TRUE)
               ELSE exact
  BY Zenon DEF Found, Then, Unless
<1>2. exact = Got(site.search.body)
  BY LoadedPage DEF Shows
<1>3. exact.error = None /\ exact.value
  <2> HIDE DEF exact
  <2> QED BY <1>2 DEF Got
<1> HIDE DEF exact, result
<1>4. result = Got(TRUE)
  BY <1>1, <1>3
<1> QED BY <1>4 DEF Got, result

\* A link that may be a package's is taken, that one or another.
LEMMA UrlServed ==
    ASSUME NEW page, IsList(page), None \notin Range(page),
           \E url \in Range(page) : MayBePackage(url)
    PROVE  DownloadUrl(page) # None
<1> DEFINE X == {i \in 1..Len(page) : /\ page[i].anchor /\ page[i].path # "none"
                                      /\ ~page[i].stub}
           Y == {i \in 1..Len(page) : page[i].path = "b"}
<1>1. DownloadUrl(page) = IF FirstAt(page, X) # None THEN FirstAt(page, X)
                          ELSE FirstAt(page, Y)
  BY Zenon DEF DownloadUrl, First, SelectInSeq, FirstAt
<1>2. DOMAIN page = 1..Len(page)
  BY ListIs DEF IsList
<1>3. X # {} \/ Y # {}
  BY <1>2 DEF MayBePackage, Range
<1>4. X \in SUBSET (1..Len(page)) /\ Y \in SUBSET (1..Len(page))
  OBVIOUS
<1> HIDE DEF X, Y
<1>5. X # {} => FirstAt(page, X) # None
  BY <1>4, FirstFound DEF Among
<1>6. Y # {} => FirstAt(page, Y) # None
  BY <1>4, FirstFound DEF Among
<1> QED BY <1>1, <1>3, <1>5, <1>6

\* With a default there is a type.
LEMMA TypeServed ==
    ASSUME NEW candidates, NEW default, default # None
    PROVE  FileTypeFrom(candidates, default).error = None
<1> DEFINE type == First(candidates, LAMBDA c : c \in Types)
           result == FileTypeFrom(candidates, default)
           some == IF type # None THEN type ELSE default
<1>1. result = IF some = None THEN Fail("BAD_RESPONSE") ELSE Got(some)
  BY Zenon DEF FileTypeFrom, Unless
<1> HIDE DEF type
<1>2. some # None
  OBVIOUS
<1> HIDE DEF some, result
<1>3. result = Got(some)
  BY <1>1, <1>2
<1> QED BY <1>3 DEF Got, result

\* The first candidate decides if it has a type.
LEMMA TypeFirst ==
    ASSUME NEW candidates, candidates # <<>>, IsList(candidates),
           candidates[1] \in Types
    PROVE  FileTypeFrom(candidates, None) = Got(candidates[1])
<1> DEFINE n == Len(candidates)
           X == {i \in 1..n : candidates[i] \in Types}
           type == FirstAt(candidates, X)
           some == IF type # None THEN type ELSE None
           result == FileTypeFrom(candidates, None)
<1>1. result = IF some = None THEN Fail("BAD_RESPONSE") ELSE Got(some)
  BY Zenon DEF FileTypeFrom, Unless, First, SelectInSeq, FirstAt
<1>2. n \in Nat /\ 1 \in 1..n
  BY ListIs DEF IsList
<1>3. 1 \in X /\ X \in SUBSET (1..n)
  BY <1>2
<1> HIDE DEF n, X, some, result
<1>4. Min(X) = 1
  <2>1. \A y \in X : 1 <= y
    BY <1>2, <1>3
  <2>2. Min(X) \in X /\ \A y \in X : Min(X) <= y
    BY <1>3, <2>1 DEF Min
  <2> DEFINE least == Min(X)
  <2> HIDE DEF least
  <2>3. least \in 1..n /\ least <= 1
    BY <1>3, <2>2 DEF least
  <2>4. least = 1
    BY <1>2, <2>3
  <2> QED BY <2>4 DEF least
<1>5. type = candidates[1]
  BY <1>3, <1>4 DEF FirstAt
<1>6. None \notin Types
  BY StoresAssumption
<1> HIDE DEF type
<1>7. some = candidates[1] /\ some # None
  BY <1>5, <1>6 DEF some
<1>8. result = Got(candidates[1])
  BY <1>1, <1>7
<1> QED BY <1>8 DEF result

\* A download page with a link has the package.
LEMMA VersionFileServed ==
    ASSUME NEW site, PureTrue(site), NEW version, version.type # None,
           Linked(site, Either(version.name, version.code))
    PROVE  /\ ResolveVersionFile(site, version).error = None
           /\ ResolveVersionFile(site, version).value.build # None
<1> DEFINE key == Either(version.name, version.code)
           page == DownloadPage(site, version)
           shown == Loaded(page)
           url == DownloadUrl(shown.value)
           type == FileTypeFrom(<<url.type, url.disposition>>, version.type)
           result == ResolveVersionFile(site, version)
           body == site.pages[key].body
<1>1. result = IF shown.error = None
               THEN IF url = None THEN Got(File(version.type, version.build))
                    ELSE IF type.error = None THEN Got(File(type.value, url.build))
                    ELSE type
               ELSE shown
  BY Zenon DEF ResolveVersionFile, Then
<1>2. /\ key \in DOMAIN site.pages
      /\ Shows(site.pages[key])
      /\ None \notin Range(body)
      /\ \E u \in Range(body) : MayBePackage(u)
  BY DEF Linked
<1>3. /\ IsList(body)
      /\ \A u \in Range(body) : MayBePackage(u) => u.build \in Codes
  BY <1>2 DEF PureTrue
<1>4. shown.error = None /\ shown.value = body
  <2>1. page = site.pages[key]
    BY <1>2 DEF DownloadPage
  <2>2. shown = Got(body)
    BY <1>2, <2>1, LoadedPage DEF Shows
  <2> HIDE DEF shown, body
  <2> QED BY <2>2 DEF Got
<1> HIDE DEF shown, body
<1>5. url # None /\ url \in Range(body) /\ MayBePackage(url)
  BY <1>2, <1>3, <1>4, UrlServed, UrlIs
<1> HIDE DEF url
<1>6. type.error = None
  BY TypeServed
<1>7. url.build # None
  BY <1>3, <1>5, TablesAssumption
<1> HIDE DEF type, result
<1>8. result = Got(File(type.value, url.build))
  BY <1>1, <1>4, <1>5, <1>6
<1>9. result.error = None /\ result.value.build = url.build
  BY <1>8 DEF Got, File
<1> QED BY <1>7, <1>9 DEF result

\* Each key that is there is there first somewhere.
LEMMA FirstOfKey ==
    ASSUME NEW n \in Nat, NEW key, NEW i \in 1..n
    PROVE  \E m \in 1..n : /\ key[m] = key[i]
                           /\ \A j \in 1..(m - 1) : key[j] # key[m]
<1> DEFINE X == {k \in 1..n : key[k] = key[i]}
<1>1. X # {} /\ X \in SUBSET Nat
  OBVIOUS
<1>2. PICK m \in X : \A k \in X : m <= k
  <2> HIDE DEF X
  <2> QED BY <1>1, LeastOf
<1>3. \A j \in 1..(m - 1) : j \notin X
  BY <1>2
<1> QED BY <1>2, <1>3

\* The list has a row for each build, with a type, and a name or a page of its own.
LEMMA RowServed ==
    ASSUME NEW site, PureTrue(site), VersionsServe(site),
           NEW request, request.code \in Codes
    PROVE  /\ ListVersions(site).error = None
           /\ SelectHistorical(ListVersions(site).value, request).error = None
           /\ LET row == SelectHistorical(ListVersions(site).value, request).value
              IN /\ row.type # None
                 /\ row.name = None => Linked(site, row.code)
<1> DEFINE rows_ == Loaded(site.versions)
           body == site.versions.body
           I == {i \in DOMAIN rows_.value : rows_.value[i].own}
           own == Selected(rows_.value, LAMBDA row : row.own)
           kept == KeepFirst(own, LAMBDA row : row.code)
           J == {i \in DOMAIN own : \A j \in 1..(i - 1) : own[j].code # own[i].code}
           S == {row \in Range(body) : /\ row # None /\ row.type # None
                                       /\ row.name = None => Linked(site, row.code)}
           Test(v) == IF request.code # None THEN v.code = request.code
                      ELSE request.name # None /\ v.name = request.name
           X == {i \in 1..Len(kept) : Test(kept[i])}
           v == FirstAt(kept, X)
<1>1. ListVersions(site) = IF rows_.error = None THEN Got(kept) ELSE rows_
  BY Zenon DEF ListVersions, Then
<1>2. SelectHistorical(kept, request)
        = IF v = None THEN Fail("NOT_FOUND") ELSE Got(v)
  BY Zenon DEF SelectHistorical, SelectVersion, First, SelectInSeq, FirstAt, Unless
<1>3. rows_.error = None /\ rows_.value = body
  <2>1. rows_ = Got(body)
    BY LoadedPage DEF VersionsServe, Shows
  <2> HIDE DEF rows_, body
  <2> QED BY <2>1 DEF Got
<1>4. ListVersions(site).error = None /\ ListVersions(site).value = kept
  <2> HIDE DEF rows_, kept
  <2> QED BY <1>1, <1>3 DEF Got
<1>5. own = At(rows_.value, I)
  BY Zenon DEF Selected
<1>6. kept = At(own, J)
  BY Zenon DEF KeepFirst
<1> HIDE DEF rows_
<1>7. /\ IsList(body)
      /\ \A row \in Range(body) : row.own => row \in S
      /\ \E row \in Range(body) : row.own /\ row.code = request.code
  BY DEF PureTrue, VersionsServe
<1> DEFINE n == Len(body)
<1>8. n \in Nat /\ DOMAIN body = 1..n /\ I \in SUBSET (1..n)
      /\ \A i \in 1..n : body[i].own <=> i \in I
  <2>1. n \in Nat /\ DOMAIN body = 1..n
    BY <1>7, ListIs DEF IsList
  <2> HIDE DEF body, n
  <2> QED BY <1>3, <2>1
<1> HIDE DEF I, own, n, body, S
<1>9. IsFiniteSet(I) /\ I \in SUBSET Int
  <2>1. IsFiniteSet(1..n)
    BY <1>8, FS_Interval
  <2>2. IsFiniteSet(I)
    BY <1>8, <2>1, FS_Subset
  <2> QED BY <1>8, <2>2
<1>10. own \in Seq(S) /\ Range(own) = {body[i] : i \in I}
  <2>1. own = At(body, I)
    BY <1>3, <1>5
  <2>2. \A i \in I : body[i] \in S
    BY <1>7, <1>8 DEF Range
  <2> QED BY <1>9, <2>1, <2>2, ListAt
<1>11. \E i \in DOMAIN own : own[i].code = request.code
  <2>1. PICK row \in Range(body) : row.own /\ row.code = request.code
    BY <1>7
  <2>2. row \in Range(own)
    BY <1>8, <1>10, <2>1 DEF Range
  <2> QED BY <2>1, <2>2 DEF Range
<1> DEFINE m == Len(own)
<1>12. m \in Nat /\ DOMAIN own = 1..m
  BY <1>10
<1>13. \E i \in J : own[i].code = request.code
  <2> DEFINE key == [i \in 1..m |-> own[i].code]
  <2>1. PICK i \in 1..m : own[i].code = request.code
    BY <1>11, <1>12
  <2> HIDE DEF m, key
  <2>2. PICK k \in 1..m : key[k] = key[i] /\ \A j \in 1..(k - 1) : key[j] # key[k]
    <3>1. m \in Nat
      BY <1>12
    <3> HIDE DEF J, kept, X, v, Test
    <3> QED BY <3>1, FirstOfKey, SMTT(30)
  <2>3. own[k].code = own[i].code
    BY <2>2 DEF key
  <2>4. \A j \in 1..(k - 1) : own[j].code # own[k].code
    <3> SUFFICES ASSUME NEW j \in 1..(k - 1)
                 PROVE  own[j].code # own[k].code
      OBVIOUS
    <3>1. j \in 1..m
      BY <1>12, <2>2
    <3>2. key[j] # key[k]
      BY <2>2
    <3> QED BY <2>2, <3>1, <3>2 DEF key
  <2> QED BY <1>12, <2>1, <2>2, <2>3, <2>4
<1>14. J \in SUBSET (1..m)
  BY <1>12
<1> HIDE DEF J, kept, m
<1>15. IsFiniteSet(J) /\ J \in SUBSET Int
  <2>1. IsFiniteSet(1..m)
    BY <1>12, FS_Interval
  <2>2. IsFiniteSet(J)
    BY <1>14, <2>1, FS_Subset
  <2> QED BY <1>12, <1>14, <2>2
<1>16. kept \in Seq(S) /\ Range(kept) = {own[i] : i \in J}
  <2>1. \A i \in J : own[i] \in S
    BY <1>10, <1>12, <1>14
  <2> QED BY <1>6, <1>15, <2>1, ListAt
<1>17. \E x \in Range(kept) : x.code = request.code
  BY <1>13, <1>16
<1>18. IsList(kept) /\ DOMAIN kept = 1..Len(kept)
  BY <1>16, ListIs
<1>19. request.code # None
  BY TablesAssumption
<1>20. X \in SUBSET (1..Len(kept)) /\ X # {}
  BY <1>17, <1>18, <1>19 DEF Range
<1> HIDE DEF X, v
<1>21. Among(v, kept, X)
  BY <1>18, <1>20, FirstFound DEF v
<1>22. v \in S
  BY <1>16, <1>18, <1>21 DEF Among, Range
<1>23. v # None /\ v.type # None /\ (v.name = None => Linked(site, v.code))
  BY <1>22 DEF S
<1>24. SelectHistorical(kept, request) = Got(v)
  BY <1>2, <1>23
<1> QED BY <1>4, <1>23, <1>24 DEF Got

\* A healthy apkpure serves a version that is not the latest.
LEMMA HistoricalServed ==
    ASSUME NEW site, PureTrue(site), VersionsServe(site), NEW request \in Asked,
           \/ request.name \in {OwnName[b] : b \in Codes}
           \/ request.name = None /\ request.code \in Codes
    PROVE  Served(HistoricalPlan(site, request))
<1> DEFINE plan == HistoricalPlan(site, request)
           version == ResolveHistorical(site, request)
           v == version.value
           file == ResolveVersionFile(site, v)
           made == Plan(v.code, v.name, <<file.value>>)
<1>1. plan = IF version.error = None
             THEN IF file.error = None THEN Got(made) ELSE file
             ELSE version
  BY Zenon DEF HistoricalPlan, Then
<1>2. /\ version.error = None /\ v.type # None
      /\ Linked(site, Either(v.name, v.code))
  <2>1. CASE request.name # None
    <3>1. version = Got([name |-> request.name, code |-> request.code,
                         type |-> "APK", build |-> None])
      BY <2>1 DEF ResolveHistorical
    <3>2. "APK" # None
      BY StoresAssumption DEF Types
    <3>3. version.error = None /\ v.name = request.name /\ v.type = "APK"
      <4> HIDE DEF version
      <4> QED BY <3>1 DEF Got
    <3> HIDE DEF version
    <3>4. PICK b \in Codes : request.name = OwnName[b]
      BY <2>1
    <3>5. Linked(site, v.name) /\ Either(v.name, v.code) = v.name
      BY <2>1, <3>3, <3>4 DEF VersionsServe, Either
    <3> QED BY <3>2, <3>3, <3>5
  <2>2. CASE request.name = None
    <3> DEFINE listed == ListVersions(site)
               selected == SelectHistorical(listed.value, request)
    <3>1. version = IF listed.error = None THEN selected ELSE listed
      BY Zenon, <2>2 DEF ResolveHistorical, Then
    <3>2. request.code \in Codes
      BY <2>2, BuildsNamed
    <3>3. /\ listed.error = None /\ selected.error = None
          /\ selected.value.type # None
          /\ selected.value.name = None => Linked(site, selected.value.code)
      BY <3>2, RowServed
    <3>4. RowOf(selected.value, request)
      BY <3>3, SelectedRow
    <3> HIDE DEF version, listed, selected
    <3>5. version = selected
      BY <3>1, <3>3
    <3>6. PICK b \in Codes : v.name \in {None, OwnName[b]}
      BY <3>4, <3>5 DEF RowOf, IsOf
    <3>7. Linked(site, OwnName[b])
      BY DEF VersionsServe
    <3> QED BY <3>3, <3>5, <3>6, <3>7 DEF Either
  <2> QED BY <2>1, <2>2
<1> HIDE DEF version
<1>3. file.error = None /\ file.value.build # None
  BY <1>2, VersionFileServed
<1> HIDE DEF plan, file
<1>4. plan.error = None /\ plan.value.files = <<file.value>>
  BY <1>1, <1>2, <1>3 DEF Got, Plan
<1> QED BY <1>3, <1>4 DEF Served, Range, plan

\* A plan with one file serves if the file is a package.
LEMMA OneServed ==
    ASSUME NEW code, NEW name, NEW file, file.build # None
    PROVE  Served(Got(Plan(code, name, <<file>>)))
<1> DEFINE plan == Got(Plan(code, name, <<file>>))
<1>1. plan.error = None /\ plan.value.files = <<file>>
  BY DEF Got, Plan
<1> HIDE DEF plan
<1>2. file \in Range(plan.value.files)
  BY <1>1 DEF Range
<1> QED BY <1>1, <1>2 DEF Served, plan

\* What apkpure-signed and apkpure-web support that is not the latest version.
LEMMA SupportedPure ==
    ASSUME NEW site, NEW request, NEW p \in {"apkpure-signed", "apkpure-web"},
           Supported(p, site, request),
           NEW latest, latest.code = LatestCode(p, site),
           IsHistorical(latest, request)
    PROVE  \/ request.name \in {OwnName[b] : b \in Codes}
           \/ request.name = None /\ request.code \in Codes
BY DEF Supported, IsHistorical

\* A healthy apkpure-signed serves what it supports.
LEMMA SignedServed ==
    ASSUME NEW site, PureTrue(site), SignedServes(site), NEW request \in Asked,
           Supported("apkpure-signed", site, request)
    PROVE  Served(SignedPlan(site, request))
<1> DEFINE plan == SignedPlan(site, request)
           d == SignedDetail(site)
           found == Found(site)
           asset == d.value.asset
           file == SignedFile(asset)
           f == file.value
           old == HistoricalPlan(site, request)
           made == Got(Plan(d.value.code, d.value.name, <<f>>))
           detail == site.api.body.detail
<1>1. plan = IF d.error = None
             THEN IF IsHistorical(d.value, request)
                  THEN IF found.error = None THEN old ELSE found
                  ELSE IF file.error = None THEN made ELSE file
             ELSE d
  BY Zenon DEF SignedPlan, Then
<1>2. /\ Shows(site.search) /\ site.search.body /\ VersionsServe(site)
      /\ site.api.http = "ok"
      /\ detail # None /\ ~detail.other /\ detail.asset # None
      /\ detail.asset.type \in Types /\ detail.asset.build # None
  BY DEF SignedServes, VersionsServe
<1>3. found.error = None
  BY <1>2, FoundServed
<1>4. d = Got(detail)
  <2> DEFINE payload == Requested(site.api, Refusal)
  <2>1. d = IF payload.error = None
            THEN IF payload.value.detail = None
                 THEN Fail(PayloadError(payload.value.text))
                 ELSE IF payload.value.detail.other THEN Fail("BAD_RESPONSE")
                 ELSE Got(payload.value.detail)
            ELSE payload
    BY Zenon DEF SignedDetail, Then, Unless
  <2>2. payload = Got(site.api.body)
    BY <1>2 DEF Requested
  <2>3. payload.error = None /\ payload.value.detail = detail
    BY <2>2 DEF Got
  <2> HIDE DEF payload, d, detail
  <2> QED BY <1>2, <2>1, <2>3
<1>5. d.error = None /\ d.value = detail
  <2> HIDE DEF d, detail
  <2> QED BY <1>4 DEF Got
<1> HIDE DEF d, found, detail, plan
<1>6. CASE IsHistorical(d.value, request)
  <2>1. Served(old)
    <3>1. \/ request.name \in {OwnName[b] : b \in Codes}
          \/ request.name = None /\ request.code \in Codes
      <4>1. d.value.code = LatestCode("apkpure-signed", site)
        BY <1>5 DEF detail, LatestCode
      <4> QED BY <1>6, <4>1, SupportedPure
    <3> QED BY <1>2, <3>1, HistoricalServed
  <2> QED BY <1>1, <1>3, <1>5, <1>6, <2>1 DEF plan
<1>7. CASE ~IsHistorical(d.value, request)
  <2>1. file = Got(File(asset.type, asset.build))
    BY <1>2, <1>5 DEF SignedFile, Unless
  <2>2. file.error = None /\ f.build = asset.build
    <3> HIDE DEF file
    <3> QED BY <2>1 DEF Got, File
  <2>3. f.build # None
    BY <1>2, <1>5, <2>2
  <2> HIDE DEF file, f
  <2>4. Served(made)
    BY <2>3, OneServed
  <2> QED BY <1>1, <1>5, <1>7, <2>2, <2>4 DEF plan
<1> QED BY <1>6, <1>7

\* A constructed URL of the page's type always ends the search for one.
LEMMA ConstructedServed ==
    ASSUME NEW site, NEW code, NEW raw \in Types
    PROVE  ConstructedFile(site, code, raw).error = None
<1> DEFINE candidates == IF raw \in Types THEN <<raw>> ELSE <<"APK", "XAPK", "APKS">>
           Final(type) == FileTypeFrom(<<raw, site.heads[type]>>, None)
           Ends(type) == IF site.heads[type] = None THEN raw # None
                         ELSE Final(type).value \in {type, None}
           X == {i \in 1..Len(candidates) : Ends(candidates[i])}
           type == FirstAt(candidates, X)
           checked == IF site.heads[type] = None THEN Got(type) ELSE Final(type)
           result == ConstructedFile(site, code, raw)
<1>1. result = IF type = None THEN Fail("BAD_RESPONSE")
               ELSE IF checked.error = None THEN Got(File(checked.value, code))
               ELSE checked
  BY Zenon DEF ConstructedFile, Then, Unless, First, SelectInSeq, FirstAt
<1>2. raw # None
  BY StoresAssumption
<1>3. \A other : FileTypeFrom(<<raw, other>>, None) = Got(raw)
  <2> SUFFICES ASSUME NEW other
               PROVE  FileTypeFrom(<<raw, other>>, None) = Got(raw)
    OBVIOUS
  <2> DEFINE two == <<raw, other>>
  <2>1. two # <<>> /\ two[1] = raw /\ two \in Seq({raw, other})
    OBVIOUS
  <2> HIDE DEF two
  <2>2. IsList(two)
    BY <2>1, ListIs
  <2>3. FileTypeFrom(two, None) = Got(raw)
    BY <2>1, <2>2, TypeFirst
  <2> QED BY <2>3 DEF two
<1>4. \A v : Got(v).error = None /\ Got(v).value = v
  BY DEF Got
<1>5. candidates = <<raw>>
  OBVIOUS
<1>6. Ends(raw)
  <2>1. Final(raw) = Got(raw)
    BY <1>3
  <2>2. Final(raw).value = raw
    BY <1>4, <2>1
  <2> QED BY <1>2, <2>2
<1>7. IsList(candidates) /\ X \in SUBSET (1..Len(candidates)) /\ X # {}
      /\ Range(candidates) = {raw}
  <2>1. candidates[1] = raw /\ Len(candidates) = 1 /\ candidates \in Seq({raw})
    BY <1>5
  <2>2. IsList(candidates) /\ DOMAIN candidates = 1..1
    BY <2>1, ListIs
  <2> HIDE DEF candidates, Ends
  <2> QED BY <1>6, <2>1, <2>2 DEF Range
<1> HIDE DEF X, candidates
<1>8. type = raw
  BY <1>7, FirstFound DEF Among
<1> HIDE DEF type, result
<1>9. checked = Got(raw)
  BY <1>3, <1>8
<1> HIDE DEF checked
<1>10. result = Got(File(raw, code))
  BY <1>1, <1>2, <1>4, <1>8, <1>9
<1> QED BY <1>4, <1>10 DEF result

-----------------------------------------------------------------------------
\* A healthy apkpure-web serves what it supports.
LEMMA WebServed ==
    ASSUME NEW site, PureTrue(site), WebServes(site), NEW request \in Asked,
           Supported("apkpure-web", site, request)
    PROVE  Served(WebPlan(site, request))
<1> DEFINE plan == WebPlan(site, request)
           d == WebDetail(site)
           shown == Loaded(site.button)
           url == DownloadUrl(shown.value)
           type == FileTypeFrom(<<d.value.type, url.type, url.disposition>>, None)
           linked == IF type.error = None THEN Got(File(type.value, url.build)) ELSE type
           built == ConstructedFile(site, d.value.code, d.value.type)
           file == CASE url # None -> linked
                     [] url = None /\ d.value.code # None -> built
                     [] OTHER -> Fail("BAD_RESPONSE")
           f == file.value
           old == HistoricalPlan(site, request)
           made == Got(Plan(d.value.code, d.value.name, <<f>>))
           detail == site.detail.body
<1>1. plan = IF d.error = None
             THEN IF IsHistorical(d.value, request) THEN old
                  ELSE IF shown.error = None
                       THEN IF file.error = None THEN made ELSE file
                       ELSE shown
             ELSE d
  BY Zenon DEF WebPlan, Then
<1>2. /\ Shows(site.search) /\ site.search.body /\ VersionsServe(site)
      /\ Shows(site.detail) /\ Shows(site.button)
      /\ detail.code # None /\ detail.type \in Types
  BY DEF WebServes, VersionsServe
<1>3. \A v : Got(v).error = None /\ Got(v).value = v
  BY DEF Got
<1>4. d = Got(detail)
  <2> DEFINE found == Found(site)
             page == Loaded(site.detail)
  <2>1. d = IF found.error = None
            THEN IF page.error = None
                 THEN IF page.value.name = None /\ page.value.code = None
                      THEN Fail("BAD_RESPONSE") ELSE Got(page.value)
                 ELSE page
            ELSE found
    BY Zenon DEF WebDetail, Then, Unless
  <2>2. found.error = None
    BY <1>2, FoundServed
  <2>3. page = Got(detail)
    BY <1>2, LoadedPage DEF Shows
  <2> HIDE DEF found, page, d, detail
  <2> QED BY <1>2, <1>3, <2>1, <2>2, <2>3
<1>5. d.error = None /\ d.value = detail
  <2> HIDE DEF d, detail
  <2> QED BY <1>3, <1>4
<1>6. PICK b \in Codes : WebOf(site, d.value, b)
  BY <1>5, WebDetailIs
<1> HIDE DEF d, detail, plan
<1>7. CASE IsHistorical(d.value, request)
  <2>1. \/ request.name \in {OwnName[c] : c \in Codes}
        \/ request.name = None /\ request.code \in Codes
    <3>1. d.value.code = LatestCode("apkpure-web", site)
      BY <1>5 DEF detail, LatestCode
    <3> QED BY <1>7, <3>1, SupportedPure
  <2>2. Served(old)
    BY <1>2, <2>1, HistoricalServed
  <2> QED BY <1>1, <1>5, <1>7, <2>2 DEF plan
<1>8. CASE ~IsHistorical(d.value, request)
  <2>1. shown.error = None /\ shown.value = site.button.body
    <3>1. shown = Got(site.button.body)
      BY <1>2, LoadedPage DEF Shows
    <3> HIDE DEF shown
    <3> QED BY <1>3, <3>1
  <2>2. IsList(shown.value)
    BY <1>2, <2>1 DEF PureTrue
  <2> HIDE DEF shown
  <2>3. file.error = None /\ f.build # None
    <3>1. CASE url # None
      <4>1. url \in Range(shown.value) /\ MayBePackage(url)
        BY <2>2, <3>1, UrlIs
      <4>2. file = linked
        <5> HIDE DEF url, linked, built
        <5> QED BY <3>1
      <4> HIDE DEF url, file
      <4>3. url.build # None
        BY <1>2, <1>6, <2>1, <4>1, TablesAssumption DEF WebOf
      <4>4. type.error = None
        <5> DEFINE three == <<d.value.type, url.type, url.disposition>>
        <5>1. three # <<>> /\ three[1] = d.value.type
              /\ three \in Seq({d.value.type, url.type, url.disposition})
          OBVIOUS
        <5>2. d.value.type \in Types
          BY <1>2, <1>5
        <5> HIDE DEF three
        <5>3. IsList(three)
          BY <5>1, ListIs
        <5>4. FileTypeFrom(three, None) = Got(d.value.type)
          BY <5>1, <5>2, <5>3, TypeFirst
        <5> QED BY <1>3, <5>4 DEF three
      <4> HIDE DEF type
      <4>5. file = Got(File(type.value, url.build))
        BY <4>2, <4>4
      <4> QED BY <1>3, <4>3, <4>5 DEF File
    <3>2. CASE url = None
      <4>1. d.value.code # None /\ d.value.type \in Types
        BY <1>2, <1>5
      <4>2. file = built
        <5> HIDE DEF url, linked, built
        <5> QED BY <3>2, <4>1
      <4> HIDE DEF file, url
      <4>3. built.error = None
        BY <4>1, ConstructedServed
      <4>4. built.value.build = d.value.code
        BY <4>3, ConstructedIs
      <4> QED BY <4>1, <4>2, <4>3, <4>4
    <3> QED BY <3>1, <3>2
  <2> HIDE DEF file
  <2>4. Served(made)
    <3> HIDE DEF f
    <3> QED BY <2>3, OneServed
  <2> QED BY <1>1, <1>5, <1>8, <2>1, <2>3, <2>4 DEF plan
<1> QED BY <1>7, <1>8

\* A healthy apkpure-proto serves what it supports.
LEMMA ProtoServed ==
    ASSUME NEW site, PureTrue(site), ProtoServes(site), NEW request,
           Supported("apkpure-proto", site, request)
    PROVE  Served(ProtoPlan(site, request))
<1> DEFINE plan == ProtoPlan(site, request)
           versions == ProtoVersions(site)
           version == SelectProto(versions.value, request)
           v == version.value
           f == File(v.type, v.build)
           made == Got(Plan(None, v.name, <<f>>))
           anchors == Requested(site.proto, Refusal)
           body == site.proto.body
           I == {i \in DOMAIN anchors.value : anchors.value[i].type \in Types}
           seq == Selected(anchors.value, LAMBDA a : a.type \in Types)
           S == {a \in Range(body) : a # None /\ a.build # None}
           X == {i \in 1..Len(seq) : seq[i].name = request.name}
           named == FirstAt(seq, X)
           n == Len(body)
<1>1. plan = IF versions.error = None
             THEN IF version.error = None THEN made ELSE version
             ELSE versions
  BY Zenon DEF ProtoPlan, Then
<1>2. SelectProto(seq, request) =
            IF request.name # None
            THEN IF named = None THEN Fail("NOT_FOUND") ELSE Got(named)
            ELSE IF request.code # None THEN Fail("UNSUPPORTED") ELSE Got(seq[1])
  BY Zenon DEF SelectProto, First, SelectInSeq, FirstAt, Unless
<1>3. versions = IF anchors.error = None
                 THEN IF seq = <<>> THEN Fail("BAD_RESPONSE") ELSE Got(seq)
                 ELSE anchors
  BY Zenon DEF ProtoVersions, Then, Unless
<1>4. \A x : Got(x).error = None /\ Got(x).value = x
  BY DEF Got
<1>5. seq = At(anchors.value, I)
  BY Zenon DEF Selected
<1>6. anchors.error = None /\ anchors.value = body
  <2>1. anchors = Got(body)
    BY DEF ProtoServes, Requested
  <2> HIDE DEF anchors, body
  <2> QED BY <1>4, <2>1
<1>7. /\ IsList(body)
      /\ \A a \in Range(body) : a.type \in Types => a \in S
      /\ \A b \in Codes : \E a \in Range(body) : a.type \in Types /\ a.name = OwnName[b]
      /\ Codes # {}
  BY DEF PureTrue, ProtoServes
<1> HIDE DEF anchors, seq, body, named, S, versions, version, plan
<1>8. n \in Nat /\ DOMAIN body = 1..n /\ I \in SUBSET (1..n)
      /\ \A i \in 1..n : body[i].type \in Types <=> i \in I
  <2>1. n \in Nat /\ DOMAIN body = 1..n
    BY <1>7, ListIs DEF IsList
  <2> HIDE DEF n
  <2> QED BY <1>6, <2>1
<1> HIDE DEF I, n
<1>9. IsFiniteSet(I) /\ I \in SUBSET Int
  <2>1. IsFiniteSet(1..n)
    BY <1>8, FS_Interval
  <2>2. IsFiniteSet(I)
    BY <1>8, <2>1, FS_Subset
  <2> QED BY <1>8, <2>2
<1>10. seq \in Seq(S) /\ Range(seq) = {body[i] : i \in I}
  <2>1. seq = At(body, I)
    BY <1>5, <1>6
  <2>2. \A i \in I : body[i] \in S
    BY <1>7, <1>8 DEF Range
  <2> QED BY <1>9, <2>1, <2>2, ListAt
<1>11. \A b \in Codes : \E a \in Range(seq) : a.name = OwnName[b]
  <2> SUFFICES ASSUME NEW b \in Codes
               PROVE  \E a \in Range(seq) : a.name = OwnName[b]
    OBVIOUS
  <2>1. PICK a \in Range(body) : a.type \in Types /\ a.name = OwnName[b]
    BY <1>7
  <2>2. a \in Range(seq)
    BY <1>8, <1>10, <2>1 DEF Range
  <2> QED BY <2>1, <2>2
<1>12. seq # <<>>
  BY <1>7, <1>11 DEF Range
<1>13. versions.error = None /\ versions.value = seq
  BY <1>3, <1>4, <1>6, <1>12
<1>14. IsList(seq) /\ DOMAIN seq = 1..Len(seq)
  BY <1>10, ListIs
<1>15. version.error = None /\ v \in S
  <2>1. version = SelectProto(seq, request)
    BY <1>13 DEF version
  <2>2. CASE request.name # None
    <3>1. \E a \in Range(seq) : a.name = request.name
      BY <1>11, <2>2 DEF Supported
    <3>2. X # {} /\ X \in SUBSET (1..Len(seq))
      BY <1>14, <3>1 DEF Range
    <3> HIDE DEF X
    <3>3. Among(named, seq, X)
      BY <1>14, <3>2, FirstFound DEF named
    <3>4. named \in S
      BY <1>10, <1>14, <3>3 DEF Among, Range
    <3>5. named # None
      BY <3>4 DEF S
    <3>6. version = Got(named)
      BY <1>2, <2>1, <2>2, <3>5
    <3> QED BY <1>4, <3>4, <3>6
  <2>3. CASE request.name = None
    <3>1. request.code = None
      <4>1. None \notin {OwnName[c] : c \in Codes}
        BY BuildsNamed
      <4> QED BY <2>3, <4>1 DEF Supported
    <3>2. version = Got(seq[1])
      BY <1>2, <2>1, <2>3, <3>1
    <3>3. seq[1] \in S
      BY <1>10, <1>12
    <3> QED BY <1>4, <3>2, <3>3
  <2> QED BY <2>2, <2>3
<1>16. f.build # None
  BY <1>15 DEF S, File
<1> HIDE DEF f, v
<1>17. Served(made)
  BY <1>16, OneServed
<1> QED BY <1>1, <1>13, <1>15, <1>17 DEF plan

-----------------------------------------------------------------------------
\* Whichever store is healthy, it serves.
LEMMA PlansServed ==
    ASSUME NEW p \in Provider, NEW site \in HealthySites[p], NEW request \in Asked,
           Supported(p, site, request)
    PROVE  Served(GetPlan(p, site, request))
<1>1. site \in Sites[p]
  BY AnswersAssumption
<1>2. CASE p = "google-play"
  <2>1. GoogleTrue(site)
    BY <1>1, <1>2, StoresAssumption
  <2>2. GoogleServes(site)
    BY <1>2, HealthAssumption
  <2>3. GetPlan(p, site, request) = GooglePlan(site, request)
    BY <1>2 DEF GetPlan
  <2> QED BY <1>2, <2>1, <2>2, <2>3, GoogleServed
<1>3. CASE p = "aptoide"
  <2>1. AptoideTrue(site)
    BY <1>1, <1>3, StoresAssumption
  <2>2. AptoideServes(site)
    BY <1>3, HealthAssumption
  <2>3. GetPlan(p, site, request) = AptoidePlan(site, request)
    BY <1>3 DEF GetPlan
  <2> QED BY <1>3, <2>1, <2>2, <2>3, AptoideServed
<1>4. CASE p = "apkmirror"
  <2>1. MirrorTrue(site)
    BY <1>1, <1>4, StoresAssumption
  <2>2. MirrorServes(site)
    BY <1>4, HealthAssumption
  <2>3. GetPlan(p, site, request) = MirrorPlan(site, request)
    BY <1>4 DEF GetPlan
  <2> QED BY <1>4, <2>1, <2>2, <2>3, MirrorServed
<1>5. CASE p = "apkpure-signed"
  <2>1. PureTrue(site)
    BY <1>1, <1>5, StoresAssumption
  <2>2. SignedServes(site)
    BY <1>5, HealthAssumption
  <2>3. GetPlan(p, site, request) = SignedPlan(site, request)
    BY <1>5 DEF GetPlan
  <2> QED BY <1>5, <2>1, <2>2, <2>3, SignedServed
<1>6. CASE p = "apkpure-web"
  <2>1. PureTrue(site)
    BY <1>1, <1>6, StoresAssumption
  <2>2. WebServes(site)
    BY <1>6, HealthAssumption
  <2>3. GetPlan(p, site, request) = WebPlan(site, request)
    BY <1>6 DEF GetPlan
  <2> QED BY <1>6, <2>1, <2>2, <2>3, WebServed
<1>7. CASE p = "apkpure-proto"
  <2>1. PureTrue(site)
    BY <1>1, <1>7, StoresAssumption
  <2>2. ProtoServes(site)
    BY <1>7, HealthAssumption
  <2>3. GetPlan(p, site, request) = ProtoPlan(site, request)
    BY <1>7 DEF GetPlan
  <2> QED BY <1>7, <2>1, <2>2, <2>3, ProtoServed
<1> QED BY <1>2, <1>3, <1>4, <1>5, <1>6, <1>7 DEF Provider

-----------------------------------------------------------------------------
\* What is asked, and that it is answered as the code answers it.
QuestionIs ==
    \/ question = None
    \/ \E p \in Provider : \E site \in Sites[p], request \in Asked :
            question = [provider |-> p, site |-> site, request |-> request]
    \/ \E s \in Snapshots : question = [snapshot |-> s]

AnswerIs ==
    /\ ProviderAnswered =>
            answer = [plan |-> GetPlan(question.provider, question.site,
                                       question.request),
                      info |-> GetInfo(question.provider, question.site,
                                       question.request)]
    /\ MonitorAnswered => answer = Snapshot(question.snapshot)

\* The inductive invariant of the questions.
AnswersTrue == QuestionIs /\ AnswerIs

\* A question is for a provider or for the monitor.
LEMMA OneQuestion ==
    ASSUME QuestionIs
    PROVE  /\ ~(AskedProvider /\ AskedMonitor)
           /\ AskedMonitor => question.snapshot \in Snapshots
           /\ AskedProvider => /\ question.provider \in Provider
                               /\ question.site \in Sites[question.provider]
                               /\ question.request \in Asked
<1>1. CASE question = None
  BY <1>1 DEF AskedProvider, AskedMonitor
<1>2. ASSUME NEW p \in Provider, NEW site \in Sites[p], NEW request \in Asked,
             question = [provider |-> p, site |-> site, request |-> request]
      PROVE  /\ ~AskedMonitor
             /\ question.provider \in Provider
             /\ question.site \in Sites[question.provider]
             /\ question.request \in Asked
  BY <1>2 DEF AskedMonitor
<1>3. ASSUME NEW s \in Snapshots, question = [snapshot |-> s]
      PROVE  ~AskedProvider /\ question.snapshot \in Snapshots
  BY <1>3 DEF AskedProvider
<1> QED BY <1>1, <1>2, <1>3 DEF QuestionIs

\* Nothing is answered at first.
LEMMA AnswersStart == AnswersInit => AnswersTrue
BY DEF AnswersInit, AnswersTrue, QuestionIs, AnswerIs, ProviderAnswered, MonitorAnswered

\* Each step answers as the code does, or leaves the question as it is.
LEMMA AnswersStep == AnswersTrue /\ [AnswersNext]_<<vars, asked>> => AnswersTrue'
<1> SUFFICES ASSUME AnswersTrue, [AnswersNext]_<<vars, asked>>
             PROVE  AnswersTrue'
  OBVIOUS
<1>1. ~(AskedProvider /\ AskedMonitor)
  BY OneQuestion DEF AnswersTrue
<1>2. question' = question
  BY DEF AnswersNext, AskProvider, AskMonitor, KeepTables, asked
<1>3. QuestionIs'
  BY <1>2 DEF AnswersTrue, QuestionIs
<1>4. (AskedProvider <=> AskedProvider') /\ (AskedMonitor <=> AskedMonitor')
  BY <1>2 DEF AskedProvider, AskedMonitor
<1>5. CASE AskProvider
  BY <1>1, <1>2, <1>3, <1>4, <1>5
     DEF AskProvider, AnswersTrue, AnswerIs, ProviderAnswered, MonitorAnswered
<1>6. CASE AskMonitor
  BY <1>1, <1>2, <1>3, <1>4, <1>6
     DEF AskMonitor, AnswersTrue, AnswerIs, ProviderAnswered, MonitorAnswered
<1>7. CASE UNCHANGED asked
  BY <1>2, <1>3, <1>4, <1>7
     DEF asked, AnswersTrue, AnswerIs, ProviderAnswered, MonitorAnswered
<1> QED BY <1>5, <1>6, <1>7 DEF AnswersNext, KeepTables, asked

\* What is asked is answered as the code answers it.
LEMMA AnswersAreTrue == AnswersSpec => []AnswersTrue
BY AnswersStart, AnswersStep, PTL DEF AnswersSpec

\* The snapshots are what the assumption says.
LEMMA SnapshotsAre ==
    ASSUME NEW s \in Snapshots
    PROVE  SnapshotIs(s, Range(s.jobs))
BY SnapshotsAssumption DEF SnapshotIs, IsList

\* The parts of a snapshot agree, whatever jobs the table holds.
THEOREM AgreeingParts == AnswersSpec => []SnapshotAgrees
<1>1. AnswersTrue => SnapshotAgrees
  <2> SUFFICES ASSUME AnswersTrue, MonitorAnswered
               PROVE  SnapshotAgrees
    BY DEF SnapshotAgrees
  <2>1. question.snapshot \in Snapshots
    BY OneQuestion DEF AnswersTrue, MonitorAnswered
  <2>2. answer = Snapshot(question.snapshot)
    BY DEF AnswersTrue, AnswerIs
  <2>3. Agreed(question.snapshot, Snapshot(question.snapshot))
    BY <2>1, SnapshotsAre, SnapshotsAgree
  <2>4. Agreed(question.snapshot, answer)
    BY Zenon, <2>2, <2>3
  <2> QED BY Zenon, <2>4 DEF Agreed, SnapshotAgrees, Totals, Field
<1> QED BY <1>1, AnswersAreTrue, PTL

\* The percentiles of a snapshot lie where percentiles must, and its histogram
\* adds up, whatever jobs the table holds.
THEOREM OrderedPercentiles == AnswersSpec => []PercentilesOrdered
<1>1. AnswersTrue => PercentilesOrdered
  <2> SUFFICES ASSUME AnswersTrue, MonitorAnswered
               PROVE  PercentilesOrdered
    BY DEF PercentilesOrdered
  <2>1. question.snapshot \in Snapshots
    BY OneQuestion DEF AnswersTrue, MonitorAnswered
  <2>2. answer = Snapshot(question.snapshot)
    BY DEF AnswersTrue, AnswerIs
  <2>3. Ordered(question.snapshot, Snapshot(question.snapshot))
    BY <2>1, SnapshotsAre, SnapshotsOrdered
  <2>4. Ordered(question.snapshot, answer)
    BY Zenon, <2>2, <2>3
  <2> QED BY Zenon, <2>4 DEF Ordered, PercentilesOrdered
<1> QED BY <1>1, AnswersAreTrue, PTL

\* Each answer of a provider is what its functions make of its store.
LEMMA AskedAnswers ==
    ASSUME AnswersTrue, ProviderAnswered
    PROVE  /\ question.provider \in Provider /\ question.request \in Asked
           /\ PlanRight(question.provider, answer.plan, question.request)
           /\ question.provider # "aptoide" =>
                InfoRight(answer.info, question.request)
<1> DEFINE p == question.provider
           site == question.site
           request == question.request
<1>1. p \in Provider /\ site \in Sites[p] /\ request \in Asked
  BY OneQuestion DEF AnswersTrue, ProviderAnswered
<1>2. answer = [plan |-> GetPlan(p, site, request), info |-> GetInfo(p, site, request)]
  BY DEF AnswersTrue, AnswerIs
<1>3. answer.plan = GetPlan(p, site, request) /\ answer.info = GetInfo(p, site, request)
  BY <1>2
<1> HIDE DEF p, site, request
<1>4. PlanRight(p, GetPlan(p, site, request), request)
  BY <1>1, PlansRight
<1>5. p # "aptoide" => InfoRight(GetInfo(p, site, request), request)
  BY <1>1, InfosRight
<1> QED BY <1>1, <1>3, <1>4, <1>5 DEF p, request

\* Whatever fails, is missing or falls back on the way, and whatever token is
\* cached: a plan is for the version asked for, or, from the providers that look
\* for a name, for one of its name; and the version shown is the one asked for.
THEOREM RightPlans == AnswersSpec => []RightBuild
<1>1. AnswersTrue => RightBuild
  <2> SUFFICES ASSUME AnswersTrue
               PROVE  RightBuild
    OBVIOUS
  <2>1. Planned => \A f \in Files :
            f.build # None => f.build \in Meant(question.provider, question.request)
    <3> SUFFICES ASSUME Planned
                 PROVE  \A f \in Files :
                            f.build # None =>
                                f.build \in Meant(question.provider, question.request)
      OBVIOUS
    <3>1. PlanRight(question.provider, answer.plan, question.request)
      BY AskedAnswers DEF Planned
    <3> QED BY <3>1 DEF PlanRight, FileRight, Planned, Files
  <2>2. /\ ProviderAnswered
        /\ question.provider # "aptoide"
        /\ answer.info.error = None
        /\ answer.info.value.code # None
        => answer.info.value.code \in Exactly(question.request)
    BY AskedAnswers DEF InfoRight
  <2> QED BY <2>1, <2>2 DEF RightBuild
<1> QED BY <1>1, AnswersAreTrue, PTL

\* What a plan is labelled with is true of each of its files or is what was asked
\* for, and what the ledger is told of its package is true.
THEOREM TrueLabels == AnswersSpec => []LabelsTrue
<1>1. AnswersTrue => LabelsTrue
  <2> DEFINE plan == answer.plan.value
             p == question.provider
  <2> SUFFICES ASSUME AnswersTrue, Planned
               PROVE  /\ \A f \in Files : f.build # None =>
                            FileRight(p, f, plan, question.request)
                      /\ \A manifest \in Manifests(plan) :
                            manifest[2] \in {None, plan.files[1].build}
    BY DEF LabelsTrue, FileRight
  <2>1. /\ IsList(plan.files)
        /\ p \notin KeyedByCode => Len(plan.files) = 1
        /\ \A f \in Files : f.build # None => FileRight(p, f, plan, question.request)
    BY AskedAnswers DEF Planned, PlanRight, Files
  <2>2. ASSUME NEW manifest \in Manifests(plan)
        PROVE  manifest[2] \in {None, plan.files[1].build}
    <3> DEFINE file == plan.files[1]
    <3>1. file.build \in Codes
      BY <2>2 DEF Manifests
    <3>2. CASE Len(plan.files) > 1
      <4>1. manifest = <<plan.name, plan.code>>
        BY <2>2, <3>1, <3>2 DEF Manifests
      <4>2. p \in KeyedByCode
        <5> DEFINE n == Len(plan.files)
        <5>1. n > 1
          BY <3>2
        <5> HIDE DEF n
        <5>2. n # 1
          BY <5>1
        <5> QED BY <2>1, <5>2 DEF n
      <4>3. file \in Files
        <5> DEFINE n == Len(plan.files)
        <5>1. DOMAIN plan.files = 1..n /\ n \in Nat
          BY <2>1, ListIs DEF IsList
        <5> HIDE DEF n
        <5>2. n > 1
          BY <3>2 DEF n
        <5>3. 1 \in DOMAIN plan.files
          BY <5>1, <5>2
        <5> QED BY <5>3 DEF Files, Range
      <4>4. file.build # None
        BY <3>1, TablesAssumption
      <4>5. FileRight(p, file, plan, question.request)
        BY <2>1, <4>3, <4>4
      <4> QED BY <4>1, <4>2, <4>5 DEF FileRight
    <3>3. CASE ~(Len(plan.files) > 1)
      BY <2>2, <3>1, <3>3 DEF Manifests, Own
    <3> QED BY <3>2, <3>3
  <2> QED BY <2>1, <2>2
<1> QED BY <1>1, AnswersAreTrue, PTL

\* A store that answers and lists every version is enough, whichever of the
\* provider's ways leads to a package and whatever token is cached.
THEOREM HealthyPlans == AnswersSpec => []HealthyServes
<1>1. AnswersTrue => HealthyServes
  <2> SUFFICES ASSUME AnswersTrue, ProviderAnswered,
                      question.site \in HealthySites[question.provider],
                      Supported(question.provider, question.site, question.request)
               PROVE  /\ answer.plan.error = None
                      /\ \E f \in Files :
                            f.build \in Meant(question.provider, question.request)
    BY DEF HealthyServes
  <2>1. /\ question.provider \in Provider /\ question.request \in Asked
        /\ PlanRight(question.provider, answer.plan, question.request)
    BY AskedAnswers
  <2>2. answer.plan = GetPlan(question.provider, question.site, question.request)
    BY DEF AnswersTrue, AnswerIs
  <2>3. Served(answer.plan)
    BY <2>1, <2>2, PlansServed
  <2> QED BY <2>1, <2>3 DEF Served, PlanRight, FileRight, Files
<1> QED BY <1>1, AnswersAreTrue, PTL

\* Without a question, and with one, the tables take the steps of VersionTables.
THEOREM TablesKept == AnswersSpec => Spec
<1>1. AnswersInit => Init
  BY DEF AnswersInit
<1>2. [AnswersNext]_<<vars, asked>> => [Next]_vars
  BY DEF AnswersNext, AskProvider, AskMonitor, KeepTables
<1> QED BY <1>1, <1>2, PTL DEF AnswersSpec, Spec
===============================================================================
