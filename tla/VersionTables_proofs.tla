------------------------- MODULE VersionTables_proofs -------------------------
(***************************************************************************)
(* For any sources, names and requests: completing a name to a code is     *)
(* settled by the first download, proved from the shape of the ledger; and *)
(* the two lists show what the sources told, proved from what the rows of  *)
(* the table versions are, however the collections follow each other.      *)
(***************************************************************************)
EXTENDS VersionTables, ListFacts, TLAPS

-----------------------------------------------------------------------------
(***************************************************************************)
(* The completion of a name                                                *)
(***************************************************************************)
\* What the ledger has of a name is nothing, or numbers with a highest one.
Topped == \A n \in Names :
    /\ LedgerCodes(n) \subseteq Int
    /\ LedgerCodes(n) # {} =>
         \E top \in LedgerCodes(n) : \A c \in LedgerCodes(n) : c <= top

\* Highest names a highest number where there is one.
LEMMA HighestOf ==
    ASSUME NEW C \in SUBSET Int,
           \E top \in C : \A c \in C : c <= top
    PROVE  /\ Highest(C) \in C
           /\ \A c \in C : c <= Highest(C)
BY DEF Highest

\* One more number leaves a highest one, which is not lower.
LEMMA OneMore ==
    ASSUME NEW C \in SUBSET Int, NEW x \in Int,
           C # {} => \E top \in C : \A c \in C : c <= top
    PROVE  /\ \E top \in C \cup {x} : \A c \in C \cup {x} : c <= top
           /\ C # {} => Highest(C) <= Highest(C \cup {x})
<1>1. \E top \in C \cup {x} : \A c \in C \cup {x} : c <= top
  <2>1. CASE C = {}
    BY <2>1
  <2>2. CASE C # {}
    <3>1. PICK top \in C : \A c \in C : c <= top
      BY <2>2
    <3>2. CASE x <= top
      BY <3>1, <3>2
    <3>3. CASE ~(x <= top)
      <4>1. \A c \in C \cup {x} : c <= x
        BY <3>1, <3>3
      <4> QED BY <4>1
    <3> QED BY <3>2, <3>3
  <2> QED BY <2>1, <2>2
<1>2. ASSUME C # {}
      PROVE  Highest(C) <= Highest(C \cup {x})
  <2>1. Highest(C) \in C
    BY <1>2, HighestOf
  <2>2. \A c \in C \cup {x} : c <= Highest(C \cup {x})
    BY <1>1, HighestOf
  <2> QED BY <2>1, <2>2
<1> QED BY <1>1, <1>2

\* A step leaves what the ledger has of a name, or adds a number to it.
LEMMA LedgerGrows ==
    ASSUME [Next]_vars, NEW n \in Names
    PROVE  \/ LedgerCodes(n)' = LedgerCodes(n)
           \/ \E x \in Int : LedgerCodes(n)' = LedgerCodes(n) \cup {x}
<1>1. CASE ledger' = ledger
  BY <1>1 DEF LedgerCodes
<1>2. CASE \E world \in Worlds : Download(world)
  <2>1. PICK world \in Worlds : Download(world)
    BY <1>2
  <2>2. PICK request \in Requests : \E completed \in Completed(request) :
            \E plan \in Plans(world, completed) :
                \E manifest \in Manifests(plan) : ledger' = Backfilled(manifest)
    BY <2>1 DEF Download
  <2>3. PICK completed \in Completed(request) :
            \E plan \in Plans(world, completed) :
                \E manifest \in Manifests(plan) : ledger' = Backfilled(manifest)
    BY <2>2
  <2>4. PICK plan \in Plans(world, completed) :
            \E manifest \in Manifests(plan) : ledger' = Backfilled(manifest)
    BY <2>3
  <2>5. PICK manifest \in Manifests(plan) : ledger' = Backfilled(manifest)
    BY <2>4
  <2>6. CASE manifest[1] = n /\ manifest[2] \in Int /\ manifest[1] # None
    <3>1. ledger' = ledger \cup {manifest}
      BY <2>5, <2>6 DEF Backfilled
    <3>2. LedgerCodes(n)' = LedgerCodes(n) \cup {manifest[2]}
      BY <3>1, <2>6 DEF LedgerCodes
    <3> QED BY <3>2, <2>6
  <2>7. CASE ~(manifest[1] = n /\ manifest[2] \in Int /\ manifest[1] # None)
    BY <2>5, <2>7 DEF Backfilled, LedgerCodes
  <2> QED BY <2>6, <2>7
<1>3. CASE \E world \in Worlds : Collect(world)
  BY <1>3, <1>1 DEF Collect
<1>4. CASE UNCHANGED vars
  BY <1>4, <1>1 DEF vars
<1> QED BY <1>2, <1>3, <1>4 DEF Next

\* What the ledger has of a name stays so, whatever is downloaded or collected.
LEMMA Inductive == Spec => []Topped
<1>1. Init => Topped
  BY DEF Init, Topped, LedgerCodes
<1>2. Topped /\ [Next]_vars => Topped'
  <2> SUFFICES ASSUME Topped, [Next]_vars, NEW n \in Names
               PROVE  /\ LedgerCodes(n)' \subseteq Int
                      /\ LedgerCodes(n)' # {} =>
                            \E top \in LedgerCodes(n)' :
                                \A c \in LedgerCodes(n)' : c <= top
    BY DEF Topped
  <2>1. LedgerCodes(n) \in SUBSET Int
        /\ (LedgerCodes(n) # {} =>
                \E top \in LedgerCodes(n) : \A c \in LedgerCodes(n) : c <= top)
    BY DEF Topped
  <2>2. CASE LedgerCodes(n)' = LedgerCodes(n)
    BY <2>1, <2>2
  <2>3. CASE \E x \in Int : LedgerCodes(n)' = LedgerCodes(n) \cup {x}
    <3>1. PICK x \in Int : LedgerCodes(n)' = LedgerCodes(n) \cup {x}
      BY <2>3
    <3>2. \E top \in LedgerCodes(n) \cup {x} :
              \A c \in LedgerCodes(n) \cup {x} : c <= top
      BY <2>1, OneMore
    <3> QED BY <2>1, <3>1, <3>2
  <2> QED BY <2>2, <2>3, LedgerGrows
<1> QED BY <1>1, <1>2, PTL DEF Spec

\* Once a download has shown which code a name has, completing the name never
\* gives a lower code, whatever the sources list later and however the requests
\* and the collections follow each other.
THEOREM SettledCompletion == Spec => CompletionSettled
<1>1. Topped /\ [Next]_vars =>
        [\A n \in Names : LedgerCodes(n) # {} =>
            LookupCode(n)' >= LookupCode(n)]_vars
  <2> SUFFICES ASSUME Topped, [Next]_vars, NEW n \in Names,
                      LedgerCodes(n) # {}
               PROVE  LookupCode(n)' >= LookupCode(n)
    OBVIOUS
  <2>1. LedgerCodes(n) \in SUBSET Int
        /\ \E top \in LedgerCodes(n) : \A c \in LedgerCodes(n) : c <= top
    BY DEF Topped
  <2>2. LookupCode(n) = Highest(LedgerCodes(n))
    BY DEF LookupCode
  <2>3. Highest(LedgerCodes(n)) \in Int
    BY <2>1, HighestOf
  <2>4. CASE LedgerCodes(n)' = LedgerCodes(n)
    <3>1. LookupCode(n)' = Highest(LedgerCodes(n))
      BY <2>4 DEF LookupCode
    <3> QED BY <2>2, <2>3, <3>1
  <2>5. CASE \E x \in Int : LedgerCodes(n)' = LedgerCodes(n) \cup {x}
    <3>1. PICK x \in Int : LedgerCodes(n)' = LedgerCodes(n) \cup {x}
      BY <2>5
    <3>2. /\ Highest(LedgerCodes(n)) <= Highest(LedgerCodes(n) \cup {x})
          /\ \E top \in LedgerCodes(n) \cup {x} :
                \A c \in LedgerCodes(n) \cup {x} : c <= top
      BY <2>1, OneMore
    <3>3. LookupCode(n)' = Highest(LedgerCodes(n) \cup {x})
      BY <3>1 DEF LookupCode
    <3>4. Highest(LedgerCodes(n) \cup {x}) \in Int
      BY <2>1, <3>2, HighestOf
    <3> QED BY <2>2, <2>3, <3>2, <3>3, <3>4
  <2> QED BY <2>4, <2>5, LedgerGrows
<1> QED BY <1>1, Inductive, PTL DEF Spec, CompletionSettled

-----------------------------------------------------------------------------
(***************************************************************************)
(* The order of names                                                      *)
(***************************************************************************)
\* A tuple is below another one or it is not, and then it lies between them.
LEMMA BelowIsWeak ==
    ASSUME NEW s \in Seq(Nat), NEW t \in Seq(Nat)
    PROVE  /\ Below(s, t) => ~Below(t, s)
           /\ \A u \in Seq(Nat) : Below(s, u) => Below(s, t) \/ Below(t, u)
<1>1. ASSUME Below(s, t), Below(t, s)
      PROVE  FALSE
  <2>1. PICK i \in 1..Len(t) :
            /\ \A j \in 1..(i - 1) : j <= Len(s) /\ s[j] = t[j]
            /\ Len(s) < i \/ (i <= Len(s) /\ s[i] < t[i])
    BY <1>1 DEF Below
  <2>2. PICK k \in 1..Len(s) :
            /\ \A j \in 1..(k - 1) : j <= Len(t) /\ t[j] = s[j]
            /\ Len(t) < k \/ (k <= Len(t) /\ t[k] < s[k])
    BY <1>1 DEF Below
  <2>3. CASE i < k
    <3>1. i \in 1..(k - 1) /\ i <= Len(s)
      BY <2>3
    <3>2. s[i] = t[i] /\ s[i] \in Int
      BY <3>1, <2>2
    <3> QED BY <3>1, <3>2, <2>1
  <2>4. CASE k < i
    <3>1. k \in 1..(i - 1) /\ k <= Len(t)
      BY <2>4
    <3>2. s[k] = t[k] /\ t[k] \in Int
      BY <3>1, <2>1
    <3> QED BY <3>1, <3>2, <2>2
  <2>5. CASE i = k
    <3>1. s[i] < t[i] /\ t[i] < s[i] /\ s[i] \in Int /\ t[i] \in Int
      BY <2>5, <2>1, <2>2
    <3> QED BY <3>1
  <2> QED BY <2>3, <2>4, <2>5
<1>2. ASSUME NEW u \in Seq(Nat), Below(s, u)
      PROVE  Below(s, t) \/ Below(t, u)
  <2>1. PICK i \in 1..Len(u) :
            /\ \A j \in 1..(i - 1) : j <= Len(s) /\ s[j] = u[j]
            /\ Len(s) < i \/ (i <= Len(s) /\ s[i] < u[i])
    BY <1>2 DEF Below
  <2> DEFINE Differs == {k \in 1..(i - 1) : k > Len(t) \/ t[k] # s[k]}
  <2>2. CASE Differs # {}
    <3>1. PICK k \in Differs : \A l \in Differs : k <= l
      BY <2>2, LeastOf, Differs \in SUBSET Nat
    <3>2. /\ k \in 1..(i - 1) /\ k <= Len(s) /\ s[k] = u[k] /\ k \in 1..Len(u)
          /\ s[k] \in Int
      BY <2>1
    <3>2a. k > Len(t) \/ t[k] # s[k]
      OBVIOUS
    <3>3. \A j \in 1..(k - 1) : /\ j <= Len(s) /\ s[j] = u[j]
                                /\ j <= Len(t) /\ t[j] = s[j]
      <4> SUFFICES ASSUME NEW j \in 1..(k - 1)
                   PROVE  /\ j <= Len(s) /\ s[j] = u[j]
                          /\ j <= Len(t) /\ t[j] = s[j]
        OBVIOUS
      <4>1. j \in 1..(i - 1) /\ j < k
        BY <3>2
      <4>2. j \notin Differs
        BY <3>1, <4>1
      <4> QED BY <4>1, <4>2, <2>1
    <3> HIDE DEF Differs
    <3>4. CASE k > Len(t) \/ t[k] < s[k]
      <4>1. Len(t) < k \/ (k <= Len(t) /\ t[k] < u[k])
        BY <3>2, <3>4
      <4>2. \A j \in 1..(k - 1) : j <= Len(t) /\ t[j] = u[j]
        BY <3>3
      <4>3. Below(t, u)
        BY <3>2, <4>1, <4>2 DEF Below
      <4> QED BY <4>3
    <3>5. CASE ~(k > Len(t) \/ t[k] < s[k])
      <4>0. k \in 1..Len(t)
        BY <3>2, <3>5
      <4>1. k \in 1..Len(t) /\ t[k] \in Int /\ t[k] # s[k]
        BY <4>0, <3>5, <3>2a
      <4>2. k <= Len(s) /\ s[k] < t[k]
        BY <4>1, <3>2, <3>5
      <4>3. \A j \in 1..(k - 1) : j <= Len(s) /\ s[j] = t[j]
        BY <3>3
      <4>4. Below(s, t)
        BY <4>1, <4>2, <4>3 DEF Below
      <4> QED BY <4>4
    <3> QED BY <3>4, <3>5
  <2>3. CASE Differs = {}
    <3>1. \A j \in 1..(i - 1) : /\ j <= Len(s) /\ s[j] = u[j]
                                /\ j <= Len(t) /\ t[j] = s[j]
      <4> SUFFICES ASSUME NEW j \in 1..(i - 1)
                   PROVE  /\ j <= Len(s) /\ s[j] = u[j]
                          /\ j <= Len(t) /\ t[j] = s[j]
        OBVIOUS
      <4>1. j \notin Differs
        BY <2>3
      <4>2. ~(j > Len(t)) /\ t[j] = s[j] /\ j \in Int /\ Len(t) \in Int
        BY <4>1
      <4> QED BY <4>2, <2>1
    <3> HIDE DEF Differs
    <3>2. CASE Len(t) < i
      <4>1. \A j \in 1..(i - 1) : j <= Len(t) /\ t[j] = u[j]
        BY <3>1
      <4>2. Below(t, u)
        BY <3>2, <4>1 DEF Below
      <4> QED BY <4>2
    <3>3. CASE i <= Len(t) /\ (Len(s) < i \/ s[i] < t[i])
      <4>1. \A j \in 1..(i - 1) : j <= Len(s) /\ s[j] = t[j]
        BY <3>1
      <4>2. i \in 1..Len(t) /\ (Len(s) < i \/ (i <= Len(s) /\ s[i] < t[i]))
        BY <3>3
      <4>3. Below(s, t)
        BY <4>1, <4>2 DEF Below
      <4> QED BY <4>3
    <3>4. CASE i <= Len(t) /\ i <= Len(s) /\ ~(s[i] < t[i])
      <4>0. i \in 1..Len(s) /\ i \in 1..Len(t)
        BY <3>4
      <4>1. s[i] \in Int /\ t[i] \in Int /\ u[i] \in Int /\ s[i] < u[i]
        <5>1. s[i] \in Int /\ t[i] \in Int /\ u[i] \in Int
          BY <4>0
        <5>2. Len(s) < i \/ s[i] < u[i]
          BY <2>1
        <5> QED BY <4>0, <5>1, <5>2
      <4>2. t[i] < u[i]
        BY <4>1, <3>4
      <4>3. \A j \in 1..(i - 1) : j <= Len(t) /\ t[j] = u[j]
        BY <3>1
      <4>4. Below(t, u)
        BY <4>2, <4>3, <3>4 DEF Below
      <4> QED BY <4>4
    <3> QED BY <3>2, <3>3, <3>4
  <2> QED BY <2>2, <2>3
<1> QED BY <1>1, <1>2

-----------------------------------------------------------------------------
(***************************************************************************)
(* The rows of the table versions                                          *)
(***************************************************************************)
Tell(source, rec) == [source |-> source, name |-> rec.name, code |-> rec.code,
                      date |-> rec.date]
TellsIn(tells, n, sources) == {t \in tells : t.name = n /\ t.source \in sources}
CodesIn(tells, n, sources) == {t.code : t \in TellsIn(tells, n, sources)}
DatesIn(tells, n, sources) == {t.date : t \in TellsIn(tells, n, sources)}

\* v is one of the values in S, None only if there is no other.
FromOf(v, S) == IF S \subseteq {None} THEN v = None ELSE v \in S \ {None}

\* The row of n is what was told of n.
RowTrue(row, n, tells) ==
    /\ row.listed <=> TellsIn(tells, n, Source) # {}
    /\ row.loadable <=> TellsIn(tells, n, Downloadable) # {}
    /\ FromOf(row.code, CodesIn(tells, n, Source))
    /\ FromOf(row.release, DatesIn(tells, n, Dated))
    /\ FromOf(row.first, DatesIn(tells, n, Source))
TableTrue(table, tells) == \A n \in Names : RowTrue(table[n], n, tells)

RowOver(V) == [listed : BOOLEAN, code : V, release : V, first : V, last : V,
               loadable : BOOLEAN]

\* One more value is preferred.
LEMMA PreferredFrom ==
    ASSUME NEW v, NEW S, NEW x, FromOf(v, S)
    PROVE  FromOf(Either(x, v), S \cup {x})
BY DEF FromOf, Either

\* One more value comes second.
LEMMA SecondFrom ==
    ASSUME NEW v, NEW S, NEW x, FromOf(v, S)
    PROVE  FromOf(Either(v, x), S \cup {x})
BY DEF FromOf, Either

\* What a source tells of another name, or another source tells, adds nothing.
LEMMA NoMoreTell ==
    ASSUME NEW tells, NEW source, NEW rec, NEW n, NEW sources,
           rec.name # n \/ source \notin sources
    PROVE  TellsIn(tells \cup {Tell(source, rec)}, n, sources)
               = TellsIn(tells, n, sources)
BY DEF Tell, TellsIn

\* _VERSIONS_UPSERT keeps a row true.
LEMMA UpsertedTrue ==
    ASSUME NEW tells, NEW n, NEW row, NEW source \in Source, NEW rec,
           RowTrue(row, n, tells), rec.name = n
    PROVE  RowTrue(Upserted(row, source, rec), n, tells \cup {Tell(source, rec)})
<1> DEFINE x == Tell(source, rec)
           more == tells \cup {x}
           new == Upserted(row, source, rec)
<1>1. /\ \A S : source \in S => TellsIn(more, n, S) = TellsIn(tells, n, S) \cup {x}
      /\ \A S : source \notin S => TellsIn(more, n, S) = TellsIn(tells, n, S)
  <2>1. ASSUME NEW S, source \in S
        PROVE  TellsIn(more, n, S) = TellsIn(tells, n, S) \cup {x}
    BY <2>1 DEF Tell, TellsIn
  <2>2. ASSUME NEW S, source \notin S
        PROVE  TellsIn(more, n, S) = TellsIn(tells, n, S)
    BY <2>2 DEF Tell, TellsIn
  <2> QED BY <2>1, <2>2
<1>2. x.code = rec.code /\ x.date = rec.date
  BY DEF Tell
<1> HIDE DEF x, more
<1>3. \A S : source \in S =>
            /\ CodesIn(more, n, S) = CodesIn(tells, n, S) \cup {rec.code}
            /\ DatesIn(more, n, S) = DatesIn(tells, n, S) \cup {rec.date}
  BY <1>1, <1>2 DEF CodesIn, DatesIn
<1>4. new.listed /\ TellsIn(more, n, Source) # {}
  BY <1>1 DEF Upserted
<1>5. new.loadable <=> TellsIn(more, n, Downloadable) # {}
  BY <1>1 DEF Upserted, RowTrue
<1>6. FromOf(new.code, CodesIn(more, n, Source))
  <2>1. new.code = Either(rec.code, row.code)
    BY DEF Upserted
  <2>2. FromOf(Either(rec.code, row.code), CodesIn(tells, n, Source) \cup {rec.code})
    BY PreferredFrom DEF RowTrue
  <2> QED BY <2>1, <2>2, <1>3
<1>7. FromOf(new.release, DatesIn(more, n, Dated))
  <2>1. CASE source \in Dated
    <3>1. new.release = Either(rec.date, row.release)
      BY <2>1 DEF Upserted
    <3>2. FromOf(Either(rec.date, row.release), DatesIn(tells, n, Dated) \cup {rec.date})
      BY PreferredFrom DEF RowTrue
    <3> QED BY <2>1, <3>1, <3>2, <1>3
  <2>2. CASE source \notin Dated
    <3>1. new.release = row.release
      BY <2>2 DEF Upserted, Either
    <3>2. DatesIn(more, n, Dated) = DatesIn(tells, n, Dated)
      BY <2>2, <1>1 DEF DatesIn
    <3> QED BY <3>1, <3>2 DEF RowTrue
  <2> QED BY <2>1, <2>2
<1>8. FromOf(new.first, DatesIn(more, n, Source))
  <2>1. new.first = Either(row.first, rec.date)
    BY DEF Upserted
  <2>2. FromOf(Either(row.first, rec.date), DatesIn(tells, n, Source) \cup {rec.date})
    BY SecondFrom DEF RowTrue
  <2> QED BY <2>1, <2>2, <1>3
<1> HIDE DEF new
<1>9. RowTrue(new, n, more)
  BY <1>4, <1>5, <1>6, <1>7, <1>8 DEF RowTrue
<1> QED BY <1>9 DEF new, more, x

\* What is told of other names leaves a row true.
LEMMA OthersTrue ==
    ASSUME NEW tells, NEW n, NEW row, NEW source, NEW rec,
           RowTrue(row, n, tells), rec.name # n
    PROVE  RowTrue(row, n, tells \cup {Tell(source, rec)})
<1>1. \A S : TellsIn(tells \cup {Tell(source, rec)}, n, S) = TellsIn(tells, n, S)
  BY NoMoreTell
<1> QED BY <1>1 DEF RowTrue, CodesIn, DatesIn

\* A source's record is put into the table, and the table stays true.
LEMMA PutTrue ==
    ASSUME NEW V, NEW table \in [Names -> RowOver(V)], NEW tells,
           NEW source \in Source, NEW rec, TableTrue(table, tells),
           rec.code \in V, rec.date \in V, rec.last \in V, None \in V
    PROVE  /\ Put(table, source, rec) \in [Names -> RowOver(V)]
           /\ TableTrue(Put(table, source, rec), tells \cup {Tell(source, rec)})
<1> DEFINE new == Put(table, source, rec)
<1> USE DEF Put
<1>1. DOMAIN new = Names
  OBVIOUS
<1>2. ASSUME NEW n \in Names
      PROVE  /\ new[n] \in RowOver(V)
             /\ RowTrue(new[n], n, tells \cup {Tell(source, rec)})
  <2>1. table[n] \in RowOver(V) /\ RowTrue(table[n], n, tells)
    BY DEF TableTrue
  <2>2. CASE rec.name = n
    <3>1. new[n] = Upserted(table[n], source, rec)
      BY <2>2
    <3>2. Upserted(table[n], source, rec) \in RowOver(V)
      BY <2>1 DEF RowOver, Upserted, Either
    <3> QED BY <2>1, <2>2, <3>1, <3>2, UpsertedTrue
  <2>3. CASE rec.name # n
    <3>1. new[n] = table[n]
      BY <2>3
    <3> QED BY <2>1, <2>3, <3>1, OthersTrue
  <2> QED BY <2>2, <2>3
<1> QED BY <1>1, <1>2 DEF TableTrue

\* A source's list of records, whose values are in V.
RecordsOver(recs, V) ==
    /\ Len(recs) \in Nat /\ DOMAIN recs = 1..Len(recs)
    /\ \A i \in DOMAIN recs : /\ recs[i].code \in V
                              /\ recs[i].date \in V
                              /\ recs[i].last \in V

\* What a source tells, up to its k-th record,
TellsUpTo(source, recs, k) == {Tell(source, recs[i]) : i \in 1..k}

\* and with all its records.
TellsOf(answer) == TellsUpTo(answer[1], answer[2].value, Len(answer[2].value))

\* All records of a source are put into the table, and it stays true.
LEMMA PutAllTrue ==
    ASSUME NEW V, NEW table \in [Names -> RowOver(V)], NEW tells, NEW answer,
           None \in V, answer[1] \in Source, RecordsOver(answer[2].value, V)
    PROVE  /\ PutAll(table, answer) \in [Names -> RowOver(V)]
           /\ TableTrue(table, tells) =>
                TableTrue(PutAll(table, answer), tells \cup TellsOf(answer))
<1> DEFINE source == answer[1]
           recs == answer[2].value
           n == Len(recs)
           A == [Names -> RowOver(V)]
           G == [p \in A \X (1..n) |-> Put(p[1], source, recs[p[2]])]
           Equation(f) == f = [s \in SUBSET DOMAIN recs |->
                IF s = {} THEN table ELSE Put(f[s \ {Max(s)}], source, recs[Max(s)])]
           it == CHOOSE f : Equation(f)
<1>1. PutAll(table, answer) = it[DOMAIN recs]
  BY Zenon DEF PutAll, FoldLeft, MapThenFoldSet
<1>2. /\ n \in Nat /\ DOMAIN recs = 1..n
      /\ \A i \in 1..n : /\ recs[i].code \in V /\ recs[i].date \in V
                          /\ recs[i].last \in V
      /\ source \in Source /\ None \in V
      /\ table \in A
  BY DEF RecordsOver
<1> HIDE DEF n, recs, source
<1>3. \A t \in A, i \in 1..n : G[<<t, i>>] = Put(t, source, recs[i])
  OBVIOUS
<1> HIDE DEF G
<1>4. ASSUME NEW t \in A, NEW i \in 1..n
      PROVE  G[<<t, i>>] \in A
  <2>1. t[recs[i].name] \in RowOver(V) => Upserted(t[recs[i].name], source, recs[i]) \in RowOver(V)
    BY <1>2 DEF RowOver, Upserted, Either
  <2>2. Put(t, source, recs[i]) \in A
    BY <2>1 DEF Put
  <2> QED BY <2>2, <1>3
<1> HIDE DEF A
<1>5. PICK f : Iterates(f, A, table, G, n)
  BY <1>2, <1>4, Iteration
<1>6. Equation(f)
  <2>1. \A s \in SUBSET (1..n) :
            f[s] = IF s = {} THEN table ELSE Put(f[s \ {Max(s)}], source, recs[Max(s)])
    <3> SUFFICES ASSUME NEW s \in SUBSET (1..n), s # {}
                 PROVE  f[s] = Put(f[s \ {Max(s)}], source, recs[Max(s)])
      BY <1>5 DEF Iterates
    <3>1. f[s] = G[<<f[s \ {Max(s)}], Max(s)>>] /\ f[s \ {Max(s)}] \in A
      BY <1>5 DEF Iterates
    <3>2. Max(s) \in 1..n
      BY <1>2, MaxOf
    <3> QED BY Zenon, <3>1, <3>2, <1>3
  <2>2. f \in [SUBSET (1..n) -> A]
    BY <1>5 DEF Iterates
  <2> QED BY <2>1, <2>2, <1>2
<1>7. Equation(it)
  BY Zenon, <1>6
<1> HIDE DEF it
<1>8. Unfolds(it, A, table, G, n)
  <2>1. \A s \in SUBSET (1..n) :
            it[s] = IF s = {} THEN table ELSE Put(it[s \ {Max(s)}], source, recs[Max(s)])
    <3> QED BY <1>2, <1>7
  <2>2. it[{}] = table
    BY <2>1
  <2>3. ASSUME NEW s \in SUBSET (1..n), s # {}, it[s \ {Max(s)}] \in A
        PROVE  it[s] = G[<<it[s \ {Max(s)}], Max(s)>>]
    <3>1. Max(s) \in 1..n
      BY <1>2, <2>3, MaxOf
    <3> QED BY Zenon, <2>1, <2>3, <3>1, <1>3
  <2> QED BY <2>2, <2>3 DEF Unfolds
<1>9. Reaches(it, A, table, G, n)
  BY <1>2, <1>4, <1>8, IteratedSteps
<1>10. PICK h : Steps(h, A, table, G, n) /\ it[1..n] = h[n]
  BY <1>9 DEF Reaches
<1>11. h \in [0..n -> A] /\ h[0] = table
  BY <1>10 DEF Steps
<1>12. \A i \in 1..n : h[i - 1] \in A /\ h[i] = Put(h[i - 1], source, recs[i])
  <2> SUFFICES ASSUME NEW i \in 1..n
               PROVE  h[i - 1] \in A /\ h[i] = Put(h[i - 1], source, recs[i])
    OBVIOUS
  <2>1. i - 1 \in 0..n
    BY <1>2
  <2>2. h[i - 1] \in A /\ h[i] = G[<<h[i - 1], i>>]
    BY <2>1, <1>10 DEF Steps
  <2> QED BY Zenon, <2>2, <1>3
<1> DEFINE T == {i \in 0..n : TableTrue(table, tells) =>
                    TableTrue(h[i], tells \cup TellsUpTo(source, recs, i))}
<1>13. 0 \in T
  <2>1. 1..0 = {} /\ 0 \in 0..n
    BY <1>2
  <2>2. TellsUpTo(source, recs, 0) = {}
    BY <2>1 DEF TellsUpTo
  <2>3. tells \cup TellsUpTo(source, recs, 0) = tells
    BY <2>2
  <2> QED BY <2>1, <2>3, <1>2, <1>11
<1>14. ASSUME NEW i \in 0..(n - 1), i \in T
       PROVE  i + 1 \in T
  <2>1. i + 1 \in 1..n /\ (i + 1) - 1 = i /\ i + 1 \in 0..n
    BY <1>2
  <2> SUFFICES ASSUME TableTrue(table, tells)
               PROVE  TableTrue(h[i + 1], tells \cup TellsUpTo(source, recs, i + 1))
    BY <2>1
  <2>2. h[i] \in A /\ h[i + 1] = Put(h[i], source, recs[i + 1])
    BY <2>1, <1>12
  <2>3. TableTrue(h[i], tells \cup TellsUpTo(source, recs, i))
    BY <1>14
  <2>4. TableTrue(h[i + 1], (tells \cup TellsUpTo(source, recs, i))
                              \cup {Tell(source, recs[i + 1])})
    <3>1. h[i] \in [Names -> RowOver(V)]
      BY <2>2 DEF A
    <3>2. /\ recs[i + 1].code \in V /\ recs[i + 1].date \in V
          /\ recs[i + 1].last \in V
      BY <2>1, <1>2
    <3> DEFINE so == tells \cup TellsUpTo(source, recs, i)
               rec == recs[i + 1]
    <3>3. TableTrue(h[i], so)
      BY <2>3
    <3> HIDE DEF so, rec
    <3>4. TableTrue(Put(h[i], source, rec), so \cup {Tell(source, rec)})
      BY <3>1, <3>2, <3>3, <1>2, PutTrue DEF rec
    <3> QED BY <3>4, <2>2 DEF so, rec
  <2>5. 1..(i + 1) = (1..i) \cup {i + 1}
    OBVIOUS
  <2>6. TellsUpTo(source, recs, i + 1)
            = TellsUpTo(source, recs, i) \cup {Tell(source, recs[i + 1])}
    BY <2>5 DEF TellsUpTo
  <2>7. (tells \cup TellsUpTo(source, recs, i)) \cup {Tell(source, recs[i + 1])}
            = tells \cup TellsUpTo(source, recs, i + 1)
    BY <2>6
  <2>8. TableTrue(h[i + 1], tells \cup TellsUpTo(source, recs, i + 1))
    BY <2>4, <2>7
  <2> QED BY <2>8
<1> HIDE DEF T
<1>15. n \in T
  <2>1. \A i \in 0..n : i \in T
    BY <1>2, <1>13, <1>14, CountingUp
  <2>2. n \in 0..n
    BY <1>2
  <2> QED BY <2>1, <2>2
<1>16. PutAll(table, answer) = h[n]
  BY Zenon, <1>1, <1>2, <1>10
<1>17. h[n] \in A
  BY <1>2, <1>11
<1> QED BY <1>15, <1>16, <1>17 DEF T, A, n, recs, source, TellsOf

\* What the sources answered, as _gather leaves it.
AnswersOver(answers, V) ==
    /\ Len(answers) \in Nat /\ DOMAIN answers = 1..Len(answers)
    /\ \A i \in DOMAIN answers : /\ answers[i][1] \in Source
                                 /\ RecordsOver(answers[i][2].value, V)

\* What the first k of them tell.
TellsOfFirst(answers, k) == UNION {TellsOf(answers[i]) : i \in 1..k}

\* _persist keeps the table true.
LEMMA PersistedTrue ==
    ASSUME NEW V, NEW table \in [Names -> RowOver(V)], NEW tells, NEW answers,
           None \in V, TableTrue(table, tells), AnswersOver(answers, V)
    PROVE  /\ Persisted(table, answers) \in [Names -> RowOver(V)]
           /\ TableTrue(Persisted(table, answers),
                        tells \cup TellsOfFirst(answers, Len(answers)))
<1> DEFINE n == Len(answers)
           A == [Names -> RowOver(V)]
           G == [p \in A \X (1..n) |-> PutAll(p[1], answers[p[2]])]
           Equation(f) == f = [s \in SUBSET DOMAIN answers |->
                IF s = {} THEN table ELSE PutAll(f[s \ {Max(s)}], answers[Max(s)])]
           it == CHOOSE f : Equation(f)
<1>1. Persisted(table, answers) = it[DOMAIN answers]
  BY Zenon DEF Persisted, FoldLeft, MapThenFoldSet
<1>2. /\ n \in Nat /\ DOMAIN answers = 1..n
      /\ table \in A
  BY DEF AnswersOver
<1>3. \A i \in 1..n : /\ answers[i][1] \in Source
                      /\ RecordsOver(answers[i][2].value, V)
  BY <1>2 DEF AnswersOver
<1> HIDE DEF n
<1>4. \A t \in A, i \in 1..n : G[<<t, i>>] = PutAll(t, answers[i])
  OBVIOUS
<1> HIDE DEF G
<1>5. ASSUME NEW t \in A, NEW i \in 1..n, NEW so, TableTrue(t, so)
      PROVE  /\ PutAll(t, answers[i]) \in A
             /\ TableTrue(PutAll(t, answers[i]), so \cup TellsOf(answers[i]))
  BY <1>3, <1>5, PutAllTrue
<1>6. ASSUME NEW t \in A, NEW i \in 1..n
      PROVE  PutAll(t, answers[i]) \in A
  BY <1>3, PutAllTrue
<1> HIDE DEF A
<1>7. \A t \in A, i \in 1..n : G[<<t, i>>] \in A
  BY <1>4, <1>6
<1>8. PICK f : Iterates(f, A, table, G, n)
  BY <1>2, <1>7, Iteration
<1>9. Equation(f)
  <2>1. \A s \in SUBSET (1..n) :
            f[s] = IF s = {} THEN table ELSE PutAll(f[s \ {Max(s)}], answers[Max(s)])
    <3> SUFFICES ASSUME NEW s \in SUBSET (1..n), s # {}
                 PROVE  f[s] = PutAll(f[s \ {Max(s)}], answers[Max(s)])
      BY <1>8 DEF Iterates
    <3>1. f[s] = G[<<f[s \ {Max(s)}], Max(s)>>] /\ f[s \ {Max(s)}] \in A
      BY <1>8 DEF Iterates
    <3>2. Max(s) \in 1..n
      BY <1>2, MaxOf
    <3> QED BY Zenon, <3>1, <3>2, <1>4
  <2>2. f \in [SUBSET (1..n) -> A]
    BY <1>8 DEF Iterates
  <2> QED BY <2>1, <2>2, <1>2
<1>10. Equation(it)
  BY Zenon, <1>9
<1> HIDE DEF it
<1>11. Unfolds(it, A, table, G, n)
  <2>1. \A s \in SUBSET (1..n) :
            it[s] = IF s = {} THEN table ELSE PutAll(it[s \ {Max(s)}], answers[Max(s)])
    BY <1>2, <1>10
  <2>2. it[{}] = table
    BY <2>1
  <2>3. ASSUME NEW s \in SUBSET (1..n), s # {}, it[s \ {Max(s)}] \in A
        PROVE  it[s] = G[<<it[s \ {Max(s)}], Max(s)>>]
    <3>1. Max(s) \in 1..n
      BY <1>2, <2>3, MaxOf
    <3> QED BY Zenon, <2>1, <2>3, <3>1, <1>4
  <2> QED BY <2>2, <2>3 DEF Unfolds
<1>12. Reaches(it, A, table, G, n)
  BY <1>2, <1>7, <1>11, IteratedSteps
<1>13. PICK h : Steps(h, A, table, G, n) /\ it[1..n] = h[n]
  BY <1>12 DEF Reaches
<1>14. h \in [0..n -> A] /\ h[0] = table
  BY <1>13 DEF Steps
<1>15. \A i \in 1..n : h[i - 1] \in A /\ h[i] = PutAll(h[i - 1], answers[i])
  <2> SUFFICES ASSUME NEW i \in 1..n
               PROVE  h[i - 1] \in A /\ h[i] = PutAll(h[i - 1], answers[i])
    OBVIOUS
  <2>1. i - 1 \in 0..n
    BY <1>2
  <2>2. h[i - 1] \in A /\ h[i] = G[<<h[i - 1], i>>]
    BY <2>1, <1>13 DEF Steps
  <2> QED BY Zenon, <2>2, <1>4
<1> DEFINE T == {i \in 0..n : TableTrue(h[i], tells \cup TellsOfFirst(answers, i))}
<1>16. 0 \in T
  <2>1. 1..0 = {} /\ 0 \in 0..n
    BY <1>2
  <2>2. TellsOfFirst(answers, 0) = {}
    BY <2>1 DEF TellsOfFirst
  <2>3. tells \cup TellsOfFirst(answers, 0) = tells
    BY <2>2
  <2> QED BY <2>1, <2>3, <1>14
<1>17. ASSUME NEW i \in 0..(n - 1), i \in T
       PROVE  i + 1 \in T
  <2>1. i + 1 \in 1..n /\ (i + 1) - 1 = i /\ i + 1 \in 0..n
    BY <1>2
  <2>2. h[i] \in A /\ h[i + 1] = PutAll(h[i], answers[i + 1])
    BY <2>1, <1>15
  <2>3. TableTrue(h[i], tells \cup TellsOfFirst(answers, i))
    BY <1>17
  <2>4. TableTrue(h[i + 1], (tells \cup TellsOfFirst(answers, i))
                              \cup TellsOf(answers[i + 1]))
    BY <2>1, <2>2, <2>3, <1>5
  <2>5. 1..(i + 1) = (1..i) \cup {i + 1}
    OBVIOUS
  <2>6. TellsOfFirst(answers, i + 1)
            = TellsOfFirst(answers, i) \cup TellsOf(answers[i + 1])
    BY <2>5 DEF TellsOfFirst
  <2>7. (tells \cup TellsOfFirst(answers, i)) \cup TellsOf(answers[i + 1])
            = tells \cup TellsOfFirst(answers, i + 1)
    BY <2>6
  <2>8. TableTrue(h[i + 1], tells \cup TellsOfFirst(answers, i + 1))
    BY <2>4, <2>7
  <2> QED BY <2>1, <2>8
<1> HIDE DEF T
<1>18. n \in T
  <2>1. \A i \in 0..n : i \in T
    BY <1>2, <1>16, <1>17, CountingUp
  <2>2. n \in 0..n
    BY <1>2
  <2> QED BY <2>1, <2>2
<1>19. Persisted(table, answers) = h[n]
  BY Zenon, <1>1, <1>2, <1>13
<1>20. h[n] \in A
  BY <1>2, <1>14
<1> QED BY <1>18, <1>19, <1>20 DEF T, A, n

-----------------------------------------------------------------------------
(***************************************************************************)
(* What the collectors gather                                              *)
(***************************************************************************)
\* A coroutine that answers, answers with a list.
GivesList(answer) == answer.error = None => IsList(answer.value)

\* Items with a name, and one of each name, are lists.
LEMMA NamedLists ==
    ASSUME NEW T, NEW items \in Seq(T)
    PROVE  Named(items) \in Seq(T) /\ OnePerName(items) \in Seq(T)
<1> DEFINE I == {i \in DOMAIN items : items[i].name # None}
           named == Named(items)
           J == {i \in DOMAIN named : \A j \in 1..(i - 1) :
                    named[j].name # named[i].name}
<1>1. Named(items) = At(items, I)
  BY Zenon DEF Named, Selected
<1>2. named \in Seq(T)
  BY <1>1, PartOfList
<1>3. OnePerName(items) = At(named, J)
  BY Zenon DEF OnePerName, KeepFirst
<1> HIDE DEF named
<1>4. At(named, J) \in Seq(T)
  BY <1>2, PartOfList
<1> QED BY <1>2, <1>3, <1>4 DEF named

\* AppMagicCollector.collect returns a list.
LEMMA AppmagicLists ==
    ASSUME NEW world \in Worlds
    PROVE  GivesList(AppmagicRecords(world.appmagic))
<1> DEFINE a == world.appmagic
           payload == IF a.plain.http \in {"ok", "garbled"} THEN a.plain ELSE a.browser
           events == Requested(payload, Refusal)
           DatesOf(name) == {payload.body[i].date : i \in
               {j \in DOMAIN payload.body : payload.body[j].name = name}} \ {None}
           one == OnePerName(events.value)
           recs == [i \in DOMAIN one |-> Record(one[i].name, None,
                      Earliest(DatesOf(one[i].name)), Latest(DatesOf(one[i].name)))]
<1> SUFFICES ASSUME AppmagicRecords(a).error = None
             PROVE  IsList(AppmagicRecords(a).value)
  BY DEF GivesList
<1>1. AppmagicRecords(a) = IF events.error = None THEN Got(recs) ELSE events
  BY Zenon DEF AppmagicRecords, Then, Each
<1>2. Requested(a.plain, Refusal).error = None
            => IsList(Requested(a.plain, Refusal).value)
  BY Zenon, WorldsAssumption
<1>3. Requested(a.browser, Refusal).error = None
            => IsList(Requested(a.browser, Refusal).value)
  BY Zenon, WorldsAssumption
<1>4. events.error = None => IsList(events.value)
  BY Zenon, <1>2, <1>3
<1> HIDE DEF events
<1>5. events.error = None
  BY <1>1
<1>6. one \in Seq(Range(events.value))
  BY <1>4, <1>5, NamedLists DEF IsList
<1>7. IsList(recs)
  <2>1. recs = [i \in DOMAIN one |-> recs[i]]
    OBVIOUS
  <2> HIDE DEF recs, one
  <2> QED BY <1>6, <2>1, EachIsList
<1> HIDE DEF recs
<1> QED BY <1>1, <1>5, <1>7 DEF Got

\* AptoideCollector.collect returns a list.
LEMMA AptoideLists ==
    ASSUME NEW world \in Worlds
    PROVE  GivesList(AptoideRecords(world.aptoide))
<1> DEFINE a == world.aptoide
           payload == Requested(a.byPackage, AptoideRefusal)
           current == IF payload.value.app = None THEN <<>> ELSE <<payload.value.app>>
           items == current \o payload.value.versions
           one == OnePerName(items)
           recs == [i \in DOMAIN one |-> Record(one[i].name, one[i].code,
                                               one[i].date, one[i].date)]
<1> SUFFICES ASSUME AptoideRecords(a).error = None
             PROVE  IsList(AptoideRecords(a).value)
  BY DEF GivesList
<1>1. AptoideRecords(a) = IF payload.error = None THEN Got(recs) ELSE payload
  BY Zenon DEF AptoideRecords, Then, Each
<1>2. payload.error = None => IsList(payload.value.versions)
  BY Zenon, WorldsAssumption
<1> HIDE DEF payload
<1>3. payload.error = None
  BY <1>1
<1> DEFINE T == {payload.value.app} \cup Range(payload.value.versions)
<1>4. payload.value.versions \in Seq(T) /\ current \in Seq(T)
  <2> DEFINE versions == payload.value.versions
  <2>1. versions \in Seq(Range(versions)) /\ Range(versions) \in SUBSET T
    BY <1>2, <1>3 DEF IsList
  <2>2. current \in Seq(T)
    <3> DEFINE app == payload.value.app
    <3>1. app \in T
      OBVIOUS
    <3> HIDE DEF app, T
    <3>2. <<>> \in Seq(T) /\ <<app>> \in Seq(T)
      BY <3>1
    <3> QED BY <3>2 DEF app
  <2> HIDE DEF versions, T, current
  <2>3. versions \in Seq(T)
    BY <2>1
  <2> QED BY <2>2, <2>3 DEF versions
<1>5. items \in Seq(T)
  <2> HIDE DEF T, current
  <2> QED BY <1>4
<1> HIDE DEF items, T
<1>6. one \in Seq(T)
  BY <1>5, NamedLists
<1>7. IsList(recs)
  <2>1. recs = [i \in DOMAIN one |-> recs[i]]
    OBVIOUS
  <2> HIDE DEF recs, one
  <2> QED BY <1>6, <2>1, EachIsList
<1> HIDE DEF recs
<1> QED BY <1>1, <1>3, <1>7 DEF Got

\* APKPureCollector.collect returns a list.
LEMMA ApkpureLists ==
    ASSUME NEW world \in Worlds
    PROVE  GivesList(ApkpureRecords(world.web))
<1> DEFINE a == world.web
           rows_ == Loaded(a.versions)
           I == {i \in DOMAIN rows_.value : rows_.value[i].own}
           own == Selected(rows_.value, LAMBDA row : row.own)
           J == {i \in DOMAIN own : \A j \in 1..(i - 1) : own[j].code # own[i].code}
           listed == At(own, J)
           named == Named(listed)
           recs == [i \in DOMAIN named |-> Record(named[i].name, named[i].code,
                                                 None, None)]
<1> SUFFICES ASSUME ApkpureRecords(a).error = None
             PROVE  IsList(ApkpureRecords(a).value)
  BY DEF GivesList
<1>1. ListVersions(a) = IF rows_.error = None THEN Got(listed) ELSE rows_
  BY Zenon DEF ListVersions, Then, KeepFirst
<1>2. ApkpureRecords(a) =
        IF Found(a).error = None
        THEN IF ListVersions(a).error = None
             THEN Got([i \in DOMAIN Named(ListVersions(a).value) |->
                        Record(Named(ListVersions(a).value)[i].name,
                               Named(ListVersions(a).value)[i].code, None, None)])
             ELSE ListVersions(a)
        ELSE Found(a)
  BY Zenon DEF ApkpureRecords, Then, Each
<1>3. rows_.error = None => IsList(rows_.value)
  BY Zenon, WorldsAssumption
<1> HIDE DEF rows_
<1>4. Found(a).error = None /\ ListVersions(a).error = None
  BY <1>2
<1>5. rows_.error = None
  BY <1>1, <1>4
<1>6. own = At(rows_.value, I)
  BY Zenon DEF Selected
<1>7. own \in Seq(Range(rows_.value))
  BY <1>3, <1>5, <1>6, PartOfList DEF IsList
<1> HIDE DEF own
<1>8. listed \in Seq(Range(rows_.value))
  BY <1>7, PartOfList
<1> HIDE DEF listed
<1>9. named \in Seq(Range(rows_.value))
  BY <1>8, NamedLists
<1>10. IsList(recs)
  <2>1. recs = [i \in DOMAIN named |-> recs[i]]
    OBVIOUS
  <2> HIDE DEF recs, named
  <2> QED BY <1>9, <2>1, EachIsList
<1>11. ListVersions(a).value = listed
  BY <1>1, <1>5 DEF Got
<1>12. ApkpureRecords(a) = Got(recs)
  BY Zenon, <1>2, <1>4, <1>11
<1> HIDE DEF recs
<1> QED BY <1>10, <1>12 DEF Got

\* The rows taken from a page of the list are a list of rows to be taken.
LEMMA UploadsPart ==
    ASSUME NEW S, NEW rows_, IsList(rows_),
           \A row \in Range(rows_) : row.own /\ row.name # None => row \in S
    PROVE  UploadsVersions(rows_) \in Seq(S)
<1> DEFINE T == Range(rows_)
           I == {i \in DOMAIN rows_ : rows_[i].own /\ rows_[i].name # None}
           own == Selected(rows_, LAMBDA row : row.own /\ row.name # None)
           J == {i \in DOMAIN own : \A j \in 1..(i - 1) : own[j].name # own[i].name}
<1>1. own = At(rows_, I)
  BY Zenon DEF Selected
<1>2. own \in Seq(S)
  <2>1. DOMAIN rows_ = 1..Len(rows_) /\ Len(rows_) \in Nat
    BY ListIs DEF IsList
  <2>2. IsFiniteSet(1..Len(rows_))
    BY <2>1, FS_Interval
  <2>3. IsFiniteSet(I) /\ I \in SUBSET Int
    BY <2>1, <2>2, FS_Subset
  <2>4. \A i \in I : rows_[i] \in S
    BY DEF Range
  <2> HIDE DEF I
  <2> QED BY <1>1, <2>3, <2>4, ListAt
<1>3. UploadsVersions(rows_) = At(own, J)
  BY Zenon DEF UploadsVersions, KeepFirst
<1> HIDE DEF own
<1> QED BY <1>2, <1>3, PartOfList

\* list_versions of apkmirror reads one page after the other: what it has after
\* each is a list of rows to be taken, or an error.
PageByPage(h, site, S) ==
    /\ h[0] = Got(<<>>)
    /\ \A i \in 1..PagesRead(site) : h[i] = WithPage(h[i - 1], site.uploads[i])
    /\ \A i \in 0..PagesRead(site) : h[i].error = None => h[i].value \in Seq(S)
    /\ ListUploads(site) = h[PagesRead(site)]

\* So it does.
LEMMA UploadsRead ==
    ASSUME NEW site, NEW S, PagesRead(site) \in Nat,
           \A i \in 1..PagesRead(site) : Loaded(site.uploads[i]).error = None =>
                /\ IsList(Loaded(site.uploads[i]).value)
                /\ \A row \in Range(Loaded(site.uploads[i]).value) :
                        row.own /\ row.name # None => row \in S
    PROVE  \E h : PageByPage(h, site, S)
<1> DEFINE pages == [i \in 1..PagesRead(site) |-> site.uploads[i]]
           n == PagesRead(site)
           E == {None} \cup {Loaded(pages[i]).error : i \in 1..n}
           A == {x \in [error : E, value : Seq(S) \cup {None}] :
                    x.error = None => x.value \in Seq(S)}
           G == [p \in A \X (1..n) |-> WithPage(p[1], pages[p[2]])]
           b == Got(<<>>)
           Equation(f) == f = [s \in SUBSET DOMAIN pages |->
                IF s = {} THEN b ELSE WithPage(f[s \ {Max(s)}], pages[Max(s)])]
           it == CHOOSE f : Equation(f)
<1>1. ListUploads(site) = it[DOMAIN pages]
  BY Zenon DEF ListUploads, FoldLeft, MapThenFoldSet
<1>2. n \in Nat /\ DOMAIN pages = 1..n
  OBVIOUS
<1>3. \A i \in 1..n : Loaded(pages[i]).error = None =>
        /\ IsList(Loaded(pages[i]).value)
        /\ \A row \in Range(Loaded(pages[i]).value) :
                row.own /\ row.name # None => row \in S
  <2>1. \A i \in 1..n : pages[i] = site.uploads[i]
    OBVIOUS
  <2> QED BY <2>1
<1>5. n \in Nat
  BY <1>2
<1>6. ASSUME NEW x \in A, NEW i \in 1..n
      PROVE  WithPage(x, pages[i]) \in A
  <2> DEFINE rows_ == Loaded(pages[i])
             listed == x.value \o UploadsVersions(rows_.value)
             J == {k \in DOMAIN listed : \A j \in 1..(k - 1) :
                        listed[j].name # listed[k].name}
  <2>1. WithPage(x, pages[i]) =
            IF x.error = None
            THEN IF rows_.error = None THEN Got(At(listed, J)) ELSE rows_
            ELSE x
    BY Zenon DEF WithPage, Then, KeepFirst
  <2>2. rows_.error \in E
    OBVIOUS
  <2>3. rows_.error = None =>
            /\ IsList(rows_.value)
            /\ \A row \in Range(rows_.value) : row.own /\ row.name # None => row \in S
    BY <1>3
  <2>4. rows_.error # None => rows_ = [error |-> rows_.error, value |-> None]
    BY DEF Loaded, Fail, Got
  <2>5. x.error = None => x.value \in Seq(S)
    OBVIOUS
  <2> HIDE DEF rows_, E
  <2>6. CASE x.error # None
    BY <2>1, <2>6
  <2>7. CASE x.error = None /\ rows_.error # None
    <3>1. WithPage(x, pages[i]) = [error |-> rows_.error, value |-> None]
      BY <2>1, <2>4, <2>7
    <3>2. [error |-> rows_.error, value |-> None] \in A
      BY <2>2, <2>7
    <3> QED BY <3>1, <3>2
  <2>8. CASE x.error = None /\ rows_.error = None
    <3>2. UploadsVersions(rows_.value) \in Seq(S)
      BY <2>3, <2>8, UploadsPart
    <3>3. listed \in Seq(S)
      BY <2>5, <2>8, <3>2
    <3> HIDE DEF listed
    <3>4. At(listed, J) \in Seq(S)
      BY <3>3, PartOfList
    <3>5. WithPage(x, pages[i]) = [error |-> None, value |-> At(listed, J)]
      BY <2>1, <2>8 DEF Got
    <3>6. None \in E
      BY DEF E
    <3> DEFINE made == At(listed, J)
    <3>7. made \in Seq(S) /\ WithPage(x, pages[i]) = [error |-> None, value |-> made]
      BY <3>4, <3>5
    <3> HIDE DEF made
    <3> QED BY <3>6, <3>7
  <2> QED BY <2>6, <2>7, <2>8
<1>7. \A x \in A, i \in 1..n : G[<<x, i>>] = WithPage(x, pages[i])
  <2> HIDE DEF A
  <2> QED OBVIOUS
<1>8. b \in A
  <2>1. b = [error |-> None, value |-> <<>>] /\ None \in E
    BY DEF Got
  <2> HIDE DEF b, E
  <2>2. <<>> \in Seq(S)
    OBVIOUS
  <2> QED BY <2>1, <2>2
<1> HIDE DEF n, G, A, b, E
<1>9. \A x \in A, i \in 1..n : G[<<x, i>>] \in A
  BY <1>6, <1>7
<1>10. PICK f : Iterates(f, A, b, G, n)
  BY <1>5, <1>8, <1>9, Iteration
<1>11. DOMAIN pages = 1..n
  BY <1>2 DEF n
<1> HIDE DEF pages
<1>12. Equation(f)
  <2>1. \A s \in SUBSET (1..n) :
            f[s] = IF s = {} THEN b ELSE WithPage(f[s \ {Max(s)}], pages[Max(s)])
    <3> SUFFICES ASSUME NEW s \in SUBSET (1..n), s # {}
                 PROVE  f[s] = WithPage(f[s \ {Max(s)}], pages[Max(s)])
      BY <1>10 DEF Iterates
    <3>1. f[s] = G[<<f[s \ {Max(s)}], Max(s)>>] /\ f[s \ {Max(s)}] \in A
      BY <1>10 DEF Iterates
    <3>2. Max(s) \in 1..n
      BY <1>5, MaxOf
    <3> QED BY Zenon, <3>1, <3>2, <1>7
  <2>2. f \in [SUBSET (1..n) -> A]
    BY <1>10 DEF Iterates
  <2> QED BY <2>1, <2>2, <1>11
<1>13. Equation(it)
  BY Zenon, <1>12
<1> HIDE DEF it
<1>14. Unfolds(it, A, b, G, n)
  <2>1. \A s \in SUBSET (1..n) :
            it[s] = IF s = {} THEN b ELSE WithPage(it[s \ {Max(s)}], pages[Max(s)])
    BY <1>11, <1>13
  <2>2. it[{}] = b
    BY <2>1
  <2>3. ASSUME NEW s \in SUBSET (1..n), s # {}, it[s \ {Max(s)}] \in A
        PROVE  it[s] = G[<<it[s \ {Max(s)}], Max(s)>>]
    <3>1. Max(s) \in 1..n
      BY <1>5, <2>3, MaxOf
    <3> QED BY Zenon, <2>1, <2>3, <3>1, <1>7
  <2> QED BY <2>2, <2>3 DEF Unfolds
<1>15. Reaches(it, A, b, G, n)
  BY <1>5, <1>8, <1>9, <1>14, IteratedSteps
<1>16. PICK h : Steps(h, A, b, G, n) /\ it[1..n] = h[n]
  BY <1>15 DEF Reaches
<1>17. \A i \in 0..n : h[i] \in A
  BY <1>16 DEF Steps
<1>18. ListUploads(site) = h[n]
  BY Zenon, <1>1, <1>11, <1>16
<1>19. \A i \in 0..n : h[i].error = None => h[i].value \in Seq(S)
  BY <1>17 DEF A
<1>20. ASSUME NEW i \in 1..n
       PROVE  h[i] = WithPage(h[i - 1], site.uploads[i])
  <2>1. i - 1 \in 0..n
    BY <1>5
  <2>2. h[i] = G[<<h[i - 1], i>>] /\ h[i - 1] \in A
    BY <1>16, <1>17, <2>1 DEF Steps
  <2>3. pages[i] = site.uploads[i]
    BY DEF pages, n
  <2> QED BY <1>7, <2>2, <2>3
<1>21. h[0] = b
  BY <1>16 DEF Steps
<1> QED BY <1>18, <1>19, <1>20, <1>21 DEF PageByPage, b, n

\* It returns a list of such rows.
LEMMA UploadsList ==
    ASSUME NEW site, NEW S, PagesRead(site) \in Nat,
           \A i \in 1..PagesRead(site) : Loaded(site.uploads[i]).error = None =>
                /\ IsList(Loaded(site.uploads[i]).value)
                /\ \A row \in Range(Loaded(site.uploads[i]).value) :
                        row.own /\ row.name # None => row \in S
    PROVE  ListUploads(site).error = None => ListUploads(site).value \in Seq(S)
<1>1. PICK h : PageByPage(h, site, S)
  BY UploadsRead
<1> QED BY <1>1 DEF PageByPage

\* APKMirrorCollector.collect returns a list.
LEMMA MirrorLists ==
    ASSUME NEW world \in Worlds
    PROVE  GivesList(MirrorRecords(world.mirror))
<1> DEFINE a == world.mirror
           listed == ListUploads(a)
           recs == [i \in DOMAIN listed.value |-> Record(listed.value[i].name, None,
                        listed.value[i].date, listed.value[i].date)]
<1> SUFFICES ASSUME MirrorRecords(a).error = None
             PROVE  IsList(MirrorRecords(a).value)
  BY DEF GivesList
<1>1. MirrorRecords(a) = IF Slugs(a).error = None
                         THEN IF listed.error = None THEN Got(recs) ELSE listed
                         ELSE Slugs(a)
  BY Zenon DEF MirrorRecords, Then, Each
<1>2. listed.error = None => IsList(listed.value)
  <2> DEFINE S == UNION {Range(Loaded(a.uploads[i]).value) : i \in 1..PagesRead(a)}
  <2>1. PagesRead(a) \in Nat
    BY WorldsAssumption
  <2>2. \A i \in 1..PagesRead(a) : Loaded(a.uploads[i]).error = None =>
            IsList(Loaded(a.uploads[i]).value)
    BY Zenon, WorldsAssumption
  <2>3. \A i \in 1..PagesRead(a) : \A row \in Range(Loaded(a.uploads[i]).value) : row \in S
    OBVIOUS
  <2> HIDE DEF S
  <2>4. listed.error = None => listed.value \in Seq(S)
    BY <2>1, <2>2, <2>3, UploadsList
  <2> HIDE DEF listed
  <2> QED BY <2>4, ListIs
<1> HIDE DEF listed
<1>3. Slugs(a).error = None /\ listed.error = None
  BY <1>1
<1>4. IsList(recs)
  <2>1. recs = [i \in DOMAIN listed.value |-> recs[i]]
    OBVIOUS
  <2> DEFINE w == listed.value
  <2>2. w \in Seq(Range(w)) /\ recs = [i \in DOMAIN w |-> recs[i]]
    BY <1>2, <1>3, <2>1 DEF IsList
  <2> HIDE DEF recs, w
  <2> QED BY <2>2, EachIsList
<1> HIDE DEF recs
<1> QED BY <1>1, <1>3, <1>4 DEF Got

\* What is gathered are lists, each of a source.
LEMMA GatheredLists ==
    ASSUME NEW world \in Worlds
    PROVE  /\ Len(Gathered(world)) \in Nat
           /\ DOMAIN Gathered(world) = 1..Len(Gathered(world))
           /\ \A i \in DOMAIN Gathered(world) :
                /\ Gathered(world)[i][1] \in Source
                /\ IsList(Gathered(world)[i][2].value)
<1> DEFINE w == ApkpureRecords(world.web)
           x == AptoideRecords(world.aptoide)
           y == MirrorRecords(world.mirror)
           z == AppmagicRecords(world.appmagic)
           answers == << <<"apkpure", w>>, <<"aptoide", x>>,
                         <<"apkmirror", y>>, <<"appmagic", z>> >>
           I == {i \in DOMAIN answers : answers[i][2].error = None}
<1>1. GivesList(w) /\ GivesList(x) /\ GivesList(y) /\ GivesList(z)
  BY ApkpureLists, AptoideLists, MirrorLists, AppmagicLists
<1>2. Gathered(world) = At(answers, I)
  BY Zenon DEF Gathered, Selected
<1> HIDE DEF w, x, y, z
<1>3. DOMAIN answers = 1..4
  OBVIOUS
<1>4. ASSUME NEW i \in I
      PROVE  answers[i][1] \in Source /\ IsList(answers[i][2].value)
  <2>1. i \in 1..4 /\ answers[i][2].error = None
    BY <1>3
  <2>2. CASE i = 1
    BY <1>1, <2>1, <2>2 DEF GivesList, Source
  <2>3. CASE i = 2
    BY <1>1, <2>1, <2>3 DEF GivesList, Source
  <2>4. CASE i = 3
    BY <1>1, <2>1, <2>4 DEF GivesList, Source
  <2>5. CASE i = 4
    BY <1>1, <2>1, <2>5 DEF GivesList, Source
  <2> QED BY <2>1, <2>2, <2>3, <2>4, <2>5
<1>5. IsFiniteSet(I) /\ I \in SUBSET Int
  <2>1. I \in SUBSET DOMAIN answers
    OBVIOUS
  <2> HIDE DEF I, answers
  <2>2. PICK m \in Nat : m = 4
    OBVIOUS
  <2>3. I \in SUBSET (1..m)
    BY <2>1, <2>2, <1>3
  <2>4. IsFiniteSet(1..m)
    BY FS_Interval
  <2>5. IsFiniteSet(I)
    BY <2>3, <2>4, FS_Subset
  <2> QED BY <2>3, <2>5
<1> HIDE DEF answers, I
<1>6. /\ Cardinality(I) \in Nat
      /\ Len(At(answers, I)) = Cardinality(I)
      /\ DOMAIN At(answers, I) = 1..Cardinality(I)
      /\ \A k \in 1..Cardinality(I) : /\ Places(I)[k] \in I
                                      /\ At(answers, I)[k] = answers[Places(I)[k]]
  BY <1>5, ReadAt
<1>7. \A k \in 1..Cardinality(I) : /\ At(answers, I)[k][1] \in Source
                                  /\ IsList(At(answers, I)[k][2].value)
  BY <1>4, <1>6
<1> QED BY <1>2, <1>6, <1>7

-----------------------------------------------------------------------------
(***************************************************************************)
(* The table is true of what was told, whatever the collections            *)
(***************************************************************************)
\* The rows hold what the sources told, and nothing else.
RowsTrue ==
    /\ \E V : None \in V /\ rows \in [Names -> RowOver(V)]
    /\ TableTrue(rows, told)

\* Nothing was told when the table is empty.
LEMMA EmptyTrue == Init => RowsTrue
<1> SUFFICES ASSUME Init
             PROVE  RowsTrue
  OBVIOUS
<1>1. rows \in [Names -> RowOver({None})]
  BY DEF Init, NoRow, RowOver
<1>2. ASSUME NEW n \in Names
      PROVE  RowTrue(rows[n], n, told)
  <2>1. rows[n] = NoRow /\ told = {}
    BY DEF Init
  <2>2. \A S : TellsIn({}, n, S) = {} /\ CodesIn({}, n, S) = {}
                 /\ DatesIn({}, n, S) = {}
    BY DEF TellsIn, CodesIn, DatesIn
  <2>3. FromOf(None, {})
    BY DEF FromOf
  <2>4. NoRow.listed = FALSE /\ NoRow.loadable = FALSE /\ NoRow.code = None
        /\ NoRow.release = None /\ NoRow.first = None
    BY DEF NoRow
  <2>5. RowTrue(NoRow, n, {})
    BY <2>2, <2>3, <2>4 DEF RowTrue
  <2> QED BY <2>1, <2>5
<1> QED BY <1>1, <1>2 DEF RowsTrue, TableTrue

\* A collection keeps the table true.
LEMMA CollectTrue ==
    ASSUME RowsTrue, NEW world \in Worlds, Collect(world)
    PROVE  RowsTrue'
<1> DEFINE answers == Gathered(world)
           n == Len(answers)
           FieldsOf(recs) == UNION {{recs[k].code, recs[k].date, recs[k].last} :
                                        k \in DOMAIN recs}
           All == UNION {FieldsOf(answers[i][2].value) : i \in DOMAIN answers}
<1>1. PICK U : None \in U /\ rows \in [Names -> RowOver(U)]
  BY DEF RowsTrue
<1> DEFINE V == U \cup All
<1>2. None \in V /\ rows \in [Names -> RowOver(V)]
  <2>1. RowOver(U) \in SUBSET RowOver(V)
    BY DEF RowOver
  <2> HIDE DEF V
  <2>2. rows \in [Names -> RowOver(V)]
    BY <1>1, <2>1
  <2>3. None \in V
    BY <1>1 DEF V
  <2> QED BY <2>2, <2>3
<1>3. AnswersOver(answers, V)
  <2>1. /\ n \in Nat /\ DOMAIN answers = 1..n
        /\ \A i \in DOMAIN answers : /\ answers[i][1] \in Source
                                     /\ IsList(answers[i][2].value)
    BY GatheredLists
  <2> HIDE DEF answers
  <2>2. ASSUME NEW i \in DOMAIN answers
        PROVE  RecordsOver(answers[i][2].value, V)
    <3> DEFINE recs == answers[i][2].value
    <3>1. Len(recs) \in Nat /\ DOMAIN recs = 1..Len(recs)
      BY <2>1, ListIs DEF IsList
    <3>2. ASSUME NEW k \in DOMAIN recs
          PROVE  recs[k].code \in V /\ recs[k].date \in V /\ recs[k].last \in V
      <4>1. {recs[k].code, recs[k].date, recs[k].last} \in SUBSET FieldsOf(recs)
        OBVIOUS
      <4>2. FieldsOf(recs) \in SUBSET All
        OBVIOUS
      <4> HIDE DEF All, FieldsOf, recs
      <4> QED BY <4>1, <4>2
    <3> HIDE DEF V, recs
    <3>3. RecordsOver(recs, V)
      BY <3>1, <3>2 DEF RecordsOver
    <3> QED BY <3>3 DEF recs
  <2> HIDE DEF V
  <2> QED BY <2>1, <2>2 DEF AnswersOver
<1> HIDE DEF V, All
<1>4. /\ Persisted(rows, answers) \in [Names -> RowOver(V)]
      /\ TableTrue(Persisted(rows, answers), told \cup TellsOfFirst(answers, n))
  <2> HIDE DEF answers
  <2>1. TableTrue(rows, told)
    BY DEF RowsTrue
  <2> QED BY <1>2, <1>3, <2>1, PersistedTrue
<1>5. told' = told \cup TellsOfFirst(answers, n)
  <2>1. /\ n \in Nat /\ DOMAIN answers = 1..n
        /\ \A i \in DOMAIN answers : IsList(answers[i][2].value)
    BY GatheredLists
  <2>2. told' = told \cup UNION {
            {[source |-> answers[i][1], name |-> rec.name,
              code |-> rec.code, date |-> rec.date] :
                rec \in Range(answers[i][2].value)} : i \in DOMAIN answers}
    BY Zenon DEF Collect
  <2> HIDE DEF answers, n
  <2>3. ASSUME NEW i \in DOMAIN answers
        PROVE  {[source |-> answers[i][1], name |-> rec.name,
                 code |-> rec.code, date |-> rec.date] :
                    rec \in Range(answers[i][2].value)} = TellsOf(answers[i])
    <3> DEFINE recs == answers[i][2].value
               s == answers[i][1]
    <3>1. DOMAIN recs = 1..Len(recs)
      BY <2>1, ListIs DEF IsList
    <3> HIDE DEF recs, s
    <3>2. {[source |-> s, name |-> rec.name, code |-> rec.code, date |-> rec.date] :
                rec \in Range(recs)} = TellsUpTo(s, recs, Len(recs))
      BY <3>1 DEF Range, TellsUpTo, Tell
    <3> QED BY <3>2 DEF TellsOf, recs, s
  <2>4. told' = told \cup UNION {TellsOf(answers[i]) : i \in DOMAIN answers}
    BY <2>2, <2>3
  <2> QED BY <2>1, <2>4 DEF TellsOfFirst
<1>6. rows' = Persisted(rows, answers)
  BY DEF Collect
<1> HIDE DEF answers, n
<1>7. \E W : None \in W /\ rows' \in [Names -> RowOver(W)]
  BY <1>2, <1>4, <1>6
<1>8. TableTrue(rows', told')
  BY <1>4, <1>5, <1>6
<1> QED BY <1>7, <1>8 DEF RowsTrue

\* Every step does.
LEMMA RowsTrueStep == RowsTrue /\ [Next]_vars => RowsTrue'
<1> SUFFICES ASSUME RowsTrue, [Next]_vars
             PROVE  RowsTrue'
  OBVIOUS
<1>1. CASE \E world \in Worlds : Collect(world)
  BY <1>1, CollectTrue
<1>2. CASE UNCHANGED <<rows, told>>
  BY <1>2 DEF RowsTrue
<1> QED BY <1>1, <1>2 DEF Next, Download, vars

-----------------------------------------------------------------------------
(***************************************************************************)
(* The two lists                                                           *)
(***************************************************************************)
\* Every name has a key to compare it by.
LEMMA KeysAre ==
    ASSUME NEW n \in Names
    PROVE  SortKey(n) \in Seq(Nat)
<1>1. NameParts[n] \in Seq(Nat)
  BY TablesAssumption
<1>2. <<0>> \in Seq(Nat)
  OBVIOUS
<1> QED BY <1>1, <1>2 DEF SortKey

\* Names are listed once each, and none before one that is newer.
LEMMA NewestListed ==
    ASSUME NEW X \in SUBSET Names
    PROVE  /\ Counts(Sorted(SetToSeq(X), NewestFirst), X)
           /\ DOMAIN Sorted(SetToSeq(X), NewestFirst) = 1..Cardinality(X)
           /\ \A k, l \in 1..Cardinality(X) : k < l =>
                ~Below(SortKey(Sorted(SetToSeq(X), NewestFirst)[k]),
                       SortKey(Sorted(SetToSeq(X), NewestFirst)[l]))
<1> DEFINE f == SetToSeq(X)
           n == Cardinality(X)
           D == 1..n
           B == {p \in D \X D : Below(SortKey(f[p[2]]), SortKey(f[p[1]]))}
           e == SortedPlaces(f, NewestFirst)
           g == Sorted(f, NewestFirst)
<1>1. IsFiniteSet(X)
  BY TablesAssumption, FS_Subset
<1>2. Counts(f, X) /\ DOMAIN f = 1..n /\ n \in Nat
  BY <1>1, ListOfSet DEF Counts
<1>3. f \in [1..n -> X]
  BY <1>2 DEF Counts
<1>4. e = Enumerated(DOMAIN f, {p \in (DOMAIN f) \X (DOMAIN f) :
            \/ Below(SortKey(f[p[2]]), SortKey(f[p[1]]))
            \/ p[1] < p[2] /\ ~Below(SortKey(f[p[1]]), SortKey(f[p[2]]))})
  BY Zenon DEF SortedPlaces, NewestFirst
<1>5. g = [k \in DOMAIN e |-> f[e[k]]]
  BY Zenon DEF Sorted
<1> HIDE DEF f, n, e, g
<1>6. \A i, j \in 1..n : <<i, j>> \in B <=> Below(SortKey(f[j]), SortKey(f[i]))
  OBVIOUS
<1>7. {p \in D \X D :
            \/ Below(SortKey(f[p[2]]), SortKey(f[p[1]]))
            \/ p[1] < p[2] /\ ~Below(SortKey(f[p[1]]), SortKey(f[p[2]]))}
        = {p \in D \X D : \/ <<p[1], p[2]>> \in B
                          \/ p[1] < p[2] /\ <<p[2], p[1]>> \notin B}
  OBVIOUS
<1>8. \A i \in 1..n : SortKey(f[i]) \in Seq(Nat)
  BY <1>3, KeysAre
<1> HIDE DEF B
<1>9. WeakOrder(1..n, B)
  <2>1. ASSUME NEW i \in 1..n, NEW j \in 1..n, <<i, j>> \in B
        PROVE  <<j, i>> \notin B
    BY <2>1, <1>6, <1>8, BelowIsWeak
  <2>2. ASSUME NEW i \in 1..n, NEW j \in 1..n, NEW k \in 1..n, <<i, k>> \in B
        PROVE  <<i, j>> \in B \/ <<j, k>> \in B
    <3> DEFINE a == SortKey(f[i])
               b == SortKey(f[j])
               c == SortKey(f[k])
    <3>1. a \in Seq(Nat) /\ b \in Seq(Nat) /\ c \in Seq(Nat) /\ Below(c, a)
      BY <2>2, <1>6, <1>8
    <3>2. /\ <<i, j>> \in B <=> Below(b, a)
          /\ <<j, k>> \in B <=> Below(c, b)
      BY <1>6
    <3> HIDE DEF a, b, c
    <3> QED BY <3>1, <3>2, BelowIsWeak
  <2> QED BY <2>1, <2>2 DEF WeakOrder
<1>10. e = Enumerated(1..n, {p \in (1..n) \X (1..n) :
                \/ <<p[1], p[2]>> \in B
                \/ p[1] < p[2] /\ <<p[2], p[1]>> \notin B})
  BY Zenon, <1>2, <1>4, <1>7
<1>11. /\ e \in [1..n -> 1..n]
       /\ Counts(e, 1..n)
       /\ \A k, l \in 1..n : k < l => <<e[l], e[k]>> \notin B
  BY <1>2, <1>9, <1>10, SortedReading
<1>12. g = [k \in 1..n |-> f[e[k]]]
  BY <1>5, <1>11
<1>13. Counts(g, X)
  BY <1>2, <1>11, <1>12, CountedAgain DEF n
<1>14. ASSUME NEW k \in 1..n, NEW l \in 1..n, k < l
       PROVE  ~Below(SortKey(g[k]), SortKey(g[l]))
  <2>1. e[k] \in 1..n /\ e[l] \in 1..n /\ <<e[l], e[k]>> \notin B
    BY <1>11, <1>14
  <2>2. g[k] = f[e[k]] /\ g[l] = f[e[l]]
    BY <1>12
  <2> QED BY <2>1, <2>2, <1>6
<1>15. DOMAIN g = 1..n
  BY <1>12
<1> QED BY <1>13, <1>14, <1>15 DEF n, g, f

\* GET /versions shows what was told if the table holds what was told.
LEMMA ListingFollows == RowsTrue => ListingTrue
<1> SUFFICES ASSUME RowsTrue
             PROVE  ListingTrue
  OBVIOUS
<1> DEFINE X == {n \in Names : rows[n].loadable}
           names == Sorted(SetToSeq(X), NewestFirst)
           m == Cardinality(X)
           shown == ListDownloadable
<1>1. shown = [i \in DOMAIN names |->
                 [name |-> names[i], code |-> rows[names[i]].code,
                  date |-> Either(rows[names[i]].release, rows[names[i]].first)]]
  BY Zenon DEF ListDownloadable, Each
<1>2. X \in SUBSET Names
  OBVIOUS
<1>3. /\ Counts(names, X)
      /\ DOMAIN names = 1..m
      /\ \A k, l \in 1..m : k < l => ~Below(SortKey(names[k]), SortKey(names[l]))
  BY <1>2, NewestListed
<1> HIDE DEF names
<1>4. /\ m \in Nat
      /\ names \in [1..m -> X]
      /\ \A k, l \in 1..m : names[k] = names[l] => k = l
      /\ \A n \in X : \E k \in 1..m : names[k] = n
  BY <1>3 DEF Counts
<1> HIDE DEF m, shown
<1>5. /\ DOMAIN shown = 1..m
      /\ \A i \in 1..m :
            /\ shown[i].name = names[i]
            /\ shown[i].code = rows[names[i]].code
            /\ shown[i].date = Either(rows[names[i]].release, rows[names[i]].first)
  BY <1>1, <1>3
<1>6. \A n \in Names : RowTrue(rows[n], n, told)
  BY DEF RowsTrue, TableTrue
<1>7. \A n \in Names : \A S : /\ Tells(n, S) = TellsIn(told, n, S)
                             /\ DatesTold(n, S) = DatesIn(told, n, S) \ {None}
  BY DEF Tells, TellsIn, DatesTold, DatesIn
<1>8. \A n \in Names : CodesTold(n) = CodesIn(told, n, Source) \ {None}
  BY DEF Tells, TellsIn, CodesTold, CodesIn
<1>9. {shown[i].name : i \in DOMAIN shown} =
            {n \in Names : Tells(n, Downloadable) # {}}
  <2>1. X = {n \in Names : Tells(n, Downloadable) # {}}
    BY <1>6, <1>7 DEF RowTrue
  <2>2. {shown[i].name : i \in DOMAIN shown} = X
    <3> HIDE DEF X
    <3>1. \A i \in 1..m : shown[i].name = names[i] /\ names[i] \in X
      BY <1>4, <1>5
    <3> QED BY <1>4, <1>5, <3>1
  <2> QED BY <2>1, <2>2
<1>10. ASSUME NEW i \in DOMAIN shown, NEW j \in DOMAIN shown, i < j
       PROVE  /\ shown[i].name # shown[j].name
              /\ ~Below(SortKey(shown[i].name), SortKey(shown[j].name))
  <2>1. i \in 1..m /\ j \in 1..m /\ i # j
    BY <1>5, <1>10
  <2>2. shown[i].name = names[i] /\ shown[j].name = names[j]
    BY <2>1, <1>5
  <2> QED BY <2>1, <2>2, <1>3, <1>4, <1>10
<1>11. ASSUME NEW i \in DOMAIN shown
       PROVE  LET n   == shown[i].name
                  own == DatesTold(n, Dated)
                  any == DatesTold(n, Source)
              IN /\ IF CodesTold(n) = {} THEN shown[i].code = None
                    ELSE shown[i].code \in CodesTold(n)
                 /\ IF own # {} THEN shown[i].date \in own
                    ELSE IF any # {} THEN shown[i].date \in any
                    ELSE shown[i].date = None
  <2> DEFINE n == names[i]
             row == rows[n]
  <2>1. /\ n \in Names /\ shown[i].name = n /\ shown[i].code = row.code
        /\ shown[i].date = Either(row.release, row.first)
    BY <1>2, <1>4, <1>5
  <2> HIDE DEF n
  <2>2. /\ FromOf(row.code, CodesIn(told, n, Source))
        /\ FromOf(row.release, DatesIn(told, n, Dated))
        /\ FromOf(row.first, DatesIn(told, n, Source))
    BY <1>6, <2>1 DEF RowTrue
  <2>3. /\ DatesTold(n, Dated) = DatesIn(told, n, Dated) \ {None}
        /\ DatesTold(n, Source) = DatesIn(told, n, Source) \ {None}
        /\ CodesTold(n) = CodesIn(told, n, Source) \ {None}
    BY <1>7, <1>8, <2>1
  <2> HIDE DEF row
  <2>4. IF CodesTold(n) = {} THEN row.code = None ELSE row.code \in CodesTold(n)
    BY <2>2, <2>3 DEF FromOf
  <2>5. IF DatesTold(n, Dated) = {} THEN row.release = None
        ELSE row.release # None /\ row.release \in DatesTold(n, Dated)
    BY <2>2, <2>3 DEF FromOf
  <2>6. IF DatesTold(n, Source) = {} THEN row.first = None
        ELSE row.first \in DatesTold(n, Source)
    BY <2>2, <2>3 DEF FromOf
  <2>7. IF DatesTold(n, Dated) # {} THEN shown[i].date \in DatesTold(n, Dated)
        ELSE IF DatesTold(n, Source) # {} THEN shown[i].date \in DatesTold(n, Source)
        ELSE shown[i].date = None
    BY <2>1, <2>5, <2>6 DEF Either
  <2> QED BY <2>1, <2>4, <2>7
<1> QED BY <1>9, <1>10, <1>11 DEF ListingTrue, shown

\* The gap list is what was told of and cannot be downloaded.
LEMMA GapsFollow == RowsTrue => NothingUnlisted
<1> SUFFICES ASSUME RowsTrue
             PROVE  NothingUnlisted
  OBVIOUS
<1> DEFINE X == {n \in Names : rows[n].listed /\ ~rows[n].loadable}
           names == Sorted(SetToSeq(X), NewestFirst)
           m == Cardinality(X)
           gaps == ListKnownOnly
<1>1. gaps = [i \in DOMAIN names |->
                [name |-> names[i], date |-> rows[names[i]].release]]
  BY Zenon DEF ListKnownOnly, Each
<1>2. X \in SUBSET Names
  OBVIOUS
<1>3. /\ Counts(names, X)
      /\ DOMAIN names = 1..m
      /\ \A k, l \in 1..m : k < l => ~Below(SortKey(names[k]), SortKey(names[l]))
  BY <1>2, NewestListed
<1> HIDE DEF names
<1>4. /\ m \in Nat
      /\ names \in [1..m -> X]
      /\ \A k, l \in 1..m : names[k] = names[l] => k = l
      /\ \A n \in X : \E k \in 1..m : names[k] = n
  BY <1>3 DEF Counts
<1> HIDE DEF m, gaps
<1>5. /\ DOMAIN gaps = 1..m
      /\ \A i \in 1..m : /\ gaps[i].name = names[i]
                          /\ gaps[i].date = rows[names[i]].release
  BY <1>1, <1>3
<1>6. \A n \in Names : RowTrue(rows[n], n, told)
  BY DEF RowsTrue, TableTrue
<1>7. \A n \in Names : \A S : /\ Tells(n, S) = TellsIn(told, n, S)
                             /\ DatesTold(n, S) = DatesIn(told, n, S) \ {None}
  BY DEF Tells, TellsIn, DatesTold, DatesIn
<1>8. X = {n \in Names : /\ Tells(n, Source) # {}
                         /\ Tells(n, Downloadable) = {}}
  BY <1>6, <1>7 DEF RowTrue
<1>9. {gaps[i].name : i \in DOMAIN gaps} = X
  <2> HIDE DEF X
  <2>1. \A i \in 1..m : gaps[i].name = names[i] /\ names[i] \in X
    BY <1>4, <1>5
  <2> QED BY <1>4, <1>5, <2>1
<1>10. ASSUME NEW i \in DOMAIN gaps, NEW j \in DOMAIN gaps, i < j
       PROVE  /\ gaps[i].name # gaps[j].name
              /\ ~Below(SortKey(gaps[i].name), SortKey(gaps[j].name))
  <2>1. i \in 1..m /\ j \in 1..m /\ i # j
    BY <1>5, <1>10
  <2>2. gaps[i].name = names[i] /\ gaps[j].name = names[j]
    BY <2>1, <1>5
  <2> QED BY <2>1, <2>2, <1>3, <1>4, <1>10
<1>11. ASSUME NEW i \in DOMAIN gaps
       PROVE  LET own == DatesTold(gaps[i].name, Dated)
              IN IF own = {} THEN gaps[i].date = None ELSE gaps[i].date \in own
  <2> DEFINE n == names[i]
  <2>1. /\ n \in Names /\ gaps[i].name = n /\ gaps[i].date = rows[n].release
    BY <1>2, <1>4, <1>5
  <2> HIDE DEF n
  <2>2. FromOf(rows[n].release, DatesIn(told, n, Dated))
    BY <1>6, <2>1 DEF RowTrue
  <2>3. DatesTold(n, Dated) = DatesIn(told, n, Dated) \ {None}
    BY <1>7, <2>1
  <2> QED BY <2>1, <2>2, <2>3 DEF FromOf
<1> QED BY <1>8, <1>9, <1>10, <1>11 DEF NothingUnlisted, gaps

\* GET /versions shows what the sources told, in the versions' order: for any
\* sources, answers and names, whatever the order of the collections.
THEOREM TrueListing == Spec => []ListingTrue
<1>1. Spec => []RowsTrue
  BY EmptyTrue, RowsTrueStep, PTL DEF Spec
<1> QED BY <1>1, ListingFollows, PTL

\* Every version a source told of is in one of the two lists.
THEOREM WholeListing == Spec => []NothingUnlisted
<1>1. Spec => []RowsTrue
  BY EmptyTrue, RowsTrueStep, PTL DEF Spec
<1> QED BY <1>1, GapsFollow, PTL
===============================================================================
