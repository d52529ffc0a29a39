--------------------------------- MODULE Lists ---------------------------------
(***************************************************************************)
(* Lists as Python's comprehensions, sorted() and SQL's ORDER BY make      *)
(* them: each is its list read at certain places in a certain order.       *)
(***************************************************************************)
EXTENDS Integers, SequencesExt

CONSTANT None       \* what is absent

IsList(s) == s \in Seq(Range(s))

\* The members of a finite set in the order R: each is followed by those that
\* it comes before.
Enumerated(I, R) ==
    [k \in 1..Cardinality(I) |->
        CHOOSE i \in I : Cardinality({j \in I : <<j, i>> \in R}) = k - 1]

\* The numbers of a finite set, increasing.
Places(I) == Enumerated(I, {p \in I \X I : p[1] < p[2]})

\* The items at some of a list's places.
At(seq, I) == LET place == Places(I) IN [k \in DOMAIN place |-> seq[place[k]]]

\* [x for x in seq if Test(x)]
Selected(seq, Test(_)) == At(seq, {i \in DOMAIN seq : Test(seq[i])})

\* Later items whose key was seen are dropped.
KeepFirst(seq, Key(_)) ==
    At(seq, {i \in DOMAIN seq : \A j \in 1..(i - 1) : Key(seq[j]) # Key(seq[i])})

\* The places of a list when it is sorted: items that are alike stay in order.
SortedPlaces(seq, Before(_, _)) ==
    Enumerated(DOMAIN seq,
        {p \in (DOMAIN seq) \X (DOMAIN seq) :
            \/ Before(seq[p[1]], seq[p[2]])
            \/ p[1] < p[2] /\ ~Before(seq[p[2]], seq[p[1]])})

Sorted(seq, Before(_, _)) ==
    LET place == SortedPlaces(seq, Before)
    IN [k \in DOMAIN place |-> seq[place[k]]]

\* next((x for x in seq if Test(x)), None)
First(seq, Test(_)) ==
    LET i == SelectInSeq(seq, Test) IN IF i = 0 THEN None ELSE seq[i]

\* [F(x) for x in seq]
Each(seq, F(_)) == [i \in DOMAIN seq |-> F(seq[i])]

CountOf(seq, Test(_)) == Cardinality({i \in DOMAIN seq : Test(seq[i])})
SumOf(numbers) == FoldLeft(LAMBDA a, b : a + b, 0, numbers)

\* x or y
Either(x, y) == IF x # None THEN x ELSE y
===============================================================================
