----------------------------- MODULE VersionTables -----------------------------
(***************************************************************************)
(* What the service knows about the versions of one package, and where it  *)
(* has it from: the tables versions and ledger, the collectors that fill   *)
(* the first one, the downloads that fill the second one, and the          *)
(* completion of a request from both.                                      *)
(*                                                                         *)
(* A world is what the sources answer at a time: [appmagic, aptoide, web,  *)
(* mirror, google], web being the site of ApkpurePlans and the last two    *)
(* those of StorePlans.  AppMagic's is [plain, browser], its answer to a   *)
(* plain request and to a browser, bodies the sequences of release events  *)
(* [name, date].  Rows of the APKMirror list and Aptoide's items have a    *)
(* date too.  Dates are numbers.                                           *)
(***************************************************************************)
EXTENDS ApkpurePlans, StorePlans

CONSTANTS
    Names,          \* version names
    Codes,          \* version codes, which name the builds too
    OwnName,        \* the name in the manifest of a build
    NameParts,      \* the numbers in a name, as _VERSION_PART finds them
    Worlds,         \* what the sources may answer
    Requests,       \* requests for a version
    MaxSteps        \* bound: collections and downloads

ASSUME TablesAssumption ==
    /\ Codes \subseteq Nat
    /\ IsFiniteSet(Names)
    /\ OwnName \in [Codes -> Names]
    /\ NameParts \in [Names -> Seq(Nat)]
    /\ None \notin Names
    /\ None \notin Nat
    /\ MaxSteps \in Nat

\* What can be read of a page that lists something is a list.
ASSUME WorldsAssumption == \A world \in Worlds :
    LET IsRead(answer, Of(_)) == answer.error = None => IsList(Of(answer.value))
        Itself(body) == body
    IN /\ IsRead(Loaded(world.web.versions), Itself)
       /\ IsRead(Requested(world.aptoide.byPackage, AptoideRefusal),
                 LAMBDA payload : payload.versions)
       /\ IsRead(Requested(world.appmagic.plain, Refusal), Itself)
       /\ IsRead(Requested(world.appmagic.browser, Refusal), Itself)
       /\ PagesRead(world.mirror) \in Nat
       /\ \A i \in 1..PagesRead(world.mirror) :
            IsRead(Loaded(world.mirror.uploads[i]), Itself)

VARIABLES
    rows,       \* table versions: the row of a name
    ledger,     \* table ledger: pairs of a name and a code
    told,       \* history: what the sources told, [source, name, code, date]
    steps       \* collections and downloads so far

vars == <<rows, ledger, told, steps>>

Source       == {"appmagic", "aptoide", "apkpure", "apkmirror"}
Downloadable == Source \ {"appmagic"}   \* Collector.downloadable
Dated        == {"appmagic"}            \* Collector.provides_release_date

\* The row of a name that has none.
NoRow == [listed |-> FALSE, code |-> None, release |-> None, first |-> None,
          last |-> None, loadable |-> FALSE]

Init ==
    /\ rows = [n \in Names |-> NoRow]
    /\ ledger = {}
    /\ told = {}
    /\ steps = 0

-----------------------------------------------------------------------------
(***************************************************************************)
(* Collectors: a record is [name, code, date, last].                       *)
(***************************************************************************)
Record(name, code, date, last) ==
    [name |-> name, code |-> code, date |-> date, last |-> last]

Named(items) == Selected(items, LAMBDA item : item.name # None)
OnePerName(items) == KeepFirst(Named(items), LAMBDA item : item.name)

\* _merge_dates over the events of a name.
Earliest(dates) == IF dates = {} THEN None ELSE Min(dates)
Latest(dates) == IF dates = {} THEN None ELSE Max(dates)

\* AppMagicCollector.collect: the browser is asked when the plain request is
\* refused, blocked or lost; a payload without releases has none.
AppmagicRecords(answer) ==
    LET payload == IF answer.plain.http \in {"ok", "garbled"}
                   THEN answer.plain ELSE answer.browser
        DatesOf(name) == {payload.body[i].date : i \in
            {j \in DOMAIN payload.body : payload.body[j].name = name}} \ {None}
    IN Then(Requested(payload, Refusal), LAMBDA events :
            Got(Each(OnePerName(events), LAMBDA e :
                Record(e.name, None, Earliest(DatesOf(e.name)),
                       Latest(DatesOf(e.name))))))

\* AptoideCollector: the current version, then the list.
AptoideRecords(store) ==
    Then(Requested(store.byPackage, AptoideRefusal), LAMBDA payload :
        LET current == IF payload.app = None THEN <<>> ELSE <<payload.app>>
        IN Got(Each(OnePerName(current \o payload.versions), LAMBDA item :
                    Record(item.name, item.code, item.date, item.date))))

\* APKPureCollector
ApkpureRecords(site) ==
    Then(Found(site), LAMBDA exact :
        Then(ListVersions(site), LAMBDA versions :
            Got(Each(Named(versions), LAMBDA v :
                     Record(v.name, v.code, None, None)))))

\* APKMirrorCollector: the list has no codes.
MirrorRecords(site) ==
    Then(Slugs(site), LAMBDA slugs :
        Then(ListUploads(site), LAMBDA versions :
            Got(Each(versions, LAMBDA v :
                     Record(v.name, None, v.date, v.date)))))

\* _gather, in the order of the collectors; a source that fails is left out.
Gathered(world) ==
    LET answers == << <<"apkpure", ApkpureRecords(world.web)>>,
                      <<"aptoide", AptoideRecords(world.aptoide)>>,
                      <<"apkmirror", MirrorRecords(world.mirror)>>,
                      <<"appmagic", AppmagicRecords(world.appmagic)>> >>
    IN Selected(answers, LAMBDA a : a[2].error = None)

-----------------------------------------------------------------------------
(***************************************************************************)
(* The table versions                                                      *)
(***************************************************************************)
\* Mutations: the last source to list a name decides if it can be downloaded;
\* what is stored already is kept.
UpsertedLoosely(row, source, rec) ==
    [listed   |-> TRUE,
     code     |-> Either(rec.code, row.code),
     release  |-> Either(IF source \in Dated THEN rec.date ELSE None,
                         row.release),
     first    |-> Either(row.first, rec.date),
     last     |-> Either(Either(rec.last, rec.date), row.last),
     loadable |-> source \in Downloadable]

\* _VERSIONS_UPSERT: the table's row and a source's record.
Upserted(row, source, rec) ==
    [listed   |-> TRUE,
     code     |-> Either(rec.code, row.code),
     release  |-> Either(IF source \in Dated THEN rec.date ELSE None,
                         row.release),
     first    |-> Either(row.first, rec.date),
     last     |-> Either(Either(rec.last, rec.date), row.last),
     loadable |-> row.loadable \/ source \in Downloadable]

\* _persist: each source's records, one after the other, in one transaction.
Put(table, source, rec) ==
    [table EXCEPT ![rec.name] = Upserted(@, source, rec)]
PutAll(table, answer) ==
    FoldLeft(LAMBDA t, rec : Put(t, answer[1], rec), table, answer[2].value)
Persisted(table, answers) == FoldLeft(PutAll, table, answers)

Collect(world) ==
    /\ steps < MaxSteps
    /\ steps' = steps + 1
    /\ rows' = Persisted(rows, Gathered(world))
    /\ told' = told \cup UNION {
            {[source |-> Gathered(world)[i][1], name |-> rec.name,
              code |-> rec.code, date |-> rec.date] :
                rec \in Range(Gathered(world)[i][2].value)} :
            i \in DOMAIN Gathered(world)}
    /\ UNCHANGED ledger

\* version_sort_key
SortKey(name) == IF NameParts[name] = <<>> THEN <<0>> ELSE NameParts[name]

\* One tuple of numbers is less than another.
Below(s, t) ==
    \E i \in 1..Len(t) :
        /\ \A j \in 1..(i - 1) : j <= Len(s) /\ s[j] = t[j]
        /\ Len(s) < i \/ (i <= Len(s) /\ s[i] < t[i])

\* Mutation: names are compared as if they had one number.
NewestFirstByMajor(m, n) == SortKey(m)[1] > SortKey(n)[1]

NewestFirst(m, n) == Below(SortKey(n), SortKey(m))

\* list_downloadable: the versions that GET /versions shows.
ListDownloadable ==
    LET names == Sorted(SetToSeq({n \in Names : rows[n].loadable}),
                         NewestFirst)
    IN Each(names, LAMBDA n : [name |-> n, code |-> rows[n].code,
                               date |-> Either(rows[n].release,
                                               rows[n].first)])

\* list_known_only: the gap list, which is not shown to clients.
ListKnownOnly ==
    LET names == Sorted(SetToSeq({n \in Names :
                                    rows[n].listed /\ ~rows[n].loadable}),
                         NewestFirst)
    IN Each(names, LAMBDA n : [name |-> n, date |-> rows[n].release])

-----------------------------------------------------------------------------
(***************************************************************************)
(* Downloads: a request is completed, planned by a provider, and the       *)
(* artifact's manifest is written to the ledger.                           *)
(***************************************************************************)
LedgerCodes(name) == {fact[2] : fact \in {f \in ledger : f[1] = name}}
Highest(codes) == CHOOSE c \in codes : \A d \in codes : d <= c

\* Mutation: the catalogue is asked first.
LookupCodeListed(name) ==
    IF rows[name].code = None /\ LedgerCodes(name) # {}
    THEN Highest(LedgerCodes(name)) ELSE rows[name].code

\* _lookup_code: the ledger's highest code, else the catalogue's.
LookupCode(name) ==
    IF LedgerCodes(name) # {} THEN Highest(LedgerCodes(name))
    ELSE rows[name].code

\* _lookup_name: any row that has the code, the ledger's first.
LookupNames(code) ==
    LET facts  == {fact[1] : fact \in {f \in ledger : f[2] = code}}
        listed == {n \in Names : rows[n].code = code}
    IN IF facts # {} THEN facts
       ELSE IF listed # {} THEN listed ELSE {None}

\* _complete: only a request that has one of the two is completed.
Completed(request) ==
    CASE request.code = None /\ request.name # None ->
            {[request EXCEPT !.code = LookupCode(request.name)]}
      [] request.code # None /\ request.name = None ->
            {[request EXCEPT !.name = n] : n \in LookupNames(request.code)}
      [] OTHER -> {request}

\* A manifest: the name and the code in it.
Own(build) == <<OwnName[build], build>>

\* What parse_artifact may find in what _finalize makes of a plan.  _expand_bundles
\* corrects the plan of a bundle by its info.json.  verify_artifact refuses a
\* package that comes as one XAPK or APKS and whose manifest.json, if it has one,
\* contradicts the plan; a bare APK has none and keeps its own manifest.  Into what
\* XapkBuilder packs, manifest.json is written from the plan.  A file that is none
\* of the package's builds is refused, or of no consequence here.
Manifests(plan) ==
    LET file   == plan.files[1]
        agrees == /\ plan.code \in {None, file.build}
                  /\ plan.name \in {None, OwnName[file.build]}
    IN IF file.build \notin Codes THEN {}
       ELSE IF Len(plan.files) > 1 THEN {<<plan.name, plan.code>>}
       ELSE {manifest \in {Own(file.build)} :
                file.type \in {"XAPK", "APKS"} => agrees}

\* _backfill_ledger and upsert: only complete facts, whose code is a number, and
\* INSERT OR IGNORE.
Backfilled(manifest) ==
    IF manifest[1] # None /\ manifest[2] \in Int THEN ledger \cup {manifest}
    ELSE ledger

Plans(world, request) ==
    {answer.value : answer \in {a \in {GooglePlan(world.google, request),
                                       AptoidePlan(world.aptoide, request),
                                       MirrorPlan(world.mirror, request),
                                       SignedPlan(world.web, request),
                                       WebPlan(world.web, request),
                                       ProtoPlan(world.web, request)} :
                                a.error = None}}

\* One provider's plan is downloaded and stored; a refused one changes nothing.
Download(world) ==
    /\ steps < MaxSteps
    /\ steps' = steps + 1
    /\ \E request \in Requests : \E completed \in Completed(request) :
        \E plan \in Plans(world, completed) : \E manifest \in Manifests(plan) :
            ledger' = Backfilled(manifest)
    /\ UNCHANGED <<rows, told>>

Next == \E world \in Worlds : Collect(world) \/ Download(world)

Spec == Init /\ [][Next]_vars

-----------------------------------------------------------------------------
(***************************************************************************)
(* Properties                                                              *)
(***************************************************************************)
Tells(name, sources) == {t \in told : t.name = name /\ t.source \in sources}
DatesTold(name, sources) == {t.date : t \in Tells(name, sources)} \ {None}
CodesTold(name) == {t.code : t \in Tells(name, Source)} \ {None}

\* GET /versions shows what the sources told, whatever the order in which they
\* told it and however often: each version some downloadable source listed, once,
\* newest first, with a code and a date if there was one, AppMagic's own if it
\* had one.
ListingTrue ==
    LET shown == ListDownloadable IN
    /\ {shown[i].name : i \in DOMAIN shown} =
            {n \in Names : Tells(n, Downloadable) # {}}
    /\ \A i, j \in DOMAIN shown : i < j =>
            /\ shown[i].name # shown[j].name
            /\ ~Below(SortKey(shown[i].name), SortKey(shown[j].name))
    /\ \A i \in DOMAIN shown :
        LET n   == shown[i].name
            own == DatesTold(n, Dated)
            any == DatesTold(n, Source)
        IN /\ IF CodesTold(n) = {} THEN shown[i].code = None
              ELSE shown[i].code \in CodesTold(n)
           /\ IF own # {} THEN shown[i].date \in own
              ELSE IF any # {} THEN shown[i].date \in any
              ELSE shown[i].date = None

\* Every version a source ever told of is in exactly one of the two lists: what
\* can be downloaded, and what is known of but cannot (the gap list, newest first
\* too), which shows AppMagic's date if AppMagic had one and no other's.
NothingUnlisted ==
    LET gaps == ListKnownOnly IN
    /\ {gaps[i].name : i \in DOMAIN gaps} =
            {n \in Names : Tells(n, Source) # {} /\ Tells(n, Downloadable) = {}}
    /\ \A i, j \in DOMAIN gaps : i < j =>
            /\ gaps[i].name # gaps[j].name
            /\ ~Below(SortKey(gaps[i].name), SortKey(gaps[j].name))
    /\ \A i \in DOMAIN gaps :
        LET own == DatesTold(gaps[i].name, Dated)
        IN IF own = {} THEN gaps[i].date = None ELSE gaps[i].date \in own

\* Once a download has shown which code a name has, completing the name never
\* gives a lower code, whatever the sources list later.
CompletionSettled ==
    [][\A n \in Names : LedgerCodes(n) # {} =>
            LookupCode(n)' >= LookupCode(n)]_vars
===============================================================================
