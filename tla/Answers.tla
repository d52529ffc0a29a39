-------------------------------- MODULE Answers --------------------------------
(***************************************************************************)
(* What the service answers: one provider asked for one version, or the    *)
(* monitor for a snapshot, is a question that is answered at once; without *)
(* a question the tables of VersionTables take their steps.                *)
(***************************************************************************)
EXTENDS VersionTables, Statistics

CONSTANTS
    Sites,          \* what each provider's store may be
    HealthySites,   \* of these, the stores that answer and list every version
    Asked,          \* the versions a provider is asked for
    Snapshots       \* [jobs, versions, states, now, days]

Provider == {"google-play", "aptoide", "apkmirror", "apkpure-signed",
             "apkpure-web", "apkpure-proto"}

ASSUME AnswersAssumption ==
    /\ DOMAIN Sites = Provider
    /\ \A p \in Provider : HealthySites[p] \subseteq Sites[p]

\* What the columns of the monitor's tables hold.  One clock dates the jobs and
\* the snapshot: no job is of a later day.
ASSUME SnapshotsAssumption ==
    /\ DaySeconds \in Nat \ {0} /\ ActiveLimit \in Nat /\ RecentLimit \in Nat
    /\ \A s \in Snapshots :
        /\ IsList(s.jobs) /\ s.now \in Int /\ s.days \in Nat \ {0}
        /\ \A job \in Range(s.jobs) :
            /\ job.status \in Status
            /\ IsList(job.errors)
            /\ job.created \in Int /\ Day(job.created) <= Day(s.now)
            /\ job.started \in Int \cup {None}
            /\ job.finished \in Int \cup {None}

-----------------------------------------------------------------------------
(***************************************************************************)
(* Truthful stores.  A plan can be no better than what it is made of, so   *)
(* what a store says of a build is assumed to be true of that build, or    *)
(* missing: nothing is assumed of what it leaves out, of what fails, or of *)
(* the rows and links that are of other packages.                          *)
(***************************************************************************)
\* A code and a name are those of build b, as far as they are given.
IsOf(label, b) == label.code \in {None, b} /\ label.name \in {None, OwnName[b]}

\* A page with a status that _request_json knows, and one that a browser shows.
IsPage(page) == page.http \in {"ok"} \cup DOMAIN Refusal
Shows(page) == Loaded(page).error = None

\* delivery of a versionCode leads to the build that has it.
GoogleTrue(store) ==
    /\ \A code \in DOMAIN store.delivery :
        LET data == store.delivery[code] IN data.error = None =>
            /\ code \in Codes
            /\ IsList(data.value.splits) /\ IsList(data.value.obbs)
            /\ {data.value.base} \cup Range(data.value.splits)
                    \cup Range(data.value.obbs) \subseteq {code, None}
    /\ LET details == store.details IN
        details.error = None /\ details.value.app # None =>
            \E b \in Codes : IsOf(details.value.app, b)

\* The URLs of an app lead to one build, those of its dynamic splits too.
AppTrue(store, app, b) ==
    /\ IsOf(app, b)
    /\ IsList(app.splits) /\ IsList(app.obbs)
    /\ app.base # None => app.base.build = b
    /\ \A url \in Range(app.splits) \cup Range(app.obbs) : url.build = b
    /\ /\ app.splits = <<>> /\ app.wanted /\ app.md5 # None
       /\ store.dynamic.http = "ok" /\ store.dynamic.body.ok
       => /\ IsList(store.dynamic.body.splits)
          /\ \A url \in Range(store.dynamic.body.splits) : url.build = b

\* The pages on which aptoide shows an app.
AppPages(store) == {page \in {store.byPackage} \cup Range(store.byKey) : page.http = "ok"}

\* An item of versions leads, by its id and by its md5, to the app it is about.
AptoideTrue(store) ==
    /\ IsPage(store.byPackage) /\ IsPage(store.search) /\ IsPage(store.dynamic)
    /\ \A page \in Range(store.byKey) : IsPage(page)
    /\ store.search.http = "ok" => IsList(store.search.body)
    /\ \A page \in AppPages(store) :
        /\ page.body.app # None =>
                \E b \in Codes : AppTrue(store, page.body.app, b)
        /\ IsList(page.body.versions)
        /\ \A item \in Range(page.body.versions) :
           \A key \in {item.id, item.md5} \cap DOMAIN store.byKey :
            LET found == store.byKey[key] IN
            found.http = "ok" /\ found.body.app # None =>
                \E b \in Codes : IsOf(item, b) /\ AppTrue(store, found.body.app, b)

\* The variants on a release page are builds that have the release's name.
ReleaseTrue(site, release, name) ==
    release \in DOMAIN site.releases /\ Shows(site.releases[release]) =>
        /\ IsList(site.releases[release].body)
        /\ \A v \in Range(site.releases[release].body) :
            /\ v.build \in Codes /\ OwnName[v.build] = name
            /\ Shows(v.page) => IsOf(v.page.body, v.build)

\* A release page is found under the URL constructed from its name, if there, and
\* under the one that the list gives for the name.
MirrorTrue(site) ==
    /\ PagesRead(site) \in Nat
    /\ \A name \in Names : ReleaseTrue(site, name, name)
    /\ \A i \in 1..PagesRead(site) : Shows(site.uploads[i]) =>
        /\ IsList(site.uploads[i].body)
        /\ \A row \in Range(site.uploads[i].body) :
            row.own /\ row.name # None => ReleaseTrue(site, row.release, row.name)

\* A link that may be taken for a package's: under /b/, or not the installer's.
MayBePackage(url) ==
    url.path = "b" \/ (url.anchor /\ url.path # "none" /\ ~url.stub)

\* The download page of a name leads to a build that has it, that of a code to the
\* build, and the detail page's button to the build that the page shows.
PureTrue(site) ==
    /\ IsPage(site.api) /\ IsPage(site.proto)
    /\ site.api.http = "ok" =>
        LET detail == site.api.body.detail IN detail # None /\ ~detail.other =>
            \E b \in Codes :
                /\ IsOf(detail, b)
                /\ detail.asset # None => detail.asset.build \in {None, b}
    /\ site.proto.http = "ok" =>
        /\ IsList(site.proto.body)
        /\ \A a \in Range(site.proto.body) : a.type \in Types /\ a.build # None =>
            a.build \in Codes /\ a.name = OwnName[a.build]
    /\ Shows(site.versions) =>
        /\ IsList(site.versions.body)
        /\ \A row \in Range(site.versions.body) : row.own =>
            \E b \in Codes : IsOf(row, b) /\ row.build \in {None, b}
    /\ \A key \in DOMAIN site.pages : Shows(site.pages[key]) =>
        /\ IsList(site.pages[key].body)
        /\ \A url \in Range(site.pages[key].body) : MayBePackage(url) =>
            /\ url.build \in Codes
            /\ key \in Names => OwnName[url.build] = key
            /\ key \in Codes => url.build = key
    /\ Shows(site.button) => IsList(site.button.body)
    /\ Shows(site.detail) =>
        \E b \in Codes :
            /\ IsOf(site.detail.body, b)
            /\ Shows(site.button) =>
                \A url \in Range(site.button.body) :
                    MayBePackage(url) => url.build = b

ASSUME StoresAssumption ==
    /\ None \notin {"raised"} \cup ErrorCode \cup Types
    /\ \A site \in Sites["google-play"] : GoogleTrue(site)
    /\ \A site \in Sites["aptoide"] : AptoideTrue(site)
    /\ \A site \in Sites["apkmirror"] : MirrorTrue(site)
    /\ \A p \in {"apkpure-signed", "apkpure-web", "apkpure-proto"} :
            \A site \in Sites[p] : PureTrue(site)

-----------------------------------------------------------------------------
(***************************************************************************)
(* Healthy stores: truthful ones that answer and list every build of       *)
(* Codes.                                                                  *)
(***************************************************************************)
\* Whatever token is cached, the dispenser has a good one.
GoogleServes(store) ==
    /\ store.dispenser = "ok"
    /\ store.details.error = None /\ store.details.value.app # None
    /\ store.details.value.app.code \in Codes
    /\ Codes \subseteq DOMAIN store.delivery
    /\ \A code \in Codes :
        LET data == store.delivery[code] IN
        data.error = None /\ data.value.base # None /\ None \notin Range(data.value.obbs)

\* Each page that is shown has an app with its package, and lists every build by
\* an item that leads to another page.  A package that is not found directly is
\* found by the search.
AptoideServes(store) ==
    /\ \A page \in AppPages(store) :
        LET app == page.body.app IN
        /\ page.body.ok /\ app # None
        /\ app.package /\ app.base # None
        /\ app.wanted => store.dynamic.http = "ok"
        /\ None \notin Range(page.body.versions)
        /\ \A item \in Range(page.body.versions) :
            \/ item.id \in DOMAIN store.byKey
            \/ item.id = None /\ item.md5 \in DOMAIN store.byKey
        /\ \A b \in Codes : \E item \in Range(page.body.versions) :
            item.code = b /\ item.name = OwnName[b]
    /\ \A page \in Range(store.byKey) : page.http = "ok"
    /\ None \notin DOMAIN store.byKey
    /\ \/ store.byPackage.http = "ok"
       \/ /\ store.byPackage.http = "missing" /\ store.search.http = "ok"
          /\ None \notin Range(store.search.body)
          /\ \E item \in Range(store.search.body) : item.own
          /\ \A item \in Range(store.search.body) :
                item.own => item.id \in DOMAIN store.byKey

\* Each build's name is in the list, and the release pages that the list gives
\* have a variant with a button.
MirrorServes(site) ==
    /\ Shows(site.search) /\ site.search.body
    /\ Shows(site.final) /\ site.final.body = "ok"
    /\ Codes # {}
    /\ \A i \in 1..PagesRead(site) :
        /\ Shows(site.uploads[i])
        /\ \A row \in Range(site.uploads[i].body) : row.own /\ row.name # None =>
            /\ row # None
            /\ row.release \in DOMAIN site.releases
            /\ Shows(site.releases[row.release])
            /\ site.releases[row.release].body # <<>>
            /\ None \notin Range(site.releases[row.release].body)
            /\ \A v \in Range(site.releases[row.release].body) :
                Shows(v.page) /\ v.page.body.button
    /\ \A b \in Codes : \E i \in 1..PagesRead(site) :
        \E row \in Range(site.uploads[i].body) : row.own /\ row.name = OwnName[b]

\* A download page with a link.
Linked(site, key) ==
    /\ key \in DOMAIN site.pages /\ Shows(site.pages[key])
    /\ None \notin Range(site.pages[key].body)
    /\ \E url \in Range(site.pages[key].body) : MayBePackage(url)

\* Each build is a row of the list; its name has such a page, and so has the code
\* of a row without a name.
VersionsServe(site) ==
    /\ Shows(site.search) /\ site.search.body
    /\ Shows(site.versions)
    /\ \A row \in Range(site.versions.body) : row.own =>
        /\ row # None /\ row.type # None
        /\ row.name = None => Linked(site, row.code)
    /\ \A b \in Codes :
        /\ \E row \in Range(site.versions.body) : row.own /\ row.code = b
        /\ Linked(site, OwnName[b])

\* And the latest one is shown with its type.
SignedServes(site) ==
    /\ VersionsServe(site)
    /\ site.api.http = "ok"
    /\ LET detail == site.api.body.detail IN
        /\ detail # None /\ ~detail.other /\ detail.asset # None
        /\ detail.asset.type \in Types /\ detail.asset.build # None
WebServes(site) ==
    /\ VersionsServe(site)
    /\ Shows(site.detail) /\ Shows(site.button)
    /\ site.detail.body.code # None /\ site.detail.body.type \in Types
ProtoServes(site) ==
    /\ site.proto.http = "ok" /\ Codes # {}
    /\ \A a \in Range(site.proto.body) :
            a.type \in Types => a # None /\ a.build # None
    /\ \A b \in Codes : \E a \in Range(site.proto.body) :
        a.type \in Types /\ a.name = OwnName[b]

ASSUME HealthAssumption ==
    /\ \A site \in HealthySites["google-play"] : GoogleServes(site)
    /\ \A site \in HealthySites["aptoide"] : AptoideServes(site)
    /\ \A site \in HealthySites["apkmirror"] : MirrorServes(site)
    /\ \A site \in HealthySites["apkpure-signed"] : SignedServes(site)
    /\ \A site \in HealthySites["apkpure-web"] : WebServes(site)
    /\ \A site \in HealthySites["apkpure-proto"] : ProtoServes(site)

-----------------------------------------------------------------------------
\* A name that is asked for is a version's name, but any code may come with it: a
\* versionName has several versionCodes, and sources spell a name differently.
ASSUME RequestsAssumption ==
    \A request \in Asked : request.name \in Names \cup {None}

-----------------------------------------------------------------------------

VARIABLES
    question,   \* None, [provider, site, request] or [snapshot]
    answer      \* None until it is answered

asked == <<question, answer>>

\* The provider classes' get_download_plan
GetPlan(p, site, request) ==
    CASE p = "google-play"    -> GooglePlan(site, request)
      [] p = "aptoide"        -> AptoidePlan(site, request)
      [] p = "apkmirror"      -> MirrorPlan(site, request)
      [] p = "apkpure-signed" -> SignedPlan(site, request)
      [] p = "apkpure-web"    -> WebPlan(site, request)
      [] p = "apkpure-proto"  -> ProtoPlan(site, request)

\* and get_package_info.
GetInfo(p, site, request) ==
    CASE p = "google-play"    -> GoogleInfo(site, request)
      [] p = "aptoide"        -> AptoideInfo(site, request)
      [] p = "apkmirror"      -> MirrorInfo(site, request)
      [] p = "apkpure-signed" -> SignedInfo(site, request)
      [] p = "apkpure-web"    -> WebInfo(site, request)
      [] p = "apkpure-proto"  -> ProtoInfo(site, request)

\* MonitorService.snapshot, of tables that do not change meanwhile.
Snapshot(s) ==
    [overview  |-> Overview(s.versions, s.jobs, s.states, s.now),
     tasks     |-> Tasks(s.jobs, s.now),
     providers |-> Providers(
                       WindowJobs(s.jobs, s.now, s.days)),
     analytics |-> Analytics(
                       WindowJobs(s.jobs, s.now, s.days),
                       s.now, s.days)]

AskedProvider == question # None /\ "provider" \in DOMAIN question
AskedMonitor  == question # None /\ "snapshot" \in DOMAIN question

AnswersInit ==
    /\ Init
    /\ answer = None
    /\ \/ question = None
       \/ \E p \in Provider : \E site \in Sites[p], request \in Asked :
            question = [provider |-> p, site |-> site, request |-> request]
       \/ \E s \in Snapshots : question = [snapshot |-> s]

AskProvider ==
    /\ AskedProvider /\ answer = None
    /\ answer' = [plan |-> GetPlan(question.provider, question.site,
                                   question.request),
                  info |-> GetInfo(question.provider, question.site,
                                   question.request)]
    /\ UNCHANGED <<vars, question>>

AskMonitor ==
    /\ AskedMonitor /\ answer = None
    /\ answer' = Snapshot(question.snapshot)
    /\ UNCHANGED <<vars, question>>

KeepTables == question = None /\ Next /\ UNCHANGED asked

AnswersNext == AskProvider \/ AskMonitor \/ KeepTables

AnswersSpec == AnswersInit /\ [][AnswersNext]_<<vars, asked>>

-----------------------------------------------------------------------------
(***************************************************************************)
(* Properties                                                              *)
(***************************************************************************)
ProviderAnswered == AskedProvider /\ answer # None
MonitorAnswered  == AskedMonitor /\ answer # None

Planned == ProviderAnswered /\ answer.plan.error = None
Files   == Range(answer.plan.value.files)

\* The builds a request is for: any, if it has neither a code nor a name.
Exactly(request) ==
    IF request.code # None THEN {request.code}
    ELSE {b \in Codes : request.name \in {None, OwnName[b]}}

\* The name a request is for.
NameMeant(request) ==
    IF request.name # None THEN request.name
    ELSE IF request.code \in Codes THEN OwnName[request.code] ELSE None

\* These have a file for each code.  The others look for a name, and under it is
\* whatever build the store chose, if several have the name.
KeyedByCode == {"google-play", "aptoide"}
Meant(p, request) ==
    Exactly(request) \cup {b \in Codes : /\ p \notin KeyedByCode
                                       /\ OwnName[b] = NameMeant(request)}

\* Whatever fails, is missing or falls back on the way, none of a plan's files is
\* of another version than the one asked for, of another package or the store's
\* own installer.  (An URL made without an apkid leads to no package.)  By code,
\* that is the code's build from google-play and aptoide.  APKMirror and APKPure
\* may answer a code with another build of the same name; they never answer with
\* one that has neither the code nor the name.  The version shown as the
\* package's has the code asked for, or else the name, except by Aptoide, which
\* shows the current one.
RightBuild ==
    /\ Planned => \A f \in Files : f.build # None =>
            f.build \in Meant(question.provider, question.request)
    /\ /\ ProviderAnswered
       /\ question.provider # "aptoide"
       /\ answer.info.error = None
       /\ answer.info.value.code # None
       => answer.info.value.code \in Exactly(question.request)

\* A plan's label, from which the artifact's place in the store is made, is true of
\* its files, or it is what the client asked for: a name is never another one than
\* the files' own or the request's, nor is a code, and the providers that have a
\* file for each code give no other.  Where APKMirror or APKPure put the
\* requested code on another build of the name, the ledger does not learn it: the
\* code in the manifest that is recorded is the code of what was downloaded.
LabelsTrue ==
    Planned =>
        LET plan    == answer.plan.value
            request == question.request
        IN /\ \A f \in Files : f.build # None =>
                /\ f.build \in Codes
                /\ plan.name \in {None, OwnName[f.build], request.name}
                /\ \/ plan.code \in {None, f.build}
                   \/ /\ question.provider \notin KeyedByCode
                      /\ plan.code = request.code
           /\ \A manifest \in Manifests(plan) :
                manifest[2] \in {None, plan.files[1].build}

\* The versionCode of the package's latest version on an APKPure site.
LatestCode(p, site) ==
    IF p = "apkpure-signed" THEN site.api.body.detail.code
    ELSE site.detail.body.code

\* What each provider says it supports.  A code is enough for google-play and
\* aptoide, whatever name comes with it, and for the latest version of
\* apkpure-signed and apkpure-web; apart from it these need a name that is
\* spelt as theirs, or no name, and apkmirror and apkpure-proto need the name.
Supported(p, site, request) ==
    LET named == request.name \in {OwnName[b] : b \in Codes}
        any   == request.code = None /\ request.name = None
    IN CASE p = "google-play" ->
                \/ request.code \in Codes
                \/ /\ request.code = None
                   /\ request.name \in {None, site.details.value.app.name}
         [] p = "aptoide" ->
                request.code \in Codes \/ any \/ (request.code = None /\ named)
         [] p \in {"apkmirror", "apkpure-proto"} -> named \/ any
         [] OTHER ->
                \/ named \/ any
                \/ request.name = None /\ request.code \in Codes
                \/ /\ request.code # None
                   /\ request.code = LatestCode(p, site)

\* A store that answers and lists every version is enough: each request its
\* provider supports gets a plan with a package of the version in it, whichever
\* of the provider's ways leads there and whatever token is cached.
HealthyServes ==
    ProviderAnswered /\ question.site \in HealthySites[question.provider]
    /\ Supported(question.provider, question.site, question.request) =>
        /\ answer.plan.error = None
        /\ \E f \in Files : f.build \in Meant(question.provider, question.request)

Totals == answer.analytics.totals

\* The parts of a snapshot agree: the days' jobs add up to the totals, and so do
\* the packages'; the successes of the providers are those of the jobs whose
\* provider is known; the board shows the jobs that the overview counts.
SnapshotAgrees ==
    MonitorAnswered =>
        LET s     == question.snapshot
            Sum(items, F(_)) == SumOf(Each(items, F))
            board == answer.tasks
            Shown(list, status, limit) ==
                Len(list) = Min({answer.overview.jobs[status], limit})
        IN /\ \A field \in {"total", "succeeded", "failed"} :
                /\ Sum(answer.analytics.daily, LAMBDA d : d[field])
                        = Totals[field]
                /\ Sum(answer.analytics.perPackage, LAMBDA e : e.tally[field])
                        = Totals[field]
           /\ Totals.total = Totals.succeeded + Totals.failed
           /\ Sum(answer.providers, LAMBDA e : e.successes)
                + Len(Selected(s.jobs, LAMBDA j :
                        /\ j.status = "succeeded"
                        /\ HitProvider(j) = None
                        /\ j.created >= Cutoff(s.now, s.days)))
                = Totals.succeeded
           /\ Shown(board.running, "running", ActiveLimit)
           /\ Shown(board.queued, "queued", ActiveLimit)
           /\ Shown(board.failed, "failed", RecentLimit)
           /\ Shown(board.succeeded, "succeeded", RecentLimit)

\* The percentiles lie where percentiles must: in order, between the shortest and
\* the longest download, a package's p95 among its own; and each download is in
\* one bucket of the histogram.
PercentilesOrdered ==
    MonitorAnswered =>
        LET d    == answer.analytics.duration
            seen == Range(Durations(question.snapshot.jobs))
        IN /\ SumOf(d.histogram) = d.count
           /\ d.count > 0 =>
                /\ 100 * Min(seen) <= d.p50 /\ d.p50 <= d.p90
                /\ d.p90 <= d.p95 /\ d.p95 <= 100 * d.max
           /\ \A e \in Range(answer.analytics.perPackage) : e.p95 # None =>
                100 * Min(seen) <= e.p95 /\ e.p95 <= 100 * d.max
===============================================================================
