----------------------------- MODULE MCFunctions -----------------------------
(* Small instances of Answers for TLC. *)
EXTENDS Answers

CONSTANTS v1, v2, drift, v3

\* Build 1 is named v1, builds 2 and 4 are both named v2; drift is a name that
\* sources or clients may use for any; nobody has version 3.
TheNames == {v1, v2, drift, v3}
TheOwnName == 1 :> v1 @@ 2 :> v2 @@ 4 :> v2
TheNameParts == v1 :> <<1, 2>> @@ v2 :> <<1, 10>> @@ drift :> <<1, 2, 1>>
                @@ v3 :> <<2>>

Request(code, name) == [code |-> code, name |-> name]
TheAsked ==
    {Request(None, None), Request(3, v3), Request(1, drift), Request(2, drift),
     Request(1, v2)}
    \cup
    UNION {{Request(b, n), Request(b, None), Request(None, n)} :
               <<b, n>> \in {<<1, v1>>, <<2, v2>>, <<4, v2>>}}
    \cup {Request(3, None), Request(None, v3)}

-----------------------------------------------------------------------------
(* Stores: a healthy one, and others in which two parts at most differ.      *)

Ok(body) == [http |-> "ok", body |-> body]
Bad(http, body) == [http |-> http, body |-> body]

\* A site in which the parts in the domain of variants may be replaced.
Varied(site, variants) ==
    LET parts == DOMAIN variants IN
    UNION {{[site EXCEPT ![p] = x, ![q] = y] :
                x \in variants[p] \cup {site[p]}, y \in variants[q] \cup {site[q]}} :
           p \in parts, q \in parts}

Lost(body) == {Bad(h, body) : h \in {"missing", "broken", "unreachable"}}
Refused(body) == Lost(body) \cup
    {Bad(h, body) : h \in {"denied", "refused", "garbled"}}

\* --- google-play
Data(base, splits, obbs) ==
    [error |-> None, value |-> [base |-> base, splits |-> splits, obbs |-> obbs]]
GoogleSite ==
    [token |-> None, dispenser |-> "ok",
     details |-> Got([app |-> [code |-> 2, name |-> v2]]),
     delivery |-> 1 :> Data(1, <<>>, <<>>) @@ 2 :> Data(2, <<2, None>>, <<2>>)
                  @@ 4 :> Data(4, <<4>>, <<>>)]
GoogleHealthy == {[GoogleSite EXCEPT !.token = t] : t \in {None, "good", "stale"}}
GoogleSites == GoogleHealthy \cup Varied(GoogleSite,
    [token     |-> {"good", "stale"},
     dispenser |-> {"down", "refused", "missing"},
     details   |-> {Got([app |-> a]) : a \in {None, [code |-> None, name |-> v2],
                                              [code |-> 1, name |-> v1]}}
                   \cup {Raised(w) : w \in {"not found", "auth", "other"}},
     delivery  |-> {1 :> Data(None, <<>>, <<>>) @@ 2 :> Data(2, <<>>, <<None>>),
                    1 :> Raised("not found") @@ 2 :> Raised("auth")}])

\* --- aptoide
Url(u, b) == [url |-> u, build |-> b]
Item(b, id, md5) == [code |-> b, name |-> TheOwnName[b], date |-> b, id |-> id,
                     md5 |-> md5]
App(b, splits, wanted) ==
    [code |-> b, name |-> TheOwnName[b], date |-> b, md5 |-> 10 + b,
     package |-> TRUE, base |-> Url(100 + b, b), splits |-> splits,
     wanted |-> wanted, obbs |-> <<Url(200 + b, b)>>]
Answer(app, versions) == [ok |-> TRUE, app |-> app, versions |-> versions]
AllItems == <<Item(2, 2, None), Item(4, 4, None), Item(1, None, 11)>>
AptoideByKey == 2 :> Ok(Answer(App(2, <<>>, FALSE), AllItems))
                @@ 4 :> Ok(Answer(App(4, <<>>, FALSE), AllItems))
                @@ 11 :> Ok(Answer(App(1, <<Url(101, 1), Url(301, 1)>>, FALSE),
                                   AllItems))
AptoideSite ==
    [byPackage |-> Ok(Answer(App(2, <<>>, TRUE), AllItems)),
     search    |-> Ok(<<[own |-> FALSE, id |-> 7], [own |-> TRUE, id |-> 2]>>),
     byKey     |-> AptoideByKey,
     dynamic   |-> Ok([ok |-> TRUE, splits |-> <<Url(302, 2), Url(None, 2)>>])]
AptoideHealthy == {[AptoideSite EXCEPT !.byPackage = p] :
    p \in {AptoideSite.byPackage, Bad("missing", None)}}
AptoideSites == AptoideHealthy \cup Varied(AptoideSite,
    [byPackage |-> Refused(None) \cup
        {Ok([Answer(None, <<>>) EXCEPT !.ok = ok]) : ok \in BOOLEAN} \cup
        {Ok(Answer([App(2, <<>>, TRUE) EXCEPT ![f] = x], AllItems)) :
            <<f, x>> \in {<<"package", FALSE>>, <<"base", None>>,
                          <<"md5", None>>, <<"code", None>>}} \cup
        {Ok(Answer(App(2, <<>>, FALSE), <<Item(1, None, None)>>))},
     search    |-> Refused(None) \cup {Ok(<<>>), Ok(<<[own |-> TRUE, id |-> None]>>)},
     byKey     |-> {2 :> Bad("broken", None)},
     dynamic   |-> Refused(None) \cup {Ok([ok |-> FALSE, splits |-> <<>>])}])

\* --- apkmirror
Row(n, own) == [own |-> own, name |-> n, release |-> n, date |-> None]
Page(code, name, button) == [code |-> code, name |-> name, button |-> button]
Variant(u, b, bundle, page) == [url |-> u, build |-> b, bundle |-> bundle,
                                page |-> page]
Release(b) == Ok(<<Variant(b, b, FALSE, Ok(Page(b, TheOwnName[b], TRUE))),
                   Variant(b, b, TRUE, Ok(Page(b, TheOwnName[b], TRUE)))>>)
MirrorSite ==
    [search   |-> Ok(TRUE),
     uploads  |-> <<Ok(<<Row(v2, TRUE), Row(v3, FALSE)>>),
                    Ok(<<Row(v2, TRUE), Row(v1, TRUE)>>)>>,
     total    |-> 2,
     releases |-> v1 :> Release(1) @@ v2 :> Release(2),
     final    |-> Ok("ok"),
     MaxPages |-> 2]
\* The release of v2 has both builds of it, in bundles, the higher one last.
Variants == Ok(<<Variant(2, 2, TRUE, Ok(Page(2, v2, TRUE))),
                 Variant(4, 4, TRUE, Ok(Page(None, v2, TRUE)))>>)
\* v1 is published under another URL than the constructed one.
Renamed == [MirrorSite EXCEPT
    !.uploads[2] = Ok(<<[Row(v1, TRUE) EXCEPT !.release = "moved"]>>),
    !.releases = "moved" :> Release(1) @@ v2 :> Release(2)]
MirrorHealthy == {MirrorSite, Renamed,
    [MirrorSite EXCEPT !.releases = v1 :> Release(1) @@ v2 :> Variants]}
MirrorSites == MirrorHealthy \cup Varied(MirrorSite,
    [search   |-> Lost(FALSE) \cup {Ok(FALSE)},
     uploads  |-> {<<Ok(<<Row(None, TRUE)>>), Bad("broken", <<>>)>>,
                   <<Ok(<<>>), Ok(<<>>)>>},
     total    |-> {1, 3},
     releases |-> {v1 :> Release(1), v2 :> Ok(<<>>),
                   v1 :> Ok(<<Variant(1, 1, FALSE, Bad("missing", None))>>),
                   v2 :> Ok(<<Variant(1, 2, TRUE, Ok(Page(None, None, TRUE)))>>),
                   v2 :> Ok(<<Variant(1, 2, TRUE, Ok(Page(2, v2, FALSE)))>>)},
     final    |-> Lost("ok") \cup {Ok("no link"), Ok("no redirect")}])

\* --- APKPure.  9 is the installer, 8 another package.
Link(anchor, path, stub, build) ==
    [anchor |-> anchor, path |-> path, stub |-> stub, type |-> None,
     disposition |-> "XAPK", build |-> build]
Installer == Link(TRUE, "custom", TRUE, 9)
LinkTo(b) == Ok(<<Installer, Link(TRUE, "b", FALSE, b)>>)
TextOnly(b) == Ok(<<Installer, Link(FALSE, "b", FALSE, b)>>)
NoLink == Ok(<<Installer, Link(TRUE, "none", FALSE, 8)>>)
Listed(own, b) == [own |-> own, code |-> b, type |-> "APK",
                   name |-> IF b \in Codes THEN TheOwnName[b] ELSE v3, build |-> b]
Nameless(b) == [Listed(TRUE, b) EXCEPT !.name = None]
Foreign == [Listed(FALSE, 1) EXCEPT !.build = 8]
Detail(b) == [other |-> FALSE, code |-> b, name |-> TheOwnName[b],
              asset |-> [type |-> "XAPK", build |-> b]]
Payload(detail) == [detail |-> detail, text |-> "other"]
Anchor(b) == [name |-> TheOwnName[b], type |-> "APK", build |-> b]
PureSite ==
    [api      |-> Ok(Payload(Detail(2))),
     proto    |-> Ok(<<Anchor(4), Anchor(2), Anchor(1)>>),
     search   |-> Ok(TRUE),
     detail   |-> Ok([code |-> 2, name |-> v2, type |-> "XAPK"]),
     versions |-> Ok(<<Foreign, Listed(TRUE, 4), Listed(TRUE, 2), Listed(TRUE, 1)>>),
     pages    |-> v1 :> LinkTo(1) @@ v2 :> LinkTo(2),
     button   |-> LinkTo(2),
     heads    |-> [t \in Types |-> t]]
PureHealthy ==
    {[PureSite EXCEPT !.pages = p, !.button = b] :
        p \in {PureSite.pages, v1 :> TextOnly(1) @@ v2 :> LinkTo(4)},
        b \in {LinkTo(2), TextOnly(2), NoLink}}
    \cup {[PureSite EXCEPT !.button = NoLink, !.heads = [t \in Types |-> None]],
          [PureSite EXCEPT !.versions = Ok(<<Listed(TRUE, 2), Nameless(4), Nameless(1)>>),
                           !.pages = v1 :> LinkTo(1) @@ v2 :> LinkTo(2)
                                     @@ 4 :> LinkTo(4) @@ 1 :> TextOnly(1)]}
PureVariants ==
    [api      |-> Refused(None) \cup
        {Ok([detail |-> None, text |-> w]) : w \in {"auth", "not_found", "other"}} \cup
        {Ok(Payload([Detail(2) EXCEPT ![f] = x])) :
            <<f, x>> \in {<<"other", TRUE>>, <<"asset", None>>, <<"code", None>>,
                          <<"asset", [type |-> "OBB", build |-> 2]>>,
                          <<"asset", [type |-> "APK", build |-> None]>>}} \cup
        {Ok(Payload([Detail(2) EXCEPT !.code = None, !.name = None]))},
     proto    |-> Refused(<<>>) \cup
        {Ok(<<>>), Ok(<<[Anchor(2) EXCEPT !.type = None], Anchor(1)>>)},
     search   |-> Lost(FALSE) \cup {Ok(FALSE), Bad("denied", FALSE)},
     detail   |-> Lost(None) \cup
        {Ok([code |-> c, name |-> n, type |-> t]) : c \in {2, None},
            n \in {v2, None}, t \in {None, "APK"}},
     versions |-> Lost(<<>>) \cup {Ok(<<Foreign>>), Ok(<<Listed(TRUE, 2)>>),
        Ok(<<Listed(TRUE, 1), [Listed(TRUE, 1) EXCEPT !.build = None]>>),
        Ok(<<Nameless(1)>>)},
     pages    |-> {v1 :> LinkTo(1), v1 :> NoLink, v1 :> TextOnly(1), 1 :> LinkTo(1),
                   v1 :> Ok(<<[Link(TRUE, "b", FALSE, 1) EXCEPT !.type = "APKS"]>>)},
     button   |-> Lost(<<>>) \cup {NoLink, TextOnly(2), Bad("denied", <<>>),
                   Ok(<<[Link(TRUE, "b", FALSE, 2) EXCEPT !.disposition = None]>>)},
     heads    |-> {[t \in Types |-> None], [t \in Types |-> "XAPK"],
                   [t \in Types |-> "other"]}]
PureSites(parts) == PureHealthy \cup
    Varied(PureSite, [p \in parts |-> PureVariants[p]])

TheSites ==
    "google-play" :> GoogleSites @@ "aptoide" :> AptoideSites
    @@ "apkmirror" :> MirrorSites
    @@ "apkpure-signed" :> PureSites({"api", "search", "versions", "pages"})
    @@ "apkpure-web" :> PureSites({"search", "detail", "versions", "pages",
                                   "button", "heads"})
    @@ "apkpure-proto" :> PureSites({"proto"})
TheHealthySites ==
    "google-play" :> GoogleHealthy @@ "aptoide" :> AptoideHealthy
    @@ "apkmirror" :> MirrorHealthy @@ "apkpure-signed" :> PureHealthy
    @@ "apkpure-web" :> PureHealthy @@ "apkpure-proto" :> PureHealthy

-----------------------------------------------------------------------------
(* Worlds for the tables: what one source lists, the others being silent, and  *)
(* what they list together.                                                   *)

PureDown == [PureSite EXCEPT !.search = Bad("broken", FALSE),
                             !.api = Bad("broken", None), !.proto = Bad("broken", <<>>)]
Nothing ==
    [web      |-> PureDown,
     aptoide  |-> [AptoideSite EXCEPT !.byPackage = Bad("broken", None)],
     mirror   |-> [MirrorSite EXCEPT !.search = Bad("missing", FALSE)],
     google   |-> [GoogleSite EXCEPT !.dispenser = "down"],
     appmagic |-> [plain |-> Bad("denied", <<>>), browser |-> Bad("broken", <<>>)]]
Event(n, d) == [name |-> n, date |-> d]
\* The mirror lists another date, and calls build 1 drift.
Drifting == [MirrorSite EXCEPT
    !.uploads = <<Ok(<<[Row(drift, TRUE) EXCEPT !.date = 3],
                       [Row(v2, TRUE) EXCEPT !.date = 4]>>)>>, !.total = 1,
    !.releases = drift :> Release(1) @@ v2 :> Release(2)]
TheWorlds ==
    {[Nothing EXCEPT !.web = [PureSite EXCEPT !.versions =
                        Ok(<<Listed(TRUE, 1)>>)]],
     [Nothing EXCEPT !.web = [PureSite EXCEPT !.versions =
                        Ok(<<[Listed(TRUE, 1) EXCEPT !.name = v2],
                             [Listed(TRUE, 2) EXCEPT !.name = drift]>>)]],
     [Nothing EXCEPT !.aptoide = AptoideSite],
     [Nothing EXCEPT !.mirror = Drifting],
     [Nothing EXCEPT !.google = GoogleSite],
     [Nothing EXCEPT !.appmagic.plain = 
        Ok(<<Event(drift, 6), Event(v1, 5), Event(drift, None), Event(drift, 7)>>)],
     [Nothing EXCEPT !.appmagic.browser = Ok(<<Event(v2, None)>>),
                     !.mirror = Drifting]}
TheRequests == TheAsked

-----------------------------------------------------------------------------
(* Tables of jobs for the monitor; it is 2:00 of day 3, days have 24 seconds   *)
(* for the tables of the first kind.                                          *)

Job(status, package, provider, path, errors, created, started, finished) ==
    [status |-> status, package |-> package, provider |-> provider,
     path |-> path, errors |-> errors, created |-> created, started |-> started,
     finished |-> finished, updated |-> finished]
Misses == <<[provider |-> "aptoide", error |-> "NOT_FOUND"],
            [provider |-> None, error |-> None]>>
TheJobs ==
    {Job("queued", "p", None, None, <<>>, 3 * 86400, None, None),
     Job("running", "p", None, None, <<>>, 200000, 200005, None),
     Job("failed", "p", None, None, Misses, 86400 + 5, 86400 + 9, 90000),
     Job("failed", "q", None, None, <<>>, 3 * 86400 + 5, 3 * 86400 + 9,
         3 * 86400 + 9),
     Job("succeeded", "p", "aptoide", None, <<>>, 86399, 86400, 86405),
     Job("succeeded", "q", None, "apkmirror", <<>>, 2 * 86400, 180000, 180061),
     Job("succeeded", "q", None, None, <<>>, 3 * 86400, 3 * 86400 + 4,
         3 * 86400 + 2)}

\* Downloads of one day that took these times.
Took(times) == [i \in DOMAIN times |->
    Job("succeeded", "p", "aptoide", None, <<>>, 3 * 86400, 3 * 86400 + 10,
        3 * 86400 + 10 + times[i])]

Shot(jobs, days) == [jobs |-> jobs, days |-> days, now |-> 3 * 86400 + 7200,
    versions |-> <<[package |-> "p", loadable |-> TRUE],
                   [package |-> "p", loadable |-> FALSE]>>,
    states |-> <<[owner |-> "w", lease |-> None], [owner |-> None, lease |-> None],
                 [owner |-> "w", lease |-> 9]>>]
TheSnapshots ==
    {Shot(jobs, days) : jobs \in BoundedSeq(TheJobs, 3), days \in {1, 2, 3}}
    \cup {Shot(Took(times), 1) : times \in [1..4 -> {0, 4, 5, 29, 60, 600}]}
===============================================================================
