------------------------------ MODULE StorePlans ------------------------------
(***************************************************************************)
(* The providers google-play, aptoide and apkmirror, as functions of a     *)
(* request [code, name] and of what the store answers.                     *)
(***************************************************************************)
EXTENDS StoreAnswers

-----------------------------------------------------------------------------
(***************************************************************************)
(* google-play.  The store is a record:                                    *)
(*   token      the token file: None (absent, malformed or older than      *)
(*              TOKEN_TTL_SECONDS), "good" or "stale"                      *)
(*   dispenser  what the Aurora dispenser does: "ok", "down" (no answer,   *)
(*              or one that is not JSON), "refused" (a status other than   *)
(*              200 and 404, or no token in the answer) or "missing" (404) *)
(*   details    raised, or [app], app being None or [code, name]           *)
(*   delivery   for each versionCode: raised, or [base, splits, obbs], the *)
(*              builds of the URLs, None for an empty one                  *)
(* An exception that is not a ProviderException is [error |-> "raised"];   *)
(* its value, like that of a failure, is the word _classify_error looks    *)
(* for in its message.                                                     *)
(***************************************************************************)
Raised(word) == [error |-> "raised", value |-> word]
FailSaying(error, word) == [error |-> error, value |-> word]

\* _classify_error
Classified(word) == CASE word = "not found" -> "NOT_FOUND"
                      [] word = "auth"      -> "AUTH_ERROR"
                      [] OTHER              -> "NETWORK_ERROR"

\* A new token, which is written to the file.  The message of a failure quotes
\* httpx's, with the status and with the URL, .../api/auth/, or speaks of a token.
Dispensed(store) ==
    LET says == [down |-> "other", refused |-> "auth", missing |-> "not found"]
    IN IF store.dispenser = "ok" THEN Got("good")
       ELSE FailSaying("AUTH_ERROR", says[store.dispenser])

\* _token: the cached one, or a new one.
Token(store, forced) ==
    IF ~forced /\ store.token # None THEN Got(store.token) ELSE Dispensed(store)

\* _gp_call, of what its action does with the cached token and with a new one:
\* the second attempt follows an authentication error.  What that one raises is
\* classified by its message, a ProviderException too: a dispenser that is gone
\* (404) turns into a package that is.
GpCall(first, second) ==
    CASE first.error # "raised" -> first
      [] first.error = "raised" /\ Classified(first.value) # "AUTH_ERROR" ->
            Fail(Classified(first.value))
      [] OTHER -> IF second.error = None THEN second
                  ELSE Fail(Classified(second.value))

\* A call of the API with a token; a stale one is refused.
Api(token, answer) == IF token = "stale" THEN Raised("auth") ELSE answer

\* _app_details
AppDetails(store, token) ==
    Then(Api(token, store.details), LAMBDA details :
        Unless(details.app = None, "BAD_RESPONSE", Got(details.app)))

\* delivery, as _patch_gpapi replaces it, and _files: splits without an URL are
\* left out, an expansion file without one is an error.
Delivered(store, token, code) ==
    Then(Api(token, IF code \in DOMAIN store.delivery
                    THEN store.delivery[code] ELSE Raised("other")),
         LAMBDA data :
            LET splits == Selected(data.splits, LAMBDA b : b # None)
                Files(type, builds) ==
                    [i \in DOMAIN builds |-> File(type, builds[i])]
            IN IF data.base = None THEN Raised("other")
               ELSE Unless(None \in Range(data.obbs), "BAD_RESPONSE", Got(
                        <<File("BASE_APK", data.base)>>
                        \o Files("SPLIT_APK", splits)
                        \o Files("OBB", data.obbs))))

\* _check_version_name
OtherName(app, request) == request.name # None /\ request.name # app.name

\* _download_plan with a token: a versionCode is delivered as it is asked for,
\* without one only the latest version can be.
GooglePlanWith(store, request, token) ==
    IF request.code # None
    THEN Then(Delivered(store, token, request.code), LAMBDA files :
              Got(Plan(request.code, request.name, files)))
    ELSE Then(AppDetails(store, token), LAMBDA app :
         Unless(OtherName(app, request), "UNSUPPORTED",
         Unless(app.code = None, "BAD_RESPONSE",
         Then(Delivered(store, token, app.code), LAMBDA files :
              Got(Plan(app.code, app.name, files))))))

GooglePlan(store, request) ==
    LET Attempt(forced) == Then(Token(store, forced), LAMBDA token :
                                GooglePlanWith(store, request, token))
    IN GpCall(Attempt(FALSE), Attempt(TRUE))

\* get_package_info: _check_latest comes after the call and is not retried.
GoogleInfo(store, request) ==
    LET Attempt(forced) == Then(Token(store, forced), LAMBDA token :
                                Api(token, store.details))
    IN Then(GpCall(Attempt(FALSE), Attempt(TRUE)), LAMBDA d :
        Unless(d.app = None, "BAD_RESPONSE",
        Unless(request.code # None /\ request.code # d.app.code, "UNSUPPORTED",
        Unless(OtherName(d.app, request), "UNSUPPORTED",
        Got(Info(d.app.code, d.app.name, <<d.app>>))))))

-----------------------------------------------------------------------------
(***************************************************************************)
(* aptoide.  The store is a record:                                        *)
(*   byPackage  app/get by package name; its body is [ok, app, versions],  *)
(*              ok the status, app None or an app                          *)
(*   search     its body is the sequence of items [own, id]                *)
(*   byKey      app/get by app id or md5, one page for each key            *)
(*   dynamic    app/getDynamicSplits; its body is [ok, splits]             *)
(* An item of versions is [code, name, id, md5], an app [code, name, md5,  *)
(* package, base, splits, wanted, obbs]: package tells that it names its   *)
(* package, wanted that its split types are required.  An URL is           *)
(* [url, build].                                                           *)
(***************************************************************************)
\* _request_json: 401 and 403 are not told from other refusals.
AptoideRefusal == [Refusal EXCEPT !.denied = "BAD_RESPONSE"]

GetByKey(store, key) ==
    Requested(IF key \in DOMAIN store.byKey THEN store.byKey[key]
              ELSE [http |-> "missing", body |-> <<>>], AptoideRefusal)

\* _get_app_by_package_or_search: only NOT_FOUND leads to the search.
GetAppOrSearch(store) ==
    LET direct == Requested(store.byPackage, AptoideRefusal) IN
    IF direct.error # "NOT_FOUND" THEN direct
    ELSE Then(Requested(store.search, AptoideRefusal), LAMBDA items :
        LET exact == First(items, LAMBDA item : item.own) IN
        Unless(exact = None, "NOT_FOUND",
        Unless(exact.id = None, "BAD_RESPONSE",
        GetByKey(store, exact.id))))

\* _app_data
AppData(payload) == Unless(~payload.ok \/ payload.app = None, "BAD_RESPONSE",
                           Got(payload.app))

\* _matches: the code decides, then the name.
Matches(item, request) ==
    IF request.code # None THEN item.code = request.code
    ELSE request.name # None => item.name = request.name

\* _select_version: the current app, or one of the list, asked for by its id or
\* else its md5.
SelectApp(store, payload, request) ==
    Then(AppData(payload), LAMBDA current :
        IF Matches(current, request) THEN Got(current)
        ELSE LET item == First(payload.versions,
                               LAMBDA v : Matches(v, request))
                 key  == IF item.id # None THEN item.id ELSE item.md5
             IN Unless(item = None, "NOT_FOUND",
                Unless(key = None, "BAD_RESPONSE",
                Then(GetByKey(store, key), AppData))))

\* _dynamic_splits
DynamicSplits(store) ==
    Then(Requested(store.dynamic, AptoideRefusal),
         LAMBDA answer : Got(IF answer.ok THEN answer.splits ELSE <<>>))

\* _files: splits are asked for only if the app lists none and needs some; an URL
\* counts once, the base's too.
AptoideFiles(store, app) ==
    Unless(app.base = None, "BAD_RESPONSE",
    Then(IF app.splits = <<>> /\ app.wanted /\ app.md5 # None
         THEN DynamicSplits(store) ELSE Got(app.splits),
         LAMBDA splits :
            LET urls == KeepFirst(<<app.base>> \o Selected(splits, LAMBDA s :
                                        s.url # None), LAMBDA s : s.url)
            IN Got([i \in DOMAIN urls |->
                        File(IF i = 1 THEN "BASE_APK" ELSE "SPLIT_APK",
                             urls[i].build)]
                   \o [i \in DOMAIN app.obbs |->
                        File("OBB", app.obbs[i].build)])))

AptoidePlan(store, request) ==
    Then(GetAppOrSearch(store), LAMBDA payload :
        Then(SelectApp(store, payload, request), LAMBDA app :
            Unless(~app.package, "BAD_RESPONSE",
            Then(AptoideFiles(store, app), LAMBDA files :
                Got(Plan(app.code, app.name, files))))))

\* get_package_info shows the current app, whatever version is asked for, and
\* _versions the items that have a code or a name.
AptoideInfo(store, request) ==
    Then(GetAppOrSearch(store), LAMBDA payload :
        Then(AppData(payload), LAMBDA app :
            Unless(~app.package, "BAD_RESPONSE",
            Got(Info(app.code, app.name, Selected(payload.versions,
                LAMBDA v : v.code # None \/ v.name # None))))))

-----------------------------------------------------------------------------
(***************************************************************************)
(* apkmirror.  The site is a record:                                       *)
(*   search    its body tells if a result row has the package's icon       *)
(*   uploads   the pages of the list, of rows [own, name, release]         *)
(*   total     the number of pages the first one speaks of                 *)
(*   releases  the release pages, by URL; a body is the sequence of        *)
(*             variants [url, bundle, page], page being the variant's page *)
(*             with body [code, name, button]                              *)
(*   final     the page and the redirect behind the button; its body is    *)
(*             "ok", "no link" or "no redirect"                            *)
(*   MaxPages  list_versions' max_pages                                    *)
(* The constructed URL of a version's release page is the version's name.  *)
(***************************************************************************)
\* resolve_slugs and parse_app_slug
Slugs(site) == Then(Loaded(site.search), LAMBDA exact :
                    Unless(~exact, "NOT_FOUND", Got(TRUE)))

\* parse_uploads_versions
UploadsVersions(rows) ==
    KeepFirst(Selected(rows, LAMBDA row : row.own /\ row.name # None),
              LAMBDA row : row.name)

\* list_versions: all pages up to max_pages; a page that fails fails the list,
\* and a name listed twice is the one listed first.
PagesRead(site) ==
    IF site.total < site.MaxPages THEN site.total ELSE site.MaxPages
WithPage(listed, page) ==
    Then(listed, LAMBDA before :
        Then(Loaded(page), LAMBDA rows :
            Got(KeepFirst(before \o UploadsVersions(rows), LAMBDA row : row.name))))
ListUploads(site) ==
    FoldLeft(WithPage, Got(<<>>), [i \in 1..PagesRead(site) |-> site.uploads[i]])

\* parse_release_variants and select_variant
SelectVariant(variants) ==
    LET distinct == KeepFirst(variants, LAMBDA v : v.url)
        bundle   == First(distinct, LAMBDA v : v.bundle)
    IN IF bundle # None THEN bundle ELSE First(distinct, LAMBDA v : TRUE)

\* resolve_download_url, parse_download_page and resolve_r2_url.
ResolveDownload(site, release) ==
    Then(Loaded(IF release \in DOMAIN site.releases
                THEN site.releases[release]
                ELSE [http |-> "missing", body |-> <<>>]), LAMBDA variants :
        LET variant == SelectVariant(variants) IN
        Unless(variant = None, "NOT_FOUND",
        Then(Loaded(variant.page), LAMBDA page :
            Unless(~page.button, "BAD_RESPONSE",
            Then(Loaded(site.final), LAMBDA link :
                Unless(link # "ok", "BAD_RESPONSE",
                Got([code |-> page.code, name |-> page.name,
                     build |-> variant.build])))))))

\* _release_url
ReleaseUrl(site, request) ==
    IF request.name # None THEN Got(request.name)
    ELSE Unless(request.code # None, "NOT_FOUND",
         Then(ListUploads(site), LAMBDA versions :
              Unless(versions = <<>>, "NOT_FOUND", Got(versions[1].release))))

\* _resolve_download: whatever went wrong with the constructed URL, the list is
\* asked for the real one, and "no other URL" is NOT_FOUND.
ResolveOrList(site, request, release) ==
    LET direct == ResolveDownload(site, release) IN
    IF direct.error = None \/ request.name = None THEN direct
    ELSE Then(ListUploads(site), LAMBDA versions :
        LET match == First(versions, LAMBDA v : v.name = request.name) IN
        Unless(match = None, "NOT_FOUND",
        Unless(match.release = release, "NOT_FOUND",
        ResolveDownload(site, match.release))))

\* get_download_plan: the request's name and code come before the page's.
MirrorPlan(site, request) ==
    Then(Slugs(site), LAMBDA slugs :
        Then(ReleaseUrl(site, request), LAMBDA release :
            Then(ResolveOrList(site, request, release), LAMBDA download :
                Got(Plan(Either(request.code, download.code),
                         Either(request.name, download.name),
                         <<File("APKM", download.build)>>)))))

\* get_package_info and _select: a code alone is not found.
MirrorInfo(site, request) ==
    Then(Slugs(site), LAMBDA slugs :
        Then(ListUploads(site), LAMBDA versions :
            LET named == First(versions, LAMBDA v : v.name = request.name)
                version == IF request.name = None /\ request.code = None
                           THEN versions[1] ELSE named
            IN Unless(versions = <<>>, "NOT_FOUND",
               Unless(version = None, "NOT_FOUND",
               Got(Info(None, version.name, versions))))))
===============================================================================
