----------------------------- MODULE ApkpurePlans -----------------------------
(***************************************************************************)
(* The three APKPure providers, apkpure-signed, apkpure-web and            *)
(* apkpure-proto, and the scraper the first two share                      *)
(* (providers/apkpure_versions.py), as functions of a request and of what  *)
(* the site answers.                                                       *)
(*                                                                         *)
(* A request is [code, name].  The site is a record:                       *)
(*   api       the signed API; its body is [detail, text], detail being    *)
(*             None or [other, code, name, asset], asset None or           *)
(*             [type, build]                                               *)
(*   proto     the proto API; its body is the sequence of version anchors  *)
(*             [name, type, build], type None if no download follows       *)
(*   search    the search page; its body tells if it has an exact match    *)
(*   detail    the page found there, [code, name, type]                    *)
(*   versions  the /versions page, rows [own, code, name, type, build]     *)
(*   pages     the download pages, by versionName, or by versionCode for   *)
(*             a row that has no name                                      *)
(*   button    the download page the detail page's button leads to         *)
(*   heads     what HEAD says of a constructed URL of a type: None or the  *)
(*             type in the final URL                                       *)
(* A download page is a sequence of URLs [anchor, path, stub, type,        *)
(* disposition, build]: anchor if it is the href of an <a>, path "b",      *)
(* "custom" or "none" for a CDN path or another one, stub if it is the     *)
(* one-click installer.  Of a string in which a package type is looked for *)
(* only the type found is kept.                                            *)
(***************************************************************************)
EXTENDS StoreAnswers

Types == {"APK", "XAPK", "APKS"}

-----------------------------------------------------------------------------
(***************************************************************************)
(* apkpure_versions                                                        *)
(***************************************************************************)
\* search_result_url, after resolve_detail_url loaded the search page.
Found(site) ==
    Then(Loaded(site.search),
         LAMBDA exact : Unless(~exact, "NOT_FOUND", Got(TRUE)))

\* list_versions and parse_versions: rows of other packages are left out, and
\* the first row of a versionCode is kept.
ListVersions(site) ==
    Then(Loaded(site.versions),
         LAMBDA rows : Got(KeepFirst(Selected(rows, LAMBDA row : row.own),
                                     LAMBDA row : row.code)))

\* Mutation: a versionCode that is not listed falls back to the versionName.
SelectVersionLoosely(versions, request) ==
    LET byCode == First(versions, LAMBDA v : v.code = request.code)
    IN IF request.code # None /\ byCode # None THEN byCode
       ELSE First(versions, LAMBDA v : request.code # None
                                       \/ v.name = request.name)

SelectVersion(versions, request) ==
    First(versions, LAMBDA v : IF request.code # None
                               THEN v.code = request.code
                               ELSE request.name # None
                                    /\ v.name = request.name)

\* Mutation: the installer is taken for the package.
AnyDownloadUrl(page) == First(page, LAMBDA url : url.path # "none")

\* download_url_from_html: the first CDN link that is not the installer, else the
\* first CDN URL anywhere in the text, which CDN_RE finds under /b/ only.
DownloadUrl(page) ==
    LET link == First(page, LAMBDA url : /\ url.anchor
                                         /\ url.path # "none"
                                         /\ ~url.stub)
    IN IF link # None THEN link
       ELSE First(page, LAMBDA url : url.path = "b")

\* file_type_from: the first candidate that has a type, else the default.
FileTypeFrom(candidates, default) ==
    LET type == First(candidates, LAMBDA c : c \in Types)
        found == IF type # None THEN type ELSE default
    IN Unless(found = None, "BAD_RESPONSE", Got(found))

\* download_page_url
DownloadPage(site, version) ==
    LET key == Either(version.name, version.code) IN
    IF key \in DOMAIN site.pages THEN site.pages[key]
    ELSE [http |-> "missing", body |-> <<>>]

\* resolve_version_file: without a link the URL is made of the row's apkid.
ResolveVersionFile(site, version) ==
    Then(Loaded(DownloadPage(site, version)), LAMBDA page :
        LET url == DownloadUrl(page) IN
        IF url = None THEN Got(File(version.type, version.build))
        ELSE Then(FileTypeFrom(<<url.type, url.disposition>>, version.type),
                  LAMBDA type : Got(File(type, url.build))))

-----------------------------------------------------------------------------
(***************************************************************************)
(* What apkpure-signed and apkpure-web do alike                            *)
(***************************************************************************)
\* Mutation: the latest code under a name that is spelt otherwise is historical.
HistoricalByEither(latest, request) ==
    \/ request.code # None /\ request.code # latest.code
    \/ request.name # None /\ request.name # latest.name

\* _is_historical: by code if both have one, else by name.
IsHistorical(latest, request) ==
    IF request.code # None /\ latest.code # None
    THEN request.code # latest.code
    ELSE IF request.name # None THEN request.name # latest.name
    ELSE request.code # None

\* _select_historical
SelectHistorical(versions, request) ==
    LET version == SelectVersion(versions, request)
    IN Unless(version = None, "NOT_FOUND", Got(version))

\* _resolve_historical: by name without listing, and then without an apkid; the
\* list is only read for a request by code.
ResolveHistorical(site, request) ==
    IF request.name # None
    THEN Got([name |-> request.name, code |-> request.code,
              type |-> "APK", build |-> None])
    ELSE Then(ListVersions(site),
              LAMBDA versions : SelectHistorical(versions, request))

\* _historical_download_plan
HistoricalPlan(site, request) ==
    Then(ResolveHistorical(site, request), LAMBDA version :
        Then(ResolveVersionFile(site, version), LAMBDA file :
            Got(Plan(version.code, version.name, <<file>>))))

\* _historical_package_info
HistoricalInfo(site, request) ==
    Then(ListVersions(site), LAMBDA versions :
        Then(SelectHistorical(versions, request), LAMBDA version :
            Got(Info(version.code, version.name, versions))))

-----------------------------------------------------------------------------
(***************************************************************************)
(* apkpure-signed                                                          *)
(***************************************************************************)
\* _payload_error: the telling word in the payload, auth before not_found.
PayloadError(text) == CASE text = "auth"      -> "AUTH_ERROR"
                        [] text = "not_found" -> "NOT_FOUND"
                        [] OTHER              -> "BAD_RESPONSE"

\* _detail
SignedDetail(site) ==
    Then(Requested(site.api, Refusal), LAMBDA payload :
        Unless(payload.detail = None, PayloadError(payload.text),
        Unless(payload.detail.other, "BAD_RESPONSE",
        Got(payload.detail))))

\* _asset and _file
SignedFile(asset) ==
    Unless(asset = None, "BAD_RESPONSE",
    Unless(asset.type \notin Types, "UNSUPPORTED",
    Unless(asset.build = None, "BAD_RESPONSE",
    Got(File(asset.type, asset.build)))))

SignedPlan(site, request) ==
    Then(SignedDetail(site), LAMBDA detail :
        IF IsHistorical(detail, request)
        THEN Then(Found(site), LAMBDA exact : HistoricalPlan(site, request))
        ELSE Then(SignedFile(detail.asset), LAMBDA file :
                  Got(Plan(detail.code, detail.name, <<file>>))))

SignedInfo(site, request) ==
    Then(SignedDetail(site), LAMBDA detail :
        IF IsHistorical(detail, request)
        THEN Then(Found(site), LAMBDA exact : HistoricalInfo(site, request))
        ELSE Got(Info(detail.code, detail.name, <<detail>>)))

-----------------------------------------------------------------------------
(***************************************************************************)
(* apkpure-web                                                             *)
(***************************************************************************)
\* _load_detail and _detail_from_html
WebDetail(site) ==
    Then(Found(site), LAMBDA exact :
        Then(Loaded(site.detail), LAMBDA detail :
            Unless(detail.name = None /\ detail.code = None, "BAD_RESPONSE",
            Got(detail))))

\* _constructed_download: of the types the page leaves open, the first whose
\* constructed URL is confirmed by HEAD; with a type on the page an unanswered
\* HEAD will do.  A final URL without a type is an error at once.
ConstructedFile(site, code, raw) ==
    LET candidates == IF raw \in Types THEN <<raw>> ELSE <<"APK", "XAPK", "APKS">>
        Final(type) == FileTypeFrom(<<raw, site.heads[type]>>, None)
        Ends(type) == IF site.heads[type] = None THEN raw # None
                      ELSE Final(type).value \in {type, None}
        type == First(candidates, Ends)
    IN Unless(type = None, "BAD_RESPONSE",
       Then(IF site.heads[type] = None THEN Got(type) ELSE Final(type),
            LAMBDA t : Got(File(t, code))))

WebPlan(site, request) ==
    Then(WebDetail(site), LAMBDA detail :
        IF IsHistorical(detail, request) THEN HistoricalPlan(site, request)
        ELSE Then(Loaded(site.button), LAMBDA page :
            LET url == DownloadUrl(page)
                file ==
                    CASE url # None ->
                            Then(FileTypeFrom(<<detail.type, url.type,
                                                url.disposition>>, None),
                                 LAMBDA t : Got(File(t, url.build)))
                      [] url = None /\ detail.code # None ->
                            ConstructedFile(site, detail.code, detail.type)
                      [] OTHER -> Fail("BAD_RESPONSE")
            IN Then(file, LAMBDA f :
                    Got(Plan(detail.code, detail.name, <<f>>)))))

WebInfo(site, request) ==
    Then(WebDetail(site), LAMBDA detail :
        IF IsHistorical(detail, request) THEN HistoricalInfo(site, request)
        ELSE Got(Info(detail.code, detail.name, <<detail>>)))

-----------------------------------------------------------------------------
(***************************************************************************)
(* apkpure-proto                                                           *)
(***************************************************************************)
\* _versions: anchors with a download before the next anchor.
ProtoVersions(site) ==
    Then(Requested(site.proto, Refusal), LAMBDA anchors :
        LET versions == Selected(anchors, LAMBDA a : a.type \in Types)
        IN Unless(versions = <<>>, "BAD_RESPONSE", Got(versions)))

\* _select_version: the name decides, whatever code comes with it.
SelectProto(versions, request) ==
    LET version == First(versions, LAMBDA v : v.name = request.name)
    IN IF request.name # None
       THEN Unless(version = None, "NOT_FOUND", Got(version))
       ELSE Unless(request.code # None, "UNSUPPORTED", Got(versions[1]))

ProtoPlan(site, request) ==
    Then(ProtoVersions(site), LAMBDA versions :
        Then(SelectProto(versions, request), LAMBDA version :
            Got(Plan(None, version.name,
                     <<File(version.type, version.build)>>))))

ProtoInfo(site, request) ==
    Then(ProtoVersions(site), LAMBDA versions :
        Then(SelectProto(versions, request), LAMBDA version :
            Got(Info(None, version.name, versions))))
===============================================================================
