----------------------------- MODULE StoreAnswers -----------------------------
(***************************************************************************)
(* What the provider modules share: the outcome of a call of a provider,   *)
(* the statuses an upstream can answer with, and download plans.           *)
(*                                                                         *)
(* A coroutine that returns is Got(value) and one that raises is           *)
(* Fail(error); awaiting one call after another is Then.  An upstream page *)
(* or endpoint is [http, body].  The build an URL leads to stands for the  *)
(* URL: builds are named by their versionCode, and None is an URL that     *)
(* leads to no package.                                                    *)
(***************************************************************************)
EXTENDS Lists

ErrorCode == {"NOT_FOUND", "NETWORK_ERROR", "AUTH_ERROR", "BAD_RESPONSE",
              "UNSUPPORTED"}

Got(value)   == [error |-> None, value |-> value]
Fail(error)  == [error |-> error, value |-> None]
Then(answer, Next(_)) ==
    IF answer.error = None THEN Next(answer.value) ELSE answer
\* _fail if something is wrong, or go on.
Unless(wrong, error, answer) == IF wrong THEN Fail(error) ELSE answer

\* The error of each status other than success: no answer at all, 404, 401 or
\* 403, 5xx, any other status, and a success whose body is not the JSON asked
\* for.
Refusal == [unreachable |-> "NETWORK_ERROR", missing |-> "NOT_FOUND",
            denied |-> "AUTH_ERROR", broken |-> "NETWORK_ERROR",
            refused |-> "BAD_RESPONSE", garbled |-> "BAD_RESPONSE"]

\* _request_json and _request_bytes
Requested(page, errors) ==
    IF page.http = "ok" THEN Got(page.body) ELSE Fail(errors[page.http])

\* apkpure_versions.load_html, in a browser: only these outcomes are errors, so
\* a challenge page answered with 403 is parsed like any other.
Loaded(page) ==
    IF page.http \in {"missing", "broken", "unreachable"}
    THEN Fail(Refusal[page.http]) ELSE Got(page.body)

File(type, build) == [type |-> type, build |-> build]
Plan(code, name, files) == [code |-> code, name |-> name, files |-> files]
Info(code, name, versions) == [code |-> code, name |-> name,
                               versions |-> versions]
===============================================================================
