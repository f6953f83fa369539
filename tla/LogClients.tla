----------------------------- MODULE LogClients -----------------------------
(***************************************************************************)
(* The HTTP clients of the transparency log (crates/ans-verify/src/tlog.rs *)
(* and scitt/client.rs) and what the verifiers make of their errors        *)
(* (error.rs, scitt/error.rs, verify.rs).  What hangs on it: an outage may  *)
(* be bridged by a cached badge, a determinate answer may not.             *)
(*                                                                         *)
(* `web` maps a URL to the reply its server gives: NoReply, or a status    *)
(* with a location and a body that is cut, malformed, oversized or whole.   *)
(* A URL is a scheme, a host and the segments of its path; the last segment *)
(* of a path that ends in a slash is "".                                    *)
(***************************************************************************)
EXTENDS Naturals, Sequences, SequencesExt, Selection

CONSTANTS
    Absent,        \* an optional value that is not there
    NoReply,       \* the connection fails or the timeout passes
    MaxRedirects   \* redirects reqwest follows by default

Ok(v)  == [error |-> "none", value |-> v]
Err(e) == [error |-> e, value |-> Absent]
IsOk(result) == result.error = "none"

-----------------------------------------------------------------------------
(* Requests *)

\* url::Url::join with a relative path: it replaces the last segment.
Join(base, path) == [base EXCEPT !.path = Front(@) \o path]

\* reqwest without redirects and with https_only, as HttpTransparencyLogClient
\* builds it.
SendStrict(url, web) == IF url.scheme # "https" THEN NoReply ELSE web[url]

\* reqwest as Client::new() builds it, for HttpScittClient.
SendFollowing(url, web) ==
    LET Follow[left \in 0 .. MaxRedirects] ==
            [u \in DOMAIN web |->
                IF web[u] = NoReply \/ web[u].location = Absent THEN web[u]
                ELSE IF left = 0 THEN NoReply
                ELSE Follow[left - 1][web[u].location]]
    IN  Follow[MaxRedirects][url]

\* build_headers: one extra header that does not parse spoils every request.
HeadersOk(client) == "bad" \notin client.headers

-----------------------------------------------------------------------------
(* HttpTransparencyLogClient *)

WithBaseUrl(url) ==
    IF url.scheme # "https" \/ url.host = Absent THEN Err("InvalidUrl") ELSE Ok(url)

\* fetch_badge; the audit request classifies its reply in the same way.
Fetch(client, url, web) ==
    LET reply == SendStrict(url, web)
    IN  IF ~HeadersOk(client) THEN Err("InvalidHeader")
        ELSE IF reply = NoReply THEN Err("HttpError")
        ELSE IF reply.status = 404 THEN Err("NotFound")
        ELSE IF reply.status >= 500 \/ reply.status = 429 THEN Err("ServiceUnavailable")
        ELSE IF reply.status \notin 200 .. 299 THEN Err("InvalidResponse")
        ELSE IF reply.body.kind = "cut" THEN Err("HttpError")
        ELSE IF reply.body.kind = "malformed" THEN Err("InvalidResponse")
        ELSE Ok(reply.body.value)

FetchBadgeById(client, agent, web) ==
    IF client.base = Absent THEN Err("InvalidUrl")
    ELSE Fetch(client, Join(client.base, <<"v1", "agents", agent>>), web)

FetchAudit(client, agent, web) ==
    IF client.base = Absent THEN Err("InvalidUrl")
    ELSE Fetch(client, Join(client.base, <<"v1", "agents", agent, "audit">>), web)

\* TlogError::is_unavailable
IsUnavailable(error) == error \in {"HttpError", "ServiceUnavailable", "StatusUnknown"}

-----------------------------------------------------------------------------
(* How the verifiers obtain a badge *)

ValidateBadgeDomain(trusted, url) ==
    IF url.scheme # "https" \/ url.host = Absent THEN "InvalidUrl"
    ELSE IF url.host \notin trusted THEN "UntrustedDomain"
    ELSE "none"

RequireKnownBadgeStatus(result) ==
    IF IsOk(result) /\ result.value.status = "UNKNOWN" THEN Err("StatusUnknown") ELSE result

ObtainBadge(trusted, client, url, web) ==
    LET domain == ValidateBadgeDomain(trusted, url)
    IN  IF domain # "none" THEN Err(domain)
        ELSE RequireKnownBadgeStatus(Fetch(client, url, web))

\* record_tlog_error; several badges are fetched in parallel and one error is
\* kept, "none" before the first.
RecordTlogError(previous, error) ==
    IF IsUnavailable(error) /\ previous # "none" /\ ~IsUnavailable(previous)
    THEN previous ELSE error
Recorded(errors) ==
    LET kept[i \in 0 .. Len(errors)] ==
            IF i = 0 THEN "none" ELSE RecordTlogError(kept[i - 1], errors[i])
    IN  kept[Len(errors)]

-----------------------------------------------------------------------------
(* HttpScittClient *)

\* `new` appends the slash that Join needs.
ScittBase(url) == IF Last(url.path) = "" THEN url ELSE [url EXCEPT !.path = Append(@, "")]

GetBytes(client, url, web) ==
    LET reply == SendFollowing(url, web)
    IN  IF ~HeadersOk(client) THEN Err("InvalidUrl")
        ELSE IF reply = NoReply THEN Err("HttpError")
        ELSE IF reply.status = 404 THEN Err("NotFound")
        ELSE IF reply.status = 410 THEN Err("AgentTerminal")
        ELSE IF reply.status = 501 THEN Err("NotSupported")
        ELSE IF reply.status \notin 200 .. 299 THEN Err("UnexpectedHttpStatus")
        ELSE IF reply.body.kind = "cut" THEN Err("HttpError")
        ELSE IF reply.body.kind = "oversized" THEN Err("OversizedInput")
        ELSE Ok(reply.body.value)

FetchReceipt(client, agent, web) ==
    GetBytes(client, Join(client.base, <<"v1", "agents", agent, "receipt">>), web)
FetchStatusToken(client, agent, web) ==
    GetBytes(client, Join(client.base, <<"v1", "agents", agent, "status-token">>), web)

\* The body is a sequence of lines; blank ones do not count.
FetchRootKeys(client, web) ==
    LET reply == SendFollowing(Join(client.base, <<"root-keys">>), web)
        keys  == Without(reply.body.value, "")
    IN  IF ~HeadersOk(client) THEN Err("InvalidUrl")
        ELSE IF reply = NoReply THEN Err("HttpError")
        ELSE IF reply.status = 501 THEN Err("NotSupported")
        ELSE IF reply.status \notin 200 .. 299 THEN Err("UnexpectedHttpStatus")
        ELSE IF reply.body.kind = "cut" THEN Err("HttpError")
        ELSE IF keys = <<>> THEN Err("InvalidKeyFormat")
        ELSE Ok(keys)

\* ScittError::is_terminal_status, should_fallback_to_badge
IsTerminalStatus(error) == error \in {"TerminalStatus", "AgentTerminal"}
ShouldFallbackToBadge(error) ==
    error \in {"NotSupported", "NotFound", "UnexpectedHttpStatus", "HttpError"}

-----------------------------------------------------------------------------
(* Properties *)

\* A SCITT request extends the path of the configured URL, which may end in a
\* slash or not ("A trailing slash is handled automatically", new).
BaseIsKept(url, path) ==
    LET bare == IF Last(url.path) = "" THEN Front(url.path) ELSE url.path
    IN  Join(ScittBase(url), path) = [url EXCEPT !.path = bare \o path]

\* The web without every host but one.
Only(host, web) == [u \in DOMAIN web |-> IF u.host = host THEN web[u] ELSE NoReply]

Succeeds(reply) == reply # NoReply /\ reply.status \in 200 .. 299

\* The replies an outage explains: nothing came, less than a whole body came, or
\* the server says it cannot answer now.
IsOutageReply(reply) ==
    \/ reply = NoReply
    \/ reply.status >= 500 \/ reply.status = 429
    \/ Succeeds(reply) /\ reply.body.kind = "cut"

\* A badge is what the server of the URL itself answered in full, over https; no
\* other host has a say ("so a trusted badge host cannot send the request to a
\* different trust root", tlog.rs).  The error is an outage, which a cached badge
\* may bridge, exactly if the server gave no determinate answer: a redirect, a
\* refusal or malformed JSON is an answer, an UNKNOWN status is none.
BadgesAreHonest(trusted, client, url, web) ==
    LET got     == ObtainBadge(trusted, client, url, web)
        reply   == web[url]
        asked   == url.scheme = "https" /\ url.host \in trusted /\ HeadersOk(client)
        unknown == /\ Succeeds(reply) /\ reply.body.kind = "whole"
                   /\ reply.body.value.status = "UNKNOWN"
    IN  /\ IsOk(got) => /\ asked /\ Succeeds(reply) /\ ~unknown
                        /\ reply.body.kind = "whole" /\ reply.body.value = got.value
        /\ IsUnavailable(got.error) <=> asked /\ (IsOutageReply(reply) \/ unknown)
        /\ got = ObtainBadge(trusted, client, url, Only(url.host, web))

\* Requests by agent id ask the configured log only, and a client without a base
\* URL does not pass off its configuration as an outage.
LookupsStayHome(client, agent, web) ==
    LET home == IF client.base = Absent THEN Absent ELSE client.base.host
        results(w) == <<FetchBadgeById(client, agent, w), FetchAudit(client, agent, w)>>
    IN  /\ results(web) = results(Only(home, web))
        /\ client.base = Absent => \A i \in {1, 2} : ~IsUnavailable(results(web)[i].error)

\* Of several failed requests the error that is kept is an outage only if all
\* were, in whatever order they come in.
AdverseSurvives(errors) ==
    /\ Recorded(errors) \in Range(errors)
    /\ IsUnavailable(Recorded(errors)) <=> \A e \in Range(errors) : IsUnavailable(e)

\* A SCITT fetch reports a terminal agent only for a 410, and an error that lets
\* an integration fall back to the badge only if the log did not deliver the
\* artifact: never for one that is terminal or too large.
ScittErrorHonest(client, got, final) ==
    LET delivered == Succeeds(final) /\ final.body.kind # "cut"
    IN  /\ IsTerminalStatus(got.error) <=>
             HeadersOk(client) /\ final # NoReply /\ final.status = 410
        /\ ShouldFallbackToBadge(got.error) =>
             /\ ~IsTerminalStatus(got.error) /\ ~delivered
        /\ IsOk(got) => delivered /\ got.value = final.body.value

ScittErrorsHonest(client, agent, web) ==
    LET final(name) == SendFollowing(Join(client.base, <<"v1", "agents", agent, name>>), web)
    IN  /\ ScittErrorHonest(client, FetchReceipt(client, agent, web), final("receipt"))
        /\ ScittErrorHonest(client, FetchStatusToken(client, agent, web), final("status-token"))

\* Key lines are delivered complete or not at all, and never none: a refresh that
\* succeeds has learned something.
RootKeysHonest(client, web) ==
    LET got   == FetchRootKeys(client, web)
        final == SendFollowing(Join(client.base, <<"root-keys">>), web)
    IN  /\ IsOk(got) => /\ got.value # <<>> /\ "" \notin Range(got.value)
                        /\ Range(got.value) = Range(final.body.value) \ {""}
        /\ ~IsTerminalStatus(got.error)
=============================================================================
