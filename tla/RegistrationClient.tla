------------------------- MODULE RegistrationClient -------------------------
(***************************************************************************)
(* The client of the Registration Authority (crates/ans-client/src/client.rs,*)
(* error.rs and models.rs): which request each operation sends, what its     *)
(* reply is read as, and what callers do with the two.                      *)
(*                                                                         *)
(* A URL is [scheme, host, path, query]; an agent or CSR id is a sequence    *)
(* of texts that slashes separate, of which the API's own ids have one.     *)
(***************************************************************************)
EXTENDS Naturals, Sequences, SequencesExt, TLC, Selection

CONSTANTS
    Absent,      \* a value, or a JSON field, that is not there
    Null,        \* JSON's null
    Malformed,   \* what does not parse
    NoReply      \* the connection fails or the timeout passes

-----------------------------------------------------------------------------
(* AnsClientBuilder *)

DefaultUrl == [scheme |-> "https", host |-> "api.godaddy.com", path |-> <<"">>, query |-> {}]

\* A header is [name, value, valid]; HeaderMap::insert keeps the last value.
Effective(headers) ==
    {headers[i] : i \in {j \in DOMAIN headers :
                           \A k \in j + 1 .. Len(headers) : headers[k].name # headers[j].name}}

BuildClient(opts) ==
    LET base == IF opts.baseUrl = Absent THEN DefaultUrl ELSE opts.baseUrl
    IN  IF base = Malformed THEN [error |-> "InvalidUrl"]
        ELSE IF ~opts.allowInsecure /\ base.scheme # "https" THEN [error |-> "Configuration"]
        ELSE IF \E i \in DOMAIN opts.headers : ~opts.headers[i].valid
             THEN [error |-> "Configuration"]
        ELSE [error |-> "none", base |-> base, auth |-> opts.auth,
              extra |-> Effective(opts.headers), version |-> opts.version]

\* Auth::header_value
HeaderValue(auth) ==
    IF auth.kind = "jwt" THEN <<"sso-jwt", auth.token>> ELSE <<"sso-key", auth.key, auth.secret>>

-----------------------------------------------------------------------------
(* Requests *)

AgentsCollectionPath(version) ==
    IF version = "V1" THEN <<"v1", "agents">> ELSE <<"v2", "ans", "agents">>
RegisterPath(version) ==
    IF version = "V1" THEN <<"v1", "agents", "register">> ELSE <<"v2", "ans", "agents">>

\* urlencoding::encode: an id has no slashes left, but its dots stay as they are.
Encode(id) == IF Len(id) = 1 THEN id ELSE <<ToString(id)>>

\* Mutant: the id goes into the path as it is.
AgentPathPlain(version, id, suffix) == AgentsCollectionPath(version) \o id \o suffix

AgentPath(version, id, suffix) == AgentsCollectionPath(version) \o Encode(id) \o suffix

\* Url::join: a "." says nothing and a ".." takes back the segment before it; at
\* the end of a path either leaves a slash.
DotSegments == {".", ".."}
Resolved(path) ==
    LET Walk(sofar, segment) ==
            CASE segment = "."  -> sofar
              [] segment = ".." -> IF sofar = <<>> THEN sofar ELSE Front(sofar)
              [] OTHER          -> Append(sofar, segment)
        walked == FoldLeft(Walk, <<>>, path)
    IN  IF \A i \in DOMAIN path : path[i] \notin DotSegments THEN path
        ELSE IF Last(path) \in DotSegments THEN Append(walked, "")
        ELSE walked

\* AnsClient::url: a path that starts at the root replaces the base's.
UrlOf(client, path) == [client.base EXCEPT !.path = Resolved(path), !.query = {}]

Headers(client) ==
    {[name |-> "accept", value |-> <<"json">>], [name |-> "user-agent", value |-> <<"ans-client">>]}
    \cup (IF client.auth = Absent THEN {}
          ELSE {[name |-> "authorization", value |-> HeaderValue(client.auth)]})
    \cup {[name |-> h.name, value |-> h.value] : h \in client.extra}

BuildRequest(client, method, path) ==
    [error |-> "none", method |-> method, url |-> UrlOf(client, path),
     headers |-> Headers(client), body |-> Absent]

\* request: a body is JSON, and a POST without one says that it is empty.
Request(client, method, path, body) ==
    LET built == BuildRequest(client, method, path)
        extra == IF body # Absent THEN {[name |-> "content-type", value |-> <<"json">>]}
                 ELSE IF method \in {"POST", "PUT", "PATCH"}
                      THEN {[name |-> "content-length", value |-> <<"0">>]}
                 ELSE {}
    IN  [built EXCEPT !.headers = @ \cup extra, !.body = body]

WithQuery(request, query) ==
    [request EXCEPT !.url.query = {q \in query : q[2] # Absent}]

-----------------------------------------------------------------------------
(* Operations *)

\* What a registration sends: the profiles are left out when there are none.
RegistrationBody(registration) ==
    IF registration.discoveryProfiles = <<>>
    THEN [registration EXCEPT !.discoveryProfiles = Absent]
    ELSE registration

RegisterAgent(client, registration) ==
    IF client.version # "V2" /\ registration.discoveryProfiles # <<>>
    THEN [error |-> "Configuration"]
    ELSE Request(client, "POST", RegisterPath(client.version), RegistrationBody(registration))

GetAgent(client, id) == Request(client, "GET", AgentPath(client.version, id, <<>>), Absent)

SearchAgents(client, criteria, limit, offset) ==
    WithQuery(BuildRequest(client, "GET", <<"v1", "agents">>),
              {<<"agentDisplayName", criteria.name>>, <<"agentHost", criteria.host>>,
               <<"version", criteria.version>>, <<"protocol", criteria.protocol>>,
               <<"limit", limit>>, <<"offset", offset>>})

ResolveAgent(client, host, version) ==
    Request(client, "POST", <<"v1", "agents", "resolution">>,
            [agentHost |-> host, version |-> version])

VerifyAcme(client, id) ==
    Request(client, "POST", AgentPath(client.version, id, <<"verify-acme">>), Absent)
VerifyDns(client, id) ==
    Request(client, "POST", AgentPath(client.version, id, <<"verify-dns">>), Absent)
GetServerCertificates(client, id) ==
    Request(client, "GET", AgentPath(client.version, id, <<"certificates", "server">>), Absent)
GetIdentityCertificates(client, id) ==
    Request(client, "GET", AgentPath(client.version, id, <<"certificates", "identity">>), Absent)
SubmitServerCsr(client, id, csr) ==
    Request(client, "POST", AgentPath(client.version, id, <<"certificates", "server">>),
            [csrPEM |-> csr])
SubmitIdentityCsr(client, id, csr) ==
    Request(client, "POST", AgentPath(client.version, id, <<"certificates", "identity">>),
            [csrPEM |-> csr])
GetCsrStatus(client, id, csrId) ==
    Request(client, "GET",
            AgentPath(client.version, id, <<"csrs">> \o Encode(csrId) \o <<"status">>), Absent)
RevokeAgent(client, id, reason, comments) ==
    Request(client, "POST", AgentPath(client.version, id, <<"revoke">>),
            [reason |-> reason, comments |-> comments])

GetEvents(client, limit, provider, lastLogId) ==
    WithQuery(BuildRequest(client, "GET", <<"v1", "agents", "events">>),
              {<<"limit", limit>>, <<"providerId", provider>>, <<"lastLogId", lastLogId>>})

-----------------------------------------------------------------------------
(* JSON.  A field is read by a rule: what it is when it is missing or null   *)
(* (Malformed refuses the whole object), whether it is a list, and which     *)
(* labels it or its elements may have, each with its canonical spelling.     *)
(* What does not read as its own type is Malformed.                          *)

AnyLabel == [l \in {} |-> l]
Rule(missing, null, list, labels) ==
    [missing |-> missing, null |-> null, list |-> list, labels |-> labels]

Required     == Rule(Malformed, Malformed, FALSE, AnyLabel)
Optional     == Rule(Absent, Absent, FALSE, AnyLabel)
DefaultTrue  == Rule(TRUE, Malformed, FALSE, AnyLabel)
List         == Rule(Malformed, Malformed, TRUE, AnyLabel)
DefaultList  == Rule(<<>>, Malformed, TRUE, AnyLabel)    \* serde(default)
NullableList == Rule(<<>>, <<>>, TRUE, AnyLabel)         \* ... with null_as_default
OneOf(labels)      == Rule(Malformed, Malformed, FALSE, labels)
OptionalOf(labels) == Rule(Absent, Absent, FALSE, labels)

Plain(labels) == [l \in labels |-> l]

ReadItem(rule, value) ==
    IF value = Malformed THEN Malformed
    ELSE IF rule.labels = AnyLabel THEN value
    ELSE IF value \in DOMAIN rule.labels THEN rule.labels[value]
    ELSE Malformed

ReadList(rule, values) ==
    LET items == [i \in DOMAIN values |-> ReadItem(rule, values[i])]
    IN  IF \E i \in DOMAIN items : items[i] = Malformed THEN Malformed ELSE items

ReadField(rule, value) ==
    IF value = Absent THEN rule.missing
    ELSE IF value = Null THEN rule.null
    ELSE IF value # Malformed /\ rule.list THEN ReadList(rule, value)
    ELSE ReadItem(rule, value)

\* serde_json::from_str; fields that the shape does not name are ignored.
Decode(shape, json) ==
    LET value == [f \in DOMAIN shape |->
                    ReadField(shape[f], IF f \in DOMAIN json THEN json[f] ELSE Absent)]
    IN  IF \E f \in DOMAIN shape : value[f] = Malformed THEN Malformed ELSE value

Protocols  == ("A2A" :> "A2A") @@ ("MCP" :> "MCP") @@ ("HTTP-API" :> "HTTP-API")
              @@ ("HTTP_API" :> "HTTP-API")
Transports == Plain({"STREAMABLE-HTTP", "SSE", "JSON-RPC", "GRPC", "REST", "HTTP"})
              @@ ("STREAMABLE_HTTP" :> "STREAMABLE-HTTP") @@ ("JSON_RPC" :> "JSON-RPC")
RegistrationStatuses == Plain({"PENDING_VALIDATION", "PENDING_CERTS", "PENDING_DNS"})
LifecycleStatuses ==
    Plain({"PENDING_VALIDATION", "PENDING_DNS", "ACTIVE", "FAILED", "EXPIRED", "REVOKED"})
ChallengeTypes == Plain({"DNS_01", "HTTP_01"})
NextStepActions ==
    Plain({"CONFIGURE_DNS", "CONFIGURE_HTTP", "VERIFY_DNS", "VALIDATE_DOMAIN", "WAIT"})
RegistrationPhases ==
    Plain({"INITIALIZATION", "DOMAIN_VALIDATION", "CERTIFICATE_ISSUANCE", "DNS_PROVISIONING",
           "COMPLETED"})
RevocationReasons ==
    Plain({"KEY_COMPROMISE", "CESSATION_OF_OPERATION", "AFFILIATION_CHANGED", "SUPERSEDED",
           "CERTIFICATE_HOLD", "PRIVILEGE_WITHDRAWN", "AA_COMPROMISE"})
CsrTypes == Plain({"SERVER", "IDENTITY"})
CsrStatuses == Plain({"PENDING", "SIGNED", "REJECTED"})
EventTypes ==
    Plain({"AGENT_REGISTERED", "AGENT_RENEWED", "AGENT_REVOKED", "AGENT_VERSION_UPDATED"})

AgentFunction == [id |-> Required, name |-> Required, tags |-> DefaultList]
AgentEndpoint ==
    [agentUrl |-> Required, metaDataUrl |-> Optional, documentationUrl |-> Optional,
     protocol |-> OneOf(Protocols), functions |-> DefaultList,
     transports |-> [DefaultList EXCEPT !.labels = Transports]]
Link == [rel |-> Required, href |-> Required]
DnsRecord ==
    [name |-> Required, type |-> Required, value |-> Required, purpose |-> Optional,
     ttl |-> Optional, priority |-> Optional, required |-> DefaultTrue]
DnsRecordDetails == [name |-> Required, type |-> Required, value |-> Required]
ChallengeInfo ==
    [type |-> OneOf(ChallengeTypes), token |-> Optional, keyAuthorization |-> Optional,
     httpPath |-> Optional, dnsRecord |-> Optional, expiresAt |-> Optional]
NextStep ==
    [action |-> OneOf(NextStepActions), description |-> Optional, endpoint |-> Optional,
     estimatedTimeMinutes |-> Optional]
RegistrationPending ==
    [status |-> OneOf(RegistrationStatuses), ansName |-> Required, agentId |-> Optional,
     nextSteps |-> List, challenges |-> NullableList, dnsRecords |-> NullableList,
     expiresAt |-> Optional, links |-> NullableList]
AgentStatus ==
    [status |-> OneOf(LifecycleStatuses), phase |-> OptionalOf(RegistrationPhases),
     completedSteps |-> NullableList, pendingSteps |-> NullableList, createdAt |-> Optional,
     updatedAt |-> Optional, expiresAt |-> Optional]
AgentDetails ==
    [agentId |-> Required, agentDisplayName |-> Required, agentHost |-> Required,
     agentDescription |-> Optional, ansName |-> Required, version |-> Required,
     agentStatus |-> OneOf(LifecycleStatuses), endpoints |-> List,
     registrationTimestamp |-> Optional, lastRenewalTimestamp |-> Optional,
     registrationPending |-> Optional, links |-> NullableList]
AgentSearchResult ==
    [ansName |-> Required, agentId |-> Required, agentDisplayName |-> Required,
     agentDescription |-> Optional, version |-> Required, agentHost |-> Required,
     ttl |-> Optional, registrationTimestamp |-> Optional, endpoints |-> List,
     links |-> NullableList]
AgentSearchResponse ==
    [agents |-> List, totalCount |-> Required, returnedCount |-> Required, limit |-> Required,
     offset |-> Required, hasMore |-> Required, searchCriteria |-> Optional]
AgentRevocationResponse ==
    [agentId |-> Required, ansName |-> Required, status |-> OneOf(LifecycleStatuses),
     revokedAt |-> Required, reason |-> OneOf(RevocationReasons), links |-> List]
CertificateResponse ==
    [csrId |-> Required, certificateSubject |-> Optional, certificateIssuer |-> Optional,
     certificateSerialNumber |-> Optional, certificateValidFrom |-> Required,
     certificateValidTo |-> Required, certificatePEM |-> Required, chainPEM |-> Optional,
     certificatePublicKeyAlgorithm |-> Optional, certificateSignatureAlgorithm |-> Optional]
CsrSubmissionResponse == [csrId |-> Required, message |-> Optional]
CsrStatusResponse ==
    [csrId |-> Required, type |-> OneOf(CsrTypes), status |-> OneOf(CsrStatuses),
     submittedAt |-> Required, updatedAt |-> Required, failureReason |-> Optional]
AgentResolutionResponse == [ansName |-> Required, links |-> List]
EventItem ==
    [logId |-> Required, eventType |-> OneOf(EventTypes), createdAt |-> Required,
     expiresAt |-> Optional, agentId |-> Required, ansName |-> Required, agentHost |-> Required,
     agentDisplayName |-> Optional, agentDescription |-> Optional, version |-> Required,
     providerId |-> Optional, endpoints |-> DefaultList]
EventPageResponse == [items |-> List, lastLogId |-> Optional]

-----------------------------------------------------------------------------
(* Replies: NoReply, or a status and a body that is cut, a text or JSON      *)

ApiErrorResponse ==
    [status |-> Required, code |-> Required, message |-> Required,
     details |-> Rule(Null, Null, FALSE, AnyLabel)]

\* The errors that carry the status of a reply.
ResponseErrors ==
    {"Unauthorized", "Forbidden", "NotFound", "Conflict", "InvalidRequest",
     "UnprocessableEntity", "RateLimited", "ServerError"}

ErrorFor(status) ==
    CASE status = 401 -> "Unauthorized"   [] status = 403 -> "Forbidden"
      [] status = 404 -> "NotFound"       [] status = 409 -> "Conflict"
      [] status = 400 -> "InvalidRequest" [] status = 422 -> "UnprocessableEntity"
      [] status = 429 -> "RateLimited"    [] OTHER -> "ServerError"

FromResponse(status, body) ==
    [error   |-> ErrorFor(status),
     status  |-> status,
     message |-> IF body.kind = "json" /\ Decode(ApiErrorResponse, body.value) # Malformed
                 THEN body.value.message ELSE body]

\* ClientError::status_code
StatusCode(result) == IF result.error \in ResponseErrors THEN result.status ELSE Absent

Send(reply, shape) ==
    IF reply = NoReply \/ (reply # NoReply /\ reply.body.kind = "cut") THEN [error |-> "Http"]
    ELSE IF reply.status \notin 200 .. 299 THEN FromResponse(reply.status, reply.body)
    ELSE IF reply.body.kind # "json" \/ Decode(shape, reply.body.value) = Malformed
         THEN [error |-> "Json"]
    ELSE [error |-> "none", value |-> Decode(shape, reply.body.value)]

\* RegistrationPending::get_agent_id; an href is what is between its slashes.
SelfLinks(pending) ==
    Select(pending.links, {i \in DOMAIN pending.links : pending.links[i].rel = "self"})
Segments(link) == Without(link.href, "")

GetAgentId(pending) ==
    LET self == SelfLinks(pending)
        segments == Segments(self[1])
    IN  IF pending.agentId # Absent THEN pending.agentId
        ELSE IF self = <<>> THEN Absent
        ELSE IF segments = <<>> \/ Last(segments) = "agents" THEN Absent
        ELSE Last(segments)

-----------------------------------------------------------------------------
(* What callers may rely on *)

Calls(client, id) ==
    [register    |-> Request(client, "POST", RegisterPath(client.version), "registration"),
     get         |-> GetAgent(client, id),
     resolve     |-> ResolveAgent(client, "host", "*"),
     acme        |-> VerifyAcme(client, id),
     dns         |-> VerifyDns(client, id),
     serverCerts |-> GetServerCertificates(client, id),
     identities  |-> GetIdentityCertificates(client, id),
     serverCsr   |-> SubmitServerCsr(client, id, "csr"),
     identityCsr |-> SubmitIdentityCsr(client, id, "csr"),
     csrStatus   |-> GetCsrStatus(client, id, id),
     revoke      |-> RevokeAgent(client, id, "SUPERSEDED", Absent),
     search      |-> SearchAgents(client, [name |-> Absent, host |-> Absent, version |-> Absent,
                                           protocol |-> Absent], Absent, Absent),
     events      |-> GetEvents(client, Absent, Absent, Absent)]
Unaddressed == {"register", "resolve", "search", "events"}

\* A call of a client about an agent, and where it goes.
Routed(client, c, id) ==
    [call |-> c, id |-> IF c \in Unaddressed THEN Absent ELSE id,
     method |-> Calls(client, id)[c].method, url |-> Calls(client, id)[c].url]
Asked(client, ids) ==
    UNION {{Routed(client, c, id) : id \in ids} : c \in DOMAIN Calls(client, <<"">>)}

\* An id that is a dot segment does not name an agent in a URL.
Strays(a) == a.call \notin Unaddressed /\ Encode(a.id)[1] \in DotSegments

\* Credentials leave on the base URL's host and scheme alone, which is https
\* unless the caller said otherwise, whatever ids are made of.  No two calls
\* meet at one route, except for ids that are dot segments and for the V1 lane's
\* feed, which is where an agent called "events" would be; and only the calls
\* with a V2 twin follow the version.
RequestsStayApart(opts, ids) ==
    LET client == BuildClient(opts)
        asked  == Asked(client, ids)
    IN  client.error = "none" =>
            /\ opts.allowInsecure \/ client.base.scheme = "https"
            /\ \A a \in asked :
                 /\ a.url.host = client.base.host /\ a.url.scheme = client.base.scheme
                 /\ ~Strays(a) =>
                      (Head(a.url.path) = "v2" <=>
                         client.version = "V2" /\ a.call \notin {"resolve", "search", "events"})
            /\ \A a, b \in asked :
                 a.method = b.method /\ a.url.path = b.url.path =>
                    \/ a = b
                    \/ Strays(a) \/ Strays(b)
                    \/ client.version = "V1" /\ {a.call, b.call} = {"get", "events"}

\* No registration drops the record families it was asked for: it names them on
\* the lane that honours them, or it is not sent.
ProfilesAreHonoured(opts, profiles) ==
    LET client == BuildClient(opts)
        sent == RegisterAgent(client, [agentHost |-> "host", discoveryProfiles |-> profiles])
    IN  client.error = "none" =>
            IF sent.error # "none" THEN client.version = "V1" /\ profiles # <<>>
            ELSE /\ profiles # <<>> => sent.body.discoveryProfiles = profiles
                 /\ profiles # <<>> => sent.url.path = <<"v2", "ans", "agents">>

\* A value comes out of a successful reply only, an error of the server keeps
\* its status, and any other error has none; the codes that a caller treats
\* apart are told apart.
ErrorsKeepStatus(reply, other, shape) ==
    LET result == Send(reply, shape)
        second == Send(other, shape)
    IN  /\ result.error = "none" => reply.status \in 200 .. 299
        /\ StatusCode(result) # Absent <=>
             (reply # NoReply /\ reply.status \notin 200 .. 299 /\ reply.body.kind # "cut")
        /\ StatusCode(result) # Absent => StatusCode(result) = reply.status
        /\ (StatusCode(result) # Absent /\ StatusCode(second) # Absent
              /\ result.error = second.error /\ result.error # "ServerError")
             => reply.status = other.status

\* The id of a registration, whether the reply names it or only links to it,
\* gives the next call the path that the link names.
IdLeadsToAgent(client, pending) ==
    LET id   == GetAgentId(pending)
        path == AgentPath(client.version, <<id>>, <<>>)
        self == SelfLinks(pending)
    IN  self # <<>> =>
            /\ id = Absent <=> /\ pending.agentId = Absent
                               /\ IsSuffix(<<"agents">>, Segments(self[1]))
            /\ id # Absent => IsSuffix(path, Segments(self[1]))

-----------------------------------------------------------------------------
(* The feed of events, read page by page as get_events' example does         *)

\* The page that the authority gives for a request, by the request's own query.
PageFor(feed, request, limit) ==
    LET cursors == {q[2] : q \in {p \in request.url.query : p[1] = "lastLogId"}}
        after   == IF cursors = {} THEN 0 ELSE CHOOSE c \in cursors : TRUE
        upTo    == IF after + limit < Len(feed) THEN after + limit ELSE Len(feed)
    IN  [items     |-> [i \in 1 .. upTo - after |-> Decode(EventItem, feed[after + i])],
         lastLogId |-> IF upTo = Len(feed) THEN Absent ELSE upTo]

EventPage(client, feed, limit, cursor) ==
    Send([status |-> 200, body |-> [kind |-> "json", value |->
            PageFor(feed, GetEvents(client, Absent, Absent, cursor), limit)]],
         EventPageResponse)

ReadEvents(client, feed, limit) ==
    LET \* what is read behind a cursor, in one page and `left` others
        From[left \in 0 .. Len(feed)] ==
            [cursor \in DOMAIN feed \cup {Absent} |->
               LET page == EventPage(client, feed, limit, cursor)
               IN  IF page.error # "none" THEN [error |-> page.error, events |-> <<>>]
                   ELSE IF page.value.lastLogId = Absent \/ left = 0
                        THEN [error |-> "none", events |-> page.value.items]
                   ELSE LET rest == From[left - 1][page.value.lastLogId]
                        IN  [rest EXCEPT !.events = page.value.items \o @]]
    IN  From[Len(feed)][Absent]

\* A reader sees the events of the feed in order, none twice and none left out;
\* it stops early only before a page with an event it cannot name, which it
\* reports.
EventsReadInOrder(client, feed, limit) ==
    LET read  == ReadEvents(client, feed, limit)
        known == {i \in DOMAIN feed : Decode(EventItem, feed[i]) # Malformed}
    IN  /\ \A i \in DOMAIN read.events : read.events[i].logId = feed[i].logId
        /\ read.error = "none" => Len(read.events) = Len(feed)
        /\ (read.error = "none") <=> (known = DOMAIN feed)

\* A list that a Go server leaves nil is an empty list, where a field has a
\* default for it; and a label has one spelling once it was read.
SpellingsAgree(shape, json, field) ==
    LET with(value) == Decode(shape, [json EXCEPT ![field] = value])
    IN  /\ shape[field].list /\ shape[field] = NullableList =>
             with(Null) = with(<<>>) /\ with(Absent) = with(<<>>)
        /\ with(json[field]) # Malformed =>
             Decode(shape, with(json[field])) = with(json[field])
=============================================================================
