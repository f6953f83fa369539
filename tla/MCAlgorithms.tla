---------------------------- MODULE MCAlgorithms ----------------------------
(***************************************************************************)
(* Bounded inputs for the pure modules.  Each action picks the arguments of *)
(* one family of functions; the invariants of the family judge them.       *)
(***************************************************************************)
EXTENDS Questions, TLC

INSTANCE DaneMatching   \* with DnsDiscovery, which it extends

MCDefaultCache == [default |-> 1, hard |-> 4]

None == [family |-> "none"]

Some(defects) == {{}} \cup {{d} : d \in defects}

-----------------------------------------------------------------------------
(* DNS *)

F(key, value) == [key |-> key, value |-> value]
TxtRows ==
    { <<F("v", "1"), F("url", "a"), F("version", 1), F("p", "a2a")>>,
      <<F("v", "1"), F("url", "b"), F("version", Bad), F("p", "mcp"), F("mode", "x")>>,
      <<F("url", Bad), F("v", "1"), F("url", "c"), F("p", "mcp")>>,
      <<F("url", "d"), F("version", 2)>> }

Raw(value, defect) == [value |-> value, defect |-> defect]
Param(key, raw) == [key |-> key, raw |-> raw]
SvcbRows ==
    { [priority |-> 1, params |-> <<Param("bap", Raw("x", "utf8")), Param("alpn", Raw("a2a", "none"))>>],
      [priority |-> 2, params |-> <<Param("cap", Raw("u", "url")), Param("bap", Raw("mcp", "none"))>>],
      [priority |-> 0, params |-> <<Param("bap", Raw("mcp", "none"))>>],
      [priority |-> 1, params |-> <<Param("alpn", Raw("", "empty"))>>] }

Replies(rows) == {Failed(k) : k \in FailureKinds} \cup {Answer(s) : s \in UpTo(2, rows)}

PickBadgeLookup ==
    \E first, second \in Replies(TxtRows) : Pick("badge", <<first, second>>)
PickDiscovery ==
    \E svcb \in Replies(SvcbRows), txt \in Replies(TxtRows) : Pick("discovery", <<svcb, txt>>)
PickRecords ==
    \E records \in UpTo(3, [version : {Absent, 1, 2, 3}, url : {"a", "b"}]) :
        records # <<>> /\ Pick("records", records)

-----------------------------------------------------------------------------
(* The log and its artifacts *)

\* One reply per host, for all its URLs; a redirect leads to either host.
LogPaths ==
    {<<"v1", "agents", "id">>, <<"v1", "agents", "id", "audit">>, <<"ans", "root-keys">>}
    \cup {<<"ans", "v1", "agents", "id", leaf>> : leaf \in {"receipt", "status-token"}}
LogUrls == [scheme : {"http", "https"}, host : {"log", "evil"}, path : LogPaths]
LogUrl(scheme, host) == [scheme |-> scheme, host |-> host, path |-> <<"v1", "agents", "id">>]
Body(kind, value) == [kind |-> kind, value |-> value]
Reply(status, location, body) == [status |-> status, location |-> location, body |-> body]
LogReplies ==
    {NoReply}
    \cup {Reply(302, LogUrl("https", h), Body("malformed", <<>>)) : h \in {"log", "evil"}}
    \cup {Reply(s, Absent, Body("malformed", <<>>)) :
             s \in {400, 404, 410, 429, 499, 500, 501, 503, 200, 299}}
    \cup {Reply(200, Absent, Body("cut", <<>>))}
BadgeReplies ==
    LogReplies \cup {Reply(200, Absent, Body("whole", [status |-> s])) :
                        s \in {"ACTIVE", "REVOKED", "UNKNOWN"}}
ByteReplies ==
    LogReplies \cup {Reply(200, Absent, Body(k, lines)) :
                        k \in {"whole", "oversized"}, lines \in UpTo(2, {"", "key"})}
LogWeb(log, evil) == [u \in LogUrls |-> IF u.host = "log" THEN log ELSE evil]
LogClient(base, headers) == [base |-> base, headers |-> headers]
LogAt(scheme, path) == [scheme |-> scheme, host |-> "log", path |-> path]
LogBases ==
    {Absent} \cup {base.value : base \in {Log!WithBaseUrl(LogAt(s, <<"">>)) : s \in {"http", "https"}}}
ScittUrls == {LogAt("https", <<"ans">>), LogAt("https", <<"ans", "">>)}

PickLog ==
    \E headers \in {{}, {"bad"}} :
        \/ \E log, evil \in BadgeReplies, base \in LogBases,
              url \in {LogUrl(s, h) : s \in {"http", "https"}, h \in {"log", "evil"}} :
              Pick("log", <<{"log"}, LogClient(base, headers), "id", url, LogWeb(log, evil)>>)
        \/ \E log, evil \in ByteReplies, url \in ScittUrls :
              Pick("artifacts", <<url, LogClient(Log!ScittBase(url), headers), "id", LogWeb(log, evil)>>)
PickErrors ==
    \E errors \in UpTo(3, {"HttpError", "ServiceUnavailable", "StatusUnknown", "NotFound",
                           "InvalidResponse", "UntrustedDomain"}) :
        errors # <<>> /\ Pick("errors", errors)

ServFailIsOutage == Given("badge") => OutageIsNotAbsence(input.of[1], input.of[2])

-----------------------------------------------------------------------------
(* DANE *)

TlsaRows ==
    [usage : {2, 3}, selector : {0, 1}, matching : {0, 1},
     data : {Data(h, b) : h \in {"exact", "SHA-256"}, b \in {"der", "key"}}
            \cup {Data("SHA-256", "other")}]
    \cup {[usage |-> 3, selector |-> 0, matching |-> m, data |-> d] :
             m \in {1, 7}, d \in {Absent, Data("SHA-256", "der")}}
Certs == [der : {"der"}, spki : {"key"}, known : BOOLEAN]
Zones == [bogus : BOOLEAN, rows : UpTo(1, TlsaRows)]
Resolvers ==
    {WithPreset(p) : p \in {"System", "CloudflareTls", "Google", "Quad9"}}
    \cup {WithNameservers("s"), WithDnssec}
    \cup {WithConfig([servers |-> "s", tls |-> FALSE, validate |-> v]) : v \in BOOLEAN}

PickTlsa ==
    \E reply \in Replies(TlsaRows), cert \in Certs, policy \in DanePolicy :
        Pick("tlsa", <<reply, cert, policy>>)
PickZone ==
    \E resolver \in Resolvers, zone \in Zones, cert \in Certs, policy \in DanePolicy :
        Pick("zone", <<resolver, zone, cert, policy>>)
PickRenewal ==
    \E row \in TlsaRows, old \in Certs, der, spki \in {"der", "key", "other"} :
        /\ TlsaRecord(row) # Malformed
        /\ Pick("renewal", <<row, old, [old EXCEPT !.der = der, !.spki = spki]>>)

-----------------------------------------------------------------------------
(* Merkle proofs *)

Leaves == 0 .. 6
Bytes == {<<i>> : i \in Leaves}
         \cup {<<Merkle!LeafHash(<<i>>), Merkle!LeafHash(<<i + 1>>)>> : i \in 0 .. 5}

PickWalk ==
    \E n \in 0 .. 6, index \in Leaves, bytes \in Bytes : Pick("walk", <<n, index, bytes, 3>>)

-----------------------------------------------------------------------------
(* Configuration: sequences of builder calls, outcomes and handshakes        *)

Domain(name, lower) == [name |-> name, lower |-> lower]
Set(option, value) == [option |-> option, to |-> value]
SmallCache == [default |-> 1, hard |-> 1]
BuilderCalls ==
    {Set("caching", Absent), Set("cache", SmallCache), Set("maxStaleness", 2),
     Set("scittCache", "custom"), Set("scitt", "RequireScitt"), Set("scitt", "BadgeFallback"),
     Set("keys", "static"), Set("resolver", "r"), Set("preset", "Quad9"), Set("port", 8443)}
    \cup {Set("trusted", d) : d \in {{}, {Domain("log", FALSE)}, {Domain("evil", TRUE)}}}
TrustUrls ==
    [scheme : {"http", "https"}, host : {Absent} \cup {Domain(d, TRUE) : d \in {"log", "evil"}}]

CacheCalls ==
    {c \in BuilderCalls : c.option \in {"caching", "cache", "maxStaleness"}}
    \cup {Set("trusted", {Domain("log", FALSE)})}

PickBuild ==
    \E calls \in UpTo(3, BuilderCalls) \cup [1 .. 4 -> CacheCalls] : Pick("build", <<calls, TrustUrls>>)

OutcomeOf(kind, of, badge) == [kind |-> kind, of |-> of, badge |-> badge]
PickOutcome ==
    \E badge \in {Absent, "badge"} :
        \/ \E kind \in DOMAIN Config!ErrorOf \cup {"Verified"} :
              /\ kind \in {"Verified", "InvalidStatus", "FingerprintMismatch", "HostnameMismatch",
                          "AnsNameMismatch"} => badge # Absent
              /\ kind \notin {"InvalidStatus", "ScittError"}
              /\ Pick("outcome", OutcomeOf(kind, "none", badge))
        \/ \E status \in {"WARNING", "REVOKED", "EXPIRED", "UNKNOWN"} :
              badge # Absent /\ Pick("outcome", OutcomeOf("InvalidStatus", status, badge))
        \/ \E e \in {"AgentTerminal", "TerminalStatus", "NotFound", "SignatureInvalid"} :
              Pick("outcome", OutcomeOf("ScittError", e, Absent))

TlsCerts ==
    [issuer : {"ca", "other"}, timely : BOOLEAN, purposes : {{"server"}, {"client"}},
     names : {{"h"}, {"x"}}, fp : {1, 2, 3}]
PickHandshake ==
    \E ca \in {Absent, <<>>, <<"ca">>, <<"other", "ca">>, <<"ca", "garbage">>}, required \in BOOLEAN,
       certs \in UpTo(2, {1, 2}), cert \in TlsCerts \cup {Absent}, roots \in {{}, {"ca"}} :
        Pick("handshake", <<[ca |-> ca], required, [certs |-> certs], roots, cert, "h">>)

-----------------------------------------------------------------------------
(* SCITT artifacts: two log keys and every pair of defects of the checks     *)

K1 == [hash |-> 1, id |-> "a"]
K2 == [hash |-> 2, id |-> "b"]
Line(kid, key, defects) == [defects |-> defects, name |-> "log", kid |-> kid, key |-> key]
Store1 == FromC2sp(<<Line(1, K1, {})>>)
NewLines ==
    { <<Line(2, K2, {})>>, <<Line(1, K2, {}), Line(2, K2, {"point"})>>,
      <<Line(1, [hash |-> 1, id |-> "c"], {}), Line(2, K2, {})>> }

Defects ==
    {"oversized", "cbor", "trailing", "arity", "sig length", "header", "alg", "kid length",
     "sig encoding", "payload", "agent id", "too many certs", "cert field", "metadata",
     "field", "ans name", "vds", "no vdp", "path", "walk"}

PickArtifact ==
    \E d, e \in Defects \cup {"none"}, kid \in {1, 2}, signer \in {K1, K2},
       iss \in {"log", "other", NoIssuer}, status \in {"ACTIVE", "REVOKED", "bogus"},
       exp \in {5, 9} :
        Pick("artifact", <<[defects |-> {d, e} \ {"none"}, kid |-> kid, signer |-> signer,
                            iss |-> iss, status |-> status, exp |-> exp],
                           Store1, NewLines, 1, 7>>)

-----------------------------------------------------------------------------
(* Proofs of possession *)

Url(scheme, port, path, query, defects) ==
    [scheme |-> scheme, host |-> "h", port |-> port, path |-> path, query |-> query,
     defects |-> defects]
Urls ==
    {Url(s, p, path, q, {}) : s \in {"http", "https"}, p \in {0, 80, 443},
                              path \in {"", "/", "/a"}, q \in BOOLEAN}
    \cup {Url("https", 0, "/", FALSE, {"userinfo"}), Url("ftp", 0, "/", FALSE, {})}
HomeUrl == Url("https", 443, "/", FALSE, {})

Request(method, url, token) ==
    [method |-> method, url |-> url, token |-> token, content |-> "body"]
Cert(key, fp, name, until) ==
    [key |-> key, fp |-> fp, name |-> name, from |-> 0, until |-> until, defects |-> {}]
Name(host, version) == [host |-> host, version |-> version]
CallerCert == Cert("k", "fp", Name("caller", 1), 20)

PickProof ==
    \/ \E minted, received \in Urls :
         Pick("proof", <<"k", CallerCert, Request("POST", minted, Absent),
                         Request("POST", received, Absent), 10, 10>>)
    \/ \E key \in {"k", "l"}, m, n \in {"GET", "POST"}, t, u \in {Absent, "t", "u"},
         until \in {8, 10, 20}, at \in 9 .. 11, now \in 7 .. 14 :
         Pick("proof", <<key, Cert("k", "fp", Absent, until), Request(m, HomeUrl, t),
                         Request(n, HomeUrl, u), at, now>>)

Keys == {Store1, MergeFrom(Store1, <<Line(2, K2, {})>>)}
StatusToken(signer, status, exp, host, fps) ==
    [defects |-> {}, kid |-> signer.hash, signer |-> signer, iss |-> "log", exp |-> exp,
     status |-> status, ansName |-> Name(host, 1), agent |-> "id", host |-> host,
     serverCerts |-> {}, identityCerts |-> fps]
StatusTokens ==
    {StatusToken(k, s, e, h, f) : k \in {K1, K2}, s \in {"ACTIVE", "REVOKED"}, e \in {8, 20},
                                  h \in {"caller", "peer"}, f \in {{"fp"}, {"fq"}}}
Receipts ==
    {Absent} \cup
    {[defects |-> d, kid |-> k.hash, signer |-> k, iss |-> NoIssuer,
      ansName |-> Name("caller", v), ansId |-> {}, host |-> {}] :
         d \in Some({"walk"}), k \in {K1, K2}, v \in {1, 2}}

Options(authorities, required, allowed) ==
    [authorities |-> authorities, requireReceipt |-> required, allowed |-> allowed,
     statusSkew |-> 1]
AllOptions ==
    {Options(a, r, n) : a \in {{}, {[host |-> "h", port |-> 443]}, {[host |-> "x", port |-> 0]}},
                        r \in BOOLEAN, n \in {{}, {Name("caller", 7)}}}

Minted(key, url) == Sign(key, CallerCert, Request("POST", url, Absent), "jti", 10)
Proofs ==
    { Absent, Minted("k", HomeUrl), Minted("l", HomeUrl),
      Minted("k", Url("https", 0, "/a", FALSE, {})),
      [Minted("k", HomeUrl) EXCEPT !.header.jwk = "l"],
      [Minted("k", HomeUrl) EXCEPT !.header.x5c[1].fp = "fq"],
      [Minted("k", HomeUrl) EXCEPT !.header.x5c[1].name = Absent],
      [Minted("k", HomeUrl) EXCEPT !.payload.iat = 11],
      [Minted("k", HomeUrl) EXCEPT !.payload.jti = "jti2"],
      [Minted("k", HomeUrl) EXCEPT !.defects = {"digest"}] }

CallerRequest(proof, status, receipt, content) ==
    [method |-> "POST", url |-> Url("https", 0, "", TRUE, {}), token |-> Absent,
     content |-> content, proof |-> proof, status |-> status, receipt |-> receipt]

\* A cache that is empty, or what an earlier request left under the same keys or
\* before a rotation, at a time when its token was live.
CachesOf(status, receipt) ==
    {NoArtifacts} \cup
    {VerifyCaller(CallerRequest(Minted("k", HomeUrl), status, receipt, "body"),
                  Options({}, FALSE, {}), keys, NoArtifacts, "fresh", 8).cache : keys \in Keys}

Live == StatusToken(K1, "ACTIVE", 20, "caller", {"fp"})
PickCallerWith(request, opts, keys, replay, now) ==
    \E cache \in IF request.status = Absent THEN {NoArtifacts}
                 ELSE CachesOf(request.status, request.receipt) :
        Pick("caller", <<request, opts, keys, cache, replay, now>>)

\* The artifacts vary under one good proof; or the proof, its content and the
\* options over one live token.
PickCaller ==
    \/ \E status \in StatusTokens \cup {Absent}, receipt \in Receipts, keys \in Keys,
          now \in {9, 10}, opts \in {Options({}, r, {}) : r \in BOOLEAN} :
          PickCallerWith(CallerRequest(Minted("k", HomeUrl), status, receipt, "body"),
                         opts, keys, "fresh", now)
    \/ \E proof \in Proofs, opts \in AllOptions, replay \in {"fresh", "seen", "full"},
          content \in {"body", "other", Absent},
          receipt \in {r \in Receipts : r # Absent => r.defects = {} /\ r.signer = K1} :
          PickCallerWith(CallerRequest(proof, Live, receipt, content), opts, Store1, replay, 10)

-----------------------------------------------------------------------------
(* Names, certificate requests and the registration client *)

Label(text, fault, octets, number) ==
    [text |-> text, upper |-> FALSE, octets |-> octets, fault |-> fault, number |-> number]
Plain(text) == Label(text, "none", 1, Absent)
Upper(label) == [label EXCEPT !.upper = TRUE]
Number(n) == Ans!Digits(n)
Long(octets) == Label("long", "none", octets, Absent)
EmptyLabel == Label("", "empty", 0, Absent)
Faulty == {Label("-a", "hyphen", 2, Absent), Label("a_", "char", 2, Absent), Long(64), EmptyLabel}

Hosts ==
    {<<Plain("a"), Plain("com")>>, <<Upper(Plain("a")), Plain("com"), EmptyLabel>>,
     <<Plain("b"), Plain("a"), Plain("com")>>, <<Number(1), Plain("com")>>,
     <<Plain("com")>>, <<>>, <<EmptyLabel>>, <<Plain("a"), EmptyLabel, Plain("com")>>,
     <<Number(1), Number(0), Number(255), Number(9)>>,
     <<Number(1), Number(0), Number(256), Number(9)>>,
     <<Number(1), Label("00", "none", 2, 0), Number(255), Number(9)>>,
     <<Long(63), Long(63), Long(63), Long(61)>>, <<Long(63), Long(63), Long(63), Long(62)>>}
    \cup {<<f, Plain("com")>> : f \in Faulty} \cup {<<Plain("a"), f>> : f \in Faulty}

Versions == {<<1, 0, 0>>, <<1, 0, 1>>, <<10, 2, 0>>}
VersionLabels == {Number(0), Number(12), Label("01", "none", 2, 1), Label("+1", "char", 2, 1),
                  Plain("x"), EmptyLabel}
Uris ==
    {[scheme |-> s, v |-> v, labels |-> ls \o host] :
        s \in {"ans"}, v \in {TRUE}, ls \in [1 .. 3 -> VersionLabels], host \in Hosts}
    \cup {[scheme |-> s, v |-> v, labels |-> <<Number(1), Number(0), Number(0)>> \o host] :
            s \in {"ans", "https"}, v \in BOOLEAN, host \in Hosts}

KeyPems ==
    {Absent} \cup [key : {"k"}, readable : BOOLEAN, algorithm : {"RSA", "P-384", "Ed25519"},
                   pkcs8 : BOOLEAN]

PickName == \/ \E uri \in Uris : Pick("name", uri)
            \/ \E a, b \in Hosts : Pick("lookups", <<a, b>>)
PickRequest ==
    \E host \in Hosts, version, next \in Versions, kind \in {"server", "identity"}, pem \in KeyPems :
        Pick("request", <<host, version, next, kind, pem, Hosts>>)

Fp(bytes) == Ans!FingerprintOf(bytes)
FpLists ==
    {Absent, <<>>, <<Fp("x")>>, <<Fp("y"), Fp("x")>>, <<[Fp("x") EXCEPT !.prefix = "sha256:"]>>}
    \cup {<<[Fp("x") EXCEPT !.prefix = ""]>>, <<[Fp("x") EXCEPT !.octets = 31]>>}
CertHosts == {<<Plain("a"), Plain("com")>>, <<Plain("b"), Plain("com")>>}
BadgeUri == Ans!AnsUri([version |-> <<1, 0, 0>>, host |-> <<Plain("a"), Plain("com")>>])
BadgeJson(fields) == fields @@ [f \in Ans!RequiredFields |-> "value"]
PickBadgeCert ==
    \E status \in {"ACTIVE", "DEPRECATED", "REVOKED", "UNKNOWN", "NEW"}, schema \in {"V1", "V2", "V3"},
       certs \in FpLists, other \in {<<>>, <<Fp("x")>>}, legacy \in {Absent, Fp("x")},
       event \in {"AGENT_RENEWED", "AGENT_PAUSED"}, missing \in {{}, {"raId"}}, swap \in BOOLEAN,
       dns \in {<<>>} \cup {<<h>> : h \in CertHosts}, name \in {Absent, BadgeUri} :
        Pick("badge of", <<
            BadgeJson([f \in missing |-> Absent] @@
            [status |-> status, schema |-> schema, eventType |-> event, ansName |-> BadgeUri,
             host |-> <<Upper(Plain("a")), Plain("com")>>,
             serverCerts |-> IF swap THEN other ELSE certs, serverCert |-> Absent,
             identityCerts |-> IF swap THEN certs ELSE other, identityCert |-> legacy]),
            [cn |-> <<Plain("a"), Plain("com")>>, dns |-> dns, fp |-> "x",
             uris |-> IF name = Absent THEN <<>> ELSE <<name>>],
            CertHosts>>)
PickLabels ==
    \E a, b \in {Plain("X509-DV-SERVER"), Plain("X509-OV-CLIENT"), Plain("new")} :
        Pick("labels", <<a, Upper(b)>>)

-----------------------------------------------------------------------------
(* The registration client *)

RaUrl(scheme, path) == [scheme |-> scheme, host |-> "ra", path |-> path, query |-> {}]
Header(name, value, valid) == [name |-> name, value |-> value, valid |-> valid]
RaOptions ==
    [baseUrl : {Absent, Malformed, RaUrl("https", <<"base">>), RaUrl("http", <<"">>)},
     auth : {Absent, [kind |-> "jwt", token |-> "t"],
             [kind |-> "api key", key |-> "k", secret |-> "s"]},
     headers : {<<>>, <<Header("x", <<"1">>, TRUE), Header("x", <<"2">>, TRUE)>>,
                <<Header("x", <<"1">>, TRUE), Header("y", <<"2">>, FALSE)>>},
     allowInsecure : BOOLEAN, version : {"V1", "V2"}]
MCClient(version) ==
    RA!BuildClient([baseUrl |-> Absent, auth |-> Absent, headers |-> <<>>,
                    allowInsecure |-> FALSE, version |-> version])

AgentIds == {<<"a">>, <<"b">>, <<"a", "revoke">>, <<"a", "certificates", "server">>,
             <<"events">>, <<"">>, <<".">>, <<"..">>}

PickClient ==
    \E opts \in RaOptions, profiles \in {<<>>, <<"ANS_TXT">>, <<"ANS_DNSAID", "ANS_TXT">>} :
        Pick("client", <<opts, profiles, AgentIds>>)

Json(value) == [kind |-> "json", value |-> value]
RaReplies ==
    {NoReply} \cup
    {[status |-> s, body |-> b] :
        s \in {199, 200, 201, 299, 302, 400, 401, 403, 404, 409, 410, 418, 422, 429, 500, 503, 599},
        b \in {[kind |-> "cut"], [kind |-> "text"],
               Json([status |-> "s", code |-> "c", message |-> "m"]),
               Json([csrId |-> "id"]), Json([csrId |-> Null])}}
PickReplies == \E one, two \in RaReplies : Pick("replies", <<one, two>>)

LinkTo(rel, href) == [rel |-> rel, href |-> href]
Hrefs(collection) ==
    {pre \o collection \o post :
        pre \in {<<"">>, <<"https:", "", "ra">>}, post \in {<<"id">>, <<"id", "">>, <<>>, <<"", "">>}}
PickPending ==
    \E version \in {"V1", "V2"}, id \in {Absent, "id"} :
        \E href \in Hrefs(RA!AgentsCollectionPath(version)) :
            \E links \in {<<>>, <<LinkTo("self", href)>>,
                          <<LinkTo("next", <<"", "x">>), LinkTo("self", href)>>} :
                /\ id # Absent => \E i \in DOMAIN href : href[i] = "id"
                /\ Pick("pending", <<MCClient(version), [agentId |-> id, links |-> links]>>)

Event(i, type) ==
    [logId |-> i, eventType |-> type, createdAt |-> 0, agentId |-> "id", ansName |-> "name",
     agentHost |-> "host", version |-> "1.0.0"]
PickFeed ==
    \E types \in UpTo(4, {"AGENT_REGISTERED", "AGENT_REVOKED", "AGENT_PAUSED"}), limit \in 1 .. 3 :
        Pick("feed", <<MCClient("V1"), [i \in DOMAIN types |-> Event(i, types[i])], limit>>)

\* The smallest object that reads as a shape, with a label for each choice.
Smallest(shape) ==
    [f \in DOMAIN shape |->
       IF shape[f].list THEN <<>>
       ELSE IF shape[f].labels # RA!AnyLabel THEN CHOOSE l \in DOMAIN shape[f].labels : TRUE
       ELSE "value"]
Shapes ==
    {RA!AgentFunction, RA!AgentEndpoint, RA!Link, RA!DnsRecord, RA!DnsRecordDetails,
     RA!ChallengeInfo, RA!NextStep, RA!RegistrationPending, RA!AgentStatus, RA!AgentDetails,
     RA!AgentSearchResult, RA!AgentSearchResponse, RA!AgentRevocationResponse,
     RA!CertificateResponse, RA!CsrSubmissionResponse, RA!CsrStatusResponse,
     RA!AgentResolutionResponse, RA!EventItem, RA!EventPageResponse}
PickJson ==
    \E shape \in Shapes : \E field \in DOMAIN shape :
        \E value \in {Absent, Null, Malformed, Smallest(shape)[field]}
                     \cup (LET items == DOMAIN shape[field].labels \cup {"new"}
                           IN  IF shape[field].list
                               THEN {<<i>> : i \in items} \cup {<<i, Malformed>> : i \in items}
                               ELSE items) :
            Pick("json", <<shape, [Smallest(shape) EXCEPT ![field] = value], field>>)

-----------------------------------------------------------------------------
Init == input = None
Choose ==
    \/ PickBadgeLookup \/ PickDiscovery \/ PickRecords \/ PickLog \/ PickErrors
    \/ PickTlsa \/ PickZone \/ PickRenewal \/ PickWalk
    \/ PickBuild \/ PickOutcome \/ PickHandshake
    \/ PickArtifact \/ PickProof \/ PickCaller
    \/ PickName \/ PickRequest \/ PickBadgeCert \/ PickLabels
    \/ PickClient \/ PickReplies \/ PickPending \/ PickFeed \/ PickJson
Next == input = None /\ Choose
Spec == Init /\ [][Next]_input
=============================================================================
