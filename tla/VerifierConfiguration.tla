----------------------- MODULE VerifierConfiguration -----------------------
(***************************************************************************)
(* The builders of the verifiers, the results they hand to applications    *)
(* (crates/ans-verify/src/verify.rs) and the certificate verifiers they    *)
(* create for rustls handshakes (rustls_verifier.rs).                      *)
(*                                                                         *)
(* A builder is a record of options; a call of one of its methods is a     *)
(* record [option, to], and Configured applies a sequence of calls.        *)
(***************************************************************************)
EXTENDS LogClients

CONSTANT DefaultCache   \* CacheConfig::default()

DefaultPort == 443

-----------------------------------------------------------------------------
(* Options *)

NoOptions ==
    [resolver |-> Absent, nameservers |-> Absent, preset |-> Absent, tlog |-> Absent,
     cache |-> Absent, maxStaleness |-> Absent, dane |-> "Disabled", port |-> Absent,
     trusted |-> Absent, ca |-> Absent, scitt |-> Absent, keys |-> Absent,
     scittCache |-> Absent]

\* to_ascii_lowercase; hosts of parsed URLs are in lower case already.
Lower(domain) == [domain EXCEPT !.lower = TRUE]

\* Mutant: with_caching replaces the SCITT cache.
EnableCachingReplaces(options) ==
    [options EXCEPT !.cache = DefaultCache, !.scittCache = "defaults"]

\* with_caching brings default caches, but keeps a SCITT cache that is there.
EnableCaching(options) ==
    [options EXCEPT !.cache = DefaultCache,
                    !.scittCache = IF @ = Absent THEN "defaults" ELSE @]

Trust(options, domains) == [options EXCEPT !.trusted = {Lower(d) : d \in domains}]

Call(options, call) ==
    CASE call.option = "caching" -> EnableCaching(options)
      [] call.option = "trusted" -> Trust(options, call.to)
      [] OTHER                   -> [options EXCEPT ![call.option] = call.to]

Configured(calls) ==
    LET After[i \in 0 .. Len(calls)] == IF i = 0 THEN NoOptions ELSE Call(After[i - 1], calls[i])
    IN  After[Len(calls)]

-----------------------------------------------------------------------------
(* build *)

\* The bound an entry of the badge cache lives by: hard_ttl, at least default_ttl.
Residence(cache) == IF cache.hard > cache.default THEN cache.hard ELSE cache.default

BadgeConfigurationOk(options) ==
    /\ options.trusted \notin {Absent, {}}
    /\ (options.cache # Absent /\ options.maxStaleness # Absent) =>
           Residence(options.cache) >= options.maxStaleness

OrDefault(value, default) == IF value = Absent THEN default ELSE value

Resolver(options) ==
    IF options.resolver # Absent THEN options.resolver
    ELSE IF options.nameservers # Absent THEN options.nameservers
    ELSE OrDefault(options.preset, "System")

ClientOf(options) ==
    [resolver |-> Resolver(options), tlog |-> OrDefault(options.tlog, "https"),
     cache |-> options.cache, maxStaleness |-> options.maxStaleness,
     trusted |-> options.trusted]

ServerOf(options) ==
    LET client == ClientOf(options)
    IN  [field \in DOMAIN client \cup {"dane", "port"} |->
            CASE field = "dane" -> options.dane
              [] field = "port" -> OrDefault(options.port, DefaultPort)
              [] OTHER          -> client[field]]

\* `systemDns`: the configuration of the system's resolver can be read.
ResolverOk(options, systemDns) == Resolver(options) = "System" => systemDns

BuildServer(options, systemDns) ==
    IF ~BadgeConfigurationOk(options) THEN Err("Configuration")
    ELSE IF ~ResolverOk(options, systemDns) THEN Err("ResolverError")
    ELSE Ok(ServerOf(options))

BuildClient(options, systemDns) ==
    IF ~BadgeConfigurationOk(options) THEN Err("Configuration")
    ELSE IF ~ResolverOk(options, systemDns) THEN Err("ResolverError")
    ELSE Ok(ClientOf(options))

BadgeEnabled(options) == options.scitt # "RequireScitt"

Build(options, systemDns) ==
    IF options.scitt # Absent /\ options.keys = Absent THEN Err("Configuration")
    ELSE IF BadgeEnabled(options) /\ ~BadgeConfigurationOk(options) THEN Err("Configuration")
    ELSE IF ~ResolverOk(options, systemDns) THEN Err("ResolverError")
    ELSE Ok([server |-> ServerOf(options), client |-> ClientOf(options), ca |-> options.ca,
             scitt |-> options.scitt, keys |-> options.keys,
             scittCache |-> options.scittCache])

-----------------------------------------------------------------------------
(* Outcomes *)

BadgeOutcomes ==
    {"Verified", "InvalidStatus", "FingerprintMismatch", "HostnameMismatch", "AnsNameMismatch"}

\* The error each outcome is turned into.
ErrorOf ==
    [NotAnsAgent |-> "Dns", InvalidStatus |-> "Verification",
     FingerprintMismatch |-> "Verification", HostnameMismatch |-> "Verification",
     AnsNameMismatch |-> "Verification", DnsError |-> "Dns",
     TlogError |-> "TransparencyLog", CertError |-> "Certificate", ParseError |-> "Parse",
     DaneError |-> "Verification", ScittVerified |-> "Configuration", ScittError |-> "Scitt"]

IsSuccess(outcome) == outcome.kind \in {"Verified", "ScittVerified"}
IsNotAnsAgent(outcome) == outcome.kind = "NotAnsAgent"
IsTerminal(outcome) ==
    \/ outcome.kind = "InvalidStatus" /\ outcome.of \in {"REVOKED", "EXPIRED"}
    \/ outcome.kind = "ScittError" /\ IsTerminalStatus(outcome.of)

BadgeOf(outcome) ==
    IF outcome.kind \in BadgeOutcomes \cup {"ScittVerified"} THEN outcome.badge ELSE Absent

IntoResult(outcome) ==
    IF IsSuccess(outcome) /\ outcome.badge # Absent THEN Ok(outcome.badge)
    ELSE Err(ErrorOf[outcome.kind])

IntoScittResult(outcome) ==
    IF IsSuccess(outcome) THEN Ok(outcome.badge) ELSE IntoResult(outcome)

-----------------------------------------------------------------------------
(* Certificate verifiers for rustls *)

\* parse_pem_certs: one section that does not parse spoils the file.
CertsOf(pem) ==
    IF "garbage" \in Range(pem) \/ pem = <<>> THEN Absent ELSE Range(pem)

ClientCertVerifier(options, required) ==
    IF options.ca = Absent \/ CertsOf(options.ca) = Absent THEN Err("Configuration")
    ELSE Ok([roots |-> CertsOf(options.ca), required |-> required])

\* The application pins the first server certificate of the badge it prefetched.
ServerCertVerifier(badge, roots) ==
    IF badge.certs = <<>> THEN Err("Parse")
    ELSE IF roots = {} THEN Err("Configuration")
    ELSE Ok([roots |-> roots, expected |-> Head(badge.certs)])

\* The chain validation of WebPKI: issuer, validity and purpose.
WebPki(cert, roots, purpose) ==
    cert.issuer \in roots /\ cert.timely /\ purpose \in cert.purposes

VerifyServerCert(verifier, cert, name) ==
    IF ~WebPki(cert, verifier.roots, "server") \/ name \notin cert.names
    THEN "InvalidCertificate"
    ELSE IF verifier.expected # cert.fp THEN "FingerprintMismatch"
    ELSE "none"

\* rustls asks the verifier if a certificate came, and whether one must.
VerifyClientCert(verifier, cert) ==
    IF cert = Absent THEN IF verifier.required THEN "NoCertificate" ELSE "none"
    ELSE IF WebPki(cert, verifier.roots, "client") THEN "none" ELSE "InvalidCertificate"

-----------------------------------------------------------------------------
(* Properties *)

Touches(call) == IF call.option = "caching" THEN "cache" ELSE call.option

\* The order of calls that set different options does not matter: among others a
\* custom SCITT cache "overrides the default cache created by with_caching" whether
\* it is set before or after.
CallsCommute(calls) ==
    \A i \in DOMAIN calls :
        (i > 1 /\ Touches(calls[i]) # Touches(calls[i - 1])) =>
            Configured([calls EXCEPT ![i] = calls[i - 1], ![i - 1] = calls[i]])
                = Configured(calls)

\* The domains of the last call that set them.
Allowlist(calls) ==
    LET sets == {i \in DOMAIN calls : calls[i].option = "trusted"}
    IN  IF sets = {} THEN {} ELSE calls[CHOOSE i \in sets : \A j \in sets : j <= i].to

\* A verifier that was built fetches badges only over https and from the domains the
\* application listed last, in whatever case; one that requires SCITT and lists
\* none fetches none at all.  A fail-open policy is never promised a cached badge
\* for longer than the cache keeps it.
BuildIsSafe(calls, systemDns, url) ==
    LET options == Configured(calls)
        built   == Build(options, systemDns)
        domains == IF options.trusted = Absent THEN {} ELSE options.trusted
    IN  IsOk(built) =>
          /\ ValidateBadgeDomain(domains, url) = "none" =>
               url.scheme = "https" /\ \E d \in Allowlist(calls) : Lower(d) = url.host
          /\ Allowlist(calls) = {} => built.value.scitt = "RequireScitt"
          /\ built.value.scitt # Absent => built.value.keys # Absent
          /\ \A age \in 0 .. OrDefault(options.maxStaleness, 0) :
               (built.value.scitt # "RequireScitt" /\ options.cache # Absent) =>
                   age <= Residence(options.cache)

\* Without SCITT an AnsVerifier is the pair of verifiers that their own builders
\* make from the same options, and is refused for the same reasons.
BuildersAgree(calls, systemDns) ==
    LET options == Configured(calls)
        both    == Build(options, systemDns)
        server  == BuildServer(options, systemDns)
        client  == BuildClient(options, systemDns)
    IN  options.scitt = Absent =>
          /\ both.error = server.error /\ both.error = client.error
          /\ IsOk(both) => both.value.server = server.value /\ both.value.client = client.value

\* The accessors of an outcome agree: into_scitt_result is Ok exactly for the
\* successes ("consistent with is_success", verify.rs), into_result for those that
\* carry a badge, and no terminal agent or absent one is a success.
OutcomesAgree(outcome) ==
    /\ IsOk(IntoScittResult(outcome)) <=> IsSuccess(outcome)
    /\ IsOk(IntoResult(outcome)) <=> IsSuccess(outcome) /\ BadgeOf(outcome) # Absent
    /\ IsOk(IntoResult(outcome)) => IntoResult(outcome).value = IntoScittResult(outcome).value
    /\ IsTerminal(outcome) \/ IsNotAnsAgent(outcome) => ~IsSuccess(outcome)

\* A handshake accepts a server only with a certificate of the prefetched badge, so
\* that the verification after it cannot end in a fingerprint mismatch; a client
\* only with a certificate of the CA that was configured, or without one if it is
\* optional.  Nothing is verified under a CA file that is empty or partly garbage.
HandshakesAreSound(options, required, badge, roots, cert, name) ==
    LET client == ClientCertVerifier(options, required)
        server == ServerCertVerifier(badge, roots)
    IN  /\ IsOk(client) /\ VerifyClientCert(client.value, cert) = "none" =>
             IF cert = Absent THEN ~required
             ELSE /\ cert.timely /\ "client" \in cert.purposes
                  /\ \E i \in DOMAIN options.ca : options.ca[i] = cert.issuer
        /\ IsOk(client) => "garbage" \notin Range(options.ca)
        /\ (cert # Absent /\ IsOk(server) /\ VerifyServerCert(server.value, cert, name) = "none") =>
             /\ cert.fp \in Range(badge.certs)
             /\ cert.issuer \in roots /\ name \in cert.names
=============================================================================
