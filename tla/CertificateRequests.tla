------------------------ MODULE CertificateRequests ------------------------
(***************************************************************************)
(* Certificate signing requests (crates/ans-client/src/csr.rs) and the life *)
(* of what they ask for: the certificate that is issued, the badge that     *)
(* lists it, and the verdict of a verifier (AgentNames).                    *)
(*                                                                         *)
(* A key in PEM is [key, readable, algorithm, pkcs8]; the `host` of a       *)
(* builder is any name, because a deserialized Fqdn skips Fqdn::new.        *)
(***************************************************************************)
EXTENDS AgentNames

AcceptedAlgorithms == {"RSA", "P-256", "P-384"}

Octets(host) == FoldSeq(LAMBDA label, sum : label.octets + sum, Len(host) - 1, host)

IsIpLiteral(host) ==
    /\ Len(host) = 4
    /\ \A i \in DOMAIN host :
         LET n == host[i].number
         IN  n # Absent /\ n <= 255 /\ host[i].text = ToString(n)

\* canonical_ans_host: the canonical form of a host, or its first fault
HostFault(fqdn) ==
    LET host == Fqdn(fqdn)
    IN  IF host = Malformed THEN "InvalidName"
        ELSE IF Octets(host) > MaxHostOctets THEN "HostTooLong"
        ELSE IF IsIpLiteral(host) THEN "HostIsIpLiteral"
        ELSE IF Len(host) < 2 THEN "HostNotFullyQualified"
        ELSE "none"

\* load_key_pair
KeyFault(pem) ==
    IF pem = Absent THEN "none"
    ELSE IF ~pem.readable THEN "InvalidKeyPair"
    ELSE IF pem.algorithm \notin AcceptedAlgorithms THEN "UnsupportedKeyAlgorithm"
    ELSE IF ~pem.pkcs8 THEN "KeyNotPkcs8"
    ELSE "none"

\* A key that is generated, and how any accepted key is written out.
FreshKey == [key |-> "fresh", readable |-> TRUE, algorithm |-> "RSA", pkcs8 |-> TRUE]
Loaded(pem) == IF pem = Absent THEN FreshKey ELSE pem

\* Mutant: the DNS name and the URI of every kind of request.
BuildSansAlike(host, version, kind) ==
    [dns |-> <<host>>, uris |-> <<AnsUri([version |-> version, host |-> host])>>]

BuildSans(host, version, kind) ==
    [dns  |-> <<host>>,
     uris |-> IF kind = "identity"
              THEN <<AnsUri(AnsName(AnsUri([version |-> version, host |-> host])))>>
              ELSE <<>>]

BuildCsr(key, host, sans, kind) ==
    [cn     |-> IF kind = "identity" THEN host ELSE Absent,
     dns    |-> sans.dns,
     uris   |-> sans.uris,
     usage  |-> IF kind = "identity" THEN {"ClientAuth", "DigitalSignature"}
                ELSE {"ServerAuth", "DigitalSignature", "KeyEncipherment"},
     key    |-> key]

\* AnsCsrBuilder::build: the host is looked at before the key.
BuildRequest(fqdn, version, kind, pem) ==
    IF HostFault(fqdn) # "none" THEN [error |-> HostFault(fqdn)]
    ELSE IF KeyFault(pem) # "none" THEN [error |-> KeyFault(pem)]
    ELSE LET host == Fqdn(fqdn)
         IN  [error |-> "none",
              csr   |-> BuildCsr(Loaded(pem).key, host, BuildSans(host, version, kind), kind),
              pem   |-> Loaded(pem)]

\* What the authority issues: no DNS name for a client, and no URI that a public
\* CA would refuse (ANS-2, quoted at the head of csr.rs and in build_csr).
Issued(csr, fp) ==
    [cn   |-> csr.cn,
     dns  |-> IF "ServerAuth" \in csr.usage THEN csr.dns ELSE <<>>,
     uris |-> csr.uris,
     fp   |-> fp]

-----------------------------------------------------------------------------
(* What a request promises *)

\* The badge of (host, version) that lists one certificate, for one role.
FingerprintOf(fp) == [prefix |-> "SHA256:", hex |-> TRUE, octets |-> 32, bytes |-> fp]
BadgeOf(host, version, role, fp) ==
    LET listed(for) == IF role = for THEN <<FingerprintOf(fp)>> ELSE <<>>
    IN  [status |-> "ACTIVE", schema |-> "V2", host |-> host,
         ansName |-> AnsUri([version |-> version, host |-> host]),
         serverCerts |-> listed("server"), identityCerts |-> listed("identity"),
         serverCert |-> Absent, identityCert |-> Absent]

\* A request that could be built yields a certificate that a verifier accepts in
\* the role asked for, against the badge of its own host and version and against
\* no other badge, even one that lists it; however the host was spelled.
CertificateFitsBadge(fqdn, version, kind, others) ==
    LET built == BuildRequest(fqdn, version, kind, Absent)
        host  == Fqdn(fqdn)
        cert  == Issued(built.csr, "fp")
        fits(other, v) == (other = host) /\ (v = version)
    IN  built.error = "none" =>
            \A other \in {Fqdn(o) : o \in others} \ {Malformed}, v \in {version, <<9, 9, 9>>} :
                /\ ClientVerdict(BadgeOf(other, v, "identity", "fp"), cert) = "Verified"
                     <=> kind = "identity" /\ fits(other, v)
                /\ ServerVerdict(BadgeOf(other, v, "server", "fp"), cert, host) = "Verified"
                     <=> other = host
                /\ ClientVerdict(BadgeOf(other, v, "server", "fp"), cert) # "Verified"
                /\ ServerVerdict(BadgeOf(other, v, "identity", "fp"), cert, host) # "Verified"

\* A renewal with the key that a build returned never fails on the key and asks
\* for the same one; the two certificates differ in their version alone, which a
\* server certificate does not carry.
RenewalKeepsKey(fqdn, version, next, kind, pem) ==
    LET first  == BuildRequest(fqdn, version, kind, pem)
        second == BuildRequest(fqdn, next, kind, first.pem)
    IN  first.error = "none" =>
            /\ second.error = "none" /\ second.csr.key = first.csr.key
            /\ (second.csr = first.csr) <=> (kind = "server" \/ next = version)

\* The URI that binds a version is in identity requests only, and no request is
\* built for a name that no ANS name could have or a key the authority refuses.
RequestsAreAcceptable(fqdn, version, kind, pem) ==
    LET built == BuildRequest(fqdn, version, kind, pem)
    IN  built.error = "none" =>
            /\ (built.csr.uris # <<>>) <=> (kind = "identity")
            /\ \A i \in DOMAIN built.csr.uris :
                 AnsName(built.csr.uris[i]) = [version |-> version, host |-> Head(built.csr.dns)]
            /\ Len(Head(built.csr.dns)) > 1
            /\ built.pem.pkcs8 /\ built.pem.algorithm \in AcceptedAlgorithms
=============================================================================
