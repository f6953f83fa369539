----------------------------- MODULE AgentNames -----------------------------
(***************************************************************************)
(* Names, versions, badges and certificate identities (crates/ans-types),   *)
(* the requests for certificates that carry them (ans-client/src/csr.rs)    *)
(* and the comparisons verifiers make with them (ans-verify/src/verify.rs). *)
(*                                                                         *)
(* A domain name is a sequence of labels.  A label has a text, says whether *)
(* it is written in capitals, how long it is, whether it is empty or has a  *)
(* fault (a bad character, a hyphen at an end), and which u32 it reads as.  *)
(***************************************************************************)
EXTENDS Naturals, Sequences, FiniteSets, SequencesExt, TLC, Selection

CONSTANTS
    Absent,      \* an optional value that is not there
    Malformed    \* what does not parse

MaxLabel == 63
MaxHostOctets == 253

-----------------------------------------------------------------------------
(* Hosts *)

LowerLabel(label) == [label EXCEPT !.upper = FALSE]
LowerName(name) == [i \in DOMAIN name |-> LowerLabel(name[i])]
EqIgnoreCase(a, b) == LowerName(a) = LowerName(b)

LabelOk(label) == label.fault = "none" /\ label.octets <= MaxLabel

\* trim_end_matches('.')
Trimmed(name) ==
    LET ends == {i \in DOMAIN name : name[i].fault # "empty"}
    IN  IF ends = {} THEN <<>> ELSE SubSeq(name, 1, Max(ends))

\* Fqdn::new
Fqdn(name) ==
    LET domain == Trimmed(name)
    IN  IF domain = <<>> \/ \E i \in DOMAIN domain : ~LabelOk(domain[i]) THEN Malformed
        ELSE LowerName(domain)

Prefix(text) ==
    [text |-> text, upper |-> FALSE, octets |-> Len(text), fault |-> "char", number |-> Absent]

\* The DNS names that are asked about a host, each with its record type.
LookupNames(host) ==
    {<<"SVCB", host>>, <<"TLSA", <<Prefix("_443"), Prefix("_tcp")>> \o host>>}
    \cup {<<"TXT", <<Prefix(p)>> \o host>> : p \in {"_ans", "_ans-badge", "_ra-badge"}}

-----------------------------------------------------------------------------
(* Versions and ANS names.  A URI is [scheme, v, labels]: `v` says that its  *)
(* first label is written after a "v".                                      *)

Digits(n) ==
    [text |-> ToString(n), upper |-> FALSE, octets |-> Len(ToString(n)), fault |-> "none",
     number |-> n]

\* Version::parse
Version(labels) ==
    IF Len(labels) # 3 \/ \E i \in DOMAIN labels : labels[i].number = Absent THEN Malformed
    ELSE [i \in 1 .. 3 |-> labels[i].number]

\* AnsName::parse
AnsName(uri) ==
    IF uri.scheme # "ans" \/ ~uri.v \/ Len(uri.labels) < 4 THEN Malformed
    ELSE LET version == Version(SubSeq(uri.labels, 1, 3))
             host    == Fqdn(SubSeq(uri.labels, 4, Len(uri.labels)))
         IN  IF version = Malformed \/ host = Malformed THEN Malformed
             ELSE [version |-> version, host |-> host]

\* AnsName's Display
AnsUri(name) ==
    [scheme |-> "ans", v |-> TRUE,
     labels |-> [i \in 1 .. 3 |-> Digits(name.version[i])] \o name.host]

-----------------------------------------------------------------------------
(* Badges *)

Statuses == {"ACTIVE", "WARNING", "DEPRECATED", "EXPIRED", "REVOKED", "UNKNOWN"}
IsValidForConnection(status) == status \in {"ACTIVE", "WARNING", "DEPRECATED"}
ShouldReject(status) == status \in {"EXPIRED", "REVOKED"}

EventTypes ==
    {"AGENT_REGISTERED", "AGENT_RENEWED", "AGENT_UPDATED", "AGENT_DEPRECATED", "AGENT_REVOKED"}

\* EventType: an unfamiliar label is kept, not refused.
EventType(label) == IF label \in EventTypes THEN [known |-> TRUE, label |-> label]
                    ELSE [known |-> FALSE, label |-> label]

\* CertType: known labels in any case; the others keep theirs.
KnownCertTypes ==
    {"X509-DV-SERVER", "X509-OV-CLIENT", "X509-OV-SERVER", "X509-EV-CLIENT", "X509-EV-SERVER"}
CertType(label) == IF label.text \in KnownCertTypes THEN LowerLabel(label) ELSE label

OrElse(value, default) == IF value = Absent THEN default ELSE value

\* The required fields of a badge's JSON, its nesting left out; the others are
\* optional.
RequiredFields ==
    {"status", "schema", "logId", "keyId", "signature", "ansId", "ansName", "eventType", "host",
     "version", "issuedAt", "raId", "timestamp"}

\* serde's view of a badge: an array that is missing is empty.
Badge(json) ==
    IF json.status \notin Statuses \/ \E f \in RequiredFields : json[f] = Absent THEN Malformed
    ELSE [json EXCEPT !.eventType = EventType(@),
                      !.serverCerts = OrElse(@, <<>>), !.identityCerts = OrElse(@, <<>>)]

\* cert_fingerprints: the legacy field counts for V1 without an array only.
CertFingerprints(schema, certs, legacy) ==
    IF schema = "V1" /\ certs = <<>> /\ legacy # Absent THEN <<legacy>>
    ELSE IF schema \in {"V1", "V2"} THEN certs
    ELSE <<>>

ServerFingerprints(badge) == CertFingerprints(badge.schema, badge.serverCerts, badge.serverCert)
IdentityFingerprints(badge) ==
    CertFingerprints(badge.schema, badge.identityCerts, badge.identityCert)

\* A text of a fingerprint is [prefix, hex, octets, bytes].
ParsedFingerprint(text) ==
    IF text.prefix \notin {"SHA256:", "sha256:"} \/ ~text.hex \/ text.octets # 32 THEN Malformed
    ELSE text.bytes

\* CertFingerprint::matches
FingerprintMatches(fp, text) == ParsedFingerprint(text) = fp

-----------------------------------------------------------------------------
(* Certificate identities: [cn, dns, uris, fp]                              *)

CertHost(cert) == IF cert.dns # <<>> THEN Head(cert.dns) ELSE cert.cn

CertAnsName(cert) ==
    LET names == Without([i \in DOMAIN cert.uris |-> AnsName(cert.uris[i])], Malformed)
    IN  IF names = <<>> THEN Absent ELSE Head(names)

Listed(cert, fingerprints) ==
    \E i \in DOMAIN fingerprints : FingerprintMatches(cert.fp, fingerprints[i])

HostIs(cert, host) == CertHost(cert) # Absent /\ EqIgnoreCase(CertHost(cert), host)

\* ServerVerifier::verify_against_badge, for server certificates
ServerVerdict(badge, cert, dialed) ==
    IF ~IsValidForConnection(badge.status) THEN "InvalidStatus"
    ELSE IF ~Listed(cert, ServerFingerprints(badge)) THEN "FingerprintMismatch"
    ELSE IF ~EqIgnoreCase(badge.host, dialed) \/ ~HostIs(cert, dialed) THEN "HostnameMismatch"
    ELSE "Verified"

\* What ClientVerifier::verify asks of a certificate before any lookup.
ClientCertError(cert) ==
    IF CertHost(cert) = Absent THEN "NoCommonName"
    ELSE IF Fqdn(CertHost(cert)) = Malformed THEN "ParseError"
    ELSE IF CertAnsName(cert) = Absent THEN "NoUriSan"
    ELSE "none"

\* ClientVerifier::verify_client_against_badge; the badge's name is a URI that
\* has to be written exactly as the certificate's name prints.
ClientVerdict(badge, cert) ==
    IF ClientCertError(cert) # "none" THEN ClientCertError(cert)
    ELSE IF ~IsValidForConnection(badge.status) THEN "InvalidStatus"
    ELSE IF ~Listed(cert, IdentityFingerprints(badge)) THEN "FingerprintMismatch"
    ELSE IF ~HostIs(cert, badge.host) THEN "HostnameMismatch"
    ELSE IF AnsUri(CertAnsName(cert)) # badge.ansName THEN "AnsNameMismatch"
    ELSE "Verified"

-----------------------------------------------------------------------------
(* What the names promise *)

\* Whatever spelling of an ANS name a URI has (capitals, a trailing dot, a number
\* with a sign or zeros in front), it reads as one name, whose printed form reads
\* as the same name and is its own printed form.
NamesPrintOnce(uri) ==
    LET name == AnsName(uri)
    IN  name # Malformed =>
            /\ AnsName(AnsUri(name)) = name
            /\ Fqdn(name.host) = name.host

\* No two records that are looked up, of one host or of two, have the same owner
\* and type, so that no answer about a host is taken for another's or for
\* another purpose.
LookupsAreApart(a, b) ==
    LET one == Fqdn(a)
        two == Fqdn(b)
    IN  one # Malformed /\ two # Malformed =>
            /\ Cardinality(LookupNames(one)) = 5
            /\ one # two => LookupNames(one) \cap LookupNames(two) = {}

\* A badge that was read and is written again reads the same, and a label that
\* this version does not know is not turned into one that it knows.
BadgesReadTwice(json) ==
    LET badge == Badge(json)
    IN  badge # Malformed =>
            /\ Badge([badge EXCEPT !.eventType = @.label]) = badge
            /\ badge.eventType.known <=> json.eventType \in EventTypes

\* Labels of certificate types are one only if they differ in case alone, and
\* reading one that was read changes nothing.
LabelsStayApart(a, b) ==
    /\ CertType(CertType(a)) = CertType(a)
    /\ CertType(a) = CertType(b) => EqIgnoreCase(<<a>>, <<b>>)

\* A certificate is accepted in a role only when the badge, of a schema this
\* version knows and with a status that allows connections, lists it for that
\* role; a V2 badge does not bring back a certificate its array dropped.
RolesAreApart(badge, cert, dialed) ==
    LET accepted(verdict, certs, legacy) ==
            verdict = "Verified" =>
                /\ ~ShouldReject(badge.status) /\ badge.status # "UNKNOWN"
                /\ \/ badge.schema \in {"V1", "V2"} /\ Listed(cert, certs)
                   \/ badge.schema = "V1" /\ legacy # Absent /\ Listed(cert, <<legacy>>)
    IN  /\ accepted(ServerVerdict(badge, cert, dialed), badge.serverCerts, badge.serverCert)
        /\ accepted(ClientVerdict(badge, cert), badge.identityCerts, badge.identityCert)

=============================================================================
