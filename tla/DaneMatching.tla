---------------------------- MODULE DaneMatching ----------------------------
(***************************************************************************)
(* DANE (crates/ans-verify/src/dane.rs, lookup_tlsa in dns.rs and          *)
(* enforce_dane in verify.rs): what the TLSA answer of a host decides      *)
(* about a server certificate, whatever the rest of the verification said. *)
(*                                                                         *)
(* A certificate is [der, spki, known]: two certificates of one key share  *)
(* the spki, and known says whether the identity was built from the DER or *)
(* from a fingerprint only.  Association data is a free term               *)
(* [hash, of]: the hash used (or "exact") and the bytes it was taken of.   *)
(***************************************************************************)
EXTENDS DnsDiscovery

DanePolicy == {"Disabled", "ValidateIfPresent", "Required"}
ShouldVerify(policy) == policy # "Disabled"
IsRequired(policy)   == policy = "Required"

TlsaUsage        == 0..3   \* CA, service certificate, trust anchor, DANE-EE
TlsaSelector     == 0..1   \* full certificate, SubjectPublicKeyInfo
TlsaMatchingType == 0..2   \* exact, SHA-256, SHA-512
DomainIssued == 3

\* TlsaRecord::from_rdata; data is Absent if fewer than four bytes came.
TlsaRecord(rdata) ==
    IF /\ rdata.data # Absent /\ rdata.usage \in TlsaUsage
       /\ rdata.selector \in TlsaSelector /\ rdata.matching \in TlsaMatchingType
    THEN rdata ELSE Malformed

IsVerifiable(r) == r.usage = DomainIssued /\ r.selector = 0 /\ r.matching = 1
IsEvaluable(r)  == r.usage = DomainIssued

HashOf(matching) == <<"exact", "SHA-256", "SHA-512">>[matching + 1]
Data(hash, bytes) == [hash |-> hash, of |-> bytes]

\* CertFingerprint::from_der
Fingerprint(cert) == Data("SHA-256", cert.der)

\* matches_fingerprint: "match", "mismatch", or "unsupported".
MatchesFingerprint(r, fingerprint) ==
    IF ~IsVerifiable(r) THEN "unsupported"
    ELSE IF r.data = fingerprint THEN "match" ELSE "mismatch"

\* Mutant: the selector is ignored.
MatchesCertUnselected(r, cert) ==
    IF ~cert.known THEN MatchesFingerprint(r, Fingerprint(cert))
    ELSE IF ~IsEvaluable(r) THEN "unsupported"
    ELSE IF r.data = Data(HashOf(r.matching), cert.der) THEN "match" ELSE "mismatch"

\* matches_cert
MatchesCert(r, cert) ==
    IF ~cert.known THEN MatchesFingerprint(r, Fingerprint(cert))
    ELSE IF ~IsEvaluable(r) THEN "unsupported"
    ELSE LET selected == IF r.selector = 0 THEN cert.der ELSE cert.spki
         IN  IF r.data = Data(HashOf(r.matching), selected) THEN "match" ELSE "mismatch"

\* verify_dane_with, for verify_dane_cert: any record may match, in any order.
VerifyDaneCert(records, cert, policy) ==
    LET judged == {MatchesCert(r, cert) : r \in records}
    IN  IF ~ShouldVerify(policy) THEN "Skipped"
        ELSE IF records = {}
             THEN IF IsRequired(policy) THEN "NoTlsaRecords" ELSE "NoRecords"
        ELSE IF "match" \in judged THEN "Verified"
        ELSE IF "unsupported" \in judged THEN "InvalidRecord"
        ELSE "FingerprintMismatch"

\* is_acceptable; the errors of verify_dane_cert are not.
IsAcceptable(result, policy) ==
    \/ result \in {"Verified", "Skipped"}
    \/ result = "NoRecords" /\ ~IsRequired(policy)

-----------------------------------------------------------------------------
(* The lookup *)

\* matches_dnssec_pattern
MatchesDnssecPattern(reply) == reply.kind = "dnssec text"

\* The rows that parse; no judgement depends on their order.
TlsaRecords(rows) == {TlsaRecord(rows[i]) : i \in DOMAIN rows} \ {Malformed}

\* lookup_tlsa
LookupTlsa(reply) ==
    CASE reply.kind = "answer"     -> IF TlsaRecords(reply.rows) = {} THEN NotFound
                                      ELSE Found(TlsaRecords(reply.rows))
      [] reply.kind = "no records" -> NotFound
      [] reply.kind \in {"servfail", "nsec"} -> Err("DnssecFailed")
      [] reply.kind = "timeout"    -> Err("Timeout")
      [] MatchesDnssecPattern(reply) -> Err("DnssecFailed")
      [] OTHER                     -> Err("LookupFailed")

\* get_tlsa_records and ServerVerifier::verify_dane
VerifyDane(reply, cert, policy) ==
    LET result == LookupTlsa(reply)
    IN  CASE result.kind = "Error"    -> "DnsError"
          [] result.kind = "NotFound" -> VerifyDaneCert({}, cert, policy)
          [] result.kind = "Found"    -> VerifyDaneCert(result.records, cert, policy)

\* enforce_dane: a success stays one only if DANE accepts it.
EnforceDane(outcome, reply, cert, policy) ==
    IF outcome # "Verified" \/ ~ShouldVerify(policy) THEN outcome
    ELSE IF IsAcceptable(VerifyDane(reply, cert, policy), policy) THEN outcome
    ELSE "DaneError"

\* What a validating or a plain resolver may reply about a zone.
TlsaReplies(zone, config) ==
    LET Failures == {Failed(k) : k \in {"servfail", "nsec", "dnssec text"}}
    IN  IF zone.bogus /\ config.validate THEN Failures
        ELSE {IF zone.rows = <<>> THEN Failed("no records") ELSE Answer(zone.rows)}

-----------------------------------------------------------------------------
(* Properties *)

\* RFC 6698, 2.1: the record says this of the certificate.
Names(r, cert) ==
    /\ r.usage = DomainIssued
    /\ \/ r.selector = 0 /\ r.data.of = cert.der
       \/ r.selector = 1 /\ r.data.of = cert.spki
    /\ r.data.hash = HashOf(r.matching)

\* The reply says that there are no rows, or none that is well-formed.
NoneUsable(reply) ==
    \/ reply.kind = "no records"
    \/ /\ reply.kind = "answer"
       /\ \A i \in DOMAIN reply.rows : TlsaRecord(reply.rows[i]) = Malformed

\* A success that DANE was asked about rests on a row that names the certificate
\* by its own selector and matching type, or on the absence of usable rows when
\* they are optional; an outage, a DNSSEC failure or a row of another kind never
\* passes.  Conversely a row that names a certificate known by its DER is found,
\* whatever malformed, unsupported or foreign rows are published beside it.
DaneSound(reply, cert, policy) ==
    LET accepted == EnforceDane("Verified", reply, cert, policy) = "Verified"
        named == /\ reply.kind = "answer"
                 /\ \E i \in DOMAIN reply.rows :
                      /\ TlsaRecord(reply.rows[i]) # Malformed
                      /\ Names(reply.rows[i], cert)
    IN  policy # "Disabled" =>
          /\ accepted => named \/ (policy = "ValidateIfPresent" /\ NoneUsable(reply))
          /\ named /\ cert.known => accepted

\* No constructor of the resolver lets the rows of a bogus zone decide: with DANE
\* on, its host is never accepted, whatever it publishes.
BogusNeverAccepted(resolver, zone, cert, policy) ==
    zone.bogus /\ policy # "Disabled" =>
        \A reply \in TlsaReplies(zone, resolver.dnssec) :
            EnforceDane("Verified", reply, cert, policy) = "DaneError"

\* A renewed certificate of the same key is judged as the old one by rows that
\* select the key.
RenewalStable(r, old, new) ==
    (old.spki = new.spki /\ old.known /\ new.known /\ r.selector = 1)
        => MatchesCert(r, old) = MatchesCert(r, new)
=============================================================================
