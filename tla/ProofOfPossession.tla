------------------------- MODULE ProofOfPossession -------------------------
(***************************************************************************)
(* DPoP proofs and caller authentication (crates/ans-verify/src/pop): what *)
(* a Signer mints, what verify_proof_unrecorded accepts, and how           *)
(* verify_caller_with_content binds proof, status token and receipt to one *)
(* agent, with the cache of artifacts that verified before.  The replay    *)
(* cache is in DpopReplay; here its answer is an input.                    *)
(*                                                                         *)
(* Hashes and encodings are injective and stand for what they are taken    *)
(* of; a signature is the pair of its key and of what it covers.           *)
(***************************************************************************)
EXTENDS ScittArtifacts

CONSTANT PopSkew   \* the freshness window (DEFAULT_POP_SKEW)

ASSUME PopSkewAssumption == PopSkew \in Nat

ProfileRevision == 1   \* ANS_PROFILE_REVISION

-----------------------------------------------------------------------------
(* URLs: [scheme, host, port, path], port 0 if none is written, and case    *)
(* and query, which normalization erases; defects is what is wrong.         *)

DefaultPort(scheme) == IF scheme = "https" THEN 443 ELSE 80

\* parse_scheme_authority
UrlError(url) ==
    First(<< <<url.defects = {}, "MalformedProof">>,
             <<url.scheme \in {"http", "https"}, "MalformedProof">> >>)

HostPort(url) ==
    [host |-> url.host, port |-> IF url.port = DefaultPort(url.scheme) THEN 0 ELSE url.port]

\* normalize_htu
NormalizeHtu(url) ==
    [scheme |-> url.scheme, authority |-> HostPort(url),
     path |-> IF url.path = "" THEN "/" ELSE url.path]

\* normalize_authority drops either default port, whatever the scheme.
NormalizeAuthority(entry) ==
    [entry EXCEPT !.port = IF @ \in {443, 80} THEN 0 ELSE @]

-----------------------------------------------------------------------------
(* Signing *)

\* access_token_from_authorization: any case of the scheme, a non-empty token.
AccessToken(authorization) ==
    IF authorization # Absent /\ authorization.scheme = "dpop" THEN authorization.token
    ELSE Absent

\* reject_duplicate_header
DuplicateHeader(count) == count > 1

\* Signer::new: the certificate has to carry the key.
SignerError(key, cert) ==
    First(<< <<cert.defects = {}, "CertInvalid">>, <<cert.key = key, "CertInvalid">> >>)

\* new_jti: random, so never one that was used before.
\* sign_inner
Sign(key, cert, request, jti, now) ==
    LET header  == [typ |-> "dpop+jwt", alg |-> "ES256", jwk |-> key, x5c |-> <<cert>>]
        payload == [htm |-> request.method, htu |-> NormalizeHtu(request.url), iat |-> now,
                    jti |-> jti, ath |-> request.token, profile |-> ProfileRevision,
                    digest |-> request.content]
    IN  [header |-> header, payload |-> payload, defects |-> {},
         signature |-> [key |-> key, header |-> header, payload |-> payload]]

\* attach_identity_with_content
AttachIdentity(key, cert, request, authorization, jti, now) ==
    Sign(key, cert, [request EXCEPT !.token = AccessToken(authorization)], jti, now)

-----------------------------------------------------------------------------
(* Verification of a proof.  Its defects name what does not decode.         *)

\* split_compact_jws, after the size limit
JwsChecks(proof) ==
    << <<"oversized" \notin proof.defects, "MalformedProof">>,
       <<"segments"  \notin proof.defects, "MalformedProof">> >>

\* decode_proof_header (unknown fields rejected) and accept_es256_dpop
ProofHeaderChecks(proof) ==
    << <<"header" \notin proof.defects,    "MalformedProof">>,
       <<proof.header.typ = "dpop+jwt",    "UnsupportedAlg">>,
       <<proof.header.alg = "ES256",       "UnsupportedAlg">>,
       <<Len(proof.header.x5c) = 1,        "CertInvalid">> >>

\* decode_proof_payload: a revision that is written is a number, not null.
ProofPayloadChecks(proof) ==
    << <<"payload" \notin proof.defects, "MalformedProof">>,
       <<"null profile" \notin proof.defects, "MalformedProof">> >>

\* check_profile_revision
ProfileKnown(payload) == payload.profile \in {Absent, ProfileRevision}

\* parse_leaf_cert is a function of the entry, so that VerifiedArtifactCache may
\* keep it; check_cert_validity is not.
LeafOk(cert) == cert.defects = {}
CertValid(cert, now) == now >= cert.from - PopSkew /\ now <= cert.until + PopSkew

\* match_jwk_to_cert
JwkChecks(proof) ==
    << <<"jwk curve"  \notin proof.defects, "UnsupportedAlg">>,
       <<"jwk coords" \notin proof.defects, "MalformedProof">>,
       <<proof.header.jwk = proof.header.x5c[1].key, "KeyMismatch">> >>

\* verify_es256 over the two segments as they were received
SignatureHolds(proof) ==
    /\ "signature" \notin proof.defects
    /\ proof.signature = [key |-> proof.header.x5c[1].key,
                          header |-> proof.header, payload |-> proof.payload]

\* check_http_binding
HttpChecks(payload, request) ==
    << <<payload.htm = request.method, "HttpBindingMismatch">>,
       <<UrlError(request.url) = "ok", UrlError(request.url)>>,
       <<payload.htu = NormalizeHtu(request.url), "HttpBindingMismatch">> >>

\* check_token_binding: both or neither
TokenBound(payload, token) == payload.ath = token

\* check_freshness
Fresh(payload, now) == now - payload.iat \in -PopSkew .. PopSkew

\* verify_proof_unrecorded
ProofVerdict(proof, request, now) ==
    LET payload == proof.payload
        wellFormed == First(JwsChecks(proof) \o ProofHeaderChecks(proof)
                            \o ProofPayloadChecks(proof)
                            \o << <<ProfileKnown(payload), "UnsupportedProfile">>,
                                  <<"digest" \notin proof.defects, "MalformedProof">> >>)
    IN  IF wellFormed # "ok" THEN wellFormed
        ELSE First(<< <<LeafOk(proof.header.x5c[1]), "CertInvalid">>,
                      <<CertValid(proof.header.x5c[1], now), "CertInvalid">> >>
                   \o JwkChecks(proof)
                   \o << <<SignatureHolds(proof), "SignatureInvalid">> >>
                   \o HttpChecks(payload, request)
                   \o << <<TokenBound(payload, request.token), "TokenBindingMismatch">>,
                         <<payload.iat # 0, "MalformedProof">>,
                         <<Fresh(payload, now), "ProofStale">>,
                         <<payload.jti # "", "MalformedProof">>,
                         <<"jti size" \notin proof.defects, "MalformedProof">> >>)

-----------------------------------------------------------------------------
(* Caller authentication.  VerifiedArtifactCache holds the artifacts that   *)
(* verified, each under the key store it verified with.                     *)

NoArtifacts == [status |-> {}, receipts |-> {}]

\* Mutant: a cached token is not looked at again.
StatusHitForever(cache, token, keys, skew, now) ==
    ArtifactCacheKey(keys, token) \in cache.status

\* verified_status_payload: a hit still checks exp.
StatusHit(cache, token, keys, skew, now) ==
    /\ ArtifactCacheKey(keys, token) \in cache.status
    /\ ~Lapsed(token, skew, now)

StatusVerdict(cache, token, keys, skew, now) ==
    IF StatusHit(cache, token, keys, skew, now) THEN "ok"
    ELSE TokenVerdict(token, keys, skew, now)

\* verified_receipt
CallerReceiptVerdict(cache, receipt, keys) ==
    IF receipt = Absent \/ ArtifactCacheKey(keys, receipt) \in cache.receipts THEN "ok"
    ELSE ReceiptVerdict(receipt, keys)

\* authenticate_caller's preflight: the authority, then what has to be there.
PreflightChecks(request, opts) ==
    << <<opts.authorities = {} \/ UrlError(request.url) = "ok", UrlError(request.url)>>,
       <<\/ opts.authorities = {}
         \/ HostPort(request.url) \in {NormalizeAuthority(a) : a \in opts.authorities},
         "UntrustedAuthority">>,
       <<request.proof # Absent, "MissingHeaders">>,
       <<request.status # Absent, "MissingHeaders">>,
       <<~opts.requireReceipt \/ request.receipt # Absent, "MissingHeaders">> >>

\* allowed_hosts
AllowedHosts(opts) == {n.host : n \in opts.allowed}

\* bind_caller.  Names are [host, version]; only the hosts are compared.
BindingChecks(cert, status, receipt, opts) ==
    LET bound == IF receipt = Absent THEN "ok" ELSE Binding(receipt, status, {})
    IN  << <<MatchesIdentityCert(status, cert.fp), "BindingFailed">>,
           <<cert.name # Absent, "BindingFailed">>,
           <<cert.name # Absent => cert.name.host = status.ansName.host, "BindingFailed">>,
           <<bound = "ok", IF bound = "IdentityBinding" THEN "BindingFailed" ELSE "ReceiptInvalid">>,
           <<opts.allowed = {} \/ status.ansName.host \in AllowedHosts(opts),
             "ExpectedPeerMismatch">> >>

\* The content is hashed by a callback, which may fail; check_content_binding
ContentChecks(request) ==
    << <<request.content # Absent, "content callback">>,
       <<request.proof.payload.digest = request.content, "ContentBindingMismatch">> >>

\* is_unknown_key_id: the error that makes the callee refresh the root keys.
IsUnknownKeyId(cause) == cause = "UnknownKeyId"

\* commit_replay
ReplayVerdict(answer) ==
    CASE answer = "fresh" -> "ok" [] answer = "seen" -> "Replay"
      [] OTHER -> "ReplayCacheUnavailable"

\* verify_caller_with_content.  The result says whether the jti was consumed and
\* what the cache holds afterwards: an artifact stays in it although a later
\* check refused the request.
VerifyCaller(request, opts, keys, cache, replay, now) ==
    LET preflight == First(PreflightChecks(request, opts))
        proof   == IF preflight # "ok" THEN preflight
                   ELSE ProofVerdict(request.proof, request, now)
        status  == IF proof # "ok" THEN proof
                   ELSE StatusVerdict(cache, request.status, keys, opts.statusSkew, now)
        receipt == IF status # "ok" THEN status
                   ELSE CallerReceiptVerdict(cache, request.receipt, keys)
        bound   == IF receipt # "ok" THEN receipt
                   ELSE First(BindingChecks(request.proof.header.x5c[1], request.status,
                                            request.receipt, opts)
                             \o ContentChecks(request))
        Kind(v) == IF proof = "ok" /\ status # "ok" THEN "StatusInvalid"
                   ELSE IF status = "ok" /\ receipt # "ok" THEN "ReceiptInvalid" ELSE v
    IN  [verdict  |-> IF bound # "ok" THEN Kind(bound) ELSE ReplayVerdict(replay),
         unknownKey |-> proof = "ok" /\ IsUnknownKeyId(receipt),
         consumed |-> bound = "ok" /\ replay = "fresh",
         cache    |-> [status   |-> cache.status \cup
                           (IF proof = "ok" /\ status = "ok"
                            THEN {ArtifactCacheKey(keys, request.status)} ELSE {}),
                       receipts |-> cache.receipts \cup
                           (IF status = "ok" /\ receipt = "ok" /\ request.receipt # Absent
                            THEN {ArtifactCacheKey(keys, request.receipt)} ELSE {})]]

-----------------------------------------------------------------------------
(* Properties *)

\* Two requests are the same to HTTP.
EffectivePort(url) == IF url.port = 0 THEN DefaultPort(url.scheme) ELSE url.port
SameRequest(r, s) ==
    /\ r.method = s.method /\ r.token = s.token
    /\ r.url.scheme = s.url.scheme /\ r.url.host = s.url.host
    /\ EffectivePort(r.url) = EffectivePort(s.url)
    /\ r.url.path = s.url.path \/ {r.url.path, s.url.path} = {"", "/"}

\* A minted proof authenticates its own request, however its URL is written, and
\* no other, as long as it is fresh and its certificate valid.
ProofBindsRequest(key, cert, minted, received, at, now) ==
    (SignerError(key, cert) = "ok" /\ UrlError(minted.url) = "ok")
    => (ProofVerdict(Sign(key, cert, minted, "jti", at), received, now) = "ok"
        <=> /\ UrlError(received.url) = "ok" /\ SameRequest(minted, received)
            /\ now - at \in -PopSkew .. PopSkew
            /\ now >= cert.from - PopSkew /\ now <= cert.until + PopSkew)

\* An authenticated caller holds the key of a certificate that a live token of
\* the agent names, over this very request; the receipt, if any, is of the same
\* agent.  What the cache knows from earlier requests changes no verdict, and a
\* refused request consumes no jti.
CallerIsProven(request, opts, keys, cache, replay, now) ==
    LET result == VerifyCaller(request, opts, keys, cache, replay, now)
        cert   == request.proof.header.x5c[1]
        signed == request.proof.signature.payload
        token  == request.status
    IN  /\ result.verdict = "ok" =>
             /\ request.proof.signature.key = cert.key
             /\ signed.htm = request.method /\ signed.htu = NormalizeHtu(request.url)
             /\ signed.ath = request.token /\ signed.digest = request.content
             /\ cert.fp \in token.identityCerts /\ cert.name.host = token.ansName.host
             /\ SignedBy(token, keys) /\ ~Lapsed(token, opts.statusSkew, now)
             /\ ~ShouldReject(token.status)
             /\ opts.requireReceipt => request.receipt # Absent
             /\ request.receipt # Absent =>
                  SignedBy(request.receipt, keys) /\ request.receipt.ansName = token.ansName
             /\ result.consumed
        /\ result.verdict = VerifyCaller(request, opts, keys, NoArtifacts, replay, now).verdict
        /\ result.consumed => result.verdict = "ok"
=============================================================================
