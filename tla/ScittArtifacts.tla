--------------------------- MODULE ScittArtifacts ---------------------------
(***************************************************************************)
(* Verification of one SCITT artifact: COSE_Sign1 decoding (scitt/cose.rs),*)
(* keys (scitt/root_keys.rs), status tokens (scitt/status_token.rs),       *)
(* receipts (scitt/receipt.rs) and their agreement (scitt/identity.rs).    *)
(*                                                                         *)
(* The bytes of an artifact are abstracted to what is wrong with them (a   *)
(* set of defects) and to the claims they decode to.  The code reports the *)
(* first defect in the order of its checks, and that order matters: only   *)
(* UnknownKeyId makes a verifier ask the log for new keys, and only an     *)
(* authentic token may be reported as expired or terminal.                 *)
(***************************************************************************)
EXTENDS Integers, Sequences

CONSTANTS
    MaxSkew,   \* MAX_CLOCK_SKEW_TOLERANCE_SECS
    NoIssuer,  \* an artifact without a CWT issuer claim
    Absent     \* a header or an optional value that was not sent

ASSUME MaxSkewAssumption == MaxSkew \in Nat

\* The error of the first check that fails; "ok" if none does.
First(checks) ==
    LET failing == {i \in 1 .. Len(checks) : ~checks[i][1]}
    IN  IF failing = {} THEN "ok"
        ELSE checks[CHOOSE i \in failing : \A j \in failing : i <= j][2]

-----------------------------------------------------------------------------
(* Keys.  A store is a function from key ids to trusted keys; two stores    *)
(* have the same trust scope iff they are equal.                            *)

\* parse_c2sp_key: what may be wrong with a line of the root-keys endpoint.
KeyLine(line) ==
    First(<< <<"parts"  \notin line.defects, "InvalidKeyFormat">>,
             <<"name"   \notin line.defects, "InvalidKeyFormat">>,
             <<"hash"   \notin line.defects, "InvalidKeyFormat">>,
             <<"base64" \notin line.defects, "InvalidKeyFormat">>,
             <<line.kid = line.key.hash,     "KeyHashMismatch">>,
             <<"point"  \notin line.defects, "InvalidPublicKey">> >>)

Trusted(line) == [name |-> line.name, key |-> line.key]
Usable(lines) == SelectSeq(lines, LAMBDA l : KeyLine(l) = "ok")
KidsOf(lines) == {lines[i].kid : i \in 1 .. Len(lines)}

\* from_c2sp_keys: invalid lines are skipped, the last line of a kid wins.
FromC2sp(lines) ==
    LET good == Usable(lines)
        last(kid) == CHOOSE i \in 1 .. Len(good) :
                        /\ good[i].kid = kid
                        /\ \A j \in i + 1 .. Len(good) : good[j].kid # kid
    IN  [kid \in KidsOf(good) |-> Trusted(good[last(kid)])]

\* merge_from: the first one wins, and what is there stays.
MergeFrom(store, lines) ==
    LET good == Usable(lines)
        first(kid) == CHOOSE i \in 1 .. Len(good) :
                        /\ good[i].kid = kid
                        /\ \A j \in 1 .. i - 1 : good[j].kid # kid
    IN  [kid \in DOMAIN store \cup KidsOf(good) |->
           IF kid \in DOMAIN store THEN store[kid] ELSE Trusted(good[first(kid)])]

\* from_keys: the hash over every kid, name and key stands for the store itself.
TrustScope(store) == store

\* artifact_cache_key: SHA-256 over the trust scope and the bytes.
ArtifactCacheKey(store, bytes) == <<TrustScope(store), bytes>>

-----------------------------------------------------------------------------
(* COSE_Sign1                                                              *)

\* decode_protected_header
HeaderChecks(a) ==
    << <<"header"      \notin a.defects, "InvalidProtectedHeader">>,
       <<"alg missing" \notin a.defects, "InvalidProtectedHeader">>,
       <<"alg"         \notin a.defects, "UnsupportedAlgorithm">>,
       <<"no kid"      \notin a.defects, "MissingKid">>,
       <<"kid length"  \notin a.defects, "InvalidProtectedHeader">> >>

\* parse_cose_sign1
CoseChecks(a) ==
    << <<"oversized"   \notin a.defects, "OversizedInput">>,
       <<"cbor"        \notin a.defects, "CborDecodeError">>,
       <<"trailing"    \notin a.defects, "CborDecodeError">>,
       <<"not cose"    \notin a.defects, "NotACoseSign1">>,
       <<"arity"       \notin a.defects, "InvalidArrayLength">>,
       <<"element"     \notin a.defects, "InvalidProtectedHeader">>,
       <<"detached"    \notin a.defects, "InvalidProtectedHeader">>,
       <<"sig length"  \notin a.defects, "InvalidSignatureLength">> >>
    \o HeaderChecks(a)

\* ScittKeyStore::get
KnownKey(a, store) == a.kid \in DOMAIN store
\* verify_p256_sha256 over the Sig_structure of exactly the received bytes
SignedBy(a, store) == KnownKey(a, store) /\ a.signer = store[a.kid].key
IssuerBound(a, store) ==
    a.iss # NoIssuer => KnownKey(a, store) /\ a.iss = store[a.kid].name

-----------------------------------------------------------------------------
(* Status tokens                                                           *)

Statuses == {"ACTIVE", "WARNING", "DEPRECATED", "EXPIRED", "REVOKED"}

\* parse_badge_status
KnownStatus(a) == a.status \in Statuses

\* parse_cert_entries, of both certificate lists
CertEntryChecks(a) ==
    << <<"too many certs"  \notin a.defects, "CborDecodeError">>,
       <<"cert not a map"  \notin a.defects, "CborDecodeError">>,
       <<"fingerprint"     \notin a.defects, "CborDecodeError">>,
       <<"cert field"      \notin a.defects, "MissingTokenField">> >>

\* decode_status_token_payload: what cannot be read fails first, in the order of
\* the map (here the order of the keys), then what is missing.
PayloadChecks(a) ==
    << <<"payload"    \notin a.defects, "CborDecodeError">>,
       <<"agent id"   \notin a.defects, "CborDecodeError">>,
       <<KnownStatus(a),                "CborDecodeError">> >>
    \o CertEntryChecks(a) \o
    << <<"metadata"   \notin a.defects, "CborDecodeError">>,
       <<"field"      \notin a.defects, "MissingTokenField">>,
       <<"ans name"   \notin a.defects, "MissingTokenField">> >>

Capped(skew)    == IF skew > MaxSkew THEN MaxSkew ELSE skew
Lapsed(a, skew, now) == now > a.exp + Capped(skew)
ShouldReject(status) == status \in {"EXPIRED", "REVOKED"}

\* Mutant: expiry is checked before the signature.
TokenVerdictEager(a, store, skew, now) ==
    First(CoseChecks(a) \o PayloadChecks(a) \o
          << <<~Lapsed(a, skew, now), "TokenExpired">>,
             <<KnownKey(a, store),    "UnknownKeyId">>,
             <<SignedBy(a, store),    "SignatureInvalid">>,
             <<IssuerBound(a, store), "IssuerMismatch">>,
             <<~ShouldReject(a.status), "TerminalStatus">> >>)

\* verify_status_token_at.  The encoding of the signature is looked at before
\* the key, the payload only once the signature holds.
TokenVerdict(a, store, skew, now) ==
    First(CoseChecks(a) \o
          << <<"sig encoding" \notin a.defects, "SignatureInvalid">>,
             <<KnownKey(a, store),    "UnknownKeyId">>,
             <<SignedBy(a, store),    "SignatureInvalid">>,
             <<IssuerBound(a, store), "IssuerMismatch">> >>
          \o PayloadChecks(a) \o
          << <<~Lapsed(a, skew, now),   "TokenExpired">>,
             <<~ShouldReject(a.status), "TerminalStatus">> >>)

-----------------------------------------------------------------------------
(* Receipts                                                                *)

\* extract_vdp
VdpChecks(a) ==
    << <<"no vdp"      \notin a.defects, "InvalidMerkleProof">>,
       <<"vdp integer" \notin a.defects, "InvalidMerkleProof">>,
       <<"path"        \notin a.defects, "InvalidMerkleProof">>,
       <<"vdp field"   \notin a.defects, "InvalidMerkleProof">> >>

\* verify_receipt.  The key is looked up before the signature is decoded.
ReceiptVerdict(a, store) ==
    First(CoseChecks(a) \o
          << <<"vds" \notin a.defects, "InvalidProtectedHeader">>,
             <<KnownKey(a, store),     "UnknownKeyId">>,
             <<IssuerBound(a, store),  "IssuerMismatch">>,
             <<"sig encoding" \notin a.defects /\ SignedBy(a, store),
                                       "SignatureInvalid">> >>
          \o VdpChecks(a) \o << <<"walk" \notin a.defects, "InvalidMerkleProof">> >>)

-----------------------------------------------------------------------------
(* Agreement of the artifacts with each other and with the certificate.     *)
(* An absent optional field of the event, or of the certificate, is the     *)
(* empty set; a present one is a singleton.                                 *)

\* bind_receipt_to_status
Binding(receipt, token, expectedHost) ==
    First(<< <<"event" \notin receipt.defects,   "InvalidReceiptIdentity">>,
             <<receipt.ansName = token.ansName,  "IdentityBinding">>,
             <<receipt.ansId \subseteq {token.agent}, "IdentityBinding">>,
             <<expectedHost # {} => receipt.host # {}, "InvalidReceiptIdentity">>,
             <<expectedHost # {} => receipt.host = expectedHost, "IdentityBinding">> >>)

MatchesServerCert(token, fp)   == fp \in token.serverCerts
MatchesIdentityCert(token, fp) == fp \in token.identityCerts

\* check_dialed_host: dialed is the host of the connection, or none.
DialedHostMatches(token, dialed) == dialed \subseteq {token.host}

\* check_scitt_certificate: cert.name is the parsed ans:// URI, if any.
CertificateVerdict(cert, token, isServer, dialed) ==
    First(<< <<IF isServer THEN MatchesServerCert(token, cert.fp)
               ELSE MatchesIdentityCert(token, cert.fp), "MissingTokenField">>,
             <<isServer \/ cert.name # {},               "NoUriSan">>,
             <<isServer \/ cert.name = {token.ansName},  "IdentityBinding">>,
             <<isServer \/ cert.host = {token.host},     "IdentityBinding">>,
             <<DialedHostMatches(token, dialed),         "HostMismatch">> >>)

-----------------------------------------------------------------------------
(* Properties of the pure functions, checked over enumerated inputs.        *)

\* Errors blame the right party.  A token is reported as expired or terminal,
\* and a receipt as having a bad proof, only if a trusted key signed it; and
\* the log is asked for keys (UnknownKeyId) only by a well-formed artifact.
ErrorsAreEarned(a, store, skew, now) ==
    LET token == TokenVerdict(a, store, skew, now)
        receipt == ReceiptVerdict(a, store)
    IN  /\ token \in {"TokenExpired", "TerminalStatus", "MissingTokenField", "ok"}
             => SignedBy(a, store) /\ IssuerBound(a, store)
        /\ receipt \in {"InvalidMerkleProof", "ok"}
             => SignedBy(a, store) /\ IssuerBound(a, store)
        /\ "UnknownKeyId" \in {token, receipt}
             => First(CoseChecks(a)) = "ok" /\ ~KnownKey(a, store)

\* Merging new keys never changes a verdict other than UnknownKeyId: a refresh
\* cannot turn an accepted artifact into a rejected one or the other way round.
RefreshIsMonotone(a, store, lines, skew, now) ==
    LET merged == MergeFrom(store, lines)
    IN  /\ TokenVerdict(a, store, skew, now) # "UnknownKeyId"
             => TokenVerdict(a, merged, skew, now) = TokenVerdict(a, store, skew, now)
        /\ ReceiptVerdict(a, store) # "UnknownKeyId"
             => ReceiptVerdict(a, merged) = ReceiptVerdict(a, store)
=============================================================================
