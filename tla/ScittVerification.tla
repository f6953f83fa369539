------------------------- MODULE ScittVerification -------------------------
(***************************************************************************)
(* AnsVerifier's SCITT flow: verify_server_with_scitt and                  *)
(* verify_client_with_scitt (verify.rs), their tier policies, the          *)
(* two-layer ScittVerificationCache (scitt/verification_cache.rs) and the  *)
(* on-demand key refresh.  One verifier serves any number of concurrent    *)
(* calls, of both roles, over one cache and one key store.                 *)
(*                                                                         *)
(* Taken from other modules: the verdict on one artifact (ScittArtifacts), *)
(* and what a refresh does to the keys: one that reports success has       *)
(* merged what the log publishes (OwnRefreshDecides and KeysKept of        *)
(* RefreshableKeyStore).  The badge verifiers and the TLSA check are an    *)
(* answer each (ServerVerifier and ClientVerifier say which).              *)
(***************************************************************************)
EXTENDS ScittArtifacts

CONSTANTS
    Tasks,       \* concurrent calls
    Requests,    \* what a call may be asked to verify
    InitialKeys, \* the key store at start
    Published,   \* the lines the log serves to a refresh
    Skew,        \* ScittConfig::clock_skew_tolerance
    DaneOn,      \* DanePolicy::should_verify
    MaxTime,     \* bound on the clock
    MaxCalls     \* bound on the number of calls

\* A Duration is not negative.
ASSUME SkewAssumption == Skew \in Nat

\* exp is an i64; None is no cache key.
ASSUME RequestAssumption ==
    \A req \in Requests :
        /\ req.isServer \in BOOLEAN
        /\ req.token # Absent => req.token.exp \in Int
        /\ \A store \in {InitialKeys, MergeFrom(InitialKeys, Published)} :
              Absent # ArtifactCacheKey(store, req.receipt)

Policies == {"ScittWithBadgeFallback", "RequireScitt", "BadgeWithScittEnhancement"}

VARIABLES
    policy,       \* ScittConfig::tier_policy, fixed when the verifier is built
    keys,         \* the snapshot of the key store
    now,          \* seconds
    tokenCache,   \* layer 1: <<key, token>>
    receiptCache, \* layer 1: <<key, receipt>>
    outcomeCache, \* layer 2: <<fingerprint, token key, receipt key>> and value
    pc,           \* where each call is
    call,         \* its request and locals
    result,       \* its VerificationOutcome
    calls         \* calls begun

vars == <<policy, keys, now, tokenCache, receiptCache, outcomeCache, pc, call,
          result, calls>>
caches == <<tokenCache, receiptCache, outcomeCache>>

NoResult == [kind |-> "none", error |-> "ok", badge |-> FALSE]
NoCall == [req |-> Absent]

Init ==
    /\ policy \in Policies
    /\ keys = InitialKeys
    /\ now = 0
    /\ tokenCache = {} /\ receiptCache = {} /\ outcomeCache = {}
    /\ pc = [t \in Tasks |-> "idle"]
    /\ call = [t \in Tasks |-> NoCall]
    /\ result = [t \in Tasks |-> NoResult]
    /\ calls = 0

-----------------------------------------------------------------------------
(* Helpers                                                                 *)

RefreshOf == [token |-> "token refresh", receipt |-> "receipt refresh"]

\* ScittHeaders::is_empty
HeadersEmpty(req) == req.token = Absent /\ req.receipt = Absent

Host(req) == IF req.isServer THEN {req.dialed} ELSE {}

CheckCertificate(req, token) ==
    CertificateVerdict(req.cert, token, req.isServer, Host(req))

\* The host a receipt has to name: the dialed one, or the certificate's own.
ExpectedHost(req) == IF req.isServer THEN {req.dialed} ELSE req.cert.host

TierOf(req) == IF req.receipt = Absent THEN "StatusTokenVerified" ELSE "FullScitt"

\* The cache keys of a call, under the snapshot it started with.
TokenKey(t)   == ArtifactCacheKey(call[t].scope, call[t].req.token)
ReceiptKey(t) == IF call[t].req.receipt = Absent THEN Absent
                 ELSE ArtifactCacheKey(call[t].scope, call[t].req.receipt)
OutcomeKey(t) == <<call[t].req.cert.fp, TokenKey(t), ReceiptKey(t)>>

Finish(t, kind, error) ==
    /\ result' = [result EXCEPT ![t] = [kind |-> kind, error |-> error,
                                        badge |-> call[t].badge]]
    /\ pc' = [pc EXCEPT ![t] = "done"]

Reject(t, error) == Finish(t, "rejected", error)

\* A SCITT success is the final word for a client.
VerifiedClient(t) == Finish(t, TierOf(call[t].req), "ok")

\* Mutant: the SCITT path of the server does not go through enforce_dane.
VerifiedServerNoDane(t) == Finish(t, TierOf(call[t].req), "ok")

\* A server's goes to enforce_dane; an enhancement had it with its badge.
VerifiedServer(t) ==
    IF DaneOn /\ policy # "BadgeWithScittEnhancement"
    THEN pc' = [pc EXCEPT ![t] = "dane"] /\ UNCHANGED result
    ELSE Finish(t, TierOf(call[t].req), "ok")

Verified(t) == IF call[t].req.isServer THEN VerifiedServer(t) ELSE VerifiedClient(t)

-----------------------------------------------------------------------------
(* The tier policy                                                         *)

Arrive(t, req) ==
    /\ pc[t] = "idle"
    /\ calls < MaxCalls
    /\ calls' = calls + 1
    /\ call' = [call EXCEPT ![t] =
         [req |-> req, scope |-> keys, snapshot |-> keys, cache |-> TRUE,
          badge |-> FALSE, dane |-> FALSE, retried |-> FALSE, since |-> now]]
    /\ UNCHANGED <<policy, keys, now, caches>>

\* The badge comes first for an enhancement, and replaces SCITT only for a peer
\* without any SCITT header; RequireScitt rejects such a peer.
Dispatch(t, req) ==
    /\ Arrive(t, req)
    /\ \/ /\ \/ policy = "BadgeWithScittEnhancement"
             \/ policy = "ScittWithBadgeFallback" /\ HeadersEmpty(req)
          /\ pc' = [pc EXCEPT ![t] = "badge"]
          /\ UNCHANGED result
       \/ /\ policy = "RequireScitt" /\ HeadersEmpty(req)
          /\ pc' = [pc EXCEPT ![t] = "done"]
          /\ result' = [result EXCEPT ![t] = [kind |-> "rejected",
                          error |-> "MissingTokenField", badge |-> FALSE]]
       \/ /\ policy # "BadgeWithScittEnhancement" /\ ~HeadersEmpty(req)
          /\ pc' = [pc EXCEPT ![t] = "lookup"]
          /\ UNCHANGED result

\* verify_server_with_scitt and verify_client_with_scitt
BeginServer(t, req) == req.isServer /\ Dispatch(t, req)
BeginClient(t, req) == ~req.isServer /\ Dispatch(t, req)

\* The badge verifier answers (for a server after its own DANE check).
Badge(t) ==
    /\ pc[t] = "badge"
    /\ \/ /\ Reject(t, "badge")
          /\ UNCHANGED call
       \/ /\ call' = [call EXCEPT ![t].badge = TRUE, ![t].dane = TRUE]
          /\ IF HeadersEmpty(call[t].req)
             THEN /\ result' = [result EXCEPT ![t] = [kind |-> "badge",
                                   error |-> "ok", badge |-> TRUE]]
                  /\ pc' = [pc EXCEPT ![t] = "done"]
             ELSE /\ pc' = [pc EXCEPT ![t] = "lookup"]
                  /\ UNCHANGED result
    /\ UNCHANGED <<policy, keys, now, caches, calls>>

-----------------------------------------------------------------------------
(* try_scitt_verification                                                  *)

\* Mutant: an entry is good until moka evicts it.
FreshEntryAlways(token) == TRUE

\* get_outcome and get_verified_token look at exp again.
FreshEntry(token) == now < token.exp

HasOutcome(t) == \E e \in outcomeCache :
    e.key = <<call[t].req.cert.fp, ArtifactCacheKey(keys, call[t].req.token),
              IF call[t].req.receipt = Absent THEN Absent
              ELSE ArtifactCacheKey(keys, call[t].req.receipt)>>
    /\ FreshEntry(e.token)

\* The snapshot is taken, the cache keys are derived from it, and layer 2 is
\* asked; on a hit the certificate and the dialed host are checked again.
Lookup(t) ==
    /\ pc[t] = "lookup"
    /\ call' = [call EXCEPT ![t].scope = keys, ![t].snapshot = keys]
    /\ LET req == call[t].req
       IN  CASE req.token = Absent -> Reject(t, "MissingTokenField")
             [] req.token # Absent /\ HasOutcome(t) ->
                  IF CheckCertificate(req, req.token) = "ok" THEN Verified(t)
                  ELSE Reject(t, CheckCertificate(req, req.token))
             [] OTHER -> pc' = [pc EXCEPT ![t] = "token"] /\ UNCHANGED result
    /\ UNCHANGED <<policy, keys, now, caches, calls>>

\* The token is vouched for (cached says by layer 1): the certificate decides
\* whether the receipt comes next.
TokenVouched(t) ==
    LET verdict == CheckCertificate(call[t].req, call[t].req.token)
    IN  IF verdict = "ok"
        THEN /\ pc' = [pc EXCEPT ![t] = "receipt"]
             /\ call' = [call EXCEPT ![t].retried = FALSE]
             /\ UNCHANGED result
        ELSE Reject(t, verdict) /\ UNCHANGED call

CachedToken(t) ==
    call[t].cache /\ \E e \in tokenCache :
        e.key = TokenKey(t) /\ FreshEntry(e.token)

\* Layer 1, else the full verification; its success is cached.
Token(t) ==
    /\ pc[t] = "token"
    /\ LET verdict == TokenVerdict(call[t].req.token, call[t].snapshot, Skew, now)
       IN  \/ /\ CachedToken(t)
              /\ TokenVouched(t)
              /\ UNCHANGED tokenCache
           \/ /\ ~CachedToken(t) /\ verdict = "ok"
              /\ TokenVouched(t)
              /\ tokenCache' = IF call[t].cache
                   THEN tokenCache \cup {[key |-> TokenKey(t), token |-> call[t].req.token]}
                   ELSE tokenCache
           \/ /\ ~CachedToken(t) /\ verdict = "UnknownKeyId" /\ ~call[t].retried
              /\ pc' = [pc EXCEPT ![t] = RefreshOf["token"]]
              /\ UNCHANGED <<call, result, tokenCache>>
           \/ /\ ~CachedToken(t) /\ verdict # "ok"
              /\ verdict # "UnknownKeyId" \/ call[t].retried
              /\ Reject(t, verdict)
              /\ UNCHANGED <<call, tokenCache>>
    /\ UNCHANGED <<policy, keys, now, receiptCache, outcomeCache, calls>>

\* Mutant: the cache stays in use after a refresh, with the keys of before.
RefreshKeepsCache(t) ==
    \E stage \in {"token", "receipt"} :
        /\ pc[t] = RefreshOf[stage]
        /\ keys' = MergeFrom(keys, Published)
        /\ call' = [call EXCEPT ![t].snapshot = keys', ![t].retried = TRUE]
        /\ pc' = [pc EXCEPT ![t] = stage]
        /\ UNCHANGED <<policy, now, caches, calls, result>>

\* refresh_if_cooldown_elapsed after UnknownKeyId: if it refreshed, the artifact
\* is verified once more under the new snapshot and without the cache; if the
\* cooldown runs or the request failed, the first error stands.
Refresh(t) ==
    \E stage \in {"token", "receipt"} :
        /\ pc[t] = RefreshOf[stage]
        /\ \/ /\ keys' = MergeFrom(keys, Published)
              /\ call' = [call EXCEPT ![t].snapshot = keys', ![t].cache = FALSE,
                                      ![t].retried = TRUE]
              /\ pc' = [pc EXCEPT ![t] = stage]
              /\ UNCHANGED result
           \/ /\ Reject(t, "UnknownKeyId")
              /\ UNCHANGED <<keys, call>>
        /\ UNCHANGED <<policy, now, caches, calls>>

CachedReceipt(t) ==
    call[t].cache /\ \E e \in receiptCache : e.key = ReceiptKey(t)

\* The agreement of receipt and token, then the outcome is cached.
ReceiptVouched(t) ==
    LET req == call[t].req
        verdict == IF req.receipt = Absent THEN "ok"
                   ELSE Binding(req.receipt, req.token, ExpectedHost(req))
    IN  IF verdict = "ok"
        THEN /\ outcomeCache' = IF call[t].cache
                  THEN outcomeCache \cup {[key |-> OutcomeKey(t), token |-> req.token]}
                  ELSE outcomeCache
             /\ Verified(t)
        ELSE Reject(t, verdict) /\ UNCHANGED outcomeCache

\* Layer 1, else the full verification of the receipt, if there is one.
Receipt(t) ==
    /\ pc[t] = "receipt"
    /\ LET req == call[t].req
           cached == req.receipt = Absent \/ CachedReceipt(t)
           verdict == ReceiptVerdict(req.receipt, call[t].snapshot)
       IN  \/ /\ cached
              /\ ReceiptVouched(t)
              /\ UNCHANGED receiptCache
           \/ /\ ~cached /\ verdict = "ok"
              /\ ReceiptVouched(t)
              /\ receiptCache' = IF call[t].cache
                   THEN receiptCache \cup {[key |-> ReceiptKey(t), receipt |-> req.receipt]}
                   ELSE receiptCache
           \/ /\ ~cached /\ verdict = "UnknownKeyId" /\ ~call[t].retried
              /\ pc' = [pc EXCEPT ![t] = RefreshOf["receipt"]]
              /\ UNCHANGED <<result, receiptCache, outcomeCache>>
           \/ /\ ~cached /\ verdict # "ok"
              /\ verdict # "UnknownKeyId" \/ call[t].retried
              /\ Reject(t, verdict)
              /\ UNCHANGED <<receiptCache, outcomeCache>>
    /\ UNCHANGED <<policy, keys, now, call, tokenCache, calls>>

\* enforce_dane on a SCITT success of verify_scitt_first.
Dane(t) ==
    /\ pc[t] = "dane"
    /\ \/ Reject(t, "DaneError") /\ UNCHANGED call
       \/ /\ call' = [call EXCEPT ![t].dane = TRUE]
          /\ Finish(t, TierOf(call[t].req), "ok")
    /\ UNCHANGED <<policy, keys, now, caches, calls>>

\* The caller takes the outcome.
Return(t) ==
    /\ pc[t] = "done"
    /\ pc' = [pc EXCEPT ![t] = "idle"]
    /\ call' = [call EXCEPT ![t] = NoCall]
    /\ result' = [result EXCEPT ![t] = NoResult]
    /\ UNCHANGED <<policy, keys, now, caches, calls>>

-----------------------------------------------------------------------------
(* The environment                                                         *)

\* The background refresh, or that of a call outside the model.
BackgroundRefresh ==
    /\ keys' = MergeFrom(keys, Published)
    /\ keys' # keys
    /\ UNCHANGED <<policy, now, caches, pc, call, result, calls>>

\* moka evicts an entry, for its age or for room.
Evict ==
    /\ \/ \E e \in tokenCache :
            tokenCache' = tokenCache \ {e} /\ UNCHANGED <<receiptCache, outcomeCache>>
       \/ \E e \in receiptCache :
            receiptCache' = receiptCache \ {e} /\ UNCHANGED <<tokenCache, outcomeCache>>
       \/ \E e \in outcomeCache :
            outcomeCache' = outcomeCache \ {e} /\ UNCHANGED <<tokenCache, receiptCache>>
    /\ UNCHANGED <<policy, keys, now, pc, call, result, calls>>

Tick ==
    /\ now < MaxTime
    /\ now' = now + 1
    /\ UNCHANGED <<policy, keys, caches, pc, call, result, calls>>

Next ==
    \/ \E t \in Tasks :
         \/ \E req \in Requests : BeginServer(t, req) \/ BeginClient(t, req)
         \/ Badge(t) \/ Lookup(t) \/ Token(t) \/ Refresh(t) \/ Receipt(t)
         \/ Dane(t) \/ Return(t)
    \/ BackgroundRefresh
    \/ Evict
    \/ Tick

Spec == Init /\ [][Next]_vars

-----------------------------------------------------------------------------
(* Properties                                                              *)

\* What a verifier without any cache says of a request.
Uncached(req, store, at) ==
    IF req.token = Absent THEN "MissingTokenField"
    ELSE LET token == TokenVerdict(req.token, store, Skew, at)
             cert == CheckCertificate(req, req.token)
             receipt == IF req.receipt = Absent THEN "ok"
                        ELSE ReceiptVerdict(req.receipt, store)
             binding == IF req.receipt = Absent THEN "ok"
                        ELSE Binding(req.receipt, req.token, ExpectedHost(req))
         IN  First(<< <<token = "ok", token>>, <<cert = "ok", cert>>,
                      <<receipt = "ok", receipt>>, <<binding = "ok", binding>> >>)

Done(t) == pc[t] = "done"
ScittAccepted(t) == result[t].kind \in {"StatusTokenVerified", "FullScitt"}
ScittRejected(t) == /\ result[t].kind = "rejected"
                    /\ result[t].error \notin {"badge", "DaneError"}

\* The caches are invisible in acceptances: what a call accepts, whatever other
\* calls, roles and refreshes have left in the two layers, a verifier without
\* caches accepts at the same tier, at the time the call began.  In particular
\* an entry made for one role, host or certificate never serves another one.
CacheTransparent ==
    \A t \in Tasks : Done(t) /\ ScittAccepted(t) =>
        /\ Uncached(call[t].req, keys, call[t].since) = "ok"
        /\ result[t].kind = TierOf(call[t].req)

\* The caches are invisible in rejections: what a call rejects, a verifier
\* without caches rejects too, at the end of the call and under the keys the
\* call started with.
CacheOnlySpares ==
    \A t \in Tasks : Done(t) /\ ScittRejected(t) =>
        Uncached(call[t].req, call[t].scope, now) # "ok"

\* Together: no observer of the outcomes can tell that there are caches.
CachesInvisible == CacheTransparent /\ CacheOnlySpares

\* Trust scope: an entry under a key vouches for its bytes under exactly the
\* trusted keys hashed into that key, also while keys are refreshed between
\* the lookup and the insertion.
CacheHonest ==
    /\ \A e \in tokenCache :
         \E store \in {InitialKeys, MergeFrom(InitialKeys, Published)} :
            /\ e.key = ArtifactCacheKey(store, e.token)
            /\ \E at \in 0 .. now : TokenVerdict(e.token, store, Skew, at) = "ok"
    /\ \A e \in receiptCache :
         \E store \in {InitialKeys, MergeFrom(InitialKeys, Published)} :
            /\ e.key = ArtifactCacheKey(store, e.receipt)
            /\ ReceiptVerdict(e.receipt, store) = "ok"

\* Evidence that was presented, or that the policy demands, is never waived: a
\* success without SCITT needs a peer that sent no SCITT header, RequireScitt
\* never ends with a badge, an enhancement keeps its badge, a receipt that was
\* sent was verified, and a server's success of any kind was subject to DANE.
NoDowngrade ==
    \A t \in Tasks : Done(t) /\ result[t].kind # "rejected" =>
        /\ result[t].kind = "badge" =>
             HeadersEmpty(call[t].req) /\ policy # "RequireScitt"
        /\ policy = "BadgeWithScittEnhancement" => result[t].badge
        /\ call[t].req.receipt # Absent =>
             ReceiptVerdict(call[t].req.receipt, keys) = "ok"
        /\ call[t].req.isServer /\ DaneOn => call[t].dane
-----------------------------------------------------------------------------
(* The inductive invariant                                                 *)

\* The key store grows once: a second merge of the same lines adds nothing.
Stores == {InitialKeys, MergeFrom(InitialKeys, Published)}
Below(earlier, later) == earlier = later \/ later = MergeFrom(InitialKeys, Published)

Stages == {"badge", "lookup", "token", "token refresh", "receipt",
           "receipt refresh", "dane", "done"}
Calls == [req: Requests, scope: Stores, snapshot: Stores, cache: BOOLEAN,
          badge: BOOLEAN, dane: BOOLEAN, retried: BOOLEAN, since: Nat]

StateTyped ==
    /\ policy \in Policies /\ keys \in Stores /\ now \in Nat
    /\ pc \in [Tasks -> Stages \cup {"idle"}]
    /\ DOMAIN call = Tasks /\ DOMAIN result = Tasks
    /\ \A t \in Tasks : pc[t] # "idle" => call[t] \in Calls

\* What a call knows of keys and time: it never reads newer keys than the store
\* has, and it uses the cache only under the keys of its cache keys.
CallInOrder(t) == pc[t] # "idle" =>
    /\ Below(call[t].scope, call[t].snapshot) /\ Below(call[t].snapshot, keys)
    /\ call[t].since <= now
    /\ call[t].cache => call[t].snapshot = call[t].scope
    /\ call[t].badge => call[t].dane

\* What the tier policy has let through.
PolicyKept(t) ==
    /\ pc[t] = "badge" => /\ policy # "RequireScitt"
                          /\ policy # "BadgeWithScittEnhancement" => HeadersEmpty(call[t].req)
    /\ pc[t] \in Stages \ {"badge", "done"} /\ policy = "BadgeWithScittEnhancement"
         => call[t].badge

\* What each stage has established.
StageEarned(t) ==
    LET req == call[t].req
        snapshot == call[t].snapshot
    IN  /\ pc[t] \in {"token", "token refresh", "receipt", "receipt refresh"} => req.token # Absent
        /\ pc[t] = "token refresh" => TokenVerdict(req.token, snapshot, Skew, now) # "ok"
        /\ pc[t] \in {"receipt", "receipt refresh"} =>
             /\ TokenVerdict(req.token, snapshot, Skew, call[t].since) = "ok"
             /\ CheckCertificate(req, req.token) = "ok"
        /\ pc[t] = "receipt refresh" =>
             req.receipt # Absent /\ ReceiptVerdict(req.receipt, snapshot) # "ok"
        /\ pc[t] = "dane" => Uncached(req, keys, call[t].since) = "ok"

\* CacheHonest for layer 2.  The host is the token's own: the certificate check
\* that every hit repeats ties the call to it.
OutcomeHonest ==
    \A e \in outcomeCache : \E store \in Stores, req \in Requests :
        /\ e.token = req.token /\ req.token # Absent
        /\ e.key = <<req.cert.fp, ArtifactCacheKey(store, req.token),
                     IF req.receipt = Absent THEN Absent
                     ELSE ArtifactCacheKey(store, req.receipt)>>
        /\ \E at \in 0 .. now : TokenVerdict(req.token, store, Skew, at) = "ok"
        /\ req.receipt # Absent =>
             /\ ReceiptVerdict(req.receipt, store) = "ok"
             /\ Binding(req.receipt, req.token, {req.token.host}) = "ok"

CallsSound == \A t \in Tasks : CallInOrder(t) /\ PolicyKept(t) /\ StageEarned(t)

IndInv ==
    /\ StateTyped /\ CallsSound
    /\ CacheHonest /\ OutcomeHonest
    /\ CachesInvisible /\ NoDowngrade
=============================================================================
