# TLA+ verification of the ANS SDK for Rust

This directory holds TLA+ models of the SDK: its concurrent and stateful parts as
state machines, its sequential parts as operators, the TLC configurations that
check them on small instances, and proofs, checked by TLAPS, that the most
important properties hold for every size. Paths below are relative to
`src/crates/`.

Run a check with `tlc -config MCDpopReplay.cfg MCDpopReplay`, and a proof with
`tlapm DpopReplay_proofs.tla`.

## 1. Inventory

The SDK lets an agent decide whether the peer of a TLS connection is the agent
it says it is. Evidence comes from DNS (badge records, TLSA), from the
transparency log (TL: badges, signed receipts, status tokens, root keys) and, for
callers, from a DPoP proof in the request. A second library registers agents with
the Registration Authority (RA) and asks it for the certificates the first one
verifies.

| component | state | operations | interacts with |
|---|---|---|---|
| Badge cache, `ans-verify/src/cache.rs` | moka store keyed by host and version; version index behind an `RwLock` | insert, get (fresh / allow stale), invalidate, `invalidate_fqdn`, `set_version_index`, clear | both verifiers share one |
| `ServerVerifier`, `verify.rs` 583-1440 | none of its own between calls; policies | `verify`, `prefetch` | cache, DNS resolver, TL client, DANE |
| `ClientVerifier`, `verify.rs` 1442-1852 | as above | `verify`, refresh | cache, DNS, TL |
| `AnsVerifier` and SCITT, `verify.rs` 1965-3021 | tier policy, caches | `verify_*_with_scitt`, `verify_scitt_first` | key store, verification cache, badge path |
| `ScittVerificationCache`, `scitt/verification_cache.rs` | tokens, receipts and outcomes with expiry | get / insert | SCITT path |
| `RefreshableKeyStore`, `scitt/refreshable_key_store.rs` | key snapshot, `last_refreshed`, refresh gate | on-demand, forced and background refresh | SCITT client, every token check |
| `ScittHeaderSupplier`, `scitt/supplier.rs` | served receipt and token, init gate | `current_headers`, `refresh_now`, auto refresh | SCITT client, key store |
| `MemoryReplayCache`, `pop/replay.rs` | jti index, expiry generations | `check_and_store`, `evict_expired` | DPoP verification |
| Caller authentication, `pop/*.rs` | artifact cache | `sign_proof`, `verify_caller*` | replay cache, key store |
| DNS, DANE, TL and SCITT clients, receipts, Merkle walk, COSE, status tokens, root keys | none | lookups, parsing, matching, verification | the verifiers above |
| Builders and outcomes, rustls verifiers | configuration | `with_*`, `build`, one check per handshake | everything they assemble |
| Types, `ans-types` | none | names, badges, fingerprints and their comparison | everything |
| Artifact caches of agents, `scitt/scitt_cache.rs` | two moka maps by agent id | get, insert, invalidate | nothing in the repository |
| Registration client, `ans-client` | none | one request per call, certificate requests | RA |

**What is hard here.** Everything in the verifiers is async and shared: an await
is a point where another task may invalidate the cache entry about to be written,
where a key set is merged by somebody else, where a proof outlives its window, or
where the future is dropped with a lock held. DNS and TL lookups fail in two ways
that must not be confused: *determinate* (NXDOMAIN, 404, untrusted URL: reject)
and *unavailable* (apply the failure policy). Time appears in the freshness TTL,
the staleness limit, the proof window, the refresh cooldown and the expiry of
tokens and of what was derived from them, each measured from a stamp taken at a
slightly different moment. Identity is compared in many places, between a
certificate, a badge, a DNS record, a token and a receipt, each written in its own
form. The hazards, each at its line with the properties that cover it, are in
`PROJECT.json`.

**What makes each component correct.** The cache: nothing that a completed drop
dropped can be found again, every operation takes effect at one instant, and what
one leaves behind that was given up half-way is known. Both badge verifiers: evidence is
never older than the configuration says, a determinate answer is never
overridden, a rejection sticks, a certificate somebody vouches for is not
refused, DANE applies to every path. SCITT: the caches change no verdict, evidence
that was presented is never waived. Replay cache: single use, jtis consumed by
successes only, and no lasting denial from a full cache. Key store: keys are
never lost, requests to the TL are spaced, callers never hang, rotations are
learned. Supplier: the gate is released, a served token does not lapse, and an
older token wins only where two fetches overlap. The sequential parts: an answer
is told from an outage, an error names a defect that is there, every accepted
artifact, proof, path and certificate is the one it was compared with.

## 2. Modules

| module | models | proofs |
|---|---|---|
| `VersionedCache` | the badge cache as its callers see it: atomic operations | abstract side of `PolledCacheIsAtomic` |
| `AbandonableCache` | the same with callers who give up; extends `VersionedCache` | abstract side of `CacheIsAtomic` |
| `BadgeCache` | the same at the level of lock, index pushes and single invalidations | `BadgeCache_proofs` |
| `ServerVerifier` | concurrent `verify` and `prefetch` calls over a `VersionedCache` | `ServerVerifier_proofs` |
| `ClientVerifier` | concurrent client verifications over a `VersionedCache` | `ClientVerifier_proofs` |
| `DpopReplay` | concurrent caller authentications over `MemoryReplayCache` | `DpopReplay_proofs` |
| `RefreshableKeyStore` | the key store, its background loop and the calls that refresh on demand | `RefreshableKeyStore_proofs` |
| `ScittHeaderSupplier` | the supplier: init gate, timeout, refresh loop, manual refresh | `ScittHeaderSupplier_proofs` |
| `ScittArtifacts` | receipts, status tokens, root keys: every check, in order, with its error | `ScittVerification_proofs` |
| `ScittVerification` | the tier policies and both cache layers; extends `ScittArtifacts` | `ScittVerification_proofs` |
| `ProofOfPossession` | signing and verifying a DPoP proof, the artifact cache; extends `ScittArtifacts` | `ScittVerification_proofs` |
| `DnsDiscovery` | lookups, discovery, choice among records | `Questions_proofs` |
| `DaneMatching` | TLSA answers, matching and policy; extends `DnsDiscovery` | `Questions_proofs` |
| `LogClients` | the TL and SCITT HTTP clients and what the verifiers make of their errors | `Questions_proofs` |
| `MerkleProof` | the inclusion-path walk against the tree of RFC 9162 | `Questions_proofs` |
| `VerifierConfiguration` | builders, conversion of outcomes, the rustls verifiers | `Questions_proofs` |
| `AgentNames` | names, URIs, badges, fingerprints, and the verdicts on certificates | `Questions_proofs` |
| `CertificateRequests` | CSRs up to the verdict on what they ask for; extends `AgentNames` | `Questions_proofs` |
| `RegistrationClient` | the builder, requests, replies and errors of the RA client | `Questions_proofs` |
| `Selection` | what Rust's `filter` and `find` keep of a sequence, for the modules above | `Questions_proofs` |
| `Questions` | what is asked of the sequential modules, as predicates over an input | both of the above |
| `MC*` | instances for TLC | - |

`PROJECT.json` maps each definition to the lines it translates. Definitions
introduced by "Mutant" in a comment are plausible bugs; each property is checked
to fail when one of them replaces the real definition.

How they compose: `ServerVerifier` and `ClientVerifier` are built from the
operations of `VersionedCache`, which `BadgeCache` implements as long as no caller
gives up inside the lock of the index. `ScittVerification`
takes its verdicts from `ScittArtifacts`, its keys from what
`RefreshableKeyStore` guarantees, and one answer from a badge verifier.
`ProofOfPossession` uses the same artifacts and hands its jti to `DpopReplay`,
which in turn leaves the checks in between abstract. `CertificateRequests`
follows a request through issuance to the verdict of `AgentNames`.

### BadgeCache, VersionedCache and AbandonableCache

`store` is the moka cache and `index` the version index (an absent host is the
empty set). In `BadgeCache` a call is in `op[t]`: an insertion builds its entry
(`InsertCall`), takes the write lock and pushes its version (`InsertIndex`), puts
the entry and releases (`InsertEntry`). `invalidate_fqdn` and `set_version_index`
are one shape, `DropBegin`, `DropEntry` for each awaited invalidation,
`DropEnd`, with different sets of versions to keep. `Cancel` drops the future of a
call at any of these awaits, as a caller's timeout does: the lock is released, the
index stays as the call left it, and an insertion puts no entry (`CancelInsert`),
while a drop leaves the entries it had not come to without a place in the index
(`CancelDrop`). The history variable `orphans` holds their keys until the entry goes or its
version is indexed again. `PolledSpec` is the specification without `Cancel`. `Remove` is `invalidate(key)`
and also moka's eviction; neither takes the lock. `clear` is in `NextWithClear`
only: no verifier calls it, and it breaks the property the others keep
(section 5). Two reads are left to the verifiers: `collect_for_fqdn` copies the
versions, then reads entries one at a time.

`BadgeCache` implements `AbandonableCache`, where a drop given up is an operation of
its own (`AbandonDrop`), and `PolledSpec` implements `VersionedCache`. The verifiers
are built on the latter: they assume that a verification that holds the lock of the
index is polled to its end. The age of evidence does not depend on that (an orphan
ages like any entry); that rejections stick, that a mismatch is fresh and that the
fallback is complete do.

### ServerVerifier

A task is at `pc`: `scan` (reading cached entries one by one), `dns` (lookup in
flight, then its answer to handle), `fetch` (parallel TL fetches), `sift` (the
loop over the results), `stale` (fail-open fallback scan), `dane`, `idle`. An
answer is taken in one step (`DnsReply`, `FetchReply`) and acted upon in a later
one, so anything may happen in between; each cache operation is one step, as
justified by the theorem `CacheIsAtomic`. `verify_against_records`, its `_final`
variant and `prefetch` are one loop with the differences in the guards
(`job[t].kind`, `job[t].final`). `Environment` publishes and withdraws records
and badges, ticks the clock and evicts entries.

Abstractions: one host (verifications of different hosts share nothing but the
lock of the index); the statuses Active, Warning and Deprecated are one, Expired
and Revoked are one; a fetched badge carries the moment and the epoch of its
evidence as history. Assumptions: a cache is configured; scanning the cache takes
less than a tick; a fetched badge waits for its sibling fetches at most
`MaxFlight` ticks (they start together and the HTTP client has a timeout,
`tlog.rs`); the clock is `Instant`, hence monotonic. The order of two records
with one version is not fixed by the code's sort and is nondeterministic here.

### ClientVerifier

The same construction for identity certificates: the version a certificate names
selects the cache entry and the record; when that version is not published, the
preferred badge of another one is fetched and cached under the certificate's
version. `outdated`, `fetchedInCall` and `calm` in an outcome or a job are
history: what the TL had answered before or after a rejection, and whether
anything changed during the call. A `ServerVerifier` on the same cache appears as
the drops it makes.

### DpopReplay

`Begin` is `verify_proof_unrecorded` with the freshness check at the start of
`verify_caller_with_content`; the token, receipt and content checks between it
and the commit are the awaits where other tasks run, `Abort` when one of them
fails. `check_and_store` runs under one mutex without an await, so it is one
step, in four disjuncts in the order of its returns; the eviction of whole
generations is part of each. A jti has an expiry in `index` and a place in a
generation of `buckets`, and the two are kept apart, as in the code, because
their agreement is a property. Assumptions: the wall clock is not set back, and
all callers of a cache use one `pop_skew`. A cache shared by endpoints with
different skews, or by several processes, is outside the model.

### RefreshableKeyStore

Actors are verification calls and the background loop. A call that meets an
unknown kid waits at the gate (`Miss`), enters it when the cooldown permits
(`GateRefresh`) or leaves (`GateSkip`), fetches (`FetchReply` or `FetchFails`),
merges (`Merge`) and retries once (`Retry`). `ForceRefresh` is an application's
own `do_refresh`, outside the gate; `Cancel` drops a future at any await,
`StopBackground` drops the handle. Taking the gate and reading the cooldown
under it are one step (nothing between them has an effect that others see). The
background interval is abstract: the loop may wake at any time. `LockWait` bounds
how long a fetched answer waits for the write lock, which is only ever held for
one merge in memory.

### ScittHeaderSupplier

`artifacts` is what is served, `gate` the holder of `init_gate`, `job[t]` a call
of `current_headers`, of `refresh_now`, or the loop, each on its way through
receipt, token and store. A token is the moment it was issued. The errors of the
client and of the verification of what it brings are one failure, because the
supplier treats them alike. The interval of the loop is computed as in the code
(`RefreshInterval`, half of what is left, at least the minimum); the initialisation
timeout may drop a caller at each of its awaits, between the receipt and the token
included. Assumption: a request and the storing of its answer take at most
`HttpTimeout`.

### ScittVerification and ScittArtifacts

`ScittArtifacts` gives an artifact as its set of defects and the fields that
matter, and translates each decoder and verifier to the sequence of its checks:
`First` picks the first that fails, as the early returns do. In
`ScittVerification`, `pc[t]` follows a call through the snapshot of the keys, the
outcome cache, token, certificate, receipt and binding, the retry after a refresh,
DANE and the badge path; `tokenCache`, `receiptCache` and `outcomeCache` hold
values under the keys the code computes (fingerprint, digest, and the trust scope
hashed into them). A lookup and an insertion are separate steps, with evictions
and the clock in between.

### Sequential modules

They are operators over data that keeps only what the properties tell apart: a
DNS name or URI is a sequence of labels with their octets and faults, a URL is a
record, JSON, CBOR and COSE are the values they decode to or the set of defects
found on the way, a hash is a free constructor over what was hashed, a signature
names its key. Each module states what its operators promise as operators over
inputs. `Questions` turns their promises into predicates over one `input`, a family
and its arguments: `ArtifactErrors`, `PopBinds`, `DaneDecides`, `InclusionExact`,
`ConfigurationHonoured`, `AnswersHonest`, `IdentityAgrees` and `RegistrationHonest`.
`MCAlgorithms` extends it and enumerates the inputs, one family (`Pick...`) at a
time; every state after the initial one is one input. `Questions_proofs` and
`ScittVerification_proofs` answer the same eight questions for all inputs. Loops over rows, errors, redirects, key lines
and pages are recursive functions over the naturals (`Select` among them), which
proofs can unfold, and not RECURSIVE operators, which they cannot.

## 3. Runs

| run | instance | question and result |
|---|---|---|
| `badge_cache` | 3 callers who may give up at any await, 2 versions, 2 values | only an abandoned drop leaves an un-indexed entry, drops are complete but for these, atomicity by refinement, and every call returns |
| `server_solo` | 1 caller, 2 versions, 3 badges, 1 publication, 2 ticks, DANE required | sticky rejections, no stale evidence after an adverse answer, no false refusal, complete fallback, DANE |
| `server_pair` | 2 callers, 1 version, slow answers, `MaxStaleness` 1 | the age of evidence and no false refusal, under races between callers |
| `server_dane_live` | 1 caller, 2 versions, all badge kinds, one record unversioned, `ValidateIfPresent` | the age of evidence and no false refusal where an answer has no version, and termination |
| `client_verifier` | 2 callers, 2 versions, 3 certificates (one without a usable name), 3 calls | age, fresh mismatches, sticky rejections, no false refusal |
| `scitt_verification` | 2 calls of either role, 11 requests, 2 keys one of which is rotated in, 3 seconds, every tier policy | invisible caches, honest entries, no downgrade |
| `scitt_headers` | 2 callers, a manual refresh, the loop, 3 ticks | gate ownership, a healthy loop keeps its token, set back only by overlap |
| `dpop_replay` | 3 requests, 4 proofs (two share a jti), capacity 2, 9 seconds | single use, jti retention, earned entries, justified refusals |
| `key_store` | 2 calls and the loop, 2 keys of distinct kids, one known at the start, cooldown 2, 2 seconds | kept keys, released gate, spacing, own refresh visible; calls return; a rotation is learned |
| `algorithms` | about 108 000 inputs in 24 families | section 3.1 |
| `server_sticky_pair`, `dns_servfail` | smallest instance | TLC finds the disagreements of section 5 |

**Why the bounds suffice.** Two versions are a rolling deployment; a third adds
no new relation between two of them. One publication between the reads of a call
already separates what was read from what is true, and the initial DNS and TL
contents are arbitrary. The clock of every run of the badge verifiers runs past the
freshness TTL, 1, and that of `server_pair` past its staleness limit, 1, so that there
both halves of the bound on age can be broken; in the others the limit is 2, for
stale badges to be accepted, and their own age is not put to the test. In `client_verifier` badges are Active
and records versioned. The theorems of section 6 have none of these limits. The other clocks run past
every window (the generations of the replay cache are 2
seconds wide and its proofs lapse at 5, 6 and 8; the tokens of
`scitt_verification` lapse at 1 and 2 with a tolerance of 1). With three callers in
`BadgeCache`, one holds the lock or has given it up half-way, one waits and one evicts. The replay cache of
capacity 2 meets three jtis. The proofs of section 6 remove the bounds of every
state machine, for its safety properties, and of the inputs of all eight
questions of `algorithms`. In `scitt_verification` two calls suffice for one to
find what the other left, in its own role or the other's, before or after a
refresh or an expiry. In `scitt_headers` the lifetime, 3, is just long enough for
the assumption `LongLived`. `key_store` is small because its liveness properties
forbid symmetry; its safety properties are theorems, `LockWait` above 0 included.

### 3.1 The families of `algorithms`

- `AnswersHonest`: badge lookups, discovery, the choice among records, TL and SCITT
  clients. An answer is told from an outage (except for the finding), the choice
  depends on the records and not on their order, no host but the one asked decides
  a badge, one adverse error among several survives, a terminal agent is reported
  only for a 410, the SCITT client's base URL works with and without its slash.
- `DaneDecides`: every TLSA row against a certificate under every policy; a bogus
  zone is never accepted, whichever constructor built the resolver; a row that
  selects the key survives a renewal with that key.
- `InclusionExact`: for every tree of up to 6 leaves, every index and every path of
  up to 3 nodes, the walk reaches the root exactly for the path of that leaf.
- `ArtifactErrors`: an acceptance, an expiry or a terminal status is only reported of
  an artifact that a trusted key signed for its issuer, an unknown key only of one
  that is well-formed; a key refresh changes no other verdict than the unknown key.
- `PopBinds`: a proof is accepted for the request, key, certificate and token it was
  made for and for no other; what the artifact cache knows changes no verdict, and a
  refused request consumes no jti.
- `ConfigurationHonoured`: the order of calls that set different options does not
  matter, a verifier that was built is never more permissive than what was listed,
  the accessors of an outcome agree, and a handshake passes only for a certificate
  of the prefetched badge or of the configured CA.
- `IdentityAgrees`: names print and read back once, a badge is read alike in both
  of its forms, server and client roles are apart, a certificate request leads to a
  certificate that fits the badge of its version and no other, a renewal keeps its
  key.
- `RegistrationHonest`: two operations never send the same request, unless an id is
  a dot segment or the V1 agent `events`, profiles are sent or refused, an error keeps
  its status, a registration's link gives the agent's path, paging reads every event once and in order, a nil list is an empty
  one where the field has that default, and every label has one spelling once read.

`CHECK_DEADLOCK FALSE` is set where a bounded clock, finitely many publications or
calls, or a single input let the system come to rest.

## 4. Fairness

Only the liveness properties use it, and it comes from the runtime the code
relies on. tokio polls every woken task, and every HTTP and DNS request has a
timeout, so a step of a call in progress that stays enabled is taken (weak
fairness of `Step`, `Advance`, `Resolve`, `Merge`, `Retry`). tokio's `Mutex` and
`RwLock` queue their waiters first come, first served, so a waiter is not passed
over for ever (strong fairness of `InsertIndex` and of `EnterGate`). Nobody is
obliged to make calls or to give one up (`Cancel` has no fairness, and `CallsReturn`
holds whoever does), and the environment is not obliged to do anything, with
one exception in `RotationLearned`: the TL does not fail *every* request of the
background loop (strong fairness of its `FetchReply`). `DropBegin` waits for the
lock before the call has any state, so `CallsReturn` of `BadgeCache` covers drops
from the moment they hold it.

## 5. Where code and documentation disagree

Shown by a run:

- An insertion in flight during another task's invalidation brings a rejected
  badge back, and a later outage serves it, against "Keep rejection sticky across
  a later outage" (verify.rs:1223; `server_sticky_pair`). The age of what is
  served remains bounded (`EvidenceAgeBounded`, part of `AcceptanceExact`, holds).
- A SERVFAIL of the recursive resolver reaches the TXT and SVCB lookups as a
  `NoRecordsFound` and counts as the absence of records (dns.rs:1054), so the host
  is rejected as not an ANS agent and its cached badges are dropped, against
  verify.rs:505 and error.rs:50; `lookup_tlsa` tells the two apart (`dns_servfail`).

Met while modelling, and kept in the models as the code has them:

- `BadgeCache::clear` (cache.rs:221-225) empties the store before it locks the
  index. An insertion that completes in between survives un-indexed, and the next
  `invalidate_fqdn` does not find it (`NextWithClear`).
- An `invalidate_fqdn` or `set_version_index` whose future is dropped between two of
  its invalidations (cache.rs:319-323, 335-340) has already replaced the index. The
  entries it had not come to are not found by the next `invalidate_fqdn`, against
  "Invalidate all cached badges for an FQDN" (cache.rs:314), a direct
  `get_by_fqdn_version` still returns them until they expire, and a later
  `set_version_index` with their version lists them again (`CancelDrop`). What holds is
  `EntriesIndexed` and `DropIsComplete`, which except the orphans of such drops and no
  other entry.
- A newer badge with a rejecting status ends the loop before older ones are
  tried, against "Prefers newest ACTIVE badge, falls back to older versions"
  (verify.rs:727).
- The on-demand cooldown starts at a refresh that succeeded, so it does not bound
  the request rate while the TL fails (refreshable_key_store.rs:38-41). What holds
  is `OnDemandSpaced`. A call that waited at the gate while another one fetched the
  key it needs gets `Ok(false)` and rejects. What holds is `OwnRefreshDecides`.
- `PopErrorKind::ReplayCacheFull` speaks of "still-live entries"; lapsed entries
  count until their generation is over. What holds is `FullWhenBusy`.
- `ClientVerifier`'s refresh (verify.rs:1736-1770) returns adverse answers without
  invalidating the host, and a cached rejection of another version's preferred
  badge is returned until `default_ttl`. What holds is `RejectionSticky` and
  `MismatchIsFresh` of `ClientVerifier`.
- `current_headers` promises both headers or none when its fetch fails
  (supplier.rs); a receipt that arrived before the token failed is served alone.
- `find_preferred_badge` says that records without a version go last; its sort puts
  them first (dns.rs:795). `find_badge_for_version` chooses by the order of the
  answer when an unversioned record matches as well.
- A TLSA answer whose records are all malformed counts as absent and passes
  `ValidateIfPresent`; NSEC and SERVFAIL answers become `DnssecFailed`.
- The TL client joins URLs without appending a slash, so a base path without one
  loses its last segment; the SCITT client appends it, follows redirects and does
  not require https. `fetch_root_keys` reports 404 and 410 as
  `UnexpectedHttpStatus`.
- `FailOpenWithCache` without a cache acts as `FailClosed`. `with_caching` after
  `with_cache_config` resets the configuration. `RequireScitt` skips the check of
  `max_staleness`.
- `AnsServerCertVerifier` pins the first server fingerprint of a badge only.
- `ClientVerifier` compares ANS names with the text of the badge, case included;
  the SCITT path ignores case. A trailing dot in a certificate's host passes
  `Fqdn::new` and is refused as `HostnameMismatch`. Version labels `+1` and `01` are
  read as 1.
- On the right edge of the tree a truncated inclusion path passes the walk's own
  checks (merkle.rs, the loop of promotions) and is caught by the root only.
- An agent whose id is `events` has the address of the feed in the V1 lane of the
  registration client. `urlencoding` leaves dots as they are and `Url::join` resolves
  dot segments (client.rs:347-351, 374-382), so the ids `.` and the empty one share the
  URL of the collection with a slash, and `..` leaves the collection (`Strays` in
  `RequestsStayApart`).
- `normalize_authority` drops `:443` and `:80` whatever the scheme.
- The registration client drops the base path of a configured URL. An unknown event
  type fails a whole page of events; `AgentLifecycleStatus` lacks `PENDING_CERTS`,
  which `RegistrationStatus` has. Some list fields refuse null although models.rs
  says that response models accept it (models.rs:11-17).

## 6. Proofs

For any number of tasks, hosts, versions, keys and proofs, any windows, and any
bound on time. All safety invariants and action properties of the state machines
are theorems, and so are the answers to all questions about the sequential modules.

**`BadgeCache_proofs`.** `IndInv` = types, exclusion (a task is inside a critical
section iff it is the recorded holder), `EntriesIndexed` (an entry is in the index, or
is one that a holder is dropping, or an orphan), `HolderIndex`: while a holder drops,
the index is already the one it keeps, and while it inserts, its version is in the
index, and `StaysDropped`: what a drop in progress has invalidated, nobody puts back.
Without the last two, completeness of drops is
not inductive: nothing would say that the index a drop replaced covers the entries it
will find. For `CacheIsAtomic` the abstract index (`SeenIndex`) hides a version pushed ahead of its
entry and is, while somebody drops, still the one that the drop found; store and
orphans are those of the code: an insertion
takes effect at `InsertEntry`, a drop at `DropEnd`, each of its invalidations is a
`Remove`, and a `Cancel` is an `AbandonInsert` or `AbandonDrop`. `PolledCacheIsAtomic` is what the verifiers rest on: where nobody
gives up there are no orphans, and the cache implements `VersionedCache`.

**`DpopReplay_proofs`.** `IndInv` adds `UsedIsHeld` to the checked invariants: an
accepted proof is still recorded or has lapsed. If it is recorded, a second
commit is a replay; if it has lapsed, a second commit is too late. That needs
`Generations`, because the eviction reads the buckets while the lookup reads the
index, and a non-decreasing clock. `JtiIsHeld` and `RefusalsAreJustified` are
action properties derived from the invariant.

**`RefreshableKeyStore_proofs`.** `IndInv` adds `RefreshIsVisible` (what a task's
refresh fetched is in the store when it retries, since keys are never removed)
and `StampsInOrder` (`last_refreshed` is at most `LockWait` behind the last
on-demand refresh, although stamps are read before the lock is taken).

**`ScittHeaderSupplier_proofs`.** `IndInv` adds to gate ownership that requests,
answers and stored tokens lie in this order in time (`InOrder`), that a stored
token is at most `HttpTimeout` older than the moment it was stored
(`StoredFresh`), and that the loop wakes in time and sleeps at most `LongestSleep`
beyond the last store (`LoopInTime`). The last two carry `HealthyLoopKeepsToken`
although another task may replace the token while the loop sleeps: what is stored
later is no older than `HttpTimeout` before the loop's own store. The bound of the
clock, `MaxTime`, is arbitrary here.

**`ServerVerifier_proofs`.** `IndInv` = types, the age of every entry
(`StoreAged`), and for each task `TaskInv`: what it found and fetched is recent,
its outcome is within the window of its source, an attempt that met a determinate
failure has not forgotten it (`AttemptClean`), and an idle acceptance passed DANE.
These speak of one task and the cache only, so a step of another task disturbs
nothing but the age of an entry, which every insertion establishes anew. The last
conjunct, `Hopeful(t) => OnTrack(t)`, carries `VouchedIsAccepted`: while nothing
fails or changes, a call that a published badge vouches for keeps a vouching
record through lookup, fetches and the loop over the results. `RejectionSticky` and
`FallbackIsComplete` need `SoloInv` besides: every entry is indexed, none that
could verify is older than the last rejection, and the stale scan overlooks
nothing. Its theorems have the hypothesis `SoleCaller`, one caller at a time (which
`server_solo` checks): with two the property is false, as the run
`server_sticky_pair` shows.

**`ClientVerifier_proofs`.** `IndInv` = types, `StoreSound` (an entry is indexed,
of bounded age, and no older than the last undisputed negative answer about its
version), `OverlapKnown` (calls that overlap on a version know it) and `TaskInv`.
No hypothesis on the number of callers: `epoch` counts the negative answers that no
overlapping call disputes, and `OverlapKnown` is what makes the refresh of such a
call find its version uncached to its end, which stickiness and `MismatchIsFresh`
rest on.

**`ScittVerification_proofs`.** `IndInv` = types, `CallsSound` (each stage of a
call has earned what the next relies on, and its snapshot of the keys lies between
those at its start and those now), `CacheHonest` and `OutcomeHonest` (an entry
stands for a verification under the keys hashed into its key), and the two checked
properties. Three facts about the operators carry it: an acceptance survives a
refresh (`RefreshChangesNoVerdict`), an expiry is for ever, and equal cache keys
mean equal artifacts under equal keys. The proof reads the invariant call by call
and entry by entry (`InvByCall`), so that a step has to be judged for its own call
and its own entry only.

The same module answers two of the questions about the sequential modules, for every
input, and uses the first one's answer for the caches:

- *Artifacts.* A verdict is the first error of a sequence of checks, so it is
  analysed group by group (`TokenVerdictByGroups`, `ReceiptVerdictByGroups`). That
  a refresh changes no verdict takes an induction over the key lines that
  `merge_from` folds in. The prover has no induction over data; `LeastNumber`, that
  a set of naturals has a least member, replaces it: a least line at which the claim
  fails is refuted from the one before. `ErrorsAlwaysEarned` has no premise.
- *Proofs and callers.* `CallersAreProven` assumes of the artifact cache that its
  entries vouch for what they hold; `ArtifactCacheStaysSound` proves that every
  request leaves it so, whatever it carries. `PopInputs` says this, and that times
  are integers and no proof is minted at 0.

**`Questions_proofs`.** The other six questions, for every input.

- *DANE.* For any number of rows, under `DaneInputs`: rows have typed fields and
  the resolver came out of one of the constructors.
- *Configuration.* Any number of builder calls in any order (`ConfigInputs`: calls
  are typed, outcomes are of one of the variants). Two calls that set different
  options commute wherever they stand, by the same least-number argument over
  positions.
- *Merkle paths.* The tree of RFC 9162 splits a span at the largest power of two,
  from the root down; the walk climbs by halving positions, from the leaf up. They
  meet in `NodeSteps`: node i of a level covers the leaves from i times 2 to the
  level on, and is the hash of nodes 2i and 2i+1 below, or its only child again where
  the level below ends. That the walk of a leaf along its own path is at the leaf's
  ancestors (`WalkClimbs`) gives `EveryLeafProves`. For `NothingElseProves`, a path
  of the right length agrees with the leaf's own from the root down (`Unrolled`).
  The code has no check of its own for a path of another length (section 5), and the
  proof is that none leads to the root: it agrees with the leaf's own path, counted
  from the root, as long as both are on the right edge; where one of them leaves the
  edge, a node of one level would be one of another, but a node that is not the last
  of its level is met on that level only (`Depth`), and the last ones of the levels
  below never after (`EdgeDepth`). Collisions apart, a receipt therefore proves
  exactly what the log contains. `MerkleInputs` limits the tree to the 2 to the
  `MAX_HASH_PATH_LEN` leaves that a path of that length can climb; soundness does not
  need it.
- *Answers.* The loops over rows, failed requests, redirects and key lines have any
  length: what each keeps is characterised by the least element that decides it
  (`PreferenceIgnoresOrder`, `AdverseErrorsSurvive`, `BadgesComeFromTheirHost`,
  `RootKeysArriveWhole`). `AnswerInputs` says that replies have the fields of their kind,
  that only an answer of DNS has rows, and that the web has a reply, a failure among
  them, at every URL that is asked for or redirected to.
- *Identity.* Names have any number of labels. `NamesHaveOneForm` and `LookupsNeverMeet`
  compare sequences position by position; `CertificatesFitTheirBadge` follows a
  request through `build`, issuance and the verdict, and shows that the same
  certificate is refused against the badge of any other host and, for an identity
  certificate, of another version (9.9.9 stands for it). `RolesNeverMix` reads a badge in both of its
  forms. `IdentityInputs` says that labels have their fields (`IsLabel`), that a
  name with a version is not one of the marks for "none" (`IsNamed`), and that JSON is a
  function with the fields that serde requires (`IsJson`).
- *Registration.* `CallsStayApart` compares paths call by call over all pairs of calls;
  it needs that ids are encoded apart (`IsAgentIds`) and nothing else of them: that a
  path without dot segments is where its URL leads (`UndottedPaths`) covers every call
  that does not stray, and the agent `events` of the V1 lane is an exception of the property.
  `SpellingsAlwaysAgree` reads an object that was already read once more, for every
  shape whose rules take a missing field for something they read as the same again
  (`IsRule`, which every response model satisfies). `FeedsAreReadInOrder` is an
  induction over the pages that may still be read: a page that starts after some
  position returns the events up to its end and a cursor there, and what is read from
  that cursor is in order by the hypothesis of the induction (`ReadWell`,
  `OnePageFurther`). `RegistrationsLeadToAgents` assumes of the RA that its first self
  link lies in the lane of the client and names no other agent than the reply itself
  does (`LinksToAgent`). `RegistrationInputs` also says that the marks for an absent,
  null or malformed value are none of the values (`MarksStandApart`,
  `AnswersStandApart`): they stand for Rust's `None` and `Err`.

**Assumptions.** The named `ASSUME`s of the modules, which TLC evaluates in the
runs: windows, tolerances and bounds are naturals, times are integers, the special
values (`NoEntry`, `Pending`, `Absent`...) are distinct from the values beside them,
and what the constructors enforce (`HardTtl >= DefaultTtl`, and `>= MaxStaleness`
with a fail-open policy). TLC was also run with each inductive invariant on the
instance of its run; put `INVARIANT IndInv` in the cfg to repeat that.

**Only model-checked.**

- Liveness: `CallsReturn` of `BadgeCache`, `ServerVerifier` and
  `RefreshableKeyStore`, and `RotationLearned`. Fairness and ENABLED are out of the
  prover's reach.
- The disagreements of section 5, which are counterexamples.
- That every input which `MCAlgorithms` enumerates is among those that the theorems
  of `Questions_proofs` speak of was read off its definitions, not checked: some
  hypotheses quantify without a bound, which TLC cannot evaluate.

## 7. Not modelled

Characters: parsing and printing are modelled on labels, fields and defects, not on
text. Cryptography: hashes are injective and signatures name their key. HTTP, TLS
and DNS themselves, webpki's path validation and rcgen's encoding belong to
libraries and appear as their possible answers. Of the cache, fqdn-only keys, which
no verifier uses. `ReceiptCache` and `StatusTokenCache` of `scitt/scitt_cache.rs`,
which the library exports and nothing in the repository uses: each is one moka map with
an expiry and no rule of its own; the caches of verification are in `ScittVerification`.
Redirects met by the registration client. Accessors, `Display`, forwarding trait
implementations, logging, examples and test support keep no state and decide
nothing.

## 8. Plan

Done: every component but the unused artifact caches of section 7 is modelled, and every
safety invariant and action property that a run checks is a theorem. What could follow:

1. `DpopReplay` with callers whose `pop_skew` differ, and with a wall clock that is
   set back: the two hazards of the replay cache that no property covers.
2. moka's own eviction under load in `BadgeCache`, down to its weigher, to bound the
   version index.
3. A composition of `ServerVerifier` and `ClientVerifier` over one cache as actors of
   one module, instead of the drops that one makes in the model of the other.
