--------------------------- MODULE ServerVerifier ---------------------------
(***************************************************************************)
(* ServerVerifier (crates/ans-verify/src/verify.rs): concurrent tasks      *)
(* verify the certificate of one dialed host against the badges that DNS   *)
(* and the transparency log (TL) publish, through the shared badge cache.  *)
(*                                                                         *)
(* Every await of the code is a place where the other tasks, the           *)
(* publisher and the clock may step: a reply is taken at one instant       *)
(* (DnsReply, FetchReply) and acted upon at a later one (HandleDns, Sift). *)
(* The cache operations are the atomic ones of VersionedCache, which       *)
(* BadgeCache implements where the future of a call that holds the lock of *)
(* the index is polled to its end.  That is assumed here: a verification   *)
(* given up between two of its invalidations (AbandonableCache) leaves     *)
(* entries behind that a later one may find again.                         *)
(***************************************************************************)
EXTENDS Naturals

CONSTANTS
    Task,          \* concurrent callers of verify and prefetch
    Host,          \* the dialed host; verifications of other hosts share nothing
    Version,       \* agent versions, ordered as numbers; 0 is "no version"
    Cert,          \* server certificates
    CertForHost,   \* the ones whose host name is Host
    Badge,         \* the badges the TL may serve
    DnsRecord,     \* the badge records DNS may publish
    NoEntry, NoBadge, NoEvidence,
    Pending, Unavailable, Determinate,   \* states of a TL fetch
    DefaultTtl, HardTtl,                 \* CacheConfig
    FailurePolicy, MaxStaleness,         \* "FailClosed" or "FailOpenWithCache"
    DanePolicy,
    MaxFlight,     \* ticks a fetched badge may wait to be processed
    MaxTime, MaxChanges, MaxEpoch        \* bounds of the model

BadgeStatus == {"Active", "Revoked", "Unknown"}
FetchFailure == {Pending, Unavailable, Determinate}

\* A call needs a certificate to verify.
ASSUME CertAssumption == Cert # {} /\ CertForHost \subseteq Cert
ASSUME BadgeAssumption ==
    /\ Badge \subseteq [status : BadgeStatus, certs : SUBSET Cert, host : BOOLEAN]
    /\ NoBadge \notin Badge
ASSUME RecordAssumption ==
    /\ Version \subseteq Nat \ {0}
    /\ DnsRecord \subseteq [version : Version \cup {0}, agent : Version]
ASSUME TimeAssumption ==
    /\ DefaultTtl \in Nat \ {0} /\ HardTtl \in Nat /\ MaxStaleness \in Nat
    /\ MaxFlight \in Nat /\ MaxTime \in Nat /\ MaxChanges \in Nat /\ MaxEpoch \in Nat
ASSUME PolicyAssumption ==
    /\ FailurePolicy \in {"FailClosed", "FailOpenWithCache"}
    /\ DanePolicy \in {"Disabled", "ValidateIfPresent", "Required"}
\* BadgeCache::new clamps hard_ttl; validate_badge_configuration checks it.
ASSUME ConfigurationAssumption ==
    /\ HardTtl >= DefaultTtl
    /\ FailurePolicy = "FailOpenWithCache" => HardTtl >= MaxStaleness

(***************************************************************************)
(* A badge as the TL served it.  asOf and epoch are history: when the TL   *)
(* answered, and how many rejections had happened by then.                 *)
(***************************************************************************)
Evidence == [badge : Badge, asOf : 0..MaxTime, epoch : 0..MaxEpoch]
CachedBadge == [evidence : Evidence, fetchedAt : 0..MaxTime]
FetchResult == Evidence \cup FetchFailure
ASSUME DistinctAssumption ==
    /\ NoEntry \notin CachedBadge
    /\ NoEvidence \notin Evidence
    /\ FetchFailure \cap Evidence = {}
    /\ Pending # Unavailable /\ Pending # Determinate /\ Unavailable # Determinate

Rejection == {"NotAnsAgent", "DnsDeterminate", "TlogDeterminate"}
OutcomeKind == Rejection \cup
    {"None", "Verified", "DnsOutage", "TlogOutage", "InvalidStatus",
     "FingerprintMismatch", "HostnameMismatch", "DaneError",
     "Prefetched", "NothingUsable"}
DnsAnswer == {"waiting", "Found", "NotFound", "Outage", "Determinate"}
TlogError == {"none", "Unavailable", "Determinate"}
TlsaMatch == {"match", "mismatch", "unsupported"}
NotAsked == {"not asked"}

VARIABLES
    store, index,    \* BadgeCache
    now,             \* the monotonic clock
    dns,             \* badge records now published for Host
    tlog,            \* version -> badge now in the TL, or NoBadge
    changes,         \* publications so far
    epoch,           \* determinate rejections so far, up to MaxEpoch
    pc,              \* task -> where it is
    job,             \* task -> what it was asked
    scan, found,     \* task -> cached versions still to read; entries read
    reply, records,  \* task -> the DNS answer and its badge records
    fetched,         \* task -> record -> result of its fetch
    noted,           \* task -> last_mismatch (verify) or preferred (prefetch) is set
    lastError,       \* task -> last_error
    outcome          \* task -> its last outcome

cacheState == <<store, index>>
world == <<dns, tlog, changes>>
taskVars == <<pc, job, scan, found, reply, records, fetched, noted,
              lastError, outcome>>
vars == <<store, index, now, world, epoch, taskVars>>

Cache == INSTANCE VersionedCache
            WITH Fqdn <- {Host}, Value <- CachedBadge

PC == {"idle", "scan", "dns", "fetch", "sift", "stale", "dane"}

(***************************************************************************)
(* final: in the refresh of verify_with_refresh.  History: since is the    *)
(* number of rejections when the call began; adverse says a determinate    *)
(* negative answer was handled in this attempt; calm says nothing was      *)
(* published and no lookup failed since the call began.                    *)
(***************************************************************************)
Job == [kind : {"verify", "prefetch"}, cert : Cert, final : BOOLEAN,
        since : 0..MaxEpoch, adverse : BOOLEAN, calm : BOOLEAN]

Outcome == [kind : OutcomeKind, source : {"none", "live", "cache", "stale"},
            evidence : Evidence \cup {NoEvidence}, at : 0..MaxTime,
            tlsa : (SUBSET TlsaMatch) \cup {NotAsked}]

NoOutcome == [kind |-> "None", source |-> "none", evidence |-> NoEvidence,
              at |-> 0, tlsa |-> NotAsked]

TypeOK ==
    /\ Cache!CacheTypeOK
    /\ now \in 0..MaxTime
    /\ dns \in SUBSET DnsRecord
    /\ tlog \in [Version -> Badge \cup {NoBadge}]
    /\ changes \in 0..MaxChanges
    /\ epoch \in 0..MaxEpoch
    /\ pc \in [Task -> PC]
    /\ job \in [Task -> Job]
    /\ scan \in [Task -> SUBSET Version]
    /\ found \in [Task -> SUBSET CachedBadge]
    /\ reply \in [Task -> DnsAnswer]
    /\ records \in [Task -> SUBSET DnsRecord]
    /\ fetched \in [Task -> [DnsRecord -> FetchResult]]
    /\ noted \in [Task -> BOOLEAN]
    /\ lastError \in [Task -> TlogError]
    /\ outcome \in [Task -> Outcome]

NewJob(kind, c, e) ==
    [kind |-> kind, cert |-> c, final |-> FALSE, since |-> e,
     adverse |-> FALSE, calm |-> TRUE]

NothingFetched == [r \in DnsRecord |-> Pending]

Init ==
    /\ Cache!CacheInit
    /\ now = 0
    /\ dns \in SUBSET DnsRecord
    /\ tlog \in [Version -> Badge \cup {NoBadge}]
    /\ changes = 0
    /\ epoch = 0
    /\ pc = [t \in Task |-> "idle"]
    /\ job = [t \in Task |-> NewJob("verify", CHOOSE c \in Cert : TRUE, 0)]
    /\ scan = [t \in Task |-> {}]
    /\ found = [t \in Task |-> {}]
    /\ reply = [t \in Task |-> "waiting"]
    /\ records = [t \in Task |-> {}]
    /\ fetched = [t \in Task |-> NothingFetched]
    /\ noted = [t \in Task |-> FALSE]
    /\ lastError = [t \in Task |-> "none"]
    /\ outcome = [t \in Task |-> NoOutcome]

-----------------------------------------------------------------------------
(* verify_against_badge: the order of the checks decides the outcome. *)

Verdict(b, c) ==
    IF b.status # "Active" THEN "InvalidStatus"
    ELSE IF c \notin b.certs THEN "FingerprintMismatch"
    ELSE IF ~b.host \/ c \notin CertForHost THEN "HostnameMismatch"
    ELSE "Verified"

\* The task forgets the attempt it was in.
ResetAttempt(t) ==
    /\ scan' = [scan EXCEPT ![t] = {}]
    /\ found' = [found EXCEPT ![t] = {}]
    /\ reply' = [reply EXCEPT ![t] = "waiting"]
    /\ records' = [records EXCEPT ![t] = {}]
    /\ fetched' = [fetched EXCEPT ![t] = NothingFetched]
    /\ noted' = [noted EXCEPT ![t] = FALSE]
    /\ lastError' = [lastError EXCEPT ![t] = "none"]

\* The call returns, a success by way of enforce_dane.
Conclude(t, kind, source, ev) ==
    /\ outcome' = [outcome EXCEPT ![t] =
            [kind |-> kind, source |-> source, evidence |-> ev, at |-> now, tlsa |-> NotAsked]]
    /\ pc' = [pc EXCEPT ![t] =
            IF kind = "Verified" /\ DanePolicy # "Disabled" THEN "dane" ELSE "idle"]
    /\ epoch' = IF kind \in Rejection /\ epoch < MaxEpoch THEN epoch + 1 ELSE epoch
    /\ ResetAttempt(t)

Fail(t, kind) == Conclude(t, kind, "none", NoEvidence)

-----------------------------------------------------------------------------
(* verify: the scan of the cache *)

Verify(t, c) ==
    /\ pc[t] = "idle"
    /\ job' = [job EXCEPT ![t] = NewJob("verify", c, epoch)]
    /\ outcome' = [outcome EXCEPT ![t] = NoOutcome]
    /\ scan' = [scan EXCEPT ![t] = index[Host]]
    /\ pc' = [pc EXCEPT ![t] = "scan"]
    /\ UNCHANGED <<cacheState, now, world, epoch, found, reply, records, fetched,
                   noted, lastError>>

\* Mutants: the first scan ignores default_ttl; the stale scan applies it.
ScanEntryAnyAge(t, v) ==
    /\ v \in scan[t]
    /\ LET entry == store[<<Host, v>>]
           hit == entry # NoEntry /\ now - entry.fetchedAt < HardTtl
       IN  found' = [found EXCEPT ![t] = IF hit THEN @ \cup {entry} ELSE @]
    /\ scan' = [scan EXCEPT ![t] = @ \ {v}]
    /\ UNCHANGED <<cacheState, now, world, epoch, pc, job, reply, records, fetched,
                   noted, lastError, outcome>>

ScanEntryFreshOnly(t, v) ==
    /\ v \in scan[t]
    /\ LET entry == store[<<Host, v>>]
           hit == entry # NoEntry /\ now - entry.fetchedAt < DefaultTtl
       IN  found' = [found EXCEPT ![t] = IF hit THEN @ \cup {entry} ELSE @]
    /\ scan' = [scan EXCEPT ![t] = @ \ {v}]
    /\ UNCHANGED <<cacheState, now, world, epoch, pc, job, reply, records, fetched,
                   noted, lastError, outcome>>

\* One read of collect_for_fqdn; a stale scan reads whatever is resident.
ScanEntry(t, v) ==
    /\ v \in scan[t]
    /\ LET entry == store[<<Host, v>>]
           window == IF pc[t] = "scan" THEN DefaultTtl ELSE HardTtl
           hit == entry # NoEntry /\ now - entry.fetchedAt < window
       IN  found' = [found EXCEPT ![t] = IF hit THEN @ \cup {entry} ELSE @]
    /\ scan' = [scan EXCEPT ![t] = @ \ {v}]
    /\ UNCHANGED <<cacheState, now, world, epoch, pc, job, reply, records, fetched,
                   noted, lastError, outcome>>

CacheHit(t) ==
    /\ pc[t] = "scan" /\ scan[t] = {}
    /\ \E entry \in found[t] :
        /\ Verdict(entry.evidence.badge, job[t].cert) = "Verified"
        /\ Conclude(t, "Verified", "cache", entry.evidence)
    /\ UNCHANGED <<cacheState, now, world, job>>

CacheMiss(t) ==
    /\ pc[t] = "scan" /\ scan[t] = {}
    /\ \A entry \in found[t] :
        Verdict(entry.evidence.badge, job[t].cert) # "Verified"
    /\ pc' = [pc EXCEPT ![t] = "dns"]
    /\ found' = [found EXCEPT ![t] = {}]
    /\ UNCHANGED <<cacheState, now, world, epoch, job, scan, reply, records, fetched,
                   noted, lastError, outcome>>

Prefetch(t) ==
    /\ pc[t] = "idle"
    /\ job' = [job EXCEPT ![t] = NewJob("prefetch", job[t].cert, epoch)]
    /\ outcome' = [outcome EXCEPT ![t] = NoOutcome]
    /\ pc' = [pc EXCEPT ![t] = "dns"]
    /\ UNCHANGED <<cacheState, now, world, epoch, scan, found, reply, records, fetched,
                   noted, lastError>>

-----------------------------------------------------------------------------
(* lookup_badge and what each caller does with the answer *)

DnsReply(t, a) ==
    /\ pc[t] = "dns" /\ reply[t] = "waiting"
    /\ a \in {"Outage", "Determinate", IF dns = {} THEN "NotFound" ELSE "Found"}
    /\ reply' = [reply EXCEPT ![t] = a]
    /\ records' = [records EXCEPT ![t] = IF a = "Found" THEN dns ELSE {}]
    /\ job' = [job EXCEPT ![t].calm = @ /\ a \in {"Found", "NotFound"}]
    /\ UNCHANGED <<cacheState, now, world, epoch, pc, scan, found, fetched,
                   noted, lastError, outcome>>

Versions(rs) == {r.version : r \in rs} \ {0}

\* Mutant: only the records that have a version are tried.
DnsFoundVersionedOnly(t) ==
    /\ pc[t] = "dns" /\ reply[t] = "Found"
    /\ IF Versions(records[t]) = {}
       THEN UNCHANGED <<cacheState, records>>
       ELSE /\ Cache!SetVersionIndex(Host, Versions(records[t]))
            /\ records' = [records EXCEPT ![t] = {r \in @ : r.version # 0}]
    /\ pc' = [pc EXCEPT ![t] = "fetch"]
    /\ UNCHANGED <<now, world, epoch, job, scan, found, reply, fetched, noted,
                   lastError, outcome>>

\* An answer without any version leaves the index, and the entries, as they are.
DnsFound(t) ==
    /\ pc[t] = "dns" /\ reply[t] = "Found"
    /\ IF Versions(records[t]) = {}
       THEN UNCHANGED cacheState
       ELSE Cache!SetVersionIndex(Host, Versions(records[t]))
    /\ pc' = [pc EXCEPT ![t] = "fetch"]
    /\ UNCHANGED <<now, world, epoch, job, scan, found, reply, records, fetched,
                   noted, lastError, outcome>>

\* Mutant: the cached badges of the host survive the negative answer.
DnsNegativeKeepsCache(t) ==
    /\ pc[t] = "dns" /\ reply[t] \in {"NotFound", "Determinate"}
    /\ Fail(t, IF reply[t] = "NotFound" /\ job[t].kind = "verify"
               THEN "NotAnsAgent" ELSE "DnsDeterminate")
    /\ job' = [job EXCEPT ![t].adverse = TRUE]
    /\ UNCHANGED <<cacheState, now, world>>

\* A determinate negative answer; the refresh returns it without invalidating.
DnsNegative(t) ==
    /\ pc[t] = "dns" /\ reply[t] \in {"NotFound", "Determinate"}
    /\ IF job[t].final THEN UNCHANGED cacheState ELSE Cache!InvalidateFqdn(Host)
    /\ Fail(t, IF reply[t] = "NotFound" /\ job[t].kind = "verify"
               THEN "NotAnsAgent" ELSE "DnsDeterminate")
    /\ job' = [job EXCEPT ![t].adverse = TRUE]
    /\ UNCHANGED <<now, world>>

\* Fail-open: scan the cache again, past the freshness window.
StaleScan(t) ==
    /\ scan' = [scan EXCEPT ![t] = index[Host]]
    /\ pc' = [pc EXCEPT ![t] = "stale"]
    /\ UNCHANGED <<epoch, found, reply, records, fetched, noted, lastError, outcome>>

DnsOutage(t) ==
    /\ pc[t] = "dns" /\ reply[t] = "Outage"
    /\ IF FailurePolicy = "FailOpenWithCache" /\ job[t].kind = "verify" /\ ~job[t].final
       THEN StaleScan(t)
       ELSE Fail(t, "DnsOutage")
    /\ UNCHANGED <<cacheState, now, world, job>>

-----------------------------------------------------------------------------
(* fetch_badges_parallel *)

\* A 404, an untrusted host or a malformed badge is determinate; the status
\* UNKNOWN counts as an outage (require_known_badge_status).
TlogAnswer(r) ==
    LET b == tlog[r.agent] IN
    IF b = NoBadge THEN Determinate
    ELSE IF b.status = "Unknown" THEN Unavailable
    ELSE [badge |-> b, asOf |-> now, epoch |-> epoch]

FetchReply(t, r, x) ==
    /\ pc[t] = "fetch"
    /\ r \in records[t] /\ fetched[t][r] = Pending
    /\ x \in {TlogAnswer(r), Unavailable}
    /\ fetched' = [fetched EXCEPT ![t][r] = x]
    /\ job' = [job EXCEPT ![t].calm = @ /\ x = TlogAnswer(r)]
    /\ UNCHANGED <<cacheState, now, world, epoch, pc, scan, found, reply, records,
                   noted, lastError, outcome>>

JoinAll(t) ==
    /\ pc[t] = "fetch"
    /\ \A r \in records[t] : fetched[t][r] # Pending
    /\ pc' = [pc EXCEPT ![t] = "sift"]
    /\ UNCHANGED <<cacheState, now, world, epoch, job, scan, found, reply, records,
                   fetched, noted, lastError, outcome>>

-----------------------------------------------------------------------------
(* The loop over the results of verify_against_records, of its final      *)
(* variant and of prefetch: newest version first, unversioned records     *)
(* last.                                                                   *)

IsNext(t, r) ==
    /\ pc[t] = "sift"
    /\ r \in records[t]
    /\ \A q \in records[t] : q.version <= r.version

SiftUnavailable(t, r) ==
    /\ IsNext(t, r) /\ fetched[t][r] = Unavailable
    /\ lastError' = [lastError EXCEPT ![t] =
                        IF @ = "Determinate" THEN @ ELSE "Unavailable"]
    /\ records' = [records EXCEPT ![t] = @ \ {r}]
    /\ UNCHANGED <<cacheState, now, world, epoch, pc, job, scan, found, reply, fetched,
                   noted, outcome>>

\* Mutant: the determinate failure is taken for an outage, nothing is dropped.
SiftDeterminateAsOutage(t, r) ==
    /\ IsNext(t, r) /\ fetched[t][r] = Determinate
    /\ lastError' = [lastError EXCEPT ![t] = "Unavailable"]
    /\ records' = [records EXCEPT ![t] = @ \ {r}]
    /\ job' = [job EXCEPT ![t].adverse = TRUE]
    /\ UNCHANGED <<cacheState, now, world, epoch, pc, scan, found, reply, fetched,
                   noted, outcome>>

SiftDeterminate(t, r) ==
    /\ IsNext(t, r) /\ fetched[t][r] = Determinate
    /\ Cache!InvalidateFqdn(Host)
    /\ lastError' = [lastError EXCEPT ![t] = "Determinate"]
    /\ records' = [records EXCEPT ![t] = @ \ {r}]
    /\ job' = [job EXCEPT ![t].adverse = TRUE]
    /\ UNCHANGED <<now, world, epoch, pc, scan, found, reply, fetched, noted, outcome>>

\* The record's version, or for an unversioned record the badge's own.
VersionOf(r) == IF r.version # 0 THEN r.version ELSE r.agent

\* The entry is stamped when it is built for the insertion.
CacheBadge(r, ev) ==
    Cache!Insert(Host, VersionOf(r), [evidence |-> ev, fetchedAt |-> now])

\* Nothing is decided by this badge: the loop goes on.
KeepSifting(t, r) ==
    /\ noted' = [noted EXCEPT ![t] = TRUE]
    /\ records' = [records EXCEPT ![t] = @ \ {r}]
    /\ UNCHANGED <<epoch, pc, scan, found, reply, fetched, lastError, outcome>>

\* Mutant: the first badge that answers decides.
SiftBadgeFirst(t, r) ==
    /\ IsNext(t, r) /\ fetched[t][r] \in Evidence
    /\ job[t].kind = "verify"
    /\ LET ev == fetched[t][r]
       IN  /\ CacheBadge(r, ev)
           /\ Conclude(t, Verdict(ev.badge, job[t].cert), "live", ev)
    /\ UNCHANGED <<now, world, job>>

SiftBadge(t, r) ==
    /\ IsNext(t, r) /\ fetched[t][r] \in Evidence
    /\ job[t].kind = "verify"
    /\ LET ev == fetched[t][r]
           verdict == Verdict(ev.badge, job[t].cert)
       IN  /\ CacheBadge(r, ev)
           /\ IF verdict = "FingerprintMismatch"
              THEN KeepSifting(t, r)
              ELSE Conclude(t, verdict, "live", ev)
    /\ UNCHANGED <<now, world, job>>

PrefetchBadge(t, r) ==
    /\ IsNext(t, r) /\ fetched[t][r] \in Evidence
    /\ job[t].kind = "prefetch"
    /\ CacheBadge(r, fetched[t][r])
    /\ noted' = [noted EXCEPT ![t] = @ \/ fetched[t][r].badge.status = "Active"]
    /\ records' = [records EXCEPT ![t] = @ \ {r}]
    /\ UNCHANGED <<now, world, epoch, pc, job, scan, found, reply, fetched,
                   lastError, outcome>>

-----------------------------------------------------------------------------
(* After the loop *)

AllSifted(t, kind) == pc[t] = "sift" /\ records[t] = {} /\ job[t].kind = kind

\* Mutant: the refresh is not the last one.
RefreshAgain(t) ==
    /\ AllSifted(t, "verify") /\ noted[t] /\ ~job[t].final
    /\ Cache!InvalidateFqdn(Host)
    /\ job' = [job EXCEPT ![t].adverse = FALSE]
    /\ pc' = [pc EXCEPT ![t] = "dns"]
    /\ ResetAttempt(t)
    /\ UNCHANGED <<now, world, epoch, outcome>>

\* verify_with_refresh: start again, for the last time, with an empty cache.
Refresh(t) ==
    /\ AllSifted(t, "verify") /\ noted[t] /\ ~job[t].final
    /\ Cache!InvalidateFqdn(Host)
    /\ job' = [job EXCEPT ![t].final = TRUE, ![t].adverse = FALSE]
    /\ pc' = [pc EXCEPT ![t] = "dns"]
    /\ ResetAttempt(t)
    /\ UNCHANGED <<now, world, epoch, outcome>>

FinalMismatch(t) ==
    /\ AllSifted(t, "verify") /\ noted[t] /\ job[t].final
    /\ Fail(t, "FingerprintMismatch")
    /\ UNCHANGED <<cacheState, now, world, job>>

\* handle_ans_error
TlogFailed(t) ==
    /\ AllSifted(t, "verify") /\ ~noted[t]
    /\ \/ /\ lastError[t] = "Determinate"
          /\ Cache!InvalidateFqdn(Host)
          /\ Fail(t, "TlogDeterminate")
       \/ /\ lastError[t] = "Unavailable"
          /\ IF FailurePolicy = "FailOpenWithCache"
             THEN StaleScan(t)
             ELSE Fail(t, "TlogOutage")
          /\ UNCHANGED cacheState
    /\ UNCHANGED <<now, world, job>>

PrefetchEnd(t) ==
    /\ AllSifted(t, "prefetch")
    /\ Fail(t, IF noted[t] THEN "Prefetched"
               ELSE IF lastError[t] = "none" THEN "NothingUsable"
               ELSE IF lastError[t] = "Unavailable" THEN "TlogOutage"
               ELSE "TlogDeterminate")
    /\ UNCHANGED <<cacheState, now, world, job>>

-----------------------------------------------------------------------------
(* The fail-open part of handle_dns_error and handle_ans_error *)

StaleUsable(t, entry) ==
    /\ now - entry.fetchedAt < MaxStaleness
    /\ Verdict(entry.evidence.badge, job[t].cert) = "Verified"

StaleHit(t) ==
    /\ pc[t] = "stale" /\ scan[t] = {}
    /\ \E entry \in found[t] :
        /\ StaleUsable(t, entry)
        /\ Conclude(t, "Verified", "stale", entry.evidence)
    /\ UNCHANGED <<cacheState, now, world, job>>

StaleMiss(t) ==
    /\ pc[t] = "stale" /\ scan[t] = {}
    /\ \A entry \in found[t] : ~StaleUsable(t, entry)
    /\ Fail(t, IF reply[t] = "Outage" THEN "DnsOutage" ELSE "TlogOutage")
    /\ UNCHANGED <<cacheState, now, world, job>>

-----------------------------------------------------------------------------
(* enforce_dane: the TLSA records, each judged against the certificate *)

\* Mutant: no TLSA record always passes.
DaneAcceptsAbsence(answers) ==
    \/ "match" \in answers
    \/ answers = {}

DaneAccepts(answers) ==
    \/ "match" \in answers
    \/ answers = {} /\ DanePolicy = "ValidateIfPresent"

DaneReply(t, answers) ==
    /\ pc[t] = "dane"
    /\ outcome' = [outcome EXCEPT ![t].tlsa = answers,
                        ![t].kind = IF DaneAccepts(answers) THEN @ ELSE "DaneError"]
    /\ pc' = [pc EXCEPT ![t] = "idle"]
    /\ UNCHANGED <<cacheState, now, world, epoch, job, scan, found, reply, records,
                   fetched, noted, lastError>>

\* Any error of the TLSA lookup, an outage included, rejects.
DaneLookupFails(t) ==
    /\ pc[t] = "dane"
    /\ outcome' = [outcome EXCEPT ![t].kind = "DaneError"]
    /\ pc' = [pc EXCEPT ![t] = "idle"]
    /\ UNCHANGED <<cacheState, now, world, epoch, job, scan, found, reply, records,
                   fetched, noted, lastError>>

-----------------------------------------------------------------------------
(* The registration authority, the log, the clock and moka's eviction *)

NobodyCalm == [t \in Task |-> [job[t] EXCEPT !.calm = FALSE]]

PublishDns(rs) ==
    /\ changes < MaxChanges /\ rs # dns
    /\ dns' = rs
    /\ changes' = changes + 1
    /\ job' = NobodyCalm
    /\ UNCHANGED <<cacheState, now, tlog, epoch, pc, scan, found, reply, records,
                   fetched, noted, lastError, outcome>>

PublishBadge(v, b) ==
    /\ changes < MaxChanges /\ b # tlog[v]
    /\ tlog' = [tlog EXCEPT ![v] = b]
    /\ changes' = changes + 1
    /\ job' = NobodyCalm
    /\ UNCHANGED <<cacheState, now, dns, epoch, pc, scan, found, reply, records,
                   fetched, noted, lastError, outcome>>

(***************************************************************************)
(* A tick of the clock.  Reading the cache does no I/O and takes less than *)
(* a tick; a fetched badge waits for its siblings at most MaxFlight ticks  *)
(* (they share one start and the client's timeout).                        *)
(***************************************************************************)
Tick ==
    /\ now < MaxTime
    /\ \A t \in Task : pc[t] # "scan"
    /\ \A t \in Task, r \in DnsRecord :
        fetched[t][r] \in Evidence => now - fetched[t][r].asOf < MaxFlight
    /\ now' = now + 1
    /\ UNCHANGED <<cacheState, world, epoch, taskVars>>

Evict(v) ==
    /\ store[<<Host, v>>] # NoEntry
    /\ Cache!Remove(Host, v)
    /\ UNCHANGED <<now, world, epoch, taskVars>>

-----------------------------------------------------------------------------

Call(t) == Prefetch(t) \/ \E c \in Cert : Verify(t, c)

\* One step of a call in progress.
Step(t) ==
    \/ CacheHit(t) \/ CacheMiss(t)
    \/ \E v \in Version : ScanEntry(t, v)
    \/ \E a \in DnsAnswer : DnsReply(t, a)
    \/ DnsFound(t) \/ DnsNegative(t) \/ DnsOutage(t)
    \/ \E r \in DnsRecord : \/ FetchReply(t, r, Unavailable)
                            \/ FetchReply(t, r, TlogAnswer(r))
                            \/ SiftUnavailable(t, r)
                            \/ SiftDeterminate(t, r)
                            \/ SiftBadge(t, r)
                            \/ PrefetchBadge(t, r)
    \/ JoinAll(t)
    \/ Refresh(t) \/ FinalMismatch(t) \/ TlogFailed(t) \/ PrefetchEnd(t)
    \/ StaleHit(t) \/ StaleMiss(t)
    \/ \E answers \in SUBSET TlsaMatch : DaneReply(t, answers)
    \/ DaneLookupFails(t)

Environment ==
    \/ \E rs \in SUBSET DnsRecord : PublishDns(rs)
    \/ \E v \in Version, b \in Badge \cup {NoBadge} : PublishBadge(v, b)
    \/ Tick
    \/ \E v \in Version : Evict(v)

Next == Environment \/ \E t \in Task : Call(t) \/ Step(t)

Spec == Init /\ [][Next]_vars

\* Lookups answer or time out and tokio polls every woken task: a call in
\* progress is never left alone forever.  Nobody has to call.
FairSpec == Spec /\ \A t \in Task : WF_vars(Step(t))

-----------------------------------------------------------------------------
(* Properties *)

Done(t) == pc[t] = "idle" /\ outcome[t].kind # "None"
Accepted(t) == Done(t) /\ outcome[t].kind = "Verified"

(***************************************************************************)
(* How old the TL's answer behind an acceptance may be.  Freshness windows *)
(* are counted from the insertion, which follows the answer by up to       *)
(* MaxFlight, so that is what the windows of CacheConfig::default_ttl and  *)
(* FailurePolicy::max_staleness really bound; a badge withdrawn for longer *)
(* is never accepted, whatever insertions raced its invalidation.          *)
(***************************************************************************)
AgeLimit(source) ==
    CASE source = "live"  -> MaxFlight
      [] source = "cache" -> DefaultTtl - 1 + MaxFlight
      [] source = "stale" -> MaxStaleness - 1 + MaxFlight

EvidenceAgeBounded ==
    \A t \in Task :
        Accepted(t) => LET o == outcome[t] IN
            /\ o.source # "none"
            /\ o.at - o.evidence.asOf <= AgeLimit(o.source)

(***************************************************************************)
(* Fail-open never turns a determinate answer into an acceptance: a 404,   *)
(* an untrusted badge URL or an NXDOMAIN met in an attempt is not          *)
(* forgotten when another fetch of the same attempt is merely unavailable  *)
(* (record_tlog_error, handle_ans_error).                                  *)
(***************************************************************************)
NoStaleAfterDeterminate ==
    \A t \in Task : Accepted(t) /\ outcome[t].source = "stale" => ~job[t].adverse

(***************************************************************************)
(* A rejection is sticky: once a call has ended because the agent is gone, *)
(* no later call accepts, from the cache and fresh or stale, a badge the   *)
(* TL served before that rejection.                                        *)
(***************************************************************************)
RejectionSticky ==
    \A t \in Task :
        Accepted(t) /\ outcome[t].source \in {"cache", "stale"} =>
            outcome[t].evidence.epoch >= job[t].since

(***************************************************************************)
(* The part of it the code states: "Keep rejection sticky across a later   *)
(* outage by removing old state" (verify.rs, handle_ans_error), that is,   *)
(* the stale fallback serves nothing the TL answered before a rejection.   *)
(***************************************************************************)
StickyAcrossOutage ==
    \A t \in Task :
        Accepted(t) /\ outcome[t].source = "stale" =>
            outcome[t].evidence.epoch >= job[t].since

\* A published record whose badge vouches for the certificate.
Vouches(r, c) == tlog[r.agent] # NoBadge /\ Verdict(tlog[r.agent], c) = "Verified"

\* A published record whose badge ends the loop with a rejection.
Shadows(r, c) ==
    /\ tlog[r.agent] # NoBadge
    /\ Verdict(tlog[r.agent], c) \in {"InvalidStatus", "HostnameMismatch"}
    /\ tlog[r.agent].status # "Unknown"

CalmVerification(t) ==
    Done(t) /\ job[t].kind = "verify" /\ job[t].calm /\ outcome[t].kind # "DaneError"

(***************************************************************************)
(* No false rejection: when every lookup succeeds and nothing is published *)
(* meanwhile, a certificate that some published badge vouches for is       *)
(* accepted, whatever stale badges the cache holds and whichever version   *)
(* vouches, unless a published badge is itself a terminal rejection.       *)
(***************************************************************************)
VouchedIsAccepted ==
    \A t \in Task :
        LET c == job[t].cert IN
        CalmVerification(t) /\ (\E r \in dns : Vouches(r, c))
            /\ (\A r \in dns : ~Shadows(r, c))
        => outcome[t].kind = "Verified"

(***************************************************************************)
(* Acceptance is neither too lax nor too strict, whichever caller filled   *)
(* the cache: what is accepted rests on evidence young enough, and what a  *)
(* calm caller's published badge vouches for is accepted.                  *)
(***************************************************************************)
AcceptanceExact == EvidenceAgeBounded /\ VouchedIsAccepted

(***************************************************************************)
(* As the doc of verify_against_records has it: "Prefers newest ACTIVE     *)
(* badge, falls back to older versions and AHP-deprecated badges", so a    *)
(* certificate an older ACTIVE badge vouches for is accepted.  The code    *)
(* stops at the first badge that is not valid for connections.             *)
(***************************************************************************)
OlderActiveIsAccepted ==
    \A t \in Task :
        CalmVerification(t) /\ (\E r \in dns : Vouches(r, job[t].cert))
        => outcome[t].kind = "Verified"

(***************************************************************************)
(* A refused stale fallback had nothing to fall back on: under             *)
(* FailOpenWithCache a call ends in an outage error only if no cached      *)
(* badge within max_staleness vouches for the certificate.  Holds for one  *)
(* caller at a time.                                                       *)
(***************************************************************************)
FallbackIsComplete ==
    [][\A t \in Task :
        /\ FailurePolicy = "FailOpenWithCache"
        /\ job[t].kind = "verify"
        /\ pc[t] # "idle"
        /\ pc'[t] = "idle"
        /\ outcome'[t].kind \in {"DnsOutage", "TlogOutage"}
        => \A v \in Version :
            store[<<Host, v>>] # NoEntry => ~StaleUsable(t, store[<<Host, v>>])]_vars

(***************************************************************************)
(* DANE applies to every acceptance, those from the cache and the stale    *)
(* ones included: with a DANE policy, each rests on TLSA records one of    *)
(* which matches, or on none at all if the policy does not require them.   *)
(***************************************************************************)
DaneEnforced ==
    \A t \in Task :
        Accepted(t) /\ DanePolicy # "Disabled" =>
            \/ "match" \in outcome[t].tlsa
            \/ DanePolicy = "ValidateIfPresent" /\ outcome[t].tlsa = {}

(***************************************************************************)
(* Every call returns: a mismatch is retried once and not for ever.        *)
(***************************************************************************)
CallsReturn == \A t \in Task : pc[t] # "idle" ~> pc[t] = "idle"

-----------------------------------------------------------------------------
(* The inductive invariant behind the properties: what holds of each task  *)
(* in the middle of its call.                                              *)

\* An entry was made at most MaxFlight after the TL's answer, and not in future.
Aged(entry) ==
    /\ entry.evidence.asOf <= entry.fetchedAt
    /\ entry.fetchedAt - entry.evidence.asOf <= MaxFlight
    /\ entry.fetchedAt <= now

StoreAged ==
    \A v \in Version : store[<<Host, v>>] # NoEntry => Aged(store[<<Host, v>>])

\* What the first scan has read is within default_ttl until it is used.
FoundAged(t) ==
    \A entry \in found[t] :
        /\ Aged(entry)
        /\ pc[t] = "scan" => now - entry.fetchedAt < DefaultTtl

FetchedAged(t) ==
    \A r \in DnsRecord : fetched[t][r] \in Evidence =>
        /\ fetched[t][r].asOf <= now
        /\ now - fetched[t][r].asOf <= MaxFlight

OutcomeAged(t) ==
    LET o == outcome[t] IN
    o.kind = "Verified" =>
        /\ o.source # "none" /\ o.evidence \in Evidence
        /\ o.at - o.evidence.asOf <= AgeLimit(o.source)

\* A call in progress has no outcome.  Until DNS has answered nothing is left of
\* an earlier attempt, and no determinate failure of this one is forgotten.
AttemptClean(t) ==
    /\ pc[t] \notin {"idle", "dane"} => outcome[t].kind = "None"
    /\ pc[t] = "dane" => outcome[t].kind = "Verified"
    /\ pc[t] \notin {"scan", "stale"} => scan[t] = {} /\ found[t] = {}
    /\ pc[t] \in {"idle", "dane", "scan"} => reply[t] = "waiting"
    /\ pc[t] \in {"idle", "dane", "scan", "dns"} => fetched[t] = NothingFetched
    /\ pc[t] \in {"idle", "dane", "scan", "dns", "fetch"} => lastError[t] = "none" /\ ~noted[t]
    /\ pc[t] \in {"scan", "dns", "fetch"} => ~job[t].adverse
    /\ pc[t] = "sift" /\ job[t].adverse => lastError[t] = "Determinate"
    /\ pc[t] = "stale" => ~job[t].adverse
    /\ outcome[t].kind = "Verified" /\ outcome[t].source = "stale" => ~job[t].adverse

DaneDone(t) ==
    pc[t] = "idle" /\ outcome[t].kind = "Verified" /\ DanePolicy # "Disabled" =>
        \/ "match" \in outcome[t].tlsa
        \/ DanePolicy = "ValidateIfPresent" /\ outcome[t].tlsa = {}

\* A call that VouchedIsAccepted promises success to.
Hopeful(t) ==
    /\ job[t].kind = "verify" /\ job[t].calm
    /\ \E r \in dns : Vouches(r, job[t].cert)
    /\ \A r \in dns : ~Shadows(r, job[t].cert)

\* What has been fetched is what the TL still says.
AnswerCurrent(t, r) ==
    /\ Vouches(r, job[t].cert) => fetched[t][r] \in Evidence
    /\ fetched[t][r] \in Evidence =>
         tlog[r.agent] = fetched[t][r].badge /\ fetched[t][r].badge.status # "Unknown"

\* Such a call keeps a vouching record until it accepts.
OnTrack(t) ==
    /\ pc[t] \in {"idle", "dane"} => outcome[t].kind \in {"None", "DaneError", "Verified"}
    /\ pc[t] = "dns" =>
         \/ reply[t] = "waiting"
         \/ reply[t] = "Found" /\ records[t] = dns
    /\ pc[t] = "fetch" => records[t] = dns
    /\ pc[t] \in {"fetch", "sift"} => \A r \in records[t] :
         AnswerCurrent(t, r) \/ (pc[t] = "fetch" /\ fetched[t][r] = Pending)
    /\ pc[t] = "sift" => records[t] \subseteq dns /\ \E r \in records[t] : Vouches(r, job[t].cert)
    /\ pc[t] # "stale"

TaskInv(t) ==
    /\ FoundAged(t) /\ FetchedAged(t) /\ OutcomeAged(t)
    /\ AttemptClean(t) /\ DaneDone(t)
    /\ Hopeful(t) => OnTrack(t)

IndInv == TypeOK /\ StoreAged /\ \A t \in Task : TaskInv(t)

-----------------------------------------------------------------------------
(* What one caller at a time can rely on besides: RejectionSticky and      *)
(* FallbackIsComplete hold for it.                                         *)

SoleCaller == \A t, u \in Task : t = u

\* Every entry can be found, and dropped, through the index.
Indexed == \A v \in Version : store[<<Host, v>>] # NoEntry => v \in index[Host]

\* An entry that could verify a certificate is no older than the last rejection.
Current(entry) == entry.evidence.badge.status = "Active" => entry.evidence.epoch >= epoch

StoreCurrent ==
    \A v \in Version : store[<<Host, v>>] # NoEntry => Current(store[<<Host, v>>])

TaskCurrent(t) ==
    /\ \A entry \in found[t] : Current(entry)
    /\ \A r \in DnsRecord : fetched[t][r] \in Evidence => fetched[t][r].epoch >= epoch
    /\ job[t].since <= epoch
    /\ outcome[t].kind = "Verified" /\ outcome[t].source \in {"cache", "stale"} =>
         outcome[t].evidence.epoch >= job[t].since

\* The refresh begins with an empty store; a prefetch that ends with a determinate
\* failure has cached nothing that verifies.
StoreDropped(t) ==
    /\ pc[t] = "scan" => ~job[t].final
    /\ pc[t] = "dns" /\ job[t].final =>
         \A v \in Version : store[<<Host, v>>] = NoEntry
    /\ pc[t] = "sift" /\ job[t].kind = "prefetch" /\ lastError[t] = "Determinate" /\ ~noted[t] =>
         \A v \in Version : store[<<Host, v>>] # NoEntry =>
            store[<<Host, v>>].evidence.badge.status # "Active"

\* The stale scan overlooks no resident entry that moka still holds.
StaleCovered(t) ==
    pc[t] = "stale" =>
        \A v \in Version :
            LET entry == store[<<Host, v>>] IN
            entry # NoEntry /\ now - entry.fetchedAt < HardTtl =>
                v \in scan[t] \/ entry \in found[t]

SoloInv ==
    /\ Indexed /\ StoreCurrent
    /\ \A t \in Task : TaskCurrent(t) /\ StoreDropped(t) /\ StaleCovered(t)

=============================================================================
