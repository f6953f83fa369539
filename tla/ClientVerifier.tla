--------------------------- MODULE ClientVerifier ---------------------------
(***************************************************************************)
(* ClientVerifier (crates/ans-verify/src/verify.rs): a server verifies the *)
(* identity certificates of mTLS clients of one host.  The version a       *)
(* certificate names picks the cache entry and the DNS record; when that   *)
(* version is not published, the preferred badge of another one is fetched *)
(* and cached in its place.                                                *)
(*                                                                         *)
(* As in ServerVerifier, every await is a place where the other tasks, the *)
(* publisher and the clock may step, and the cache is VersionedCache, with *)
(* the same assumption: nobody gives up while it holds the index.  A       *)
(* ServerVerifier that shares the cache appears as the drops it makes;     *)
(* the badges it inserts are like those of a second task.                  *)
(***************************************************************************)
EXTENDS Naturals, FiniteSets

CONSTANTS
    Task,          \* concurrent callers of verify
    Host,          \* the host the certificates name
    Version,       \* agent versions, ordered as numbers; 0 is "no version"
    Cert,          \* identity certificates
    Names,         \* certificate -> the version of its ANS name, 0 if it is unusable
    Badge,         \* the badges the TL may serve
    DnsRecord,     \* the badge records DNS may publish
    NoEntry, NoBadge,
    Waiting, NoMatch, Unavailable, Determinate,   \* states of a request
    DefaultTtl, HardTtl,
    FailurePolicy, MaxStaleness,
    MaxFlight,     \* ticks a fetched badge may wait to be processed
    MaxTime, MaxChanges, MaxEpoch, MaxCalls   \* bounds of the model

BadgeStatus == {"Active", "Revoked", "Unknown"}

\* A call needs a certificate to verify.
ASSUME CertAssumption == Cert # {} /\ Names \in [Cert -> Version \cup {0}]
\* certs are the identity fingerprints, agent is the version in the ANS name.
ASSUME BadgeAssumption ==
    /\ Badge \subseteq [status : BadgeStatus, certs : SUBSET Cert,
                        agent : Version, host : BOOLEAN]
    /\ NoBadge \notin Badge
ASSUME RecordAssumption ==
    /\ Version \subseteq Nat \ {0}
    /\ DnsRecord \subseteq [version : Version \cup {0}, agent : Version]
ASSUME TimeAssumption ==
    /\ DefaultTtl \in Nat \ {0} /\ HardTtl \in Nat /\ MaxStaleness \in Nat
    /\ MaxFlight \in Nat /\ MaxTime \in Nat /\ MaxChanges \in Nat
    /\ MaxEpoch \in Nat /\ MaxCalls \in Nat
ASSUME ConfigurationAssumption ==
    /\ FailurePolicy \in {"FailClosed", "FailOpenWithCache"}
    /\ HardTtl >= DefaultTtl
    /\ FailurePolicy = "FailOpenWithCache" => HardTtl >= MaxStaleness

(***************************************************************************)
(* asOf and epoch are history: when the TL answered, and how many negative *)
(* answers about the asker's version had been handled by then.             *)
(***************************************************************************)
Evidence == [badge : Badge, asOf : 0..MaxTime, epoch : 0..MaxEpoch]
CachedBadge == [evidence : Evidence, fetchedAt : 0..MaxTime]
Failure == {Unavailable, Determinate}

\* The TL files a badge under the agent it is about.
TLogs == {l \in [Version -> Badge \cup {NoBadge}] :
            \A v \in Version : l[v] # NoBadge => l[v].agent = v}

ASSUME DistinctAssumption ==
    /\ NoEntry \notin CachedBadge
    /\ \A x \in {Waiting, NoMatch, Unavailable, Determinate} : x \notin DnsRecord \cup Evidence
    /\ Waiting \notin {NoMatch, Unavailable, Determinate}
    /\ NoMatch \notin {Unavailable, Determinate} /\ Unavailable # Determinate

VARIABLES
    store, index,    \* BadgeCache
    now,             \* the monotonic clock
    dns,             \* badge records now published for Host
    tlog,            \* version -> badge now in the TL, or NoBadge
    changes, calls,  \* publications and calls so far
    epoch,           \* version -> negative answers handled, up to MaxEpoch
    pc,              \* task -> where it is
    job,             \* task -> what it was asked
    reply,           \* task -> what it waits with: an answer, or the record to fetch
    outcome          \* task -> its last outcome

cacheState == <<store, index>>
world == <<dns, tlog, changes>>
vars == <<store, index, now, world, calls, epoch, pc, job, reply, outcome>>

Cache == INSTANCE VersionedCache
            WITH Fqdn <- {Host}, Value <- CachedBadge

\* final: in verify_client_with_refresh.  The outcome says of the badge it rests
\* on how old it is, whether the TL served it during the call, and whether
\* before a negative answer.  History in a job: began is the time of the
\* call, since the negative answers handled by then or by the call itself,
\* calm says nothing was published and no lookup failed meanwhile, alone that
\* no other call for the same version overlapped this one.
Job == [cert : Cert, final : BOOLEAN, began : 0..MaxTime, since : 0..MaxEpoch,
        calm : BOOLEAN, alone : BOOLEAN]
Reply == {Waiting, NoMatch} \cup Failure \cup DnsRecord \cup Evidence
Outcome == [kind : {"None", "Verified", "CertError", "DnsError", "TlogError",
                    "InvalidStatus", "FingerprintMismatch", "HostnameMismatch",
                    "AnsNameMismatch"},
            source : {"none", "live", "cache", "stale"},
            age : 0..MaxTime, fetchedInCall : BOOLEAN, outdated : BOOLEAN]
NoOutcome == [kind |-> "None", source |-> "none", age |-> 0,
              fetchedInCall |-> FALSE, outdated |-> FALSE]

TypeOK ==
    /\ Cache!CacheTypeOK
    /\ now \in 0..MaxTime
    /\ dns \in SUBSET DnsRecord
    /\ tlog \in [Version -> Badge \cup {NoBadge}]
    /\ changes \in 0..MaxChanges
    /\ calls \in 0..MaxCalls
    /\ epoch \in [Version -> 0..MaxEpoch]
    /\ pc \in [Task -> {"idle", "find", "preferred", "fetch", "refresh"}]
    /\ job \in [Task -> Job]
    /\ reply \in [Task -> Reply]
    /\ outcome \in [Task -> Outcome]

NewJob(c, at, e) ==
    [cert |-> c, final |-> FALSE, began |-> at, since |-> e, calm |-> TRUE, alone |-> TRUE]

Init ==
    /\ Cache!CacheInit
    /\ now = 0
    /\ dns \in SUBSET DnsRecord
    /\ tlog \in TLogs
    /\ changes = 0
    /\ calls = 0
    /\ epoch = [v \in Version |-> 0]
    /\ pc = [t \in Task |-> "idle"]
    /\ job = [t \in Task |-> NewJob(CHOOSE c \in Cert : TRUE, 0, 0)]
    /\ reply = [t \in Task |-> Waiting]
    /\ outcome = [t \in Task |-> NoOutcome]

-----------------------------------------------------------------------------
(* verify_client_against_badge.  The certificate names the looked-up host, *)
(* so only the badge's own host can differ.                                *)

Verdict(b, c) ==
    IF b.status # "Active" THEN "InvalidStatus"
    ELSE IF c \notin b.certs THEN "FingerprintMismatch"
    ELSE IF ~b.host THEN "HostnameMismatch"
    ELSE IF b.agent # Names[c] THEN "AnsNameMismatch"
    ELSE "Verified"

\* The call with job j returns a verdict on a badge.
Conclude(t, j, source, ev) ==
    /\ outcome' = [outcome EXCEPT ![t] =
            [kind |-> Verdict(ev.badge, j.cert), source |-> source,
             age |-> now - ev.asOf, fetchedInCall |-> ev.asOf >= j.began,
             outdated |-> ev.epoch < j.since]]
    /\ job' = [job EXCEPT ![t] = [NewJob(j.cert, 0, 0) EXCEPT !.calm = j.calm]]
    /\ pc' = [pc EXCEPT ![t] = "idle"]
    /\ reply' = [reply EXCEPT ![t] = Waiting]

\* It returns without a badge.
Fail(t, j, kind) ==
    /\ outcome' = [outcome EXCEPT ![t] = [NoOutcome EXCEPT !.kind = kind]]
    /\ job' = [job EXCEPT ![t] = [NewJob(j.cert, 0, 0) EXCEPT !.calm = j.calm]]
    /\ pc' = [pc EXCEPT ![t] = "idle"]
    /\ reply' = [reply EXCEPT ![t] = Waiting]

Goto(t, l, r) ==
    /\ pc' = [pc EXCEPT ![t] = l]
    /\ reply' = [reply EXCEPT ![t] = r]

Asked(t) == Names[job[t].cert]

\* A resident entry younger than a window.
Within(entry, window) == entry # NoEntry /\ now - entry.fetchedAt < window

-----------------------------------------------------------------------------
(* verify: the certificate, then the cache *)

\* No host name, or no ANS name among its URIs.
RejectCertificate(t, c) ==
    /\ pc[t] = "idle" /\ Names[c] = 0
    /\ Fail(t, NewJob(c, now, 0), "CertError")
    /\ UNCHANGED <<cacheState, now, world, epoch>>

Busy(u, v) == pc[u] # "idle" /\ Asked(u) = v

StartLookup(t, j, l) ==
    /\ LET rivals == {u \in Task \ {t} : Busy(u, Names[j.cert])}
       IN  job' = [u \in Task |->
                IF u = t THEN [j EXCEPT !.alone = rivals = {}]
                ELSE [job[u] EXCEPT !.alone = @ /\ u \notin rivals]]
    /\ Goto(t, l, Waiting)
    /\ outcome' = [outcome EXCEPT ![t] = NoOutcome]

\* Mutants: the cached badge decides whatever it says; its age is not looked at.
VerifyCachedDecides(t, c) ==
    /\ pc[t] = "idle" /\ Names[c] # 0
    /\ LET entry == store[<<Host, Names[c]>>]
           j == NewJob(c, now, epoch[Names[c]])
       IN  IF Within(entry, DefaultTtl)
           THEN Conclude(t, j, "cache", entry.evidence)
           ELSE StartLookup(t, j, "find")
    /\ UNCHANGED <<cacheState, now, world, epoch>>

VerifyAnyAge(t, c) ==
    /\ pc[t] = "idle" /\ Names[c] # 0
    /\ LET entry == store[<<Host, Names[c]>>]
           j == NewJob(c, now, epoch[Names[c]])
       IN  IF entry = NoEntry THEN StartLookup(t, j, "find")
           ELSE IF Verdict(entry.evidence.badge, c) = "FingerprintMismatch"
           THEN StartLookup(t, j, "refresh")
           ELSE Conclude(t, j, "cache", entry.evidence)
    /\ UNCHANGED <<cacheState, now, world, epoch>>

Verify(t, c) ==
    /\ pc[t] = "idle" /\ Names[c] # 0
    /\ LET entry == store[<<Host, Names[c]>>]
           j == NewJob(c, now, epoch[Names[c]])
       IN  IF ~Within(entry, DefaultTtl) THEN StartLookup(t, j, "find")
           ELSE IF Verdict(entry.evidence.badge, c) = "FingerprintMismatch"
           THEN StartLookup(t, j, "refresh")
           ELSE Conclude(t, j, "cache", entry.evidence)
    /\ UNCHANGED <<cacheState, now, world, epoch>>

-----------------------------------------------------------------------------
(* find_badge_for_version and find_preferred_badge.  An answer without     *)
(* records is an error of both (get_badge_records), a determinate one; the *)
(* resolver has no other determinate error for TXT lookups.                *)

Matching(v) == {r \in dns : r.version \in {v, 0}}

\* The sort puts unversioned records first, then the newest version.
Preferred == {r \in dns :
    r.version = 0 \/ \A q \in dns : q.version # 0 /\ q.version <= r.version}

\* What the lookup finds: one of the records, NoMatch, or a failure.
Answer(t, found, a) ==
    /\ reply[t] = Waiting
    /\ \/ /\ a \in found
          /\ Goto(t, "fetch", a)
       \/ /\ a = NoMatch /\ pc[t] = "find" /\ found = {} /\ dns # {}
          /\ Goto(t, pc[t], a)
       \/ /\ a = Unavailable \/ (a = Determinate /\ dns = {})
          /\ Goto(t, pc[t], a)
    /\ job' = [job EXCEPT ![t].calm = @ /\ a # Unavailable]
    /\ UNCHANGED <<cacheState, now, world, calls, epoch, outcome>>

\* Mutant: the record of the certificate's version is not looked for first.
FindReplyPreferred(t, a) == pc[t] = "find" /\ Answer(t, Preferred, a)

FindReply(t, a) == pc[t] = "find" /\ Answer(t, Matching(Asked(t)), a)
PreferredReply(t, a) == pc[t] = "preferred" /\ Answer(t, Preferred, a)

\* History: nobody else has been verifying version v, so that no badge the TL
\* served before this negative answer was or will be inserted behind it.
Undisputed(t, v) ==
    IF v = Asked(t) THEN job[t].alone ELSE \A u \in Task : ~Busy(u, v)

CountNegative(t, vs) ==
    /\ epoch' = [v \in Version |->
            IF v \in vs /\ Undisputed(t, v) /\ epoch[v] < MaxEpoch
            THEN epoch[v] + 1 ELSE epoch[v]]

\* Mutant: the entry of a version that is no longer published is kept.
NotPublishedKeepsEntry(t) ==
    /\ reply[t] = NoMatch
    /\ Goto(t, "preferred", Waiting)
    /\ CountNegative(t, {Asked(t)})
    /\ job' = [job EXCEPT ![t].since = epoch'[Asked(t)]]
    /\ UNCHANGED <<cacheState, now, world, calls, outcome>>

\* The version is not published: its entry goes, the refresh has dropped it
\* before, and the preferred badge is looked for.
NotPublished(t) ==
    /\ reply[t] = NoMatch
    /\ IF job[t].final THEN UNCHANGED cacheState ELSE Cache!Remove(Host, Asked(t))
    /\ Goto(t, "preferred", Waiting)
    /\ CountNegative(t, {Asked(t)})
    /\ job' = [job EXCEPT ![t].since = epoch'[Asked(t)]]
    /\ UNCHANGED <<now, world, calls, outcome>>

-----------------------------------------------------------------------------
(* validate_badge_domain and fetch_badge: a 404, an untrusted host or a    *)
(* malformed badge is determinate; UNKNOWN counts as an outage.            *)

TlogAnswer(t, r) ==
    LET b == tlog[r.agent] IN
    IF b = NoBadge THEN Determinate
    ELSE IF b.status = "Unknown" THEN Unavailable
    ELSE [badge |-> b, asOf |-> now, epoch |-> epoch[Asked(t)]]

FetchReply(t, x) ==
    /\ pc[t] = "fetch" /\ reply[t] \in DnsRecord
    /\ x \in {TlogAnswer(t, reply[t]), Unavailable}
    /\ reply' = [reply EXCEPT ![t] = x]
    /\ job' = [job EXCEPT ![t].calm = @ /\ x = TlogAnswer(t, reply[t])]
    /\ UNCHANGED <<cacheState, now, world, calls, epoch, pc, outcome>>

\* The badge is cached under the version of the certificate, its own or not,
\* and judged; a first mismatch leads to the refresh.
UseBadge(t) ==
    /\ reply[t] \in Evidence
    /\ Cache!Insert(Host, Asked(t), [evidence |-> reply[t], fetchedAt |-> now])
    /\ IF Verdict(reply[t].badge, job[t].cert) = "FingerprintMismatch" /\ ~job[t].final
       THEN Goto(t, "refresh", Waiting) /\ UNCHANGED <<job, outcome>>
       ELSE Conclude(t, job[t], "live", reply[t])
    /\ UNCHANGED <<now, world, calls, epoch>>

\* verify_client_with_refresh
Refresh(t) ==
    /\ pc[t] = "refresh"
    /\ Cache!Remove(Host, Asked(t))
    /\ job' = [job EXCEPT ![t].final = TRUE]
    /\ Goto(t, "find", Waiting)
    /\ UNCHANGED <<now, world, calls, epoch, outcome>>

-----------------------------------------------------------------------------
(* handle_dns_error and handle_tlog_error; the refresh returns its errors  *)
(* without them.                                                           *)

ErrorKind(t) == IF pc[t] = "fetch" THEN "TlogError" ELSE "DnsError"

Refused(t) ==
    /\ reply[t] = Determinate
    /\ IF job[t].final THEN UNCHANGED cacheState ELSE Cache!InvalidateFqdn(Host)
    /\ CountNegative(t, IF job[t].final THEN {Asked(t)} ELSE Version)
    /\ Fail(t, job[t], ErrorKind(t))
    /\ UNCHANGED <<now, world, calls>>

Fallback(t) ==
    /\ FailurePolicy = "FailOpenWithCache" /\ ~job[t].final
    /\ Within(store[<<Host, Asked(t)>>], MaxStaleness)

\* The verdict on the stale badge is final, a mismatch included.
Outage(t) ==
    /\ reply[t] = Unavailable
    /\ IF Fallback(t)
       THEN Conclude(t, job[t], "stale", store[<<Host, Asked(t)>>].evidence)
       ELSE Fail(t, job[t], ErrorKind(t))
    /\ UNCHANGED <<cacheState, now, world, calls, epoch>>

-----------------------------------------------------------------------------
(* The registration authority, the log, the clock, moka's eviction and a   *)
(* ServerVerifier on the same cache                                        *)

Publish(rs, log) ==
    /\ changes < MaxChanges /\ <<rs, log>> # <<dns, tlog>>
    /\ dns' = rs /\ tlog' = log
    /\ changes' = changes + 1
    /\ job' = [t \in Task |-> [job[t] EXCEPT !.calm = FALSE]]
    /\ UNCHANGED <<cacheState, now, calls, epoch, pc, reply, outcome>>

(***************************************************************************)
(* A tick of the clock.  What needs no I/O takes less than a tick; only a  *)
(* fetched badge may wait, at most MaxFlight ticks.                        *)
(***************************************************************************)
Tick ==
    /\ now < MaxTime
    /\ \A t \in Task : pc[t] # "refresh" /\ reply[t] \notin Failure \cup {NoMatch}
    /\ \A t \in Task : reply[t] \in Evidence => now - reply[t].asOf < MaxFlight
    /\ now' = now + 1
    /\ UNCHANGED <<cacheState, world, calls, epoch, pc, job, reply, outcome>>

\* moka drops an entry, or the server verifier the entries of the host or of
\* the versions that DNS does not publish any more.
Drop ==
    /\ \/ \E v \in Version : store[<<Host, v>>] # NoEntry /\ Cache!Remove(Host, v)
       \/ Cache!InvalidateFqdn(Host)
       \/ LET published == {r.version : r \in dns} \ {0}
          IN  published # {} /\ Cache!SetVersionIndex(Host, published)
    /\ store' # store
    /\ UNCHANGED <<now, world, calls, epoch, pc, job, reply, outcome>>

-----------------------------------------------------------------------------

Call(t) ==
    /\ calls < MaxCalls
    /\ calls' = calls + 1
    /\ \E c \in Cert : RejectCertificate(t, c) \/ Verify(t, c)

Step(t) ==
    \/ \E a \in DnsRecord \cup Failure \cup {NoMatch} :
            FindReply(t, a) \/ PreferredReply(t, a)
    \/ NotPublished(t)
    \/ FetchReply(t, Unavailable)
    \/ pc[t] = "fetch" /\ reply[t] \in DnsRecord /\ FetchReply(t, TlogAnswer(t, reply[t]))
    \/ UseBadge(t) \/ Refresh(t)
    \/ Refused(t) \/ Outage(t)

Environment ==
    \/ \E rs \in SUBSET DnsRecord : Publish(rs, tlog)
    \/ \E log \in TLogs : Publish(dns, log)
    \/ Tick
    \/ Drop

Next == Environment \/ \E t \in Task : Call(t) \/ Step(t)

Spec == Init /\ [][Next]_vars

-----------------------------------------------------------------------------
(* Properties *)

Done(t) == pc[t] = "idle" /\ outcome[t].kind # "None"

(***************************************************************************)
(* Whatever badge a verdict rests on, a rejection's included, the TL       *)
(* served it within the window of its source: a cached verdict, good or    *)
(* bad, does not outlive default_ttl, nor a fallback max_staleness, by     *)
(* more than the flight of the answer.                                     *)
(***************************************************************************)
AgeLimit(source) ==
    CASE source = "live"  -> MaxFlight
      [] source = "cache" -> DefaultTtl - 1 + MaxFlight
      [] source = "stale" -> MaxStaleness - 1 + MaxFlight

EvidenceAgeBounded ==
    \A t \in Task :
        Done(t) /\ outcome[t].source # "none" =>
            outcome[t].age <= AgeLimit(outcome[t].source)

(***************************************************************************)
(* A renewed certificate is not refused for a badge older than the call:   *)
(* outside the fail-open fallback, a fingerprint mismatch rests on a badge *)
(* the TL served after the call began, whatever was cached and whoever     *)
(* cached it.                                                              *)
(***************************************************************************)
MismatchIsFresh ==
    \A t \in Task :
        Done(t) /\ outcome[t].kind = "FingerprintMismatch" /\ outcome[t].source # "stale" =>
            outcome[t].fetchedInCall

(***************************************************************************)
(* A negative answer sticks.  Once a call learned that the version is not  *)
(* published, or the badge refused, and no other call for that version was *)
(* in flight, nothing the TL served before is accepted from the cache or   *)
(* from the fallback, not even by the same call when its next lookup times *)
(* out ("Do not keep its old positive state if a subsequent lookup times   *)
(* out").  A refusal met outside the refresh counts for every version.     *)
(***************************************************************************)
RejectionSticky ==
    \A t \in Task :
        Done(t) /\ outcome[t].kind = "Verified" /\ outcome[t].source \in {"cache", "stale"}
        => ~outcome[t].outdated

(***************************************************************************)
(* No false rejection by the lookups: if nothing changes and nothing fails *)
(* during a call, a certificate that its version's record, and any         *)
(* unversioned one, leads to a badge for is accepted, unless the answer    *)
(* came from the cache.                                                    *)
(***************************************************************************)
Vouches(r, c) == tlog[r.agent] # NoBadge /\ Verdict(tlog[r.agent], c) = "Verified"

VouchedIsAccepted ==
    \A t \in Task :
        LET c == job[t].cert IN
        /\ Done(t) /\ job[t].calm /\ outcome[t].source # "cache" /\ Names[c] # 0
        /\ Matching(Names[c]) # {}
        /\ \A r \in Matching(Names[c]) : Vouches(r, c)
        => outcome[t].kind = "Verified"

-----------------------------------------------------------------------------
(* The inductive invariant behind the properties *)

\* An entry was made at most MaxFlight after the TL's answer, and not in future.
Aged(entry) ==
    /\ entry.evidence.asOf <= entry.fetchedAt
    /\ entry.fetchedAt - entry.evidence.asOf <= MaxFlight
    /\ entry.fetchedAt <= now

\* Every entry can be found through the index, is of some age, and is no older
\* than the last undisputed negative answer about its version.
StoreSound ==
    \A v \in Version : LET entry == store[<<Host, v>>] IN
        entry # NoEntry => /\ v \in index[Host]
                           /\ Aged(entry)
                           /\ entry.evidence.epoch >= epoch[v]

\* Where a call is tells what it waits with.
Placed(t) ==
    /\ pc[t] \in {"idle", "refresh"} => reply[t] = Waiting
    /\ reply[t] = NoMatch => pc[t] = "find"
    /\ reply[t] \in DnsRecord \cup Evidence => pc[t] = "fetch"

\* A call in progress: what it fetched is its own and recent, and its refresh,
\* as long as nobody else verifies the version, leaves the version uncached.
CallSound(t) ==
    pc[t] # "idle" =>
        /\ Asked(t) \in Version
        /\ job[t].began <= now /\ job[t].since <= epoch[Asked(t)]
        /\ reply[t] \in Evidence =>
             /\ job[t].began <= reply[t].asOf /\ reply[t].asOf <= now
             /\ now - reply[t].asOf <= MaxFlight
             /\ reply[t].epoch >= epoch[Asked(t)]
        /\ job[t].final /\ job[t].alone => store[<<Host, Asked(t)>>] = NoEntry

\* The verdict of a call that has returned.
VerdictSound(t) ==
    LET o == outcome[t] IN
    /\ o.source # "none" => o.age <= AgeLimit(o.source)
    /\ o.kind = "FingerprintMismatch" /\ o.source # "stale" => o.fetchedInCall
    /\ o.kind = "Verified" /\ o.source \in {"cache", "stale"} => ~o.outdated

\* A call that VouchedIsAccepted promises success to, and how it keeps to it.
Hopeful(t) ==
    LET c == job[t].cert IN
    /\ job[t].calm /\ Names[c] # 0 /\ Matching(Names[c]) # {}
    /\ \A r \in Matching(Names[c]) : Vouches(r, c)

OnTrack(t) ==
    /\ pc[t] = "idle" => outcome[t].kind \in {"None", "Verified"} \/ outcome[t].source = "cache"
    /\ pc[t] \in {"find", "refresh"} => reply[t] = Waiting
    /\ pc[t] = "fetch" =>
         \/ reply[t] \in Matching(Asked(t))
         \/ reply[t] \in Evidence /\ Verdict(reply[t].badge, job[t].cert) = "Verified"
    /\ pc[t] # "preferred"

TaskInv(t) ==
    /\ Placed(t) /\ CallSound(t) /\ VerdictSound(t)
    /\ Hopeful(t) => OnTrack(t)

\* Calls that overlap on one version know that they are not alone.
OverlapKnown ==
    \A t, u \in Task :
        t # u /\ pc[t] # "idle" /\ pc[u] # "idle" /\ Asked(t) = Asked(u) => ~job[t].alone

IndInv == TypeOK /\ StoreSound /\ OverlapKnown /\ \A t \in Task : TaskInv(t)

=============================================================================
