----------------------- MODULE ServerVerifier_proofs -----------------------
(***************************************************************************)
(* Proofs about ServerVerifier, for any number of callers, any versions,   *)
(* certificates, badges and records, any windows and either failure        *)
(* policy, and every interleaving with the registration authority, the     *)
(* log, the clock and moka.                                                *)
(***************************************************************************)
EXTENDS ServerVerifier, TLAPS

(***************************************************************************)
(* Constant-level facts                                                    *)
(***************************************************************************)
LEMMA Numbers ==
    /\ DefaultTtl \in Nat /\ DefaultTtl > 0 /\ HardTtl \in Nat /\ MaxStaleness \in Nat
    /\ MaxFlight \in Nat /\ MaxTime \in Nat /\ MaxEpoch \in Nat /\ MaxChanges \in Nat
    /\ 0 \in 0..MaxTime /\ 0 \in 0..MaxEpoch /\ 0 \in 0..MaxChanges
    /\ HardTtl >= DefaultTtl
    /\ FailurePolicy = "FailOpenWithCache" => HardTtl >= MaxStaleness
  BY TimeAssumption, ConfigurationAssumption

LEMMA Failures ==
    /\ Pending \notin Evidence /\ Unavailable \notin Evidence /\ Determinate \notin Evidence
    /\ Pending # Unavailable /\ Pending # Determinate /\ Unavailable # Determinate
    /\ {Pending, Unavailable, Determinate} \subseteq FetchResult
    /\ NoEvidence \notin Evidence /\ NoEntry \notin CachedBadge /\ NoBadge \notin Badge
  BY DistinctAssumption, BadgeAssumption DEF FetchFailure, FetchResult

\* Every version a record or a badge leads to is a version, so that the keys
\* of the cache are.
LEMMA Records ==
    /\ \A r \in DnsRecord : r.agent \in Version /\ r.version \in Version \cup {0}
    /\ \A r \in DnsRecord : VersionOf(r) \in Version
    /\ \A rs \in SUBSET DnsRecord : Versions(rs) \subseteq Version
  BY RecordAssumption DEF VersionOf, Versions

LEMMA InitialValues ==
    /\ NoOutcome \in Outcome
    /\ NothingFetched \in [DnsRecord -> FetchResult]
    /\ \A kind \in {"verify", "prefetch"}, c \in Cert, e \in 0..MaxEpoch :
         NewJob(kind, c, e) \in Job
    /\ (CHOOSE c \in Cert : TRUE) \in Cert
<1>1. NoOutcome \in Outcome
  BY Numbers DEF NoOutcome, Outcome, OutcomeKind, NotAsked
<1>2. NothingFetched \in [DnsRecord -> FetchResult]
  BY Failures DEF NothingFetched
<1>3. \A kind \in {"verify", "prefetch"}, c \in Cert, e \in 0..MaxEpoch :
         NewJob(kind, c, e) \in Job
  BY DEF NewJob, Job
<1>4. (CHOOSE c \in Cert : TRUE) \in Cert
  BY CertAssumption
<1> QED
  BY <1>1, <1>2, <1>3, <1>4

LEMMA Keys ==
    /\ \A v \in Version : <<Host, v>> \in Cache!Key
    /\ \A k \in Cache!Key : k[1] = Host /\ k[2] \in Version /\ k = <<Host, k[2]>>
  BY DEF Cache!Key

-----------------------------------------------------------------------------
(* The cache operations, as the callers use them *)

\* Nothing is added: each entry is as it was, or gone.
Shrinks == \A v \in Version : store'[<<Host, v>>] \in {store[<<Host, v>>], NoEntry}

LEMMA DropsShrink ==
    ASSUME Cache!CacheTypeOK,
           \/ UNCHANGED cacheState
           \/ Cache!InvalidateFqdn(Host)
           \/ \E v \in Version : Cache!Remove(Host, v)
           \/ \E vs \in SUBSET Version : Cache!SetVersionIndex(Host, vs)
    PROVE  Cache!CacheTypeOK' /\ Shrinks
<1> USE DEF Cache!CacheTypeOK
<1>1. CASE UNCHANGED cacheState
  BY <1>1, Keys DEF cacheState, Shrinks
<1>2. CASE Cache!InvalidateFqdn(Host)
  BY <1>2, Keys DEF Cache!InvalidateFqdn, Cache!Without, Shrinks
<1>3. CASE \E v \in Version : Cache!Remove(Host, v)
  BY <1>3, Keys DEF Cache!Remove, Cache!Without, Shrinks
<1>4. CASE \E vs \in SUBSET Version : Cache!SetVersionIndex(Host, vs)
  BY <1>4, Keys DEF Cache!SetVersionIndex, Cache!Without, Shrinks
<1> QED
  BY <1>1, <1>2, <1>3, <1>4

LEMMA InsertAdds ==
    ASSUME Cache!CacheTypeOK, NEW v \in Version, NEW x \in CachedBadge,
           Cache!Insert(Host, v, x)
    PROVE  /\ Cache!CacheTypeOK' /\ store'[<<Host, v>>] = x
           /\ \A w \in Version \ {v} : store'[<<Host, w>>] = store[<<Host, w>>]
  BY Keys DEF Cache!CacheTypeOK, Cache!Insert

LEMMA ShrinkingKeepsAge ==
    ASSUME StoreAged, Shrinks, now' = now PROVE StoreAged'
  BY DEF StoreAged, Shrinks, Aged

LEMMA InsertionKeepsAge ==
    ASSUME TypeOK, StoreAged, now' = now, NEW v \in Version, NEW ev \in Evidence,
           ev.asOf <= now, now - ev.asOf <= MaxFlight,
           Cache!Insert(Host, v, [evidence |-> ev, fetchedAt |-> now])
    PROVE  Cache!CacheTypeOK' /\ StoreAged'
<1> DEFINE x == [evidence |-> ev, fetchedAt |-> now]
<1>1. x \in CachedBadge /\ now \in Nat
  BY Numbers DEF TypeOK, CachedBadge
<1>2. x.evidence = ev /\ x.fetchedAt = now
  OBVIOUS
<1> HIDE DEF x
<1>3. /\ Cache!CacheTypeOK' /\ store'[<<Host, v>>] = x
      /\ \A w \in Version \ {v} : store'[<<Host, w>>] = store[<<Host, w>>]
  BY <1>1, InsertAdds DEF TypeOK, x
<1> QED
  BY <1>1, <1>2, <1>3 DEF StoreAged, Aged

-----------------------------------------------------------------------------
(* Steps of one task *)

\* A step of t leaves the other tasks where they are.
OnlyTask(t) ==
    \A u \in Task \ {t} :
        /\ pc'[u] = pc[u] /\ job'[u] = job[u]
        /\ scan'[u] = scan[u] /\ found'[u] = found[u]
        /\ reply'[u] = reply[u] /\ records'[u] = records[u]
        /\ fetched'[u] = fetched[u] /\ noted'[u] = noted[u]
        /\ lastError'[u] = lastError[u] /\ outcome'[u] = outcome[u]

LEMMA OthersKeep ==
    ASSUME IndInv, NEW t \in Task, UNCHANGED <<now, dns, tlog>>, OnlyTask(t)
    PROVE  \A u \in Task \ {t} : TaskInv(u)'
<1> SUFFICES ASSUME NEW u \in Task \ {t} PROVE TaskInv(u)'
  OBVIOUS
<1> USE DEF OnlyTask
<1>1. TaskInv(u)
  BY DEF IndInv
<1>2. FoundAged(u)' /\ FetchedAged(u)' /\ OutcomeAged(u)'
  BY <1>1 DEF TaskInv, FoundAged, FetchedAged, OutcomeAged, Aged
<1>3. AttemptClean(u)' /\ DaneDone(u)'
  BY <1>1 DEF TaskInv, AttemptClean, DaneDone
<1>4. Hopeful(u)' = Hopeful(u)
  BY DEF Hopeful, Vouches, Shadows
<1>5. OnTrack(u) => OnTrack(u)'
  BY DEF OnTrack, AnswerCurrent, Vouches
<1> QED
  BY <1>1, <1>2, <1>3, <1>4, <1>5 DEF TaskInv

LEMMA TaskStepKeeps ==
    ASSUME IndInv, NEW t \in Task, UNCHANGED <<now, dns, tlog>>, OnlyTask(t),
           TypeOK', StoreAged', TaskInv(t)'
    PROVE  IndInv'
  BY OthersKeep DEF IndInv

\* A call that returns a sound verdict, and has dropped or kept cache entries.
LEMMA ConcludeKeeps ==
    ASSUME IndInv, NEW t \in Task, NEW kind \in OutcomeKind,
           NEW source \in {"none", "live", "cache", "stale"},
           NEW ev \in Evidence \cup {NoEvidence},
           Conclude(t, kind, source, ev),
           UNCHANGED <<now, world>>, Cache!CacheTypeOK', StoreAged',
           job' \in [Task -> Job], \A u \in Task \ {t} : job'[u] = job[u],
           kind = "Verified" =>
             /\ source # "none" /\ ev \in Evidence /\ now - ev.asOf <= AgeLimit(source)
             /\ source = "stale" => ~job'[t].adverse,
           Hopeful(t)' => kind = "Verified"
    PROVE  IndInv'
<1> DEFINE o == [kind |-> kind, source |-> source, evidence |-> ev, at |-> now, tlsa |-> NotAsked]
<1>1. o \in Outcome
  BY DEF Outcome, IndInv, TypeOK
<1>2. /\ o.kind = kind /\ o.source = source /\ o.evidence = ev /\ o.at = now
  OBVIOUS
<1>3. outcome' = [outcome EXCEPT ![t] = o]
  BY DEF Conclude
<1> HIDE DEF o
<1>4. TypeOK'
  <2>1. epoch' \in 0..MaxEpoch
    BY Numbers DEF IndInv, TypeOK, Conclude
  <2>2. pc' \in [Task -> PC]
    BY DEF IndInv, TypeOK, Conclude, PC
  <2>3. /\ scan' \in [Task -> SUBSET Version] /\ found' \in [Task -> SUBSET CachedBadge]
        /\ reply' \in [Task -> DnsAnswer] /\ records' \in [Task -> SUBSET DnsRecord]
        /\ fetched' \in [Task -> [DnsRecord -> FetchResult]]
        /\ noted' \in [Task -> BOOLEAN] /\ lastError' \in [Task -> TlogError]
    BY InitialValues DEF IndInv, TypeOK, Conclude, ResetAttempt, DnsAnswer, TlogError
  <2> QED
    BY <1>1, <1>3, <2>1, <2>2, <2>3 DEF IndInv, TypeOK, world
<1>5. OnlyTask(t)
  BY <1>3 DEF IndInv, TypeOK, OnlyTask, Conclude, ResetAttempt
<1>6. /\ pc'[t] = IF kind = "Verified" /\ DanePolicy # "Disabled" THEN "dane" ELSE "idle"
      /\ outcome'[t] = o /\ found'[t] = {} /\ scan'[t] = {} /\ reply'[t] = "waiting"
      /\ fetched'[t] = NothingFetched /\ lastError'[t] = "none" /\ ~noted'[t]
  BY <1>3 DEF IndInv, TypeOK, Conclude, ResetAttempt
<1>7. FoundAged(t)' /\ FetchedAged(t)' /\ OutcomeAged(t)'
  BY <1>2, <1>6, Failures DEF FoundAged, FetchedAged, OutcomeAged, NothingFetched
<1>8. AttemptClean(t)' /\ DaneDone(t)'
  BY <1>2, <1>6 DEF AttemptClean, DaneDone
<1>9. Hopeful(t)' => OnTrack(t)'
  BY <1>2, <1>6 DEF OnTrack
<1> QED
  BY <1>4, <1>5, <1>7, <1>8, <1>9, TaskStepKeeps DEF TaskInv, world

\* A call that returns an error: only what the history says may go wrong.
LEMMA FailKeeps ==
    ASSUME IndInv, NEW t \in Task, NEW kind \in OutcomeKind, kind # "Verified",
           Fail(t, kind), UNCHANGED <<now, world>>,
           Cache!CacheTypeOK', StoreAged',
           job' \in [Task -> Job], \A u \in Task \ {t} : job'[u] = job[u],
           ~Hopeful(t)'
    PROVE  IndInv'
  BY ConcludeKeeps DEF Fail

LEMMA InitInv == Init => IndInv
<1> SUFFICES ASSUME Init PROVE IndInv
  OBVIOUS
<1> USE DEF Init
<1>1. Cache!CacheTypeOK /\ StoreAged
  BY Keys DEF Cache!CacheInit, Cache!CacheTypeOK, StoreAged
<1>2. TypeOK
  BY <1>1, InitialValues, Numbers DEF TypeOK, PC, DnsAnswer, TlogError
<1>3. \A t \in Task : FoundAged(t) /\ FetchedAged(t) /\ OutcomeAged(t)
  BY Failures DEF FoundAged, FetchedAged, OutcomeAged, NothingFetched, NoOutcome
<1>4. \A t \in Task : AttemptClean(t) /\ DaneDone(t) /\ OnTrack(t)
  BY DEF AttemptClean, DaneDone, OnTrack, NoOutcome
<1> QED
  BY <1>1, <1>2, <1>3, <1>4 DEF IndInv, TaskInv

-----------------------------------------------------------------------------
(* One lemma per action: the scan of the cache *)

LEMMA VerifyKeeps ==
    ASSUME IndInv, NEW t \in Task, NEW c \in Cert, Verify(t, c)
    PROVE  IndInv'
<1> USE DEF Verify, cacheState, world
<1>1. index[Host] \in SUBSET Version /\ epoch \in 0..MaxEpoch
  BY DEF IndInv, TypeOK, Cache!CacheTypeOK
<1>2. TypeOK'
  BY <1>1, InitialValues DEF IndInv, TypeOK, PC, Cache!CacheTypeOK
<1>3. OnlyTask(t) /\ StoreAged'
  BY DEF IndInv, TypeOK, OnlyTask, StoreAged, Aged
<1>4. /\ pc'[t] = "scan" /\ outcome'[t] = NoOutcome /\ job'[t] = NewJob("verify", c, epoch)
      /\ pc[t] = "idle" /\ found'[t] = found[t] /\ fetched'[t] = fetched[t]
  BY DEF IndInv, TypeOK
<1>5. found[t] = {} /\ TaskInv(t)
  BY <1>4 DEF IndInv, TaskInv, AttemptClean
<1>6. TaskInv(t)'
  BY <1>4, <1>5 DEF TaskInv, FoundAged, FetchedAged, OutcomeAged, AttemptClean, DaneDone,
     OnTrack, NoOutcome, NewJob
<1> QED
  BY <1>2, <1>3, <1>6, TaskStepKeeps

LEMMA ScanEntryKeeps ==
    ASSUME IndInv, NEW t \in Task, NEW v \in Version, ScanEntry(t, v)
    PROVE  IndInv'
<1> DEFINE entry == store[<<Host, v>>]
           window == IF pc[t] = "scan" THEN DefaultTtl ELSE HardTtl
           hit == entry # NoEntry /\ now - entry.fetchedAt < window
<1> USE DEF cacheState, world
<1>1. /\ found' = [found EXCEPT ![t] = IF hit THEN @ \cup {entry} ELSE @]
      /\ scan' = [scan EXCEPT ![t] = @ \ {v}]
      /\ UNCHANGED <<cacheState, now, world, epoch, pc, job, reply, records, fetched,
                     noted, lastError, outcome>>
  BY DEF ScanEntry
<1>2. entry \in CachedBadge \cup {NoEntry} /\ (entry # NoEntry => Aged(entry))
  BY Keys DEF IndInv, TypeOK, Cache!CacheTypeOK, StoreAged
<1> HIDE DEF entry
<1>3. TypeOK'
  BY <1>1, <1>2 DEF IndInv, TypeOK, Cache!CacheTypeOK
<1>4. OnlyTask(t) /\ StoreAged'
  BY <1>1 DEF IndInv, TypeOK, OnlyTask, StoreAged, Aged
<1>5. found'[t] = IF hit THEN found[t] \cup {entry} ELSE found[t]
  BY <1>1 DEF IndInv, TypeOK
<1>6. FoundAged(t)'
  BY <1>1, <1>2, <1>5 DEF IndInv, TaskInv, FoundAged, Aged
<1>7. pc[t] \in {"scan", "stale"}
  BY DEF ScanEntry, IndInv, TaskInv, AttemptClean
<1>8. TaskInv(t)'
  BY <1>1, <1>6, <1>7 DEF IndInv, TaskInv, FetchedAged, OutcomeAged, AttemptClean, DaneDone,
     Hopeful, OnTrack, Vouches, Shadows, AnswerCurrent
<1> QED
  BY <1>1, <1>3, <1>4, <1>8, TaskStepKeeps

\* Nothing is read from the cache between the scan and its use, and no tick passes.
LEMMA CacheHitKeeps ==
    ASSUME IndInv, NEW t \in Task, CacheHit(t)
    PROVE  IndInv'
<1>1. PICK entry \in found[t] :
        /\ Verdict(entry.evidence.badge, job[t].cert) = "Verified"
        /\ Conclude(t, "Verified", "cache", entry.evidence)
  BY DEF CacheHit
<1>2. /\ pc[t] = "scan" /\ UNCHANGED <<cacheState, now, world, job>>
  BY DEF CacheHit
<1>3. /\ entry \in CachedBadge /\ now \in Nat /\ Aged(entry)
      /\ now - entry.fetchedAt < DefaultTtl
  BY <1>2, Numbers DEF IndInv, TypeOK, TaskInv, FoundAged
<1>4. entry.evidence \in Evidence /\ entry.fetchedAt \in Nat /\ entry.evidence.asOf \in Nat
  BY <1>3, Numbers DEF CachedBadge, Evidence
<1>5. now - entry.evidence.asOf <= AgeLimit("cache")
  BY <1>3, <1>4, Numbers DEF AgeLimit, Aged
<1>6. Cache!CacheTypeOK' /\ StoreAged'
  BY <1>2 DEF IndInv, TypeOK, Cache!CacheTypeOK, StoreAged, Aged, cacheState
<1> QED
  BY <1>1, <1>2, <1>4, <1>5, <1>6, ConcludeKeeps DEF OutcomeKind, IndInv, TypeOK

LEMMA CacheMissKeeps ==
    ASSUME IndInv, NEW t \in Task, CacheMiss(t)
    PROVE  IndInv'
<1> USE DEF CacheMiss, cacheState, world
<1>1. TypeOK' /\ OnlyTask(t) /\ StoreAged'
  BY DEF IndInv, TypeOK, PC, Cache!CacheTypeOK, OnlyTask, StoreAged, Aged
<1>2. /\ pc[t] = "scan" /\ pc'[t] = "dns" /\ found'[t] = {} /\ scan'[t] = {}
      /\ reply'[t] = "waiting" /\ TaskInv(t)
  BY DEF IndInv, TypeOK, TaskInv, AttemptClean
<1>3. TaskInv(t)'
  BY <1>2 DEF TaskInv, FoundAged, FetchedAged, OutcomeAged, AttemptClean, DaneDone, OnTrack
<1> QED
  BY <1>1, <1>3, TaskStepKeeps

LEMMA PrefetchKeeps ==
    ASSUME IndInv, NEW t \in Task, Prefetch(t)
    PROVE  IndInv'
<1> USE DEF Prefetch, cacheState, world
<1>1. epoch \in 0..MaxEpoch /\ job[t] \in Job /\ job[t].cert \in Cert
  BY DEF IndInv, TypeOK, Job
<1>2. TypeOK'
  BY <1>1, InitialValues DEF IndInv, TypeOK, PC, Cache!CacheTypeOK
<1>3. OnlyTask(t) /\ StoreAged'
  BY DEF IndInv, TypeOK, OnlyTask, StoreAged, Aged
<1>4. /\ pc'[t] = "dns" /\ outcome'[t] = NoOutcome /\ pc[t] = "idle"
      /\ job'[t] = NewJob("prefetch", job[t].cert, epoch) /\ TaskInv(t)
  BY DEF IndInv, TypeOK
<1>5. TaskInv(t)'
  BY <1>4 DEF TaskInv, FoundAged, FetchedAged, OutcomeAged, AttemptClean, DaneDone,
     Hopeful, NoOutcome, NewJob
<1> QED
  BY <1>2, <1>3, <1>5, TaskStepKeeps

-----------------------------------------------------------------------------
(* The DNS lookup *)

\* A field of a job that is rewritten leaves a job.
LEMMA JobFields ==
    ASSUME TypeOK, NEW t \in Task, NEW b \in BOOLEAN
    PROVE  /\ [job EXCEPT ![t].calm = b] \in [Task -> Job]
           /\ [job EXCEPT ![t].adverse = b] \in [Task -> Job]
           /\ [job EXCEPT ![t].final = TRUE, ![t].adverse = FALSE] \in [Task -> Job]
<1>1. job \in [Task -> Job] /\ job[t] \in Job
  BY DEF TypeOK
<1>2. [job[t] EXCEPT !.final = TRUE, !.adverse = FALSE] \in Job
  BY <1>1 DEF Job
<1>3. [job EXCEPT ![t].final = TRUE, ![t].adverse = FALSE] \in [Task -> Job]
  BY <1>1, <1>2
<1> QED
  BY <1>1, <1>3 DEF Job

LEMMA DnsReplyKeeps ==
    ASSUME IndInv, NEW t \in Task, NEW a \in DnsAnswer, DnsReply(t, a)
    PROVE  IndInv'
<1> DEFINE b == job[t].calm /\ a \in {"Found", "NotFound"}
<1> USE DEF cacheState, world
<1>1. /\ pc[t] = "dns" /\ reply[t] = "waiting"
      /\ a \in {"Outage", "Determinate", IF dns = {} THEN "NotFound" ELSE "Found"}
      /\ reply' = [reply EXCEPT ![t] = a]
      /\ records' = [records EXCEPT ![t] = IF a = "Found" THEN dns ELSE {}]
      /\ job' = [job EXCEPT ![t].calm = b]
      /\ UNCHANGED <<cacheState, now, world, epoch, pc, scan, found, fetched,
                     noted, lastError, outcome>>
  BY DEF DnsReply
<1>2. b \in BOOLEAN
  BY DEF IndInv, TypeOK, Job
<1> HIDE DEF b
<1>3. job' \in [Task -> Job]
  BY <1>1, <1>2, JobFields DEF IndInv
<1>4. TypeOK' /\ StoreAged'
  BY <1>1, <1>3 DEF IndInv, TypeOK, Cache!CacheTypeOK, StoreAged, Aged
<1>5. OnlyTask(t)
  BY <1>1 DEF IndInv, TypeOK, OnlyTask
<1>6. /\ reply'[t] = a /\ records'[t] = (IF a = "Found" THEN dns ELSE {})
      /\ job'[t].calm = b /\ job'[t].kind = job[t].kind /\ job'[t].cert = job[t].cert
      /\ job'[t].adverse = job[t].adverse /\ TaskInv(t)
  BY <1>1 DEF IndInv, TypeOK, Job
<1>7. FoundAged(t)' /\ FetchedAged(t)' /\ OutcomeAged(t)' /\ DaneDone(t)'
  BY <1>1, <1>6 DEF TaskInv, FoundAged, FetchedAged, OutcomeAged, DaneDone, Aged
<1>8. AttemptClean(t)'
  BY <1>1, <1>6 DEF TaskInv, AttemptClean
<1>9. Hopeful(t)' => OnTrack(t)'
  <2>1. Hopeful(t)' => a \in {"Found", "NotFound"} /\ dns # {}
    BY <1>1, <1>6 DEF Hopeful, b
  <2> QED
    BY <1>1, <1>6, <2>1 DEF OnTrack
<1> QED
  BY <1>1, <1>4, <1>5, <1>7, <1>8, <1>9, TaskStepKeeps DEF TaskInv

LEMMA DnsFoundKeeps ==
    ASSUME IndInv, NEW t \in Task, DnsFound(t)
    PROVE  IndInv'
<1> USE DEF DnsFound, world
<1>1. Versions(records[t]) \in SUBSET Version
  BY Records DEF IndInv, TypeOK
<1>2. Cache!CacheTypeOK' /\ StoreAged'
  BY <1>1, DropsShrink, ShrinkingKeepsAge DEF IndInv, TypeOK
<1>3. TypeOK'
  BY <1>2 DEF IndInv, TypeOK, PC
<1>4. OnlyTask(t)
  BY DEF IndInv, TypeOK, OnlyTask
<1>5. pc[t] = "dns" /\ reply[t] = "Found" /\ pc'[t] = "fetch" /\ TaskInv(t)
  BY DEF IndInv, TypeOK
<1>6. FoundAged(t)' /\ FetchedAged(t)' /\ OutcomeAged(t)' /\ DaneDone(t)'
  BY <1>5 DEF TaskInv, FoundAged, FetchedAged, OutcomeAged, DaneDone, Aged
<1>7. AttemptClean(t)'
  BY <1>5 DEF TaskInv, AttemptClean
<1>8. Hopeful(t)' => OnTrack(t)'
  <2>1. Hopeful(t)' = Hopeful(t)
    BY DEF Hopeful, Vouches, Shadows
  <2>2. \A r \in DnsRecord : fetched'[t][r] = Pending
    BY <1>5 DEF TaskInv, AttemptClean, NothingFetched
  <2>3. records[t] \subseteq DnsRecord
    BY DEF IndInv, TypeOK
  <2> QED
    BY <1>5, <2>1, <2>2, <2>3 DEF TaskInv, OnTrack
<1> QED
  BY <1>2, <1>3, <1>4, <1>6, <1>7, <1>8, TaskStepKeeps DEF TaskInv

LEMMA DnsNegativeKeeps ==
    ASSUME IndInv, NEW t \in Task, DnsNegative(t)
    PROVE  IndInv'
<1> DEFINE kind == IF reply[t] = "NotFound" /\ job[t].kind = "verify"
                   THEN "NotAnsAgent" ELSE "DnsDeterminate"
<1>1. /\ pc[t] = "dns" /\ reply[t] \in {"NotFound", "Determinate"}
      /\ (UNCHANGED cacheState \/ Cache!InvalidateFqdn(Host)) /\ Fail(t, kind)
      /\ job' = [job EXCEPT ![t].adverse = TRUE] /\ UNCHANGED <<now, world>>
  BY DEF DnsNegative
<1>2. kind \in OutcomeKind /\ kind # "Verified"
  BY DEF OutcomeKind, Rejection
<1> HIDE DEF kind
<1>3. Cache!CacheTypeOK' /\ StoreAged'
  BY <1>1, DropsShrink, ShrinkingKeepsAge DEF IndInv, TypeOK
<1>4. job' \in [Task -> Job] /\ \A u \in Task \ {t} : job'[u] = job[u]
  BY <1>1, JobFields DEF IndInv, TypeOK
<1>5. ~Hopeful(t)'
  <2>1. Hopeful(t)' => Hopeful(t)
    BY <1>1 DEF Hopeful, Vouches, Shadows, IndInv, TypeOK, Job, world
  <2> QED
    BY <1>1, <2>1 DEF IndInv, TaskInv, OnTrack
<1> QED
  BY <1>1, <1>2, <1>3, <1>4, <1>5, FailKeeps

\* The stale fallback begins: nothing determinate has been met.
LEMMA StaleScanKeeps ==
    ASSUME IndInv, NEW t \in Task, StaleScan(t), UNCHANGED <<cacheState, now, world, job>>,
           pc[t] \in {"dns", "sift"}, ~job[t].adverse, ~Hopeful(t)
    PROVE  IndInv'
<1> USE DEF StaleScan, cacheState, world
<1>1. index[Host] \in SUBSET Version
  BY DEF IndInv, TypeOK, Cache!CacheTypeOK
<1>2. TypeOK' /\ OnlyTask(t) /\ StoreAged'
  BY <1>1 DEF IndInv, TypeOK, PC, Cache!CacheTypeOK, OnlyTask, StoreAged, Aged
<1>3. pc'[t] = "stale" /\ TaskInv(t)
  BY DEF IndInv, TypeOK
<1>4. ~Hopeful(t)'
  BY DEF Hopeful, Vouches, Shadows
<1>5. FoundAged(t)' /\ FetchedAged(t)' /\ OutcomeAged(t)' /\ DaneDone(t)' /\ AttemptClean(t)'
  BY <1>3 DEF TaskInv, FoundAged, FetchedAged, OutcomeAged, DaneDone, Aged, AttemptClean
<1> QED
  BY <1>2, <1>4, <1>5, TaskStepKeeps DEF TaskInv

LEMMA DnsOutageKeeps ==
    ASSUME IndInv, NEW t \in Task, DnsOutage(t)
    PROVE  IndInv'
<1>1. /\ pc[t] = "dns" /\ reply[t] = "Outage" /\ UNCHANGED <<cacheState, now, world, job>>
  BY DEF DnsOutage
<1>2. ~Hopeful(t) /\ ~job[t].adverse
  BY <1>1 DEF IndInv, TaskInv, OnTrack, AttemptClean
<1>3. CASE StaleScan(t)
  BY <1>1, <1>2, <1>3, StaleScanKeeps
<1>4. CASE Fail(t, "DnsOutage")
  <2>1. ~Hopeful(t)'
    BY <1>1, <1>2 DEF Hopeful, Vouches, Shadows, world
  <2>2. Cache!CacheTypeOK' /\ StoreAged'
    BY <1>1 DEF IndInv, TypeOK, Cache!CacheTypeOK, StoreAged, Aged, cacheState
  <2> QED
    BY <1>1, <1>4, <2>1, <2>2, FailKeeps DEF OutcomeKind, IndInv, TypeOK
<1> QED
  BY <1>3, <1>4 DEF DnsOutage

-----------------------------------------------------------------------------
(* The fetches *)

LEMMA AnswerIsResult ==
    ASSUME TypeOK, NEW r \in DnsRecord
    PROVE  /\ TlogAnswer(r) \in FetchResult
           /\ TlogAnswer(r) \in Evidence =>
                /\ TlogAnswer(r).asOf = now
                /\ TlogAnswer(r).epoch = epoch
                /\ TlogAnswer(r).badge = tlog[r.agent] /\ tlog[r.agent] # NoBadge
                /\ tlog[r.agent].status # "Unknown"
           /\ tlog[r.agent] # NoBadge /\ tlog[r.agent].status # "Unknown" =>
                TlogAnswer(r) \in Evidence
<1>1. tlog[r.agent] \in Badge \cup {NoBadge}
  BY Records DEF TypeOK
<1>2. CASE tlog[r.agent] = NoBadge \/ tlog[r.agent].status = "Unknown"
  BY <1>2, Failures DEF TlogAnswer
<1>3. CASE ~(tlog[r.agent] = NoBadge \/ tlog[r.agent].status = "Unknown")
  <2>1. TlogAnswer(r) = [badge |-> tlog[r.agent], asOf |-> now, epoch |-> epoch]
    BY <1>3 DEF TlogAnswer
  <2>2. TlogAnswer(r) \in Evidence
    BY <1>1, <1>3, <2>1 DEF Evidence, TypeOK
  <2> QED
    BY <1>3, <2>1, <2>2 DEF FetchResult
<1> QED
  BY <1>2, <1>3

LEMMA FetchReplyKeeps ==
    ASSUME IndInv, NEW t \in Task, NEW r \in DnsRecord, NEW x, FetchReply(t, r, x)
    PROVE  IndInv'
<1> DEFINE b == job[t].calm /\ x = TlogAnswer(r)
<1> USE DEF cacheState, world
<1>1. /\ pc[t] = "fetch" /\ r \in records[t] /\ fetched[t][r] = Pending
      /\ x \in {TlogAnswer(r), Unavailable}
      /\ fetched' = [fetched EXCEPT ![t][r] = x]
      /\ job' = [job EXCEPT ![t].calm = b]
      /\ UNCHANGED <<cacheState, now, world, epoch, pc, scan, found, reply, records,
                     noted, lastError, outcome>>
  BY DEF FetchReply
<1>2. b \in BOOLEAN
  BY DEF IndInv, TypeOK, Job
<1>3. /\ x \in FetchResult
      /\ x \in Evidence => x = TlogAnswer(r) /\ x.asOf = now
  BY <1>1, AnswerIsResult, Failures DEF IndInv
<1> HIDE DEF b
<1>4. job' \in [Task -> Job]
  BY <1>1, <1>2, JobFields DEF IndInv
<1>5. TypeOK' /\ StoreAged'
  BY <1>1, <1>3, <1>4 DEF IndInv, TypeOK, Cache!CacheTypeOK, StoreAged, Aged
<1>6. OnlyTask(t)
  BY <1>1 DEF IndInv, TypeOK, OnlyTask
<1>7. /\ fetched'[t][r] = x /\ \A q \in DnsRecord \ {r} : fetched'[t][q] = fetched[t][q]
      /\ job'[t].calm = b /\ job'[t].kind = job[t].kind /\ job'[t].cert = job[t].cert
      /\ job'[t].adverse = job[t].adverse /\ TaskInv(t)
  BY <1>1 DEF IndInv, TypeOK, Job
<1>8. FoundAged(t)' /\ OutcomeAged(t)' /\ DaneDone(t)' /\ AttemptClean(t)'
  BY <1>1, <1>7 DEF TaskInv, FoundAged, OutcomeAged, DaneDone, Aged, AttemptClean
<1>9. FetchedAged(t)'
  BY <1>1, <1>3, <1>7, Numbers DEF TaskInv, FetchedAged, IndInv, TypeOK
<1>10. Hopeful(t)' => OnTrack(t)'
  <2> SUFFICES ASSUME Hopeful(t)' PROVE OnTrack(t)'
    OBVIOUS
  <2>1. Hopeful(t) /\ x = TlogAnswer(r)
    BY <1>1, <1>7 DEF Hopeful, Vouches, Shadows, b
  <2>2. OnTrack(t) /\ records[t] \subseteq DnsRecord
    BY <1>7, <2>1 DEF TaskInv, IndInv, TypeOK
  <2>3. AnswerCurrent(t, r)'
    <3>1. Vouches(r, job[t].cert) => TlogAnswer(r) \in Evidence
      BY AnswerIsResult DEF Vouches, Verdict, IndInv
    <3>2. TlogAnswer(r) \in Evidence =>
            tlog[r.agent] = TlogAnswer(r).badge /\ TlogAnswer(r).badge.status # "Unknown"
      BY AnswerIsResult DEF IndInv
    <3> QED
      BY <1>1, <1>7, <2>1, <3>1, <3>2 DEF AnswerCurrent, Vouches
  <2>4. \A q \in records[t] \ {r} :
          /\ AnswerCurrent(t, q)' = AnswerCurrent(t, q)
          /\ fetched'[t][q] = fetched[t][q]
    BY <1>1, <1>7, <2>2 DEF AnswerCurrent, Vouches
  <2> QED
    BY <1>1, <2>2, <2>3, <2>4 DEF OnTrack
<1> QED
  BY <1>1, <1>5, <1>6, <1>8, <1>9, <1>10, TaskStepKeeps DEF TaskInv

LEMMA JoinAllKeeps ==
    ASSUME IndInv, NEW t \in Task, JoinAll(t)
    PROVE  IndInv'
<1> USE DEF JoinAll, cacheState, world
<1>1. TypeOK' /\ OnlyTask(t) /\ StoreAged'
  BY DEF IndInv, TypeOK, PC, Cache!CacheTypeOK, OnlyTask, StoreAged, Aged
<1>2. pc[t] = "fetch" /\ pc'[t] = "sift" /\ TaskInv(t)
  BY DEF IndInv, TypeOK
<1>3. FoundAged(t)' /\ FetchedAged(t)' /\ OutcomeAged(t)' /\ DaneDone(t)' /\ AttemptClean(t)'
  BY <1>2 DEF TaskInv, FoundAged, FetchedAged, OutcomeAged, DaneDone, Aged, AttemptClean
<1>4. Hopeful(t)' => OnTrack(t)'
  <2>1. Hopeful(t)' = Hopeful(t)
    BY DEF Hopeful, Vouches, Shadows
  <2>2. \A r \in records[t] : AnswerCurrent(t, r)' = AnswerCurrent(t, r)
    BY DEF AnswerCurrent, Vouches
  <2> QED
    BY <1>2, <2>1, <2>2 DEF TaskInv, OnTrack, Hopeful, Vouches
<1> QED
  BY <1>1, <1>3, <1>4, TaskStepKeeps DEF TaskInv

-----------------------------------------------------------------------------
(* The loop over the results *)

\* A record that vouches for the certificate is not sifted out.
LEMMA SiftKeepsTrack ==
    ASSUME IndInv, NEW t \in Task, NEW r \in records[t], pc[t] = "sift",
           pc' = pc, records'[t] = records[t] \ {r}, UNCHANGED <<world, fetched>>,
           job'[t].kind = job[t].kind, job'[t].calm = job[t].calm,
           job'[t].cert = job[t].cert,
           Hopeful(t) => ~Vouches(r, job[t].cert)
    PROVE  Hopeful(t)' => OnTrack(t)'
<1> SUFFICES ASSUME Hopeful(t)' PROVE OnTrack(t)'
  OBVIOUS
<1>1. Hopeful(t)
  BY DEF Hopeful, Vouches, Shadows, world
<1>2. OnTrack(t)
  BY <1>1 DEF IndInv, TaskInv
<1>3. \A q \in records[t] : AnswerCurrent(t, q)' = AnswerCurrent(t, q)
  BY DEF AnswerCurrent, Vouches, world
<1>4. \A q \in records[t] : Vouches(q, job[t].cert)' = Vouches(q, job[t].cert)
  BY DEF Vouches, world
<1> QED
  BY <1>1, <1>2, <1>3, <1>4 DEF OnTrack, world

LEMMA SiftUnavailableKeeps ==
    ASSUME IndInv, NEW t \in Task, NEW r \in DnsRecord, SiftUnavailable(t, r)
    PROVE  IndInv'
<1> USE DEF SiftUnavailable, IsNext, cacheState, world
<1>1. TypeOK' /\ OnlyTask(t) /\ StoreAged'
  BY DEF IndInv, TypeOK, TlogError, Cache!CacheTypeOK, OnlyTask, StoreAged, Aged
<1>2. /\ pc[t] = "sift" /\ TaskInv(t) /\ records'[t] = records[t] \ {r}
      /\ lastError'[t] = IF lastError[t] = "Determinate" THEN lastError[t] ELSE "Unavailable"
  BY DEF IndInv, TypeOK
<1>3. FoundAged(t)' /\ FetchedAged(t)' /\ OutcomeAged(t)' /\ DaneDone(t)' /\ AttemptClean(t)'
  BY <1>2 DEF TaskInv, FoundAged, FetchedAged, OutcomeAged, DaneDone, Aged, AttemptClean
<1>4. Hopeful(t) => ~Vouches(r, job[t].cert)
  BY <1>2, Failures DEF TaskInv, OnTrack, AnswerCurrent
<1>5. Hopeful(t)' => OnTrack(t)'
  BY <1>2, <1>4, SiftKeepsTrack
<1> QED
  BY <1>1, <1>3, <1>5, TaskStepKeeps DEF TaskInv

LEMMA SiftDeterminateKeeps ==
    ASSUME IndInv, NEW t \in Task, NEW r \in DnsRecord, SiftDeterminate(t, r)
    PROVE  IndInv'
<1> USE DEF SiftDeterminate, IsNext, world
<1>1. Cache!CacheTypeOK' /\ StoreAged'
  BY DropsShrink, ShrinkingKeepsAge DEF IndInv, TypeOK
<1>2. TypeOK'
  BY <1>1, JobFields DEF IndInv, TypeOK, TlogError
<1>3. OnlyTask(t)
  BY DEF IndInv, TypeOK, OnlyTask
<1>4. /\ pc[t] = "sift" /\ TaskInv(t) /\ records'[t] = records[t] \ {r}
      /\ lastError'[t] = "Determinate" /\ outcome[t].kind = "None"
      /\ job'[t].calm = job[t].calm /\ job'[t].kind = job[t].kind /\ job'[t].cert = job[t].cert
  BY DEF IndInv, TypeOK, Job, TaskInv, AttemptClean
<1>5. FoundAged(t)' /\ FetchedAged(t)' /\ OutcomeAged(t)' /\ DaneDone(t)' /\ AttemptClean(t)'
  BY <1>4 DEF TaskInv, FoundAged, FetchedAged, OutcomeAged, DaneDone, Aged, AttemptClean
<1>6. Hopeful(t) => ~Vouches(r, job[t].cert)
  BY <1>4, Failures DEF TaskInv, OnTrack, AnswerCurrent
<1>7. Hopeful(t)' => OnTrack(t)'
  BY <1>4, <1>6, SiftKeepsTrack
<1> QED
  BY <1>1, <1>2, <1>3, <1>5, <1>7, TaskStepKeeps DEF TaskInv

\* The entry made for a fetched badge is as old as MaxFlight allows.
LEMMA CacheBadgeKeeps ==
    ASSUME IndInv, NEW t \in Task, NEW r \in DnsRecord, fetched[t][r] \in Evidence,
           CacheBadge(r, fetched[t][r]), now' = now
    PROVE  /\ Cache!CacheTypeOK' /\ StoreAged'
           /\ fetched[t][r].asOf <= now /\ now - fetched[t][r].asOf <= MaxFlight
<1>1. fetched[t][r].asOf <= now /\ now - fetched[t][r].asOf <= MaxFlight
  BY DEF IndInv, TaskInv, FetchedAged
<1>2. VersionOf(r) \in Version
  BY Records
<1> QED
  BY <1>1, <1>2, InsertionKeepsAge DEF IndInv, CacheBadge

LEMMA SiftBadgeKeeps ==
    ASSUME IndInv, NEW t \in Task, NEW r \in DnsRecord, SiftBadge(t, r)
    PROVE  IndInv'
<1> DEFINE ev == fetched[t][r]
           verdict == Verdict(ev.badge, job[t].cert)
<1>1. /\ pc[t] = "sift" /\ r \in records[t] /\ ev \in Evidence /\ job[t].kind = "verify"
      /\ CacheBadge(r, ev) /\ UNCHANGED <<now, world, job>>
  BY DEF SiftBadge, IsNext
<1>2. /\ Cache!CacheTypeOK' /\ StoreAged' /\ TaskInv(t)
      /\ now - ev.asOf <= MaxFlight
  BY <1>1, CacheBadgeKeeps DEF IndInv
<1>3. Hopeful(t) => verdict \in {"FingerprintMismatch", "Verified"}
  <2> SUFFICES ASSUME Hopeful(t) PROVE verdict \in {"FingerprintMismatch", "Verified"}
    OBVIOUS
  <2>1. r \in dns /\ AnswerCurrent(t, r)
    BY <1>1, <1>2 DEF TaskInv, OnTrack
  <2>2. /\ tlog[r.agent] = ev.badge /\ tlog[r.agent].status # "Unknown"
        /\ tlog[r.agent] # NoBadge
    BY <1>1, <2>1, Failures DEF AnswerCurrent, Evidence
  <2>3. verdict \notin {"InvalidStatus", "HostnameMismatch"}
    BY <2>1, <2>2 DEF Hopeful, Shadows
  <2> QED
    BY <2>3 DEF Verdict
<1>4. CASE verdict = "FingerprintMismatch" /\ KeepSifting(t, r)
  <2> USE <1>1, <1>4 DEF KeepSifting, world
  <2>1. TypeOK' /\ OnlyTask(t)
    BY <1>2 DEF IndInv, TypeOK, OnlyTask
  <2>2. records'[t] = records[t] \ {r} /\ outcome[t].kind = "None"
    BY <1>2 DEF IndInv, TypeOK, TaskInv, AttemptClean
  <2>3. FoundAged(t)' /\ FetchedAged(t)' /\ OutcomeAged(t)' /\ DaneDone(t)' /\ AttemptClean(t)'
    BY <1>2 DEF TaskInv, FoundAged, FetchedAged, OutcomeAged, DaneDone, Aged, AttemptClean
  <2>4. Hopeful(t) => ~Vouches(r, job[t].cert)
    BY <1>2 DEF TaskInv, OnTrack, AnswerCurrent, Vouches
  <2>5. Hopeful(t)' => OnTrack(t)'
    BY <2>2, <2>4, SiftKeepsTrack
  <2> QED
    BY <1>2, <2>1, <2>3, <2>5, TaskStepKeeps DEF TaskInv
<1>5. CASE verdict # "FingerprintMismatch" /\ Conclude(t, verdict, "live", ev)
  <2>1. verdict \in OutcomeKind
    BY DEF Verdict, OutcomeKind
  <2>2. now - ev.asOf <= AgeLimit("live")
    BY <1>2 DEF AgeLimit
  <2>3. Hopeful(t)' = Hopeful(t)
    BY <1>1 DEF Hopeful, Vouches, Shadows, world
  <2>4. Hopeful(t)' => verdict = "Verified"
    BY <1>3, <1>5, <2>3
  <2> HIDE DEF verdict, ev
  <2> QED
    BY <1>1, <1>2, <1>5, <2>1, <2>2, <2>4, ConcludeKeeps DEF IndInv, TypeOK
<1> QED
  BY <1>4, <1>5 DEF SiftBadge

LEMMA PrefetchBadgeKeeps ==
    ASSUME IndInv, NEW t \in Task, NEW r \in DnsRecord, PrefetchBadge(t, r)
    PROVE  IndInv'
<1> USE DEF PrefetchBadge, IsNext, world
<1>1. Cache!CacheTypeOK' /\ StoreAged'
  BY CacheBadgeKeeps
<1>2. TypeOK' /\ OnlyTask(t)
  BY <1>1 DEF IndInv, TypeOK, OnlyTask
<1>3. pc[t] = "sift" /\ TaskInv(t)
  BY DEF IndInv
<1>4. FoundAged(t)' /\ FetchedAged(t)' /\ OutcomeAged(t)' /\ DaneDone(t)' /\ AttemptClean(t)'
  BY <1>3 DEF TaskInv, FoundAged, FetchedAged, OutcomeAged, DaneDone, Aged, AttemptClean
<1>5. ~Hopeful(t)'
  BY DEF Hopeful
<1> QED
  BY <1>1, <1>2, <1>4, <1>5, TaskStepKeeps DEF TaskInv

-----------------------------------------------------------------------------
(* After the loop *)

\* A hopeful call never gets here.
LEMMA SiftedIsHopeless ==
    ASSUME IndInv, NEW t \in Task, NEW kind, AllSifted(t, kind)
    PROVE  ~Hopeful(t) /\ pc[t] = "sift"
  BY DEF AllSifted, IndInv, TaskInv, OnTrack

LEMMA RefreshKeeps ==
    ASSUME IndInv, NEW t \in Task, Refresh(t)
    PROVE  IndInv'
<1> USE DEF Refresh, ResetAttempt, world
<1>1. Cache!CacheTypeOK' /\ StoreAged'
  BY DropsShrink, ShrinkingKeepsAge DEF IndInv, TypeOK
<1>2. TypeOK'
  <2>1. job' \in [Task -> Job]
    BY JobFields DEF IndInv
  <2>2. pc' \in [Task -> PC] /\ reply' \in [Task -> DnsAnswer] /\ lastError' \in [Task -> TlogError]
    BY DEF IndInv, TypeOK, PC, DnsAnswer, TlogError
  <2> QED
    BY <1>1, <2>1, <2>2, InitialValues DEF IndInv, TypeOK
<1>3. OnlyTask(t)
  BY DEF IndInv, TypeOK, OnlyTask
<1>4. /\ pc'[t] = "dns" /\ reply'[t] = "waiting" /\ found'[t] = {} /\ scan'[t] = {}
      /\ fetched'[t] = NothingFetched /\ ~noted'[t] /\ lastError'[t] = "none"
  BY DEF IndInv, TypeOK
<1>5. /\ job'[t] = [job[t] EXCEPT !.final = TRUE, !.adverse = FALSE] /\ TaskInv(t)
  BY DEF IndInv, TypeOK
<1>6. /\ ~job'[t].adverse /\ job'[t].calm = job[t].calm /\ job'[t].cert = job[t].cert
      /\ job'[t].kind = job[t].kind
  BY <1>5 DEF IndInv, TypeOK, Job
<1>7. pc[t] = "sift" /\ ~Hopeful(t)'
  <2>1. pc[t] = "sift" /\ ~Hopeful(t)
    BY SiftedIsHopeless
  <2> QED
    BY <1>6, <2>1 DEF Hopeful, Vouches, Shadows
<1>8. FoundAged(t)' /\ FetchedAged(t)' /\ OutcomeAged(t)' /\ DaneDone(t)' /\ AttemptClean(t)'
  BY <1>4, <1>5, <1>6, <1>7, Failures DEF TaskInv, FoundAged, FetchedAged, OutcomeAged,
     DaneDone, AttemptClean, NothingFetched
<1> QED
  BY <1>1, <1>2, <1>3, <1>7, <1>8, TaskStepKeeps DEF TaskInv

\* Errors returned after the loop, whether or not they drop the entries.
LEMMA LateErrorKeeps ==
    ASSUME IndInv, NEW t \in Task, NEW kind \in OutcomeKind, kind # "Verified",
           Fail(t, kind), ~Hopeful(t), UNCHANGED <<now, world, job>>,
           UNCHANGED cacheState \/ Cache!InvalidateFqdn(Host)
    PROVE  IndInv'
<1>1. Cache!CacheTypeOK' /\ StoreAged'
  BY DropsShrink, ShrinkingKeepsAge DEF IndInv, TypeOK
<1>2. ~Hopeful(t)'
  BY DEF Hopeful, Vouches, Shadows, world
<1> QED
  BY <1>1, <1>2, FailKeeps DEF IndInv, TypeOK

LEMMA FinalMismatchKeeps ==
    ASSUME IndInv, NEW t \in Task, FinalMismatch(t)
    PROVE  IndInv'
  BY SiftedIsHopeless, LateErrorKeeps DEF FinalMismatch, OutcomeKind

LEMMA TlogFailedKeeps ==
    ASSUME IndInv, NEW t \in Task, TlogFailed(t)
    PROVE  IndInv'
<1>1. ~Hopeful(t) /\ pc[t] = "sift" /\ UNCHANGED <<now, world, job>>
  BY SiftedIsHopeless DEF TlogFailed
<1>2. CASE Cache!InvalidateFqdn(Host) /\ Fail(t, "TlogDeterminate")
  BY <1>1, <1>2, LateErrorKeeps DEF OutcomeKind, Rejection
<1>3. CASE UNCHANGED cacheState /\ Fail(t, "TlogOutage")
  BY <1>1, <1>3, LateErrorKeeps DEF OutcomeKind
<1>4. CASE lastError[t] = "Unavailable" /\ UNCHANGED cacheState /\ StaleScan(t)
  <2>1. ~job[t].adverse
    BY <1>1, <1>4 DEF IndInv, TaskInv, AttemptClean
  <2> QED
    BY <1>1, <1>4, <2>1, StaleScanKeeps
<1> QED
  BY <1>2, <1>3, <1>4 DEF TlogFailed

LEMMA PrefetchEndKeeps ==
    ASSUME IndInv, NEW t \in Task, PrefetchEnd(t)
    PROVE  IndInv'
<1>1. \E kind \in {"Prefetched", "NothingUsable", "TlogOutage", "TlogDeterminate"} : Fail(t, kind)
  BY DEF PrefetchEnd
<1> QED
  BY <1>1, SiftedIsHopeless, LateErrorKeeps DEF PrefetchEnd, OutcomeKind, Rejection

-----------------------------------------------------------------------------
(* The fail-open fallback *)

LEMMA StaleHitKeeps ==
    ASSUME IndInv, NEW t \in Task, StaleHit(t)
    PROVE  IndInv'
<1>1. PICK entry \in found[t] :
        /\ StaleUsable(t, entry)
        /\ Conclude(t, "Verified", "stale", entry.evidence)
  BY DEF StaleHit
<1>2. /\ pc[t] = "stale" /\ UNCHANGED <<cacheState, now, world, job>>
  BY DEF StaleHit
<1>3. /\ entry \in CachedBadge /\ now \in Nat /\ Aged(entry)
      /\ now - entry.fetchedAt < MaxStaleness /\ ~job[t].adverse
  BY <1>1, <1>2, Numbers DEF IndInv, TypeOK, TaskInv, FoundAged, AttemptClean, StaleUsable
<1>4. entry.evidence \in Evidence /\ entry.fetchedAt \in Nat /\ entry.evidence.asOf \in Nat
  BY <1>3, Numbers DEF CachedBadge, Evidence
<1>5. now - entry.evidence.asOf <= AgeLimit("stale")
  BY <1>3, <1>4, Numbers DEF AgeLimit, Aged
<1>6. Cache!CacheTypeOK' /\ StoreAged'
  BY <1>2 DEF IndInv, TypeOK, Cache!CacheTypeOK, StoreAged, Aged, cacheState
<1> QED
  BY <1>1, <1>2, <1>3, <1>4, <1>5, <1>6, ConcludeKeeps DEF OutcomeKind, IndInv, TypeOK

LEMMA StaleMissKeeps ==
    ASSUME IndInv, NEW t \in Task, StaleMiss(t)
    PROVE  IndInv'
<1>1. pc[t] = "stale" /\ UNCHANGED <<cacheState, now, world, job>>
  BY DEF StaleMiss
<1>2. ~Hopeful(t)
  BY <1>1 DEF IndInv, TaskInv, OnTrack
<1>3. \E kind \in {"DnsOutage", "TlogOutage"} : Fail(t, kind)
  BY DEF StaleMiss
<1> QED
  BY <1>1, <1>2, <1>3, LateErrorKeeps DEF OutcomeKind

-----------------------------------------------------------------------------
(* enforce_dane *)

LEMMA DaneEndKeeps ==
    ASSUME IndInv, NEW t \in Task, NEW kind \in {outcome[t].kind, "DaneError"},
           NEW answers \in (SUBSET TlsaMatch) \cup {NotAsked}, pc[t] = "dane",
           kind # "DaneError" => answers # NotAsked /\ DaneAccepts(answers),
           outcome' = [outcome EXCEPT ![t].tlsa = answers, ![t].kind = kind],
           pc' = [pc EXCEPT ![t] = "idle"],
           UNCHANGED <<cacheState, now, world, epoch, job, scan, found, reply, records,
                       fetched, noted, lastError>>
    PROVE  IndInv'
<1> USE DEF cacheState, world
<1>1. outcome[t] \in Outcome
  BY DEF IndInv, TypeOK
<1>2. [outcome[t] EXCEPT !.tlsa = answers, !.kind = kind] \in Outcome
  BY <1>1 DEF Outcome, OutcomeKind
<1>3. outcome' \in [Task -> Outcome] /\ outcome'[t] = [outcome[t] EXCEPT !.tlsa = answers, !.kind = kind]
  BY <1>2 DEF IndInv, TypeOK
<1>4. TypeOK' /\ OnlyTask(t) /\ StoreAged'
  BY <1>3 DEF IndInv, TypeOK, PC, Cache!CacheTypeOK, OnlyTask, StoreAged, Aged
<1>5. /\ outcome'[t].kind = kind /\ outcome'[t].tlsa = answers
      /\ outcome'[t].source = outcome[t].source /\ outcome'[t].at = outcome[t].at
      /\ outcome'[t].evidence = outcome[t].evidence /\ pc'[t] = "idle" /\ TaskInv(t)
  BY <1>1, <1>3 DEF IndInv, TypeOK, Outcome
<1>6. FoundAged(t)' /\ FetchedAged(t)' /\ OutcomeAged(t)' /\ AttemptClean(t)'
  BY <1>5 DEF TaskInv, FoundAged, FetchedAged, OutcomeAged, Aged, AttemptClean
<1>7. DaneDone(t)'
  BY <1>5 DEF DaneDone, DaneAccepts
<1>8. Hopeful(t)' => OnTrack(t)'
  BY <1>5 DEF TaskInv, OnTrack, Hopeful, Vouches, Shadows
<1> QED
  BY <1>4, <1>6, <1>7, <1>8, TaskStepKeeps DEF TaskInv

LEMMA DaneReplyKeeps ==
    ASSUME IndInv, NEW t \in Task, NEW answers \in SUBSET TlsaMatch, DaneReply(t, answers)
    PROVE  IndInv'
<1> DEFINE kind == IF DaneAccepts(answers) THEN outcome[t].kind ELSE "DaneError"
<1>1. answers # NotAsked
  BY DEF TlsaMatch, NotAsked
<1>2. outcome' = [outcome EXCEPT ![t].tlsa = answers, ![t].kind = kind]
  BY DEF DaneReply, IndInv, TypeOK, Outcome
<1> QED
  BY <1>1, <1>2, DaneEndKeeps DEF DaneReply

LEMMA DaneLookupFailsKeeps ==
    ASSUME IndInv, NEW t \in Task, DaneLookupFails(t)
    PROVE  IndInv'
<1>1. outcome[t] \in Outcome /\ outcome \in [Task -> Outcome]
  BY DEF IndInv, TypeOK
<1>2. outcome[t] = [outcome[t] EXCEPT !.tlsa = outcome[t].tlsa]
  BY <1>1 DEF Outcome
<1>3. outcome' = [outcome EXCEPT ![t].tlsa = outcome[t].tlsa, ![t].kind = "DaneError"]
  BY <1>1, <1>2 DEF DaneLookupFails
<1>4. outcome[t].tlsa \in (SUBSET TlsaMatch) \cup {NotAsked}
  BY <1>1 DEF Outcome
<1> QED
  BY <1>3, <1>4, DaneEndKeeps DEF DaneLookupFails

-----------------------------------------------------------------------------
(* The registration authority, the log, the clock and moka *)

LEMMA PublicationKeeps ==
    ASSUME IndInv, changes < MaxChanges, changes' = changes + 1, job' = NobodyCalm,
           dns' \in SUBSET DnsRecord, tlog' \in [Version -> Badge \cup {NoBadge}],
           UNCHANGED <<cacheState, now, epoch, pc, scan, found, reply, records,
                       fetched, noted, lastError, outcome>>
    PROVE  IndInv'
<1> USE DEF cacheState
<1>1. \A t \in Task : /\ job'[t] = [job[t] EXCEPT !.calm = FALSE] /\ job'[t] \in Job
                      /\ ~job'[t].calm /\ job'[t].adverse = job[t].adverse
  <2>1. SUFFICES ASSUME NEW t \in Task
                 PROVE  /\ job'[t] = [job[t] EXCEPT !.calm = FALSE] /\ job'[t] \in Job
                        /\ ~job'[t].calm /\ job'[t].adverse = job[t].adverse
    OBVIOUS
  <2>2. job'[t] = [job[t] EXCEPT !.calm = FALSE]
    BY DEF NobodyCalm
  <2>3. job[t] \in Job
    BY DEF IndInv, TypeOK
  <2>4. /\ [job[t] EXCEPT !.calm = FALSE] \in Job
        /\ ~[job[t] EXCEPT !.calm = FALSE].calm
        /\ [job[t] EXCEPT !.calm = FALSE].adverse = job[t].adverse
    BY <2>3 DEF Job
  <2> QED
    BY <2>2, <2>4
<1>2. changes' \in 0..MaxChanges
  BY Numbers DEF IndInv, TypeOK
<1>3. job' \in [Task -> Job]
  BY <1>1 DEF NobodyCalm
<1>4. TypeOK' /\ StoreAged'
  BY <1>2, <1>3 DEF IndInv, TypeOK, Cache!CacheTypeOK, StoreAged, Aged
<1>5. ASSUME NEW t \in Task PROVE TaskInv(t)'
  <2>1. TaskInv(t)
    BY DEF IndInv
  <2>2. FoundAged(t)' /\ FetchedAged(t)' /\ OutcomeAged(t)' /\ DaneDone(t)' /\ AttemptClean(t)'
    BY <1>1, <2>1 DEF TaskInv, FoundAged, FetchedAged, OutcomeAged, DaneDone, Aged, AttemptClean
  <2>3. ~Hopeful(t)'
    BY <1>1 DEF Hopeful
  <2> QED
    BY <2>2, <2>3 DEF TaskInv
<1> QED
  BY <1>4, <1>5 DEF IndInv

LEMMA PublishKeeps ==
    ASSUME IndInv,
           \/ \E rs \in SUBSET DnsRecord : PublishDns(rs)
           \/ \E v \in Version, b \in Badge \cup {NoBadge} : PublishBadge(v, b)
    PROVE  IndInv'
<1>1. CASE \E rs \in SUBSET DnsRecord : PublishDns(rs)
  BY <1>1, PublicationKeeps DEF PublishDns, IndInv, TypeOK
<1>2. CASE \E v \in Version, b \in Badge \cup {NoBadge} : PublishBadge(v, b)
  <2>1. tlog' \in [Version -> Badge \cup {NoBadge}]
    BY <1>2 DEF PublishBadge, IndInv, TypeOK
  <2> QED
    BY <1>2, <2>1, PublicationKeeps DEF PublishBadge, IndInv, TypeOK
<1> QED
  BY <1>1, <1>2

\* A tick ages what is held.  A fetched badge within MaxFlight stays within it,
\* and no scan is under way.
LEMMA TickKeeps ==
    ASSUME IndInv, Tick
    PROVE  IndInv'
<1> USE DEF Tick, cacheState, world, taskVars
<1>1. now \in Nat /\ now' \in 0..MaxTime /\ now' = now + 1
  BY Numbers DEF IndInv, TypeOK
<1>2. TypeOK'
  BY <1>1 DEF IndInv, TypeOK, Cache!CacheTypeOK
<1>3. \A entry \in CachedBadge : Aged(entry) => Aged(entry)'
  BY <1>1 DEF Aged, CachedBadge
<1>4. StoreAged'
  BY <1>3, Keys DEF IndInv, TypeOK, Cache!CacheTypeOK, StoreAged
<1>5. ASSUME NEW t \in Task PROVE TaskInv(t)'
  <2>1. TaskInv(t) /\ found[t] \subseteq CachedBadge /\ pc[t] # "scan"
    BY DEF IndInv, TypeOK
  <2>2. FoundAged(t)'
    BY <1>3, <2>1 DEF TaskInv, FoundAged
  <2>3. FetchedAged(t)'
    <3> SUFFICES ASSUME NEW r \in DnsRecord, fetched[t][r] \in Evidence
                 PROVE  fetched[t][r].asOf <= now' /\ now' - fetched[t][r].asOf <= MaxFlight
      BY DEF FetchedAged
    <3>1. fetched[t][r].asOf \in Nat /\ fetched[t][r].asOf <= now
      BY <2>1, Numbers DEF Evidence, TaskInv, FetchedAged
    <3>2. now - fetched[t][r].asOf < MaxFlight
      OBVIOUS
    <3> QED
      BY <1>1, <3>1, <3>2, Numbers
  <2>4. OutcomeAged(t)' /\ DaneDone(t)' /\ AttemptClean(t)'
    BY <2>1 DEF TaskInv, OutcomeAged, DaneDone, AttemptClean
  <2>5. Hopeful(t)' => OnTrack(t)'
    BY <2>1 DEF TaskInv, Hopeful, OnTrack, AnswerCurrent, Vouches, Shadows
  <2> QED
    BY <2>2, <2>3, <2>4, <2>5 DEF TaskInv
<1> QED
  BY <1>2, <1>4, <1>5 DEF IndInv

LEMMA EvictKeeps ==
    ASSUME IndInv, NEW v \in Version, Evict(v)
    PROVE  IndInv'
<1> USE DEF Evict, world, taskVars
<1>1. Cache!CacheTypeOK' /\ StoreAged'
  BY DropsShrink, ShrinkingKeepsAge DEF IndInv, TypeOK
<1>2. TypeOK'
  BY <1>1 DEF IndInv, TypeOK
<1>3. ASSUME NEW t \in Task PROVE TaskInv(t)'
  <2>1. TaskInv(t)
    BY DEF IndInv
  <2> QED
    BY <2>1 DEF TaskInv, FoundAged, FetchedAged, OutcomeAged, Aged, DaneDone, AttemptClean,
       Hopeful, OnTrack, AnswerCurrent, Vouches, Shadows
<1> QED
  BY <1>1, <1>2, <1>3 DEF IndInv

-----------------------------------------------------------------------------

LEMMA CallStepKeeps ==
    ASSUME IndInv, NEW t \in Task, Call(t) \/ Step(t)
    PROVE  IndInv'
<1>1. CASE Call(t)
  BY <1>1, PrefetchKeeps, VerifyKeeps DEF Call
<1>2. CASE Step(t)
  <2>1. CASE \E r \in DnsRecord : FetchReply(t, r, Unavailable) \/ FetchReply(t, r, TlogAnswer(r))
    BY <2>1, FetchReplyKeeps
  <2>2. CASE \E r \in DnsRecord : \/ SiftUnavailable(t, r) \/ SiftDeterminate(t, r)
                                  \/ SiftBadge(t, r) \/ PrefetchBadge(t, r)
    BY <2>2, SiftUnavailableKeeps, SiftDeterminateKeeps, SiftBadgeKeeps, PrefetchBadgeKeeps
  <2>3. CASE \/ CacheHit(t) \/ CacheMiss(t)
             \/ \E v \in Version : ScanEntry(t, v)
             \/ \E a \in DnsAnswer : DnsReply(t, a)
             \/ DnsFound(t) \/ DnsNegative(t) \/ DnsOutage(t)
    BY <2>3, CacheHitKeeps, CacheMissKeeps, ScanEntryKeeps, DnsReplyKeeps, DnsFoundKeeps,
       DnsNegativeKeeps, DnsOutageKeeps
  <2>4. CASE \/ JoinAll(t)
             \/ Refresh(t) \/ FinalMismatch(t) \/ TlogFailed(t) \/ PrefetchEnd(t)
             \/ StaleHit(t) \/ StaleMiss(t)
             \/ \E answers \in SUBSET TlsaMatch : DaneReply(t, answers)
             \/ DaneLookupFails(t)
    BY <2>4, JoinAllKeeps, RefreshKeeps, FinalMismatchKeeps, TlogFailedKeeps, PrefetchEndKeeps,
       StaleHitKeeps, StaleMissKeeps, DaneReplyKeeps, DaneLookupFailsKeeps
  <2> QED
    BY <1>2, <2>1, <2>2, <2>3, <2>4 DEF Step
<1> QED
  BY <1>1, <1>2

LEMMA StepKeeps == IndInv /\ [Next]_vars => IndInv'
<1> SUFFICES ASSUME IndInv, [Next]_vars PROVE IndInv'
  OBVIOUS
<1>1. CASE UNCHANGED vars
  <2> USE <1>1 DEF vars, cacheState, world, taskVars
  <2>1. TypeOK' /\ StoreAged'
    BY DEF IndInv, TypeOK, Cache!CacheTypeOK, StoreAged, Aged
  <2>2. ASSUME NEW t \in Task PROVE TaskInv(t)'
    <3>1. TaskInv(t)
      BY DEF IndInv
    <3> QED
      BY <3>1 DEF TaskInv, FoundAged, FetchedAged, OutcomeAged, Aged, DaneDone, AttemptClean,
         Hopeful, OnTrack, AnswerCurrent, Vouches, Shadows
  <2> QED
    BY <2>1, <2>2 DEF IndInv
<1>2. CASE Next
  BY <1>2, PublishKeeps, TickKeeps, EvictKeeps, CallStepKeeps DEF Next, Environment
<1> QED
  BY <1>1, <1>2

-----------------------------------------------------------------------------
(* The theorems *)

(***************************************************************************)
(* What holds of every task in the middle of its call, whatever the others *)
(* do to the cache (verify_server, verify_against_records, prefetch).      *)
(***************************************************************************)
THEOREM ServerInvariant == Spec => []IndInv
  BY InitInv, StepKeeps, PTL DEF Spec

(***************************************************************************)
(* Types.                                                                  *)
(***************************************************************************)
THEOREM ServerTypes == Spec => []TypeOK
<1>1. IndInv => TypeOK
  BY DEF IndInv
<1> QED
  BY <1>1, ServerInvariant, PTL

(***************************************************************************)
(* Acceptance is neither too lax nor too strict, for any number of callers *)
(* that race each other's insertions and invalidations: what is accepted   *)
(* rests on evidence within the window of its source, and what a published *)
(* badge vouches for is accepted when nothing fails or changes.            *)
(***************************************************************************)
THEOREM AcceptanceIsExact == Spec => []AcceptanceExact
<1>1. IndInv => EvidenceAgeBounded
  BY DEF IndInv, TaskInv, OutcomeAged, EvidenceAgeBounded, Accepted
<1>2. IndInv => VouchedIsAccepted
  <2> SUFFICES ASSUME IndInv, NEW t \in Task, CalmVerification(t), Hopeful(t)
               PROVE  outcome[t].kind = "Verified"
    BY DEF VouchedIsAccepted, Hopeful, CalmVerification
  <2> QED
    BY DEF IndInv, TaskInv, OnTrack, CalmVerification, Done
<1> QED
  BY <1>1, <1>2, ServerInvariant, PTL DEF AcceptanceExact

(***************************************************************************)
(* A certificate that a published badge vouches for is accepted, under any *)
(* policy (verify_against_records, verify_with_refresh).                   *)
(***************************************************************************)
THEOREM VouchedCertificatesAccepted == Spec => []VouchedIsAccepted
<1>1. AcceptanceExact => VouchedIsAccepted
  BY DEF AcceptanceExact
<1> QED
  BY <1>1, AcceptanceIsExact, PTL

(***************************************************************************)
(* Fail-open never turns a determinate answer of the log or of DNS into an *)
(* acceptance (record_tlog_error, handle_ans_error), with any number of    *)
(* records and in any order of their failures.                             *)
(***************************************************************************)
THEOREM DeterminateNeverStale == Spec => []NoStaleAfterDeterminate
<1>1. IndInv => NoStaleAfterDeterminate
  BY DEF IndInv, TaskInv, AttemptClean, NoStaleAfterDeterminate, Accepted
<1> QED
  BY <1>1, ServerInvariant, PTL

(***************************************************************************)
(* Every acceptance, cached and stale ones included, passed enforce_dane.  *)
(***************************************************************************)
THEOREM DaneAlwaysEnforced == Spec => []DaneEnforced
<1>1. IndInv => DaneEnforced
  BY DEF IndInv, TaskInv, DaneDone, DaneEnforced, Accepted, Done
<1> QED
  BY <1>1, ServerInvariant, PTL

-----------------------------------------------------------------------------
(* One caller at a time *)

LEMMA SoloTask ==
    ASSUME SoleCaller, NEW t \in Task, Indexed', StoreCurrent',
           TaskCurrent(t)', StoreDropped(t)', StaleCovered(t)'
    PROVE  SoloInv'
  BY DEF SoleCaller, SoloInv

\* No drop leaves an entry behind that the index does not know of.
LEMMA DropsKeepIndex ==
    ASSUME Cache!CacheTypeOK, Indexed,
           \/ UNCHANGED cacheState
           \/ Cache!InvalidateFqdn(Host)
           \/ \E v \in Version : Cache!Remove(Host, v)
           \/ \E vs \in SUBSET Version : Cache!SetVersionIndex(Host, vs)
    PROVE  Indexed'
<1> USE DEF Cache!CacheTypeOK, Indexed
<1>1. CASE UNCHANGED cacheState
  BY <1>1 DEF cacheState
<1>2. CASE Cache!InvalidateFqdn(Host)
  BY <1>2, Keys DEF Cache!InvalidateFqdn, Cache!Without
<1>3. CASE \E v \in Version : Cache!Remove(Host, v)
  BY <1>3, Keys DEF Cache!Remove, Cache!Without
<1>4. CASE \E vs \in SUBSET Version : Cache!SetVersionIndex(Host, vs)
  BY <1>4, Keys DEF Cache!SetVersionIndex, Cache!Without
<1> QED
  BY <1>1, <1>2, <1>3, <1>4

LEMMA InvalidationEmpties ==
    ASSUME Cache!CacheTypeOK, Indexed, Cache!InvalidateFqdn(Host)
    PROVE  \A v \in Version : store'[<<Host, v>>] = NoEntry
  BY Keys DEF Cache!CacheTypeOK, Indexed, Cache!InvalidateFqdn, Cache!Without

LEMMA InsertionIndexed ==
    ASSUME Cache!CacheTypeOK, Indexed, NEW v \in Version, NEW x, Cache!Insert(Host, v, x)
    PROVE  Indexed'
<1>1. /\ index'[Host] = index[Host] \cup {v}
      /\ \A w \in Version \ {v} : store'[<<Host, w>>] = store[<<Host, w>>]
  BY Keys DEF Cache!CacheTypeOK, Cache!Insert
<1> QED
  BY <1>1 DEF Indexed

LEMMA ShrinkingKeepsCurrent ==
    ASSUME StoreCurrent, Shrinks, epoch' = epoch PROVE StoreCurrent'
  BY DEF StoreCurrent, Shrinks, Current

\* A call returns.  If it returns a rejection, nothing that verifies is left.
LEMMA SoloConcludes ==
    ASSUME IndInv, SoloInv, SoleCaller, NEW t \in Task, NEW kind, NEW source, NEW ev,
           Conclude(t, kind, source, ev), Indexed', job'[t].since = job[t].since,
           \A v \in Version : store'[<<Host, v>>] # NoEntry =>
             IF kind \in Rejection
             THEN store'[<<Host, v>>].evidence.badge.status # "Active"
             ELSE Current(store'[<<Host, v>>]),
           kind = "Verified" /\ source \in {"cache", "stale"} => ev.epoch >= job[t].since
    PROVE  SoloInv'
<1>1. /\ epoch \in Nat /\ epoch' \in Nat /\ epoch' >= epoch
      /\ kind \notin Rejection => epoch' = epoch
  BY Numbers DEF Conclude, IndInv, TypeOK
<1>2. /\ pc'[t] \in {"idle", "dane"} /\ found'[t] = {} /\ fetched'[t] = NothingFetched
      /\ outcome'[t].kind = kind /\ outcome'[t].source = source /\ outcome'[t].evidence = ev
  BY DEF IndInv, TypeOK, Conclude, ResetAttempt
<1>3. StoreCurrent'
  BY <1>1 DEF StoreCurrent, Current
<1>4. job[t].since <= epoch /\ job[t].since \in Nat
  BY Numbers DEF SoloInv, TaskCurrent, IndInv, TypeOK, Job
<1>5. TaskCurrent(t)'
  BY <1>1, <1>2, <1>4, Failures DEF TaskCurrent, NothingFetched
<1>6. StoreDropped(t)' /\ StaleCovered(t)'
  BY <1>2 DEF StoreDropped, StaleCovered
<1> QED
  BY <1>3, <1>5, <1>6, SoloTask

\* The same for a result that rests on no evidence and is no rejection.
LEMMA SoloFails ==
    ASSUME IndInv, SoloInv, SoleCaller, NEW t \in Task, NEW kind \in OutcomeKind \ Rejection,
           kind # "Verified", Fail(t, kind), job'[t].since = job[t].since,
           UNCHANGED cacheState
    PROVE  SoloInv'
<1>1. Indexed'
  BY DropsKeepIndex DEF SoloInv, IndInv, TypeOK
<1>2. \A v \in Version : store'[<<Host, v>>] # NoEntry => Current(store'[<<Host, v>>])
  BY DEF SoloInv, StoreCurrent, cacheState
<1> QED
  BY <1>1, <1>2, SoloConcludes DEF Fail

LEMMA SoloInit == SoleCaller /\ Init => SoloInv
<1> SUFFICES ASSUME Init PROVE SoloInv
  OBVIOUS
<1>1. \A v \in Version : store[<<Host, v>>] = NoEntry
  BY Keys DEF Init, Cache!CacheInit
<1>2. Indexed /\ StoreCurrent
  BY <1>1 DEF Indexed, StoreCurrent
<1>3. \A t \in Task : TaskCurrent(t) /\ StoreDropped(t) /\ StaleCovered(t)
  <2> USE DEF Init
  <2>1. epoch = 0 /\ 0 <= 0
    OBVIOUS
  <2> SUFFICES ASSUME NEW t \in Task PROVE TaskCurrent(t) /\ StoreDropped(t) /\ StaleCovered(t)
    OBVIOUS
  <2>2. /\ pc[t] = "idle" /\ found[t] = {} /\ job[t].since = 0 /\ fetched[t] = NothingFetched
        /\ outcome[t].kind = "None"
    BY DEF NoOutcome, NewJob
  <2> QED
    BY <2>1, <2>2, Failures DEF TaskCurrent, StoreDropped, StaleCovered, NothingFetched
<1> QED
  BY <1>2, <1>3 DEF SoloInv

\* Calls begin, and results come in.
LEMMA SoloBegins ==
    ASSUME IndInv, SoloInv, SoleCaller, NEW t \in Task,
           Prefetch(t) \/ \E c \in Cert : Verify(t, c)
    PROVE  SoloInv'
<1> USE DEF Prefetch, Verify, cacheState
<1>1. Indexed' /\ StoreCurrent'
  BY DEF SoloInv, Indexed, StoreCurrent, Current
<1>2. /\ pc'[t] \in {"scan", "dns"} /\ outcome'[t] = NoOutcome
      /\ job'[t].since = epoch /\ ~job'[t].final
  BY DEF IndInv, TypeOK, NewJob
<1>3. epoch <= epoch
  BY Numbers DEF IndInv, TypeOK
<1>4. TaskCurrent(t)'
  BY <1>2, <1>3 DEF SoloInv, TaskCurrent, Current, NoOutcome
<1>5. StoreDropped(t)' /\ StaleCovered(t)'
  BY <1>2 DEF StoreDropped, StaleCovered
<1> QED
  BY <1>1, <1>4, <1>5, SoloTask

LEMMA SoloScans ==
    ASSUME IndInv, SoloInv, SoleCaller, NEW t \in Task,
           CacheMiss(t) \/ \E v \in Version : ScanEntry(t, v)
    PROVE  SoloInv'
<1> USE DEF cacheState
<1>1. /\ UNCHANGED <<cacheState, now, epoch, job, fetched, outcome, lastError, noted>>
      /\ Indexed' /\ StoreCurrent'
  BY DEF SoloInv, Indexed, StoreCurrent, Current, CacheMiss, ScanEntry
<1>2. CASE CacheMiss(t)
  <2>1. found'[t] = {} /\ pc'[t] = "dns" /\ pc[t] = "scan"
    BY <1>2 DEF CacheMiss, IndInv, TypeOK
  <2>2. TaskCurrent(t)' /\ StaleCovered(t)'
    BY <1>1, <2>1 DEF SoloInv, TaskCurrent, Current, StaleCovered
  <2>3. ~job[t].final
    BY <2>1 DEF SoloInv, StoreDropped
  <2> QED
    BY <1>1, <2>1, <2>2, <2>3, SoloTask DEF StoreDropped
<1>3. CASE \E v \in Version : ScanEntry(t, v)
  <2>1. PICK v \in Version : ScanEntry(t, v)
    BY <1>3
  <2> DEFINE entry == store[<<Host, v>>]
             window == IF pc[t] = "scan" THEN DefaultTtl ELSE HardTtl
             hit == entry # NoEntry /\ now - entry.fetchedAt < window
  <2>2. /\ found'[t] = (IF hit THEN found[t] \cup {entry} ELSE found[t])
        /\ scan'[t] = scan[t] \ {v} /\ pc' = pc
    BY <2>1 DEF ScanEntry, IndInv, TypeOK
  <2>3. TaskCurrent(t)'
    BY <1>1, <2>2 DEF SoloInv, TaskCurrent, StoreCurrent, Current
  <2>4. StoreDropped(t)'
    BY <1>1, <2>2 DEF SoloInv, StoreDropped
  <2>5. StaleCovered(t)'
    BY <1>1, <2>2 DEF SoloInv, StaleCovered
  <2> QED
    BY <1>1, <2>3, <2>4, <2>5, SoloTask
<1> QED
  BY <1>2, <1>3

\* Steps that neither touch the cache nor conclude.
LEMMA SoloQuiet ==
    ASSUME IndInv, SoloInv, SoleCaller, NEW t \in Task,
           UNCHANGED <<cacheState, now, epoch>>, pc'[t] \notin {"scan", "stale"},
           found'[t] \subseteq found[t], job'[t].since = job[t].since,
           job'[t].final = job[t].final,
           outcome'[t].kind = "Verified" =>
             /\ outcome[t].kind = "Verified" /\ outcome'[t].source = outcome[t].source
             /\ outcome'[t].evidence = outcome[t].evidence,
           \A r \in DnsRecord : fetched'[t][r] \in Evidence => fetched'[t][r].epoch >= epoch,
           pc'[t] = "dns" => pc[t] = "dns",
           pc'[t] = "sift" => lastError'[t] # "Determinate" \/ StoreDropped(t)'
    PROVE  SoloInv'
<1>1. Indexed' /\ StoreCurrent'
  BY DEF SoloInv, Indexed, StoreCurrent, Current, cacheState
<1>2. TaskCurrent(t)'
  BY DEF SoloInv, TaskCurrent, Current
<1>3. StoreDropped(t)' /\ StaleCovered(t)'
  BY DEF SoloInv, StoreDropped, StaleCovered, cacheState
<1> QED
  BY <1>1, <1>2, <1>3, SoloTask

LEMMA SoloReplies ==
    ASSUME IndInv, SoloInv, SoleCaller, NEW t \in Task,
           \/ \E a \in DnsAnswer : DnsReply(t, a)
           \/ \E r \in DnsRecord : FetchReply(t, r, Unavailable) \/ FetchReply(t, r, TlogAnswer(r))
           \/ JoinAll(t)
    PROVE  SoloInv'
<1>1. \A r \in DnsRecord : fetched[t][r] \in Evidence => fetched[t][r].epoch >= epoch
  BY DEF SoloInv, TaskCurrent
<1>2. CASE \E a \in DnsAnswer : DnsReply(t, a)
  <2>1. /\ UNCHANGED <<cacheState, now, epoch, pc, found, outcome, fetched>> /\ pc[t] = "dns"
        /\ job'[t].since = job[t].since /\ job'[t].final = job[t].final
    BY <1>2 DEF DnsReply, IndInv, TypeOK, Job
  <2> QED
    BY <1>1, <2>1, SoloQuiet
<1>3. CASE \E r \in DnsRecord : FetchReply(t, r, Unavailable) \/ FetchReply(t, r, TlogAnswer(r))
  <2>0. PICK r \in DnsRecord : \E x \in {Unavailable, TlogAnswer(r)} : FetchReply(t, r, x)
    BY <1>3
  <2>1. PICK x \in {Unavailable, TlogAnswer(r)} : FetchReply(t, r, x)
    BY <2>0
  <2>2. /\ UNCHANGED <<cacheState, now, epoch, pc, found, outcome>> /\ pc[t] = "fetch"
        /\ job'[t].since = job[t].since /\ job'[t].final = job[t].final
        /\ fetched'[t][r] = x /\ \A q \in DnsRecord \ {r} : fetched'[t][q] = fetched[t][q]
    BY <2>1 DEF FetchReply, IndInv, TypeOK, Job
  <2>3. x \in Evidence => x.epoch >= epoch
    <3>1. epoch >= epoch
      BY Numbers DEF IndInv, TypeOK
    <3> QED
      BY <3>1, AnswerIsResult, Failures DEF IndInv
  <2>4. \A q \in DnsRecord : fetched'[t][q] \in Evidence => fetched'[t][q].epoch >= epoch
    BY <1>1, <2>2, <2>3
  <2> QED
    BY <2>2, <2>4, SoloQuiet
<1>4. CASE JoinAll(t)
  <2>1. /\ UNCHANGED <<cacheState, now, epoch, job, found, outcome, fetched, lastError>>
        /\ pc[t] = "fetch" /\ pc'[t] = "sift"
    BY <1>4 DEF JoinAll, IndInv, TypeOK
  <2>2. lastError[t] # "Determinate"
    BY <2>1 DEF IndInv, TaskInv, AttemptClean
  <2> QED
    BY <1>1, <2>1, <2>2, SoloQuiet
<1> QED
  BY <1>2, <1>3, <1>4

LEMMA SoloHits ==
    ASSUME IndInv, SoloInv, SoleCaller, NEW t \in Task, CacheHit(t) \/ StaleHit(t)
    PROVE  SoloInv'
<1>1. PICK entry \in found[t], source \in {"cache", "stale"} :
        /\ Verdict(entry.evidence.badge, job[t].cert) = "Verified"
        /\ Conclude(t, "Verified", source, entry.evidence)
  BY DEF CacheHit, StaleHit, StaleUsable
<1>2. UNCHANGED <<cacheState, job>>
  BY DEF CacheHit, StaleHit
<1>3. Indexed' /\ \A v \in Version : store'[<<Host, v>>] # NoEntry => Current(store'[<<Host, v>>])
  BY <1>2 DEF SoloInv, Indexed, StoreCurrent, cacheState
<1>4. entry.evidence.epoch >= job[t].since
  <2>1. entry.evidence.badge.status = "Active"
    BY <1>1 DEF Verdict
  <2>2. entry.evidence.epoch >= epoch /\ epoch >= job[t].since
    BY <2>1 DEF SoloInv, TaskCurrent, Current
  <2>3. entry.evidence.epoch \in Nat /\ epoch \in Nat /\ job[t].since \in Nat
    <3>1. entry \in CachedBadge /\ job[t] \in Job
      BY DEF IndInv, TypeOK
    <3> QED
      BY <3>1, Numbers DEF CachedBadge, Evidence, Job, IndInv, TypeOK
  <2> QED
    BY <2>2, <2>3
<1>5. "Verified" \notin Rejection
  BY DEF Rejection
<1> QED
  BY <1>1, <1>2, <1>3, <1>4, <1>5, SoloConcludes

LEMMA SoloDns ==
    ASSUME IndInv, SoloInv, SoleCaller, NEW t \in Task, DnsFound(t) \/ DnsNegative(t)
    PROVE  SoloInv'
<1>1. Cache!CacheTypeOK /\ Indexed
  BY DEF IndInv, TypeOK, SoloInv
<1>2. CASE DnsFound(t)
  <2> USE <1>2 DEF DnsFound
  <2>1. Versions(records[t]) \in SUBSET Version
    BY Records DEF IndInv, TypeOK
  <2>2. Indexed' /\ Shrinks
    BY <1>1, <2>1, DropsKeepIndex, DropsShrink
  <2>3. StoreCurrent'
    BY <2>2, ShrinkingKeepsCurrent DEF SoloInv
  <2>4. pc'[t] = "fetch"
    BY DEF IndInv, TypeOK
  <2>5. TaskCurrent(t)' /\ StoreDropped(t)' /\ StaleCovered(t)'
    BY <2>4 DEF SoloInv, TaskCurrent, Current, StoreDropped, StaleCovered
  <2> QED
    BY <2>2, <2>3, <2>5, SoloTask
<1>3. CASE DnsNegative(t)
  <2> USE <1>3 DEF DnsNegative
  <2>1. Indexed'
    BY <1>1, DropsKeepIndex
  <2>2. \A v \in Version : store'[<<Host, v>>] = NoEntry
    BY <1>1, InvalidationEmpties DEF SoloInv, StoreDropped, cacheState
  <2>3. \E kind \in {"NotAnsAgent", "DnsDeterminate"} : Fail(t, kind)
    OBVIOUS
  <2>4. job'[t].since = job[t].since
    BY DEF IndInv, TypeOK, Job
  <2> QED
    BY <2>1, <2>2, <2>3, <2>4, SoloConcludes DEF Fail
<1> QED
  BY <1>2, <1>3

\* The stale fallback begins with all the versions of the index to read.
LEMMA SoloStaleScan ==
    ASSUME IndInv, SoloInv, SoleCaller, NEW t \in Task, StaleScan(t),
           UNCHANGED <<cacheState, now, job>>
    PROVE  SoloInv'
<1> USE DEF StaleScan, cacheState
<1>1. Indexed' /\ StoreCurrent'
  BY DEF SoloInv, Indexed, StoreCurrent, Current
<1>2. pc'[t] = "stale" /\ scan'[t] = index[Host]
  BY DEF IndInv, TypeOK
<1>3. TaskCurrent(t)' /\ StoreDropped(t)' /\ StaleCovered(t)'
  BY <1>2 DEF SoloInv, TaskCurrent, Current, StoreDropped, StaleCovered, Indexed
<1> QED
  BY <1>1, <1>3, SoloTask

LEMMA SoloOutage ==
    ASSUME IndInv, SoloInv, SoleCaller, NEW t \in Task, DnsOutage(t) \/ StaleMiss(t)
    PROVE  SoloInv'
<1>1. CASE DnsOutage(t) /\ StaleScan(t)
  BY <1>1, SoloStaleScan DEF DnsOutage
<1>2. CASE \E kind \in {"DnsOutage", "TlogOutage"} : Fail(t, kind)
  BY <1>2, SoloFails DEF DnsOutage, StaleMiss, OutcomeKind, Rejection
<1> QED
  BY <1>1, <1>2 DEF DnsOutage, StaleMiss

\* What is inserted was fetched after the last rejection.
LEMMA SoloInserts ==
    ASSUME IndInv, SoloInv, NEW t \in Task, NEW r \in DnsRecord, fetched[t][r] \in Evidence,
           CacheBadge(r, fetched[t][r])
    PROVE  /\ Indexed'
           /\ \A v \in Version : store'[<<Host, v>>] # NoEntry => Current(store'[<<Host, v>>])
           /\ \A v \in Version \ {VersionOf(r)} : store'[<<Host, v>>] = store[<<Host, v>>]
           /\ store'[<<Host, VersionOf(r)>>].evidence = fetched[t][r]
<1> DEFINE x == [evidence |-> fetched[t][r], fetchedAt |-> now]
<1>1. /\ Cache!CacheTypeOK /\ Indexed /\ VersionOf(r) \in Version /\ x \in CachedBadge
      /\ Cache!Insert(Host, VersionOf(r), x)
  BY Records DEF IndInv, TypeOK, SoloInv, CachedBadge, CacheBadge
<1>2. x.evidence = fetched[t][r] /\ fetched[t][r].epoch >= epoch
  BY DEF SoloInv, TaskCurrent
<1> HIDE DEF x
<1>3. /\ store'[<<Host, VersionOf(r)>>] = x /\ Indexed'
      /\ \A v \in Version \ {VersionOf(r)} : store'[<<Host, v>>] = store[<<Host, v>>]
  BY <1>1, InsertAdds, InsertionIndexed
<1>4. \A v \in Version : store'[<<Host, v>>] # NoEntry => Current(store'[<<Host, v>>])
  BY <1>2, <1>3 DEF SoloInv, StoreCurrent, Current
<1> QED
  BY <1>2, <1>3, <1>4

LEMMA SoloSifts ==
    ASSUME IndInv, SoloInv, SoleCaller, NEW t \in Task, NEW r \in DnsRecord,
           \/ SiftUnavailable(t, r) \/ SiftDeterminate(t, r)
           \/ SiftBadge(t, r) \/ PrefetchBadge(t, r)
    PROVE  SoloInv'
<1>1. Cache!CacheTypeOK /\ Indexed /\ pc[t] = "sift"
  BY DEF IndInv, TypeOK, SoloInv, SiftUnavailable, SiftDeterminate, SiftBadge, PrefetchBadge, IsNext
<1>2. CASE SiftUnavailable(t, r)
  <2> USE <1>2 DEF SiftUnavailable
  <2>1. /\ UNCHANGED <<cacheState, now, epoch, job, found, outcome, fetched, pc, noted>>
        /\ lastError'[t] = "Determinate" => lastError[t] = "Determinate"
    BY DEF IndInv, TypeOK
  <2>2. StoreDropped(t)'
    BY <1>1, <2>1 DEF SoloInv, StoreDropped, cacheState
  <2>3. \A q \in DnsRecord : fetched[t][q] \in Evidence => fetched[t][q].epoch >= epoch
    BY DEF SoloInv, TaskCurrent
  <2> QED
    BY <1>1, <2>1, <2>2, <2>3, SoloQuiet
<1>3. CASE SiftDeterminate(t, r)
  <2> USE <1>3 DEF SiftDeterminate
  <2>1. Indexed' /\ \A v \in Version : store'[<<Host, v>>] = NoEntry
    BY <1>1, DropsKeepIndex, InvalidationEmpties
  <2>2. job'[t].since = job[t].since /\ pc' = pc
    BY DEF IndInv, TypeOK, Job
  <2>3. StoreCurrent' /\ TaskCurrent(t)' /\ StoreDropped(t)' /\ StaleCovered(t)'
    BY <1>1, <2>1, <2>2 DEF SoloInv, StoreCurrent, TaskCurrent, Current, StoreDropped, StaleCovered
  <2> QED
    BY <2>1, <2>3, SoloTask
<1>4. CASE SiftBadge(t, r)
  <2> USE <1>4 DEF SiftBadge
  <2> DEFINE verdict == Verdict(fetched[t][r].badge, job[t].cert)
  <2>1. /\ Indexed'
        /\ \A v \in Version : store'[<<Host, v>>] # NoEntry => Current(store'[<<Host, v>>])
    BY SoloInserts
  <2>2. CASE KeepSifting(t, r)
    <3> USE <2>2 DEF KeepSifting
    <3>1. StoreCurrent' /\ pc' = pc /\ job[t].kind = "verify"
      BY <2>1 DEF StoreCurrent, Current
    <3>2. TaskCurrent(t)' /\ StoreDropped(t)' /\ StaleCovered(t)'
      BY <1>1, <3>1 DEF SoloInv, TaskCurrent, Current, StoreDropped, StaleCovered
    <3> QED
      BY <2>1, <3>1, <3>2, SoloTask
  <2>3. CASE Conclude(t, verdict, "live", fetched[t][r])
    <3>1. verdict \notin Rejection
      BY DEF Verdict, Rejection
    <3> HIDE DEF verdict
    <3> QED
      BY <2>1, <2>3, <3>1, SoloConcludes
  <2> QED
    BY <2>2, <2>3
<1>5. CASE PrefetchBadge(t, r)
  <2> USE <1>5 DEF PrefetchBadge
  <2>1. /\ Indexed'
        /\ \A v \in Version : store'[<<Host, v>>] # NoEntry => Current(store'[<<Host, v>>])
        /\ \A v \in Version \ {VersionOf(r)} : store'[<<Host, v>>] = store[<<Host, v>>]
        /\ store'[<<Host, VersionOf(r)>>].evidence = fetched[t][r]
    BY SoloInserts
  <2>2. /\ pc' = pc /\ noted'[t] = (noted[t] \/ fetched[t][r].badge.status = "Active")
    BY DEF IndInv, TypeOK
  <2>3. StoreCurrent' /\ TaskCurrent(t)' /\ StaleCovered(t)'
    BY <1>1, <2>1, <2>2 DEF SoloInv, StoreCurrent, TaskCurrent, Current, StaleCovered
  <2>4. StoreDropped(t)'
    BY <1>1, <2>1, <2>2 DEF SoloInv, StoreDropped
  <2> QED
    BY <2>1, <2>3, <2>4, SoloTask
<1> QED
  BY <1>2, <1>3, <1>4, <1>5

LEMMA SoloEnds ==
    ASSUME IndInv, SoloInv, SoleCaller, NEW t \in Task,
           Refresh(t) \/ FinalMismatch(t) \/ TlogFailed(t) \/ PrefetchEnd(t)
    PROVE  SoloInv'
<1>1. Cache!CacheTypeOK /\ Indexed /\ pc[t] = "sift"
  BY DEF IndInv, TypeOK, SoloInv, Refresh, FinalMismatch, TlogFailed, PrefetchEnd, AllSifted
<1>2. CASE Refresh(t)
  <2> USE <1>2 DEF Refresh, ResetAttempt
  <2>1. Indexed' /\ \A v \in Version : store'[<<Host, v>>] = NoEntry
    BY <1>1, DropsKeepIndex, InvalidationEmpties
  <2>2. job'[t] = [job[t] EXCEPT !.final = TRUE, !.adverse = FALSE]
    BY DEF IndInv, TypeOK
  <2>3. /\ job'[t].since = job[t].since /\ pc'[t] = "dns" /\ found'[t] = {}
        /\ fetched'[t] = NothingFetched /\ outcome' = outcome /\ epoch' = epoch
    BY <2>2 DEF IndInv, TypeOK, Job
  <2>4. StoreCurrent' /\ TaskCurrent(t)' /\ StoreDropped(t)' /\ StaleCovered(t)'
    BY <2>1, <2>3, Failures DEF SoloInv, StoreCurrent, TaskCurrent, Current, StoreDropped,
       StaleCovered, NothingFetched
  <2> QED
    BY <2>1, <2>4, SoloTask
<1>3. CASE FinalMismatch(t)
  BY <1>3, SoloFails DEF FinalMismatch, OutcomeKind, Rejection
<1>4. CASE TlogFailed(t)
  <2>1. CASE Cache!InvalidateFqdn(Host) /\ Fail(t, "TlogDeterminate")
    <3>1. Indexed' /\ \A v \in Version : store'[<<Host, v>>] = NoEntry
      BY <1>1, <2>1, DropsKeepIndex, InvalidationEmpties
    <3> QED
      BY <1>4, <2>1, <3>1, SoloConcludes DEF Fail, TlogFailed
  <2>2. CASE UNCHANGED cacheState /\ Fail(t, "TlogOutage")
    BY <1>4, <2>2, SoloFails DEF TlogFailed, OutcomeKind, Rejection
  <2>3. CASE UNCHANGED cacheState /\ StaleScan(t)
    BY <1>4, <2>3, SoloStaleScan DEF TlogFailed
  <2> QED
    BY <1>4, <2>1, <2>2, <2>3 DEF TlogFailed
<1>5. CASE PrefetchEnd(t)
  <2> USE <1>5 DEF PrefetchEnd
  <2>1. CASE \E kind \in {"Prefetched", "NothingUsable", "TlogOutage"} : Fail(t, kind)
    BY <2>1, SoloFails DEF OutcomeKind, Rejection
  <2>2. CASE ~noted[t] /\ lastError[t] = "Determinate" /\ Fail(t, "TlogDeterminate")
    <3>1. Indexed' /\ \A v \in Version : store'[<<Host, v>>] # NoEntry =>
                         store'[<<Host, v>>].evidence.badge.status # "Active"
      BY <1>1, <2>2 DEF SoloInv, StoreDropped, AllSifted, Indexed, cacheState
    <3>2. "TlogDeterminate" \in Rejection
      BY DEF Rejection
    <3> QED
      BY <2>2, <3>1, <3>2, SoloConcludes DEF Fail
  <2> QED
    BY <2>1, <2>2 DEF IndInv, TypeOK, TlogError
<1> QED
  BY <1>2, <1>3, <1>4, <1>5

LEMMA SoloDane ==
    ASSUME IndInv, SoloInv, SoleCaller, NEW t \in Task,
           DaneLookupFails(t) \/ \E answers \in SUBSET TlsaMatch : DaneReply(t, answers)
    PROVE  SoloInv'
<1>1. /\ UNCHANGED <<cacheState, now, epoch, job, found, fetched>>
      /\ pc'[t] = "idle"
  BY DEF DaneLookupFails, DaneReply, IndInv, TypeOK
<1>2. outcome[t] \in Outcome
  BY DEF IndInv, TypeOK
<1>3. CASE DaneLookupFails(t)
  <2>1. outcome'[t] = [outcome[t] EXCEPT !.kind = "DaneError"]
    BY <1>3 DEF DaneLookupFails, IndInv, TypeOK
  <2>2. outcome'[t].kind # "Verified"
    BY <1>2, <2>1 DEF Outcome
  <2> QED
    BY <1>1, <2>2, SoloQuiet DEF SoloInv, TaskCurrent
<1>4. CASE \E answers \in SUBSET TlsaMatch : DaneReply(t, answers)
  <2>1. PICK answers \in SUBSET TlsaMatch : DaneReply(t, answers)
    BY <1>4
  <2> DEFINE kind == IF DaneAccepts(answers) THEN outcome[t].kind ELSE "DaneError"
  <2>2. outcome'[t] = [outcome[t] EXCEPT !.tlsa = answers, !.kind = kind]
    BY <1>2, <2>1 DEF DaneReply, IndInv, TypeOK, Outcome
  <2>3. outcome'[t].kind = kind /\ outcome'[t].source = outcome[t].source
        /\ outcome'[t].evidence = outcome[t].evidence
    BY <1>2, <2>2 DEF Outcome
  <2> QED
    BY <1>1, <2>3, SoloQuiet DEF SoloInv, TaskCurrent
<1> QED
  BY <1>3, <1>4

LEMMA SoloEnvironment ==
    ASSUME IndInv, SoloInv, Environment
    PROVE  SoloInv'
<1> USE DEF cacheState, world, taskVars
<1>1. CASE \/ \E rs \in SUBSET DnsRecord : PublishDns(rs)
           \/ \E v \in Version, b \in Badge \cup {NoBadge} : PublishBadge(v, b)
  <2>1. /\ UNCHANGED <<cacheState, now, epoch, pc, scan, found, fetched, noted, lastError, outcome>>
        /\ job' = NobodyCalm
    BY <1>1 DEF PublishDns, PublishBadge
  <2>2. \A t \in Task : /\ job'[t].since = job[t].since /\ job'[t].final = job[t].final
                        /\ job'[t].kind = job[t].kind
    BY <2>1 DEF NobodyCalm, IndInv, TypeOK, Job
  <2> QED
    BY <2>1, <2>2 DEF SoloInv, Indexed, StoreCurrent, Current, TaskCurrent, StoreDropped, StaleCovered
<1>2. CASE Tick
  <2>1. now' = now + 1 /\ now \in Nat /\ UNCHANGED <<store, index, epoch, taskVars>>
    BY <1>2, Numbers DEF Tick, IndInv, TypeOK
  <2>2. Indexed' /\ StoreCurrent' /\ \A t \in Task : TaskCurrent(t)' /\ StoreDropped(t)'
    BY <2>1 DEF SoloInv, Indexed, StoreCurrent, Current, TaskCurrent, StoreDropped
  <2>3. \A v \in Version : store[<<Host, v>>] # NoEntry => store[<<Host, v>>].fetchedAt \in Nat
    BY Keys DEF IndInv, TypeOK, Cache!CacheTypeOK, CachedBadge
  <2>4. \A t \in Task : StaleCovered(t)'
    BY <2>1, <2>3, Numbers DEF SoloInv, StaleCovered
  <2> QED
    BY <2>2, <2>4 DEF SoloInv
<1>3. CASE \E v \in Version : Evict(v)
  <2>1. Indexed' /\ Shrinks /\ UNCHANGED <<now, epoch, taskVars>>
    BY <1>3, DropsKeepIndex, DropsShrink DEF Evict, IndInv, TypeOK, SoloInv
  <2>2. StoreCurrent'
    BY <2>1, ShrinkingKeepsCurrent DEF SoloInv
  <2>3. \A t \in Task : TaskCurrent(t)' /\ StoreDropped(t)' /\ StaleCovered(t)'
    BY <2>1 DEF SoloInv, Shrinks, TaskCurrent, Current, StoreDropped, StaleCovered
  <2> QED
    BY <2>1, <2>2, <2>3 DEF SoloInv
<1> QED
  BY <1>1, <1>2, <1>3 DEF Environment

LEMMA SoloStepKeeps ==
    ASSUME SoleCaller PROVE IndInv /\ SoloInv /\ [Next]_vars => SoloInv'
<1> SUFFICES ASSUME IndInv, SoloInv, [Next]_vars PROVE SoloInv'
  OBVIOUS
<1>1. CASE UNCHANGED vars
  BY <1>1 DEF vars, cacheState, world, taskVars, SoloInv, Indexed, StoreCurrent, Current,
     TaskCurrent, StoreDropped, StaleCovered
<1>2. ASSUME NEW t \in Task, Call(t) PROVE SoloInv'
  BY <1>2, SoloBegins DEF Call
<1>3. ASSUME NEW t \in Task, Step(t) PROVE SoloInv'
  <2>1. CASE \/ CacheHit(t) \/ StaleHit(t) \/ CacheMiss(t)
             \/ \E v \in Version : ScanEntry(t, v)
             \/ DnsFound(t) \/ DnsNegative(t) \/ DnsOutage(t) \/ StaleMiss(t)
    BY <2>1, SoloHits, SoloScans, SoloDns, SoloOutage
  <2>2. CASE \/ \E a \in DnsAnswer : DnsReply(t, a)
             \/ \E r \in DnsRecord : \/ FetchReply(t, r, Unavailable)
                                     \/ FetchReply(t, r, TlogAnswer(r))
             \/ JoinAll(t)
    BY <2>2, SoloReplies
  <2>3. CASE \E r \in DnsRecord : \/ SiftUnavailable(t, r) \/ SiftDeterminate(t, r)
                                  \/ SiftBadge(t, r) \/ PrefetchBadge(t, r)
    BY <2>3, SoloSifts
  <2>4. CASE \/ Refresh(t) \/ FinalMismatch(t) \/ TlogFailed(t) \/ PrefetchEnd(t)
             \/ \E answers \in SUBSET TlsaMatch : DaneReply(t, answers)
             \/ DaneLookupFails(t)
    BY <2>4, SoloEnds, SoloDane
  <2> QED
    BY <1>3, <2>1, <2>2, <2>3, <2>4 DEF Step
<1> QED
  BY <1>1, <1>2, <1>3, SoloEnvironment DEF Next

(***************************************************************************)
(* A lone caller's cache holds nothing that verifies from before its last  *)
(* rejection.                                                              *)
(***************************************************************************)
THEOREM SoloInvariant == ASSUME SoleCaller PROVE Spec => [](IndInv /\ SoloInv)
<1>1. Init => IndInv /\ SoloInv
  BY InitInv, SoloInit
<1>2. (IndInv /\ SoloInv) /\ [Next]_vars => (IndInv /\ SoloInv)'
  BY StepKeeps, SoloStepKeeps
<1> QED
  BY <1>1, <1>2, PTL DEF Spec

(***************************************************************************)
(* A rejection sticks for one caller at a time, prefetch and verify mixed  *)
(* in any order, with any versions and records ("Keep rejection sticky     *)
(* across a later outage by removing old state").  The hypothesis is       *)
(* needed: an insertion of a second caller can undo the removal.           *)
(***************************************************************************)
THEOREM RejectionSticks == ASSUME SoleCaller PROVE Spec => []RejectionSticky
<1>1. SoloInv => RejectionSticky
  BY DEF SoloInv, TaskCurrent, RejectionSticky, Accepted
<1> QED
  BY <1>1, SoloInvariant, PTL

LEMMA ConclusionKind ==
    ASSUME TypeOK, NEW t \in Task, NEW kind, NEW source, NEW ev, Conclude(t, kind, source, ev)
    PROVE  outcome'[t].kind = kind
  BY DEF TypeOK, Conclude

\* Under fail-open a verification ends in an outage in two ways: the refresh,
\* whose store is empty, or a stale scan, which has read every entry.
LEMMA OutageIsLast ==
    ASSUME IndInv, SoloInv, NEW t \in Task, Call(t) \/ Step(t),
           FailurePolicy = "FailOpenWithCache", job[t].kind = "verify", pc[t] # "idle",
           pc'[t] = "idle", outcome'[t].kind \in {"DnsOutage", "TlogOutage"}
    PROVE  (pc[t] = "dns" /\ job[t].final) \/ StaleMiss(t)
<1> USE DEF IndInv, TypeOK
<1>1. ~Call(t)
  BY DEF Call, Prefetch, Verify
<1>2. ~CacheHit(t) /\ ~StaleHit(t) /\ ~FinalMismatch(t) /\ ~DnsNegative(t)
  BY ConclusionKind DEF CacheHit, StaleHit, FinalMismatch, DnsNegative, Fail
<1>3. /\ ~CacheMiss(t) /\ ~DnsFound(t) /\ ~JoinAll(t) /\ ~Refresh(t)
      /\ \A v \in Version : ~ScanEntry(t, v)
      /\ \A a \in DnsAnswer : ~DnsReply(t, a)
      /\ \A r \in DnsRecord : \A x : ~FetchReply(t, r, x)
      /\ \A r \in DnsRecord : ~SiftUnavailable(t, r) /\ ~SiftDeterminate(t, r)
                              /\ ~PrefetchBadge(t, r)
  BY DEF CacheMiss, DnsFound, JoinAll, Refresh, ScanEntry, DnsReply, FetchReply,
     SiftUnavailable, SiftDeterminate, PrefetchBadge, IsNext
<1>4. \A r \in DnsRecord : ~SiftBadge(t, r)
  <2> SUFFICES ASSUME NEW r \in DnsRecord, SiftBadge(t, r) PROVE FALSE
    OBVIOUS
  <2>1. CASE KeepSifting(t, r)
    BY <2>1 DEF KeepSifting
  <2>2. CASE Conclude(t, Verdict(fetched[t][r].badge, job[t].cert), "live", fetched[t][r])
    BY <2>2, ConclusionKind DEF Verdict
  <2> QED
    BY <2>1, <2>2 DEF SiftBadge
<1>5. ~TlogFailed(t) /\ ~PrefetchEnd(t)
  <2>1. ~StaleScan(t)
    BY DEF StaleScan
  <2> QED
    BY <2>1, ConclusionKind DEF TlogFailed, PrefetchEnd, AllSifted, Fail
<1>6. ~DaneLookupFails(t) /\ \A answers \in SUBSET TlsaMatch : ~DaneReply(t, answers)
  <2>1. pc[t] = "dane" => outcome[t].kind = "Verified"
    BY DEF TaskInv, AttemptClean
  <2>2. outcome[t] \in Outcome
    OBVIOUS
  <2> QED
    BY <2>1, <2>2 DEF DaneLookupFails, DaneReply, Outcome
<1>7. DnsOutage(t) => pc[t] = "dns" /\ job[t].final
  BY DEF DnsOutage, StaleScan
<1> QED
  BY <1>1, <1>2, <1>3, <1>4, <1>5, <1>6, <1>7 DEF Step

(***************************************************************************)
(* A lone caller's refused fallback had nothing to fall back on: an outage *)
(* is returned only if no resident badge within max_staleness vouches for  *)
(* the certificate (handle_dns_error, handle_ans_error).                   *)
(***************************************************************************)
THEOREM FallbackLosesNothing == ASSUME SoleCaller PROVE Spec => FallbackIsComplete
<1> DEFINE Complete == \A t \in Task :
        /\ FailurePolicy = "FailOpenWithCache"
        /\ job[t].kind = "verify"
        /\ pc[t] # "idle"
        /\ pc'[t] = "idle"
        /\ outcome'[t].kind \in {"DnsOutage", "TlogOutage"}
        => \A v \in Version :
            store[<<Host, v>>] # NoEntry => ~StaleUsable(t, store[<<Host, v>>])
<1>1. IndInv /\ SoloInv /\ Next => Complete
  <2> SUFFICES ASSUME IndInv, SoloInv, Next, NEW t \in Task,
                      FailurePolicy = "FailOpenWithCache", job[t].kind = "verify",
                      pc[t] # "idle", pc'[t] = "idle",
                      outcome'[t].kind \in {"DnsOutage", "TlogOutage"},
                      NEW v \in Version, store[<<Host, v>>] # NoEntry
               PROVE  ~StaleUsable(t, store[<<Host, v>>])
    OBVIOUS
  <2>1. ~Environment
    BY DEF Environment, PublishDns, PublishBadge, Tick, Evict, taskVars
  <2>2. Call(t) \/ Step(t)
    BY <2>1 DEF Next, SoleCaller
  <2>3. StaleMiss(t)
    BY <2>2, OutageIsLast DEF SoloInv, StoreDropped
  <2>4. /\ store[<<Host, v>>] \in CachedBadge
        /\ \A entry \in found[t] : ~StaleUsable(t, entry)
        /\ pc[t] = "stale" /\ scan[t] = {}
    BY <2>3, Keys DEF StaleMiss, IndInv, TypeOK, Cache!CacheTypeOK
  <2>5. now \in Nat /\ store[<<Host, v>>].fetchedAt \in Nat
    BY <2>4, Numbers DEF CachedBadge, IndInv, TypeOK
  <2> QED
    BY <2>4, <2>5, Numbers DEF SoloInv, StaleCovered, StaleUsable
<1>2. (IndInv /\ SoloInv) /\ [Next]_vars => [Complete]_vars
  BY <1>1
<1> QED
  BY <1>2, SoloInvariant, PTL DEF Spec, FallbackIsComplete

=============================================================================
