----------------------- MODULE ClientVerifier_proofs -----------------------
(***************************************************************************)
(* Proofs about ClientVerifier, for any number of concurrent callers, any  *)
(* versions, certificates, badges and records, any windows and either      *)
(* failure policy, and every interleaving with the registration authority, *)
(* the log, the clock, moka and a ServerVerifier on the same cache.        *)
(***************************************************************************)
EXTENDS ClientVerifier, TLAPS

(***************************************************************************)
(* Constant-level facts                                                    *)
(***************************************************************************)
LEMMA Numbers ==
    /\ DefaultTtl \in Nat /\ DefaultTtl > 0 /\ MaxStaleness \in Nat
    /\ MaxFlight \in Nat /\ MaxTime \in Nat /\ MaxEpoch \in Nat
    /\ MaxChanges \in Nat /\ MaxCalls \in Nat
    /\ 0 \in 0..MaxTime /\ 0 \in 0..MaxEpoch /\ 0 \in 0..MaxChanges /\ 0 \in 0..MaxCalls
    /\ \A v \in Version : v # 0
  BY TimeAssumption, RecordAssumption

LEMMA Replies ==
    /\ {Waiting, NoMatch, Unavailable, Determinate} \subseteq Reply
    /\ DnsRecord \subseteq Reply /\ Evidence \subseteq Reply
    /\ \A x \in DnsRecord \cup Evidence : x \notin {Waiting, NoMatch, Unavailable, Determinate}
    /\ Waiting # NoMatch /\ Waiting # Unavailable /\ Waiting # Determinate
    /\ NoMatch # Unavailable /\ NoMatch # Determinate /\ Unavailable # Determinate
    /\ Failure = {Unavailable, Determinate}
    /\ NoEntry \notin CachedBadge /\ NoBadge \notin Badge
  BY DistinctAssumption, BadgeAssumption DEF Reply, Failure

\* A record has a version, an answer of the TL has none.
LEMMA RecordsAreNotEvidence == \A r \in DnsRecord : r \notin Evidence
<1> SUFFICES ASSUME NEW r \in DnsRecord, r \in Evidence PROVE FALSE
  OBVIOUS
<1>1. r \in [version : Version \cup {0}, agent : Version]
  BY RecordAssumption
<1>2. DOMAIN r = {"version", "agent"}
  BY <1>1
<1>3. DOMAIN r = {"badge", "asOf", "epoch"}
  BY DEF Evidence
<1> QED
  BY <1>2, <1>3

LEMMA RecordFields ==
    \A r \in DnsRecord : r.agent \in Version /\ r.version \in Version \cup {0}
  BY RecordAssumption

LEMMA EvidenceFields ==
    ASSUME NEW ev \in Evidence
    PROVE  /\ ev.badge \in Badge /\ ev.asOf \in 0..MaxTime /\ ev.asOf \in Nat
           /\ ev.epoch \in 0..MaxEpoch /\ ev.epoch \in Nat
  BY Numbers DEF Evidence

LEMMA EntryFields ==
    ASSUME NEW entry \in CachedBadge
    PROVE  entry.evidence \in Evidence /\ entry.fetchedAt \in 0..MaxTime /\ entry.fetchedAt \in Nat
  BY Numbers DEF CachedBadge

LEMMA CertNames == \A c \in Cert : Names[c] \in Version \cup {0}
  BY CertAssumption

LEMMA Jobs ==
    /\ \A c \in Cert, at \in 0..MaxTime, e \in 0..MaxEpoch : NewJob(c, at, e) \in Job
    /\ \A j \in Job : /\ j.cert \in Cert /\ j.began \in 0..MaxTime /\ j.since \in 0..MaxEpoch
                      /\ j.calm \in BOOLEAN /\ j.alone \in BOOLEAN /\ j.final \in BOOLEAN
    /\ (CHOOSE c \in Cert : TRUE) \in Cert
<1>1. (CHOOSE c \in Cert : TRUE) \in Cert
  BY CertAssumption
<1> QED
  BY <1>1 DEF NewJob, Job

LEMMA Keys ==
    /\ \A v \in Version : <<Host, v>> \in Cache!Key
    /\ \A k \in Cache!Key : k[1] = Host /\ k[2] \in Version /\ k = <<Host, k[2]>>
  BY DEF Cache!Key

LEMMA VerdictKinds ==
    \A b, c : Verdict(b, c) \in {"Verified", "InvalidStatus", "FingerprintMismatch",
                                 "HostnameMismatch", "AnsNameMismatch"}
  BY DEF Verdict

-----------------------------------------------------------------------------
(* The cache operations, as the callers use them *)

\* An entry at v, if there is one, as StoreSound wants it.
EntrySound(v) ==
    store[<<Host, v>>] # NoEntry =>
        /\ v \in index[Host]
        /\ Aged(store[<<Host, v>>])
        /\ store[<<Host, v>>].evidence.epoch >= epoch[v]

LEMMA StoreEntries == StoreSound <=> \A v \in Version : EntrySound(v)
  BY DEF StoreSound, EntrySound

\* Each entry is as it was, and indexed if it was, or gone.
Shrinks ==
    \A v \in Version :
        \/ store'[<<Host, v>>] = NoEntry
        \/ /\ store'[<<Host, v>>] = store[<<Host, v>>]
           /\ v \in index[Host] => v \in index'[Host]

LEMMA RemoveShrinks ==
    ASSUME Cache!CacheTypeOK, NEW v \in Version, Cache!Remove(Host, v)
    PROVE  Cache!CacheTypeOK' /\ Shrinks /\ store'[<<Host, v>>] = NoEntry
  BY Keys DEF Cache!CacheTypeOK, Cache!Remove, Cache!Without, Shrinks

LEMMA InvalidateEmpties ==
    ASSUME Cache!CacheTypeOK, StoreSound, Cache!InvalidateFqdn(Host)
    PROVE  /\ Cache!CacheTypeOK' /\ Shrinks
           /\ \A v \in Version : store'[<<Host, v>>] = NoEntry
<1>1. Cache!CacheTypeOK'
  BY DEF Cache!CacheTypeOK, Cache!InvalidateFqdn, Cache!Without
<1>2. \A v \in Version : store'[<<Host, v>>] = NoEntry
  BY Keys DEF Cache!CacheTypeOK, Cache!InvalidateFqdn, Cache!Without, StoreSound
<1> QED
  BY <1>1, <1>2 DEF Shrinks

LEMMA SetIndexShrinks ==
    ASSUME Cache!CacheTypeOK, StoreSound, NEW vs \in SUBSET Version,
           Cache!SetVersionIndex(Host, vs)
    PROVE  Cache!CacheTypeOK' /\ Shrinks
<1>1. Cache!CacheTypeOK'
  BY DEF Cache!CacheTypeOK, Cache!SetVersionIndex, Cache!Without
<1>2. index'[Host] = vs
  BY DEF Cache!CacheTypeOK, Cache!SetVersionIndex
<1>3. ASSUME NEW v \in Version
      PROVE  store'[<<Host, v>>] =
               IF v \in index[Host] \ vs THEN NoEntry ELSE store[<<Host, v>>]
  BY Keys DEF Cache!CacheTypeOK, Cache!SetVersionIndex, Cache!Without
<1> QED
  BY <1>1, <1>2, <1>3 DEF Shrinks, StoreSound

LEMMA InsertAdds ==
    ASSUME Cache!CacheTypeOK, NEW v \in Version, NEW x \in CachedBadge,
           Cache!Insert(Host, v, x)
    PROVE  /\ Cache!CacheTypeOK' /\ store'[<<Host, v>>] = x /\ v \in index'[Host]
           /\ \A w \in Version \ {v} : store'[<<Host, w>>] = store[<<Host, w>>]
           /\ index[Host] \subseteq index'[Host]
  BY Keys DEF Cache!CacheTypeOK, Cache!Insert

\* What is counted as a negative answer about v leaves no entry at v.
LEMMA ShrinkingKeepsStore ==
    ASSUME StoreSound, Shrinks, now' = now,
           \A v \in Version : epoch'[v] = epoch[v] \/ store'[<<Host, v>>] = NoEntry
    PROVE  StoreSound'
  BY DEF StoreSound, Shrinks, Aged

LEMMA UnchangedStore ==
    ASSUME Cache!CacheTypeOK, StoreSound, UNCHANGED <<store, index, now, epoch>>
    PROVE  Cache!CacheTypeOK' /\ StoreSound' /\ Shrinks
  BY DEF Cache!CacheTypeOK, StoreSound, Aged, Shrinks

LEMMA InsertionKeepsStore ==
    ASSUME TypeOK, StoreSound, UNCHANGED <<now, epoch>>,
           NEW v \in Version, NEW ev \in Evidence,
           ev.asOf <= now, now - ev.asOf <= MaxFlight, ev.epoch >= epoch[v],
           Cache!Insert(Host, v, [evidence |-> ev, fetchedAt |-> now])
    PROVE  Cache!CacheTypeOK' /\ StoreSound'
<1> DEFINE x == [evidence |-> ev, fetchedAt |-> now]
<1>1. x \in CachedBadge /\ now \in Nat
  BY Numbers DEF TypeOK, CachedBadge
<1>2. x.evidence = ev /\ x.fetchedAt = now
  OBVIOUS
<1> HIDE DEF x
<1>3. /\ Cache!CacheTypeOK' /\ store'[<<Host, v>>] = x /\ v \in index'[Host]
      /\ \A w \in Version \ {v} : store'[<<Host, w>>] = store[<<Host, w>>]
      /\ index[Host] \subseteq index'[Host]
  BY <1>1, InsertAdds DEF TypeOK, x
<1> QED
  BY <1>1, <1>2, <1>3 DEF StoreSound, Aged

-----------------------------------------------------------------------------
(* Steps of one task *)

\* A step of t leaves the other tasks where they are; it may tell them that
\* they are not alone.
OnlyTask(t) ==
    \A u \in Task \ {t} :
        /\ pc'[u] = pc[u] /\ reply'[u] = reply[u] /\ outcome'[u] = outcome[u]
        /\ job'[u].cert = job[u].cert /\ job'[u].final = job[u].final
        /\ job'[u].began = job[u].began /\ job'[u].since = job[u].since
        /\ job'[u].calm = job[u].calm /\ (job'[u].alone => job[u].alone)

\* A negative answer about v counts only while no other task verifies v.
CountsAlone(t) ==
    \A v \in Version :
        \/ epoch'[v] = epoch[v]
        \/ epoch'[v] >= epoch[v] /\ \A u \in Task \ {t} : ~Busy(u, v)

\* What t adds to the cache is an entry of the version it verifies.
AddsOwn(t) ==
    \A v \in Version :
        \/ store'[<<Host, v>>] \in {store[<<Host, v>>], NoEntry}
        \/ pc[t] # "idle" /\ v = Asked(t)

\* A call goes on, or ends; it does not begin.
GoesOn(t) ==
    pc'[t] # "idle" =>
        /\ pc[t] # "idle" /\ Names[job'[t].cert] = Asked(t)
        /\ job'[t].alone => job[t].alone

LEMMA Typed ==
    ASSUME TypeOK, NEW t \in Task
    PROVE  /\ job[t] \in Job /\ job[t].cert \in Cert /\ Asked(t) \in Version \cup {0}
           /\ job[t].began \in Nat /\ job[t].since \in Nat /\ job[t].since \in 0..MaxEpoch
           /\ reply[t] \in Reply /\ outcome[t] \in Outcome
           /\ pc[t] \in {"idle", "find", "preferred", "fetch", "refresh"}
           /\ now \in Nat /\ now \in 0..MaxTime
           /\ \A v \in Version : /\ epoch[v] \in 0..MaxEpoch /\ epoch[v] \in Nat
                                 /\ store[<<Host, v>>] \in CachedBadge \cup {NoEntry}
  BY Numbers, Jobs, CertNames, Keys DEF TypeOK, Asked, Cache!CacheTypeOK

LEMMA OthersKeep ==
    ASSUME IndInv, TypeOK', NEW t \in Task, UNCHANGED <<now, dns, tlog>>, OnlyTask(t),
           CountsAlone(t), AddsOwn(t)
    PROVE  \A u \in Task \ {t} : TaskInv(u)'
<1> SUFFICES ASSUME NEW u \in Task \ {t} PROVE TaskInv(u)'
  OBVIOUS
<1> USE DEF OnlyTask
<1>1. TaskInv(u) /\ TypeOK
  BY DEF IndInv
<1>2. Asked(u)' = Asked(u)
  BY DEF Asked
<1>3. Placed(u)' /\ VerdictSound(u)'
  BY <1>1 DEF TaskInv, Placed, VerdictSound
<1>4. CallSound(u)'
  <2> SUFFICES ASSUME pc[u] # "idle" PROVE CallSound(u)'
    BY DEF CallSound
  <2>1. Asked(u) \in Version /\ Busy(u, Asked(u)) /\ CallSound(u)
    BY <1>1 DEF TaskInv, CallSound, Busy
  <2>2. epoch'[Asked(u)] = epoch[Asked(u)]
    BY <2>1 DEF CountsAlone
  <2>3. ASSUME job'[u].final, job'[u].alone PROVE store'[<<Host, Asked(u)>>] = NoEntry
    <3>1. store[<<Host, Asked(u)>>] = NoEntry
      BY <2>1, <2>3 DEF CallSound
    <3>2. pc[t] # "idle" => Asked(t) # Asked(u)
      BY <2>3 DEF IndInv, OverlapKnown
    <3> QED
      BY <2>1, <3>1, <3>2 DEF AddsOwn
  <2> QED
    BY <1>2, <2>1, <2>2, <2>3 DEF CallSound
<1>5. Hopeful(u)' = Hopeful(u)
  BY DEF Hopeful, Vouches, Matching
<1>6. OnTrack(u) => OnTrack(u)'
  BY <1>2 DEF OnTrack, Matching
<1> QED
  BY <1>1, <1>3, <1>4, <1>5, <1>6 DEF TaskInv

LEMMA OverlapsStayKnown ==
    ASSUME IndInv, NEW t \in Task, OnlyTask(t), GoesOn(t)
    PROVE  OverlapKnown'
  BY DEF IndInv, OverlapKnown, OnlyTask, GoesOn, Asked

LEMMA TaskStepKeeps ==
    ASSUME IndInv, NEW t \in Task, UNCHANGED <<now, dns, tlog>>, OnlyTask(t),
           CountsAlone(t), AddsOwn(t), GoesOn(t), TypeOK', StoreSound', TaskInv(t)'
    PROVE  IndInv'
  BY OthersKeep, OverlapsStayKnown DEF IndInv

\* A call that returns a sound verdict, and has inserted or left cache entries.
LEMMA ConcludeKeeps ==
    ASSUME IndInv, NEW t \in Task, NEW j \in Job, NEW source \in {"live", "cache", "stale"},
           NEW ev \in Evidence, Conclude(t, j, source, ev),
           UNCHANGED <<now, world, epoch>>, calls' \in 0..MaxCalls,
           Cache!CacheTypeOK', StoreSound', AddsOwn(t),
           ev.asOf <= now, now - ev.asOf <= AgeLimit(source),
           /\ Verdict(ev.badge, j.cert) = "FingerprintMismatch" /\ source # "stale"
           => ev.asOf >= j.began,
           /\ Verdict(ev.badge, j.cert) = "Verified" /\ source \in {"cache", "stale"}
           => ev.epoch >= j.since,
           Hopeful(t)' => Verdict(ev.badge, j.cert) = "Verified" \/ source = "cache"
    PROVE  IndInv'
<1> DEFINE o == [kind |-> Verdict(ev.badge, j.cert), source |-> source,
                 age |-> now - ev.asOf, fetchedInCall |-> ev.asOf >= j.began,
                 outdated |-> ev.epoch < j.since]
           k == [NewJob(j.cert, 0, 0) EXCEPT !.calm = j.calm]
<1>1. /\ ev.asOf \in Nat /\ ev.epoch \in Nat /\ j.began \in Nat /\ j.since \in Nat
      /\ now \in 0..MaxTime /\ now \in Nat
  BY EvidenceFields, Jobs, Numbers DEF IndInv, TypeOK
<1>2. o \in Outcome
  <2>1. now - ev.asOf \in 0..MaxTime
    BY <1>1, Numbers
  <2>2. Verdict(ev.badge, j.cert) \in {"Verified", "InvalidStatus", "FingerprintMismatch",
                                       "HostnameMismatch", "AnsNameMismatch"}
    BY VerdictKinds
  <2>3. (ev.asOf >= j.began) \in BOOLEAN /\ (ev.epoch < j.since) \in BOOLEAN
    BY <1>1
  <2> QED
    BY <2>1, <2>2, <2>3 DEF Outcome
<1>3. k \in Job /\ k.cert = j.cert /\ k.calm = j.calm
  BY Jobs, Numbers DEF NewJob, Job
<1>4. outcome' = [outcome EXCEPT ![t] = o] /\ job' = [job EXCEPT ![t] = k]
  BY DEF Conclude
<1>5. /\ o.kind = Verdict(ev.badge, j.cert) /\ o.source = source /\ o.age = now - ev.asOf
      /\ o.fetchedInCall = (ev.asOf >= j.began) /\ o.outdated = (ev.epoch < j.since)
  OBVIOUS
<1> HIDE DEF o, k
<1>6. TypeOK'
  BY <1>2, <1>3, <1>4, Replies DEF IndInv, TypeOK, Conclude, world
<1>7. /\ pc'[t] = "idle" /\ reply'[t] = Waiting /\ outcome'[t] = o /\ job'[t] = k
      /\ OnlyTask(t)
  BY <1>4 DEF IndInv, TypeOK, OnlyTask, Conclude
<1>8. Placed(t)' /\ CallSound(t)' /\ GoesOn(t)
  BY <1>7, Replies DEF Placed, CallSound, GoesOn
<1>9. VerdictSound(t)'
  <2>1. o.age <= AgeLimit(o.source)
    BY <1>5
  <2>2. o.kind = "FingerprintMismatch" /\ o.source # "stale" => o.fetchedInCall
    BY <1>5
  <2>3. o.kind = "Verified" /\ o.source \in {"cache", "stale"} => ~o.outdated
    <3>1. o.kind = "Verified" /\ o.source \in {"cache", "stale"} => ev.epoch >= j.since
      BY <1>5
    <3>2. ev.epoch >= j.since => ~(ev.epoch < j.since)
      BY <1>1
    <3> QED
      BY <1>5, <3>1, <3>2, Zenon
  <2> QED
    BY <1>7, <2>1, <2>2, <2>3 DEF VerdictSound, AgeLimit
<1>10. Hopeful(t)' => OnTrack(t)'
  BY <1>5, <1>7, Replies DEF OnTrack
<1>11. CountsAlone(t)
  BY DEF CountsAlone
<1> QED
  BY <1>6, <1>7, <1>8, <1>9, <1>10, <1>11, TaskStepKeeps DEF TaskInv, world

\* A call that returns an error, which only what the history tells may cause.
LEMMA FailKeeps ==
    ASSUME IndInv, NEW t \in Task, NEW j \in Job,
           NEW kind \in {"CertError", "DnsError", "TlogError"}, Fail(t, j, kind),
           UNCHANGED <<now, world>>, calls' \in 0..MaxCalls, CountsAlone(t),
           epoch' \in [Version -> 0..MaxEpoch], Cache!CacheTypeOK', StoreSound', AddsOwn(t),
           ~Hopeful(t)'
    PROVE  IndInv'
<1> DEFINE o == [NoOutcome EXCEPT !.kind = kind]
           k == [NewJob(j.cert, 0, 0) EXCEPT !.calm = j.calm]
<1>1. o \in Outcome /\ o.kind = kind /\ o.source = "none"
  BY Numbers DEF NoOutcome, Outcome
<1>2. k \in Job
  BY Jobs, Numbers DEF NewJob, Job
<1>3. outcome' = [outcome EXCEPT ![t] = o] /\ job' = [job EXCEPT ![t] = k]
  BY DEF Fail
<1> HIDE DEF o, k
<1>4. TypeOK'
  BY <1>1, <1>2, <1>3, Replies DEF IndInv, TypeOK, Fail, world
<1>5. pc'[t] = "idle" /\ reply'[t] = Waiting /\ outcome'[t] = o /\ OnlyTask(t)
  BY <1>3 DEF IndInv, TypeOK, OnlyTask, Fail
<1>6. Placed(t)' /\ CallSound(t)' /\ VerdictSound(t)' /\ GoesOn(t)
  BY <1>1, <1>5, Replies DEF Placed, CallSound, VerdictSound, GoesOn
<1> QED
  BY <1>4, <1>5, <1>6, TaskStepKeeps DEF TaskInv, world

LEMMA InitInv == Init => IndInv
<1> SUFFICES ASSUME Init PROVE IndInv
  OBVIOUS
<1> USE DEF Init
<1>1. Cache!CacheTypeOK /\ StoreSound
  BY Keys DEF Cache!CacheInit, Cache!CacheTypeOK, StoreSound
<1>2. NewJob(CHOOSE c \in Cert : TRUE, 0, 0) \in Job /\ NoOutcome \in Outcome
  BY Jobs, Numbers DEF NoOutcome, Outcome
<1>3. TypeOK
  BY <1>1, <1>2, Numbers, Replies DEF TypeOK, TLogs
<1>4. \A t \in Task : Placed(t) /\ CallSound(t) /\ VerdictSound(t) /\ OnTrack(t)
  BY Replies DEF Placed, CallSound, VerdictSound, OnTrack, NoOutcome
<1>5. OverlapKnown
  BY DEF OverlapKnown
<1> QED
  BY <1>1, <1>3, <1>4, <1>5 DEF IndInv, TaskInv

-----------------------------------------------------------------------------
(* One lemma per action: the call *)

LEMMA RejectCertificateKeeps ==
    ASSUME IndInv, NEW t \in Task, NEW c \in Cert, RejectCertificate(t, c),
           calls' \in 0..MaxCalls
    PROVE  IndInv'
<1> DEFINE j == NewJob(c, now, 0)
<1>1. /\ Names[c] = 0 /\ Fail(t, j, "CertError")
      /\ UNCHANGED <<store, index, now, world, epoch>>
  BY DEF RejectCertificate, cacheState
<1>2. j \in Job /\ j.cert = c
  BY Jobs, Numbers DEF IndInv, TypeOK, NewJob
<1> HIDE DEF j
<1>3. Cache!CacheTypeOK' /\ StoreSound' /\ CountsAlone(t) /\ AddsOwn(t)
  BY <1>1, UnchangedStore DEF IndInv, TypeOK, CountsAlone, AddsOwn
<1>4. job'[t].cert = c
  BY <1>1, <1>2 DEF Fail, NewJob, IndInv, TypeOK
<1>5. ~Hopeful(t)'
  BY <1>1, <1>4 DEF Hopeful
<1> QED
  BY <1>1, <1>2, <1>3, <1>5, FailKeeps DEF IndInv, TypeOK

LEMMA StartLookupKeeps ==
    ASSUME IndInv, NEW t \in Task, NEW c \in Cert, pc[t] = "idle", Names[c] # 0,
           NEW l \in {"find", "refresh"},
           StartLookup(t, NewJob(c, now, epoch[Names[c]]), l),
           UNCHANGED <<cacheState, now, world, epoch>>, calls' \in 0..MaxCalls
    PROVE  IndInv'
<1> DEFINE j == NewJob(c, now, epoch[Names[c]])
           v == Names[c]
           rivals == {u \in Task \ {t} : Busy(u, v)}
<1>1. v \in Version
  BY CertNames
<1>2. j \in Job /\ epoch[v] \in Nat
  BY <1>1, Jobs, Typed DEF IndInv
<1>3. j.cert = c /\ ~j.final /\ j.began = now /\ j.since = epoch[v]
  BY DEF NewJob
<1> HIDE DEF j
<1>4. /\ job' = [u \in Task |-> IF u = t THEN [j EXCEPT !.alone = rivals = {}]
                                ELSE [job[u] EXCEPT !.alone = @ /\ u \notin rivals]]
      /\ pc' = [pc EXCEPT ![t] = l] /\ reply' = [reply EXCEPT ![t] = Waiting]
      /\ outcome' = [outcome EXCEPT ![t] = NoOutcome]
  BY <1>3 DEF StartLookup, Goto, j
<1>5. [j EXCEPT !.alone = rivals = {}] \in Job
  BY <1>2 DEF Job
<1>6. \A u \in Task : [job[u] EXCEPT !.alone = @ /\ u \notin rivals] \in Job
  <2> SUFFICES ASSUME NEW u \in Task PROVE [job[u] EXCEPT !.alone = @ /\ u \notin rivals] \in Job
    OBVIOUS
  <2>1. job[u] \in Job /\ (job[u].alone /\ u \notin rivals) \in BOOLEAN
    BY Typed DEF IndInv
  <2> HIDE DEF rivals
  <2> QED
    BY <2>1 DEF Job
<1>7. job' \in [Task -> Job]
  BY <1>4, <1>5, <1>6
<1>8. TypeOK'
  <2>1. NoOutcome \in Outcome
    BY Numbers DEF NoOutcome, Outcome
  <2> QED
    BY <1>4, <1>7, <2>1, Replies DEF IndInv, TypeOK, cacheState, world, Cache!CacheTypeOK
<1>9. /\ pc'[t] = l /\ reply'[t] = Waiting /\ outcome'[t] = NoOutcome
      /\ job'[t].cert = c /\ ~job'[t].final /\ job'[t].began = now
      /\ job'[t].since = epoch[v] /\ (job'[t].alone => rivals = {})
  BY <1>2, <1>3, <1>4 DEF IndInv, TypeOK, Job
<1>10. \A u \in Task \ {t} :
        /\ pc'[u] = pc[u] /\ reply'[u] = reply[u] /\ outcome'[u] = outcome[u]
        /\ job'[u] = [job[u] EXCEPT !.alone = @ /\ u \notin rivals]
  BY <1>4 DEF IndInv, TypeOK
<1>11. ASSUME NEW u \in Task \ {t}
       PROVE  /\ job'[u].cert = job[u].cert /\ job'[u].final = job[u].final
              /\ job'[u].began = job[u].began /\ job'[u].since = job[u].since
              /\ job'[u].calm = job[u].calm
              /\ job'[u].alone => job[u].alone /\ u \notin rivals
  <2>1. job[u] \in Job
    BY Typed DEF IndInv
  <2> HIDE DEF rivals
  <2> QED
    BY <1>10, <2>1 DEF Job
<1>12. OnlyTask(t)
  BY <1>10, <1>11 DEF OnlyTask
<1>13. CountsAlone(t) /\ AddsOwn(t) /\ StoreSound'
  BY UnchangedStore DEF IndInv, TypeOK, CountsAlone, AddsOwn, cacheState
<1>14. \A u \in Task \ {t} : TaskInv(u)'
  BY <1>8, <1>12, <1>13, OthersKeep DEF world
<1>15. TaskInv(t)'
  <2>1. Placed(t)' /\ VerdictSound(t)'
    BY <1>9, Replies DEF Placed, VerdictSound, NoOutcome
  <2>2. CallSound(t)'
    <3>1. now \in Nat /\ epoch' = epoch /\ now' = now
      BY Typed DEF IndInv
    <3>2. Asked(t)' = v
      BY <1>9 DEF Asked
    <3> HIDE DEF v, rivals
    <3> QED
      BY <1>1, <1>2, <1>9, <3>1, <3>2, Replies DEF CallSound
  <2>3. OnTrack(t)'
    BY <1>9 DEF OnTrack
  <2> QED
    BY <2>1, <2>2, <2>3 DEF TaskInv
<1>16. OverlapKnown'
  <2> SUFFICES ASSUME NEW x \in Task, NEW y \in Task, x # y, pc'[x] # "idle",
                      pc'[y] # "idle", Asked(x)' = Asked(y)'
               PROVE  ~job'[x].alone
    BY DEF OverlapKnown
  <2>1. CASE x = t
    <3>1. y \in rivals
      BY <1>9, <1>10, <1>11, <2>1 DEF Busy, Asked
    <3> QED
      BY <1>9, <2>1, <3>1
  <2>2. CASE y = t
    <3>1. x \in rivals
      BY <1>9, <1>10, <1>11, <2>2 DEF Busy, Asked
    <3>2. job'[x].alone => x \notin rivals
      BY <1>11, <2>2
    <3> HIDE DEF rivals
    <3> QED
      BY <3>1, <3>2
  <2>3. CASE x # t /\ y # t
    <3>1. /\ pc[x] # "idle" /\ pc[y] # "idle" /\ Asked(x) = Asked(y)
          /\ job'[x].alone => job[x].alone
      BY <1>10, <1>11, <2>3 DEF Asked
    <3> QED
      BY <3>1 DEF IndInv, OverlapKnown
  <2> QED
    BY <2>1, <2>2, <2>3
<1> QED
  BY <1>8, <1>13, <1>14, <1>15, <1>16 DEF IndInv

LEMMA VerifyKeeps ==
    ASSUME IndInv, NEW t \in Task, NEW c \in Cert, Verify(t, c), calls' \in 0..MaxCalls
    PROVE  IndInv'
<1> DEFINE v == Names[c]
           entry == store[<<Host, v>>]
           j == NewJob(c, now, epoch[v])
<1>1. /\ pc[t] = "idle" /\ v # 0 /\ v \in Version
      /\ UNCHANGED <<cacheState, now, world, epoch>>
  BY CertNames DEF Verify
<1>2. CASE StartLookup(t, j, "find") \/ StartLookup(t, j, "refresh")
  BY <1>1, <1>2, StartLookupKeeps
<1>3. CASE /\ Within(entry, DefaultTtl) /\ Conclude(t, j, "cache", entry.evidence)
           /\ Verdict(entry.evidence.badge, c) # "FingerprintMismatch"
  <2>1. j \in Job /\ j.cert = c /\ j.since = epoch[v] /\ epoch[v] \in Nat /\ now \in Nat
    BY <1>1, Jobs, Typed DEF IndInv, NewJob
  <2>2. entry \in CachedBadge /\ now - entry.fetchedAt < DefaultTtl
    BY <1>1, <1>3, Typed DEF IndInv, Within
  <2>3. Aged(entry) /\ entry.evidence.epoch >= epoch[v]
    BY <1>1, <1>3 DEF IndInv, StoreSound, Within
  <2>4. /\ entry.evidence \in Evidence /\ entry.fetchedAt \in Nat
        /\ entry.evidence.asOf \in Nat
    BY <2>2, EntryFields, EvidenceFields
  <2> DEFINE ev == entry.evidence
  <2>5. ev.asOf <= now /\ now - ev.asOf <= AgeLimit("cache")
    BY <2>1, <2>2, <2>3, <2>4, Numbers DEF AgeLimit, Aged
  <2>6. Cache!CacheTypeOK' /\ StoreSound' /\ AddsOwn(t)
    BY <1>1, UnchangedStore DEF IndInv, TypeOK, cacheState, AddsOwn
  <2> HIDE DEF j, v
  <2> QED
    BY <1>1, <1>3, <2>1, <2>3, <2>4, <2>5, <2>6, ConcludeKeeps
<1> QED
  BY <1>1, <1>2, <1>3 DEF Verify

-----------------------------------------------------------------------------
(* The lookups *)

\* A field of a job that is rewritten leaves a job.
LEMMA JobFields ==
    ASSUME TypeOK, NEW t \in Task
    PROVE  /\ \A b \in BOOLEAN : [job EXCEPT ![t].calm = b] \in [Task -> Job]
           /\ \A e \in 0..MaxEpoch : [job EXCEPT ![t].since = e] \in [Task -> Job]
           /\ [job EXCEPT ![t].final = TRUE] \in [Task -> Job]
<1>1. job \in [Task -> Job] /\ job[t] \in Job
  BY DEF TypeOK
<1>2. ASSUME NEW b \in BOOLEAN PROVE [job EXCEPT ![t].calm = b] \in [Task -> Job]
  <2>1. [job[t] EXCEPT !.calm = b] \in Job
    BY <1>1 DEF Job
  <2> QED
    BY <1>1, <2>1
<1>3. ASSUME NEW e \in 0..MaxEpoch PROVE [job EXCEPT ![t].since = e] \in [Task -> Job]
  <2>1. [job[t] EXCEPT !.since = e] \in Job
    BY <1>1 DEF Job
  <2> QED
    BY <1>1, <2>1
<1>4. [job EXCEPT ![t].final = TRUE] \in [Task -> Job]
  <2>1. [job[t] EXCEPT !.final = TRUE] \in Job
    BY <1>1 DEF Job
  <2> QED
    BY <1>1, <2>1
<1> QED
  BY <1>2, <1>3, <1>4

\* A step of the lookups: the call goes on with what the step found.
LEMMA LookupStepKeeps ==
    ASSUME IndInv, NEW t \in Task, pc[t] # "idle",
           NEW l \in {"find", "preferred", "fetch"}, NEW x \in Reply, NEW b \in BOOLEAN,
           pc' = [pc EXCEPT ![t] = l], reply' = [reply EXCEPT ![t] = x],
           job' = [job EXCEPT ![t].calm = b],
           UNCHANGED <<cacheState, now, world, calls, epoch, outcome>>,
           x = NoMatch => l = "find",
           x \in DnsRecord \cup Evidence => l = "fetch",
           x \in Evidence => x.asOf = now /\ x.epoch = epoch[Asked(t)],
           b => job[t].calm,
           Hopeful(t) /\ b =>
               /\ l = "fetch"
               /\ \/ x \in Matching(Asked(t))
                  \/ x \in Evidence /\ Verdict(x.badge, job[t].cert) = "Verified"
    PROVE  IndInv'
<1>1. TaskInv(t) /\ TypeOK /\ OverlapKnown /\ job[t] \in Job
  BY Typed DEF IndInv
<1>2. job' \in [Task -> Job]
  BY <1>1, JobFields
<1>3. TypeOK'
  BY <1>1, <1>2 DEF TypeOK, cacheState, world, Cache!CacheTypeOK
<1>4. /\ pc'[t] = l /\ reply'[t] = x /\ outcome'[t] = outcome[t]
      /\ job'[t].cert = job[t].cert /\ job'[t].final = job[t].final
      /\ job'[t].began = job[t].began /\ job'[t].since = job[t].since
      /\ job'[t].alone = job[t].alone /\ job'[t].calm = b
  BY <1>1 DEF TypeOK, Job
<1>5. OnlyTask(t) /\ CountsAlone(t) /\ AddsOwn(t) /\ GoesOn(t)
  BY <1>1, <1>4 DEF TypeOK, OnlyTask, CountsAlone, AddsOwn, GoesOn, cacheState, Asked
<1>6. StoreSound'
  BY <1>1, UnchangedStore DEF IndInv, TypeOK, cacheState
<1>7. Placed(t)' /\ VerdictSound(t)'
  BY <1>1, <1>4, Replies, RecordsAreNotEvidence DEF TaskInv, Placed, VerdictSound
<1>8. CallSound(t)'
  <2>1. /\ Asked(t) \in Version /\ job[t].began <= now /\ job[t].since <= epoch[Asked(t)]
        /\ job[t].final /\ job[t].alone => store[<<Host, Asked(t)>>] = NoEntry
    BY <1>1 DEF TaskInv, CallSound
  <2>2. now \in Nat /\ epoch[Asked(t)] \in Nat
    BY <2>1, <1>1, Typed
  <2>3. Asked(t)' = Asked(t)
    BY <1>4 DEF Asked
  <2> QED
    BY <1>4, <2>1, <2>2, <2>3, Numbers DEF CallSound, cacheState
<1>9. Hopeful(t)' => OnTrack(t)'
  <2>1. Hopeful(t)' => Hopeful(t) /\ b
    BY <1>4 DEF Hopeful, Vouches, Matching, world
  <2> QED
    BY <1>4, <2>1 DEF OnTrack, Asked, Matching, world
<1> QED
  BY <1>3, <1>5, <1>6, <1>7, <1>8, <1>9, TaskStepKeeps DEF TaskInv, world

\* A hopeful call has a record to find, and waits until it has it.
LEMMA HopefulWaits ==
    ASSUME IndInv, NEW t \in Task, Hopeful(t)
    PROVE  /\ reply[t] \notin Failure \cup {NoMatch} /\ pc[t] # "preferred"
           /\ pc[t] # "idle" => Matching(Asked(t)) # {} /\ dns # {}
<1>1. OnTrack(t) /\ Placed(t)
  BY DEF IndInv, TaskInv
<1>2. /\ pc[t] \in {"idle", "find", "preferred", "fetch", "refresh"}
      /\ dns \subseteq DnsRecord
  BY Typed DEF IndInv, TypeOK
<1>3. Matching(Asked(t)) \subseteq dns /\ Matching(Asked(t)) # {}
  BY DEF Matching, Hopeful, Asked
<1> QED
  BY <1>1, <1>2, <1>3, Replies DEF OnTrack, Placed

LEMMA AnswerKeeps ==
    ASSUME IndInv, NEW t \in Task, NEW a \in DnsRecord \cup Failure \cup {NoMatch},
           \/ FindReply(t, a)
           \/ PreferredReply(t, a)
    PROVE  IndInv'
<1> DEFINE found == IF pc[t] = "find" THEN Matching(Asked(t)) ELSE Preferred
           l == IF a \in found THEN "fetch" ELSE pc[t]
           b == job[t].calm /\ a # Unavailable
<1>1. pc[t] \in {"find", "preferred"} /\ Answer(t, found, a)
  BY DEF FindReply, PreferredReply
<1>2. found \subseteq DnsRecord
  BY DEF Matching, Preferred, IndInv, TypeOK
<1>3. /\ pc' = [pc EXCEPT ![t] = l] /\ reply' = [reply EXCEPT ![t] = a]
      /\ job' = [job EXCEPT ![t].calm = b]
      /\ UNCHANGED <<cacheState, now, world, calls, epoch, outcome>>
      /\ \/ a \in found
         \/ a = NoMatch /\ pc[t] = "find" /\ found = {}
         \/ a = Unavailable
         \/ a = Determinate /\ dns = {}
  BY <1>1, <1>2, Replies DEF Answer, Goto
<1>4. a \in Reply /\ l \in {"find", "preferred", "fetch"}
  BY <1>1, Replies
<1>5. b \in BOOLEAN /\ (b => job[t].calm /\ a # Unavailable)
  BY Jobs, Typed DEF IndInv
<1>6. ASSUME Hopeful(t), b PROVE l = "fetch" /\ a \in Matching(Asked(t))
  <2>1. pc[t] = "find" /\ Matching(Asked(t)) # {} /\ dns # {}
    BY <1>1, <1>6, HopefulWaits
  <2> QED
    BY <1>3, <1>5, <1>6, <2>1
<1>7. /\ a = NoMatch => l = "find"
      /\ a \in DnsRecord \cup Evidence => l = "fetch"
      /\ a \notin Evidence
  BY <1>2, <1>3, Replies, RecordsAreNotEvidence
<1> HIDE DEF found, l, b
<1>8. a \in Evidence => a.asOf = now /\ a.epoch = epoch[Asked(t)]
  BY <1>7
<1> QED
  BY <1>1, <1>3, <1>4, <1>5, <1>6, <1>7, <1>8, LookupStepKeeps

LEMMA FetchReplyKeeps ==
    ASSUME IndInv, NEW t \in Task, pc[t] = "fetch", reply[t] \in DnsRecord,
           NEW x \in {TlogAnswer(t, reply[t]), Unavailable}, FetchReply(t, x)
    PROVE  IndInv'
<1> DEFINE r == reply[t]
           served == tlog[r.agent]
           ev == [badge |-> served, asOf |-> now, epoch |-> epoch[Asked(t)]]
           b == job[t].calm /\ x = TlogAnswer(t, r)
<1>1. /\ TypeOK /\ TaskInv(t) /\ Asked(t) \in Version
  BY DEF IndInv, TaskInv, CallSound
<1>2. served \in Badge \cup {NoBadge}
  BY <1>1, RecordFields DEF TypeOK
<1>3. served # NoBadge => ev \in Evidence
  BY <1>1, <1>2, Typed DEF Evidence
<1>4. TlogAnswer(t, r) = IF served = NoBadge THEN Determinate
                         ELSE IF served.status = "Unknown" THEN Unavailable ELSE ev
  BY DEF TlogAnswer
<1>5. x \in Failure \/ (x = ev /\ ev \in Evidence)
  BY <1>3, <1>4, Replies
<1>6. ev.badge = served /\ ev.asOf = now /\ ev.epoch = epoch[Asked(t)]
  OBVIOUS
<1>7. ASSUME Hopeful(t), b
      PROVE  x \in Evidence /\ Verdict(x.badge, job[t].cert) = "Verified"
  <2>1. r \in Matching(Asked(t))
    BY <1>1, <1>7, RecordsAreNotEvidence DEF TaskInv, OnTrack
  <2>2. served # NoBadge /\ Verdict(served, job[t].cert) = "Verified"
    BY <1>7, <2>1 DEF Hopeful, Vouches, Asked
  <2>3. served.status = "Active"
    BY <2>2 DEF Verdict
  <2> QED
    BY <1>3, <1>4, <1>6, <1>7, <2>2, <2>3
<1>8. /\ pc' = [pc EXCEPT ![t] = "fetch"] /\ reply' = [reply EXCEPT ![t] = x]
      /\ job' = [job EXCEPT ![t].calm = b]
      /\ UNCHANGED <<cacheState, now, world, calls, epoch, outcome>>
  BY <1>1 DEF FetchReply, TypeOK
<1>9. b \in BOOLEAN /\ (b => job[t].calm)
  BY <1>1, Jobs, Typed
<1>10. x \in Reply /\ x # NoMatch
  BY <1>5, Replies
<1>11. x \in Evidence => x.asOf = now /\ x.epoch = epoch[Asked(t)]
  BY <1>5, <1>6, Replies
<1> HIDE DEF r, ev, b
<1> QED
  BY <1>7, <1>8, <1>9, <1>10, <1>11, LookupStepKeeps

LEMMA CountNegativeSound ==
    ASSUME IndInv, NEW t \in Task, NEW vs, CountNegative(t, vs), pc[t] # "idle"
    PROVE  /\ CountsAlone(t) /\ epoch' \in [Version -> 0..MaxEpoch]
           /\ \A v \in Version :
                /\ epoch'[v] \in Nat /\ epoch'[v] >= epoch[v]
                /\ epoch'[v] # epoch[v] =>
                     v \in vs /\ (v = Asked(t) => job[t].alone)
<1>1. ASSUME NEW v \in Version
      PROVE  /\ epoch[v] \in Nat /\ epoch[v] \in 0..MaxEpoch
             /\ epoch'[v] = IF v \in vs /\ Undisputed(t, v) /\ epoch[v] < MaxEpoch
                            THEN epoch[v] + 1 ELSE epoch[v]
  BY Typed DEF IndInv, CountNegative
<1>2. ASSUME NEW v \in Version, Undisputed(t, v)
      PROVE  \A u \in Task \ {t} : ~Busy(u, v)
  <2>1. CASE v = Asked(t)
    <3>1. job[t].alone
      BY <1>2, <2>1 DEF Undisputed
    <3> QED
      BY <2>1, <3>1 DEF IndInv, OverlapKnown, Busy
  <2>2. CASE v # Asked(t)
    BY <1>2, <2>2 DEF Undisputed
  <2> QED
    BY <2>1, <2>2
<1>3. CountsAlone(t)
  BY <1>1, <1>2 DEF CountsAlone
<1>4. epoch' \in [Version -> 0..MaxEpoch]
  <2>1. epoch' = [v \in Version |-> epoch'[v]]
    BY DEF CountNegative
  <2>2. \A v \in Version : epoch'[v] \in 0..MaxEpoch
    BY <1>1, Numbers
  <2> QED
    BY <2>1, <2>2
<1> QED
  BY <1>1, <1>3, <1>4 DEF Undisputed

\* A negative answer counts against the version only when its entry is gone:
\* dropped here, or by the refresh of a call that has been alone since.
LEMMA NotPublishedKeeps ==
    ASSUME IndInv, NEW t \in Task, NotPublished(t)
    PROVE  IndInv'
<1> DEFINE v == Asked(t)
<1>1. /\ TypeOK /\ StoreSound /\ TaskInv(t) /\ Cache!CacheTypeOK
  BY DEF IndInv, TypeOK
<1>2. /\ pc[t] = "find" /\ v \in Version /\ reply[t] = NoMatch /\ CallSound(t)
  BY <1>1, Typed, Replies DEF NotPublished, TaskInv, Placed, CallSound
<1>3. /\ CountNegative(t, {v}) /\ UNCHANGED <<now, world, calls, outcome>>
      /\ pc' = [pc EXCEPT ![t] = "preferred"] /\ reply' = [reply EXCEPT ![t] = Waiting]
      /\ job' = [job EXCEPT ![t].since = epoch'[v]]
  BY DEF NotPublished, Goto
<1>4. /\ CountsAlone(t) /\ epoch' \in [Version -> 0..MaxEpoch]
      /\ \A w \in Version :
           /\ epoch'[w] \in Nat /\ epoch'[w] >= epoch[w]
           /\ epoch'[w] # epoch[w] => w = v /\ job[t].alone
  BY <1>2, <1>3, CountNegativeSound
<1>5. Cache!CacheTypeOK' /\ Shrinks /\ (~job[t].final => store'[<<Host, v>>] = NoEntry)
  <2>1. CASE job[t].final
    BY <1>1, <2>1 DEF NotPublished, cacheState, Shrinks, Cache!CacheTypeOK
  <2>2. CASE ~job[t].final
    BY <1>1, <1>2, <2>2, RemoveShrinks DEF NotPublished
  <2> QED
    BY <2>1, <2>2
<1>6. job[t].alone => store'[<<Host, v>>] = NoEntry
  BY <1>2, <1>5 DEF CallSound, Shrinks
<1>7. StoreSound'
  BY <1>1, <1>3, <1>4, <1>5, <1>6, ShrinkingKeepsStore
<1>8. job' \in [Task -> Job]
  BY <1>1, <1>2, <1>3, <1>4, JobFields
<1>9. TypeOK'
  BY <1>1, <1>3, <1>4, <1>5, <1>8, Replies DEF TypeOK, world
<1>10. /\ pc'[t] = "preferred" /\ reply'[t] = Waiting /\ outcome'[t] = outcome[t]
       /\ job'[t].cert = job[t].cert /\ job'[t].final = job[t].final
       /\ job'[t].began = job[t].began /\ job'[t].since = epoch'[v]
       /\ job'[t].alone = job[t].alone /\ job'[t].calm = job[t].calm
  BY <1>1, <1>3, Typed DEF TypeOK, Job
<1>11. OnlyTask(t)
  BY <1>1, <1>3 DEF TypeOK, OnlyTask
<1>12. AddsOwn(t) /\ GoesOn(t)
  BY <1>2, <1>5, <1>10 DEF AddsOwn, GoesOn, Shrinks, Asked
<1>13. Placed(t)' /\ VerdictSound(t)'
  BY <1>1, <1>10, Replies DEF TaskInv, Placed, VerdictSound
<1>14. CallSound(t)'
  <2>1. Asked(t)' = v /\ now' = now
    BY <1>3, <1>10 DEF Asked
  <2> QED
    BY <1>2, <1>4, <1>6, <1>10, <2>1, Replies DEF CallSound
<1>15. ~Hopeful(t)'
  <2>1. ~Hopeful(t)
    BY <1>2, HopefulWaits
  <2> QED
    BY <1>3, <1>10, <2>1 DEF Hopeful, Vouches, Matching, world
<1> QED
  BY <1>3, <1>4, <1>7, <1>9, <1>11, <1>12, <1>13, <1>14, <1>15, TaskStepKeeps DEF TaskInv, world

-----------------------------------------------------------------------------
(* The badge, the refresh and the failures *)

LEMMA UseBadgeKeeps ==
    ASSUME IndInv, NEW t \in Task, UseBadge(t)
    PROVE  IndInv'
<1> DEFINE v == Asked(t)
           ev == reply[t]
           j == job[t]
<1>1. /\ TypeOK /\ StoreSound /\ TaskInv(t) /\ ev \in Evidence
      /\ Cache!Insert(Host, v, [evidence |-> ev, fetchedAt |-> now])
      /\ UNCHANGED <<now, world, calls, epoch>>
  BY DEF IndInv, UseBadge
<1>2. /\ pc[t] = "fetch" /\ v \in Version /\ j.began <= ev.asOf /\ ev.asOf <= now
      /\ now - ev.asOf <= MaxFlight /\ ev.epoch >= epoch[v]
      /\ j.since <= epoch[v]
  BY <1>1 DEF TaskInv, Placed, CallSound
<1>3. Cache!CacheTypeOK' /\ StoreSound'
  BY <1>1, <1>2, InsertionKeepsStore
<1>4. \A w \in Version \ {v} : store'[<<Host, w>>] = store[<<Host, w>>]
  BY <1>1, <1>2, Keys DEF Cache!Insert, TypeOK, Cache!CacheTypeOK
<1>5. AddsOwn(t)
  BY <1>2, <1>4 DEF AddsOwn
<1>6. Hopeful(t) => Verdict(ev.badge, j.cert) = "Verified"
  BY <1>1, <1>2, RecordsAreNotEvidence DEF TaskInv, OnTrack, Matching, TypeOK
<1>7. CASE Conclude(t, j, "live", ev)
  <2>1. j \in Job /\ calls' \in 0..MaxCalls /\ AgeLimit("live") = MaxFlight
    BY <1>1, Typed DEF TypeOK, AgeLimit
  <2>2. job'[t].cert = j.cert /\ job'[t].calm = j.calm
    BY <1>1, <1>7 DEF Conclude, TypeOK, NewJob
  <2>3. Hopeful(t)' => Hopeful(t)
    BY <1>1, <2>2 DEF Hopeful, Vouches, Matching, world
  <2>4. ev.asOf \in Nat /\ j.began \in Nat
    BY <1>1, <2>1, EvidenceFields, Typed
  <2> HIDE DEF j, ev
  <2> QED
    BY <1>1, <1>2, <1>3, <1>5, <1>6, <1>7, <2>1, <2>3, <2>4, ConcludeKeeps
<1>8. CASE /\ Verdict(ev.badge, j.cert) = "FingerprintMismatch" /\ ~j.final
           /\ Goto(t, "refresh", Waiting) /\ UNCHANGED <<job, outcome>>
  <2>1. /\ pc'[t] = "refresh" /\ reply'[t] = Waiting /\ job'[t] = j
        /\ outcome'[t] = outcome[t] /\ OnlyTask(t)
    BY <1>1, <1>8 DEF Goto, TypeOK, OnlyTask
  <2>2. TypeOK'
    BY <1>1, <1>3, <1>8, Replies DEF TypeOK, Goto, world
  <2>3. Placed(t)' /\ VerdictSound(t)' /\ GoesOn(t)
    BY <1>1, <1>2, <2>1, Replies DEF TaskInv, Placed, VerdictSound, GoesOn, Asked
  <2>4. CallSound(t)'
    <3>1. Asked(t)' = v
      BY <2>1 DEF Asked
    <3>2. j.began <= now
      BY <1>1, <1>2 DEF TaskInv, CallSound
    <3> QED
      BY <1>1, <1>2, <1>8, <2>1, <3>1, <3>2, Replies DEF CallSound
  <2>5. ~Hopeful(t)'
    <3>1. ~Hopeful(t)
      BY <1>6, <1>8
    <3> QED
      BY <1>1, <2>1, <3>1 DEF Hopeful, Vouches, Matching, world
  <2>6. CountsAlone(t)
    BY <1>1 DEF CountsAlone
  <2> QED
    BY <1>1, <1>3, <1>5, <2>1, <2>2, <2>3, <2>4, <2>5, <2>6, TaskStepKeeps DEF TaskInv, world
<1> QED
  BY <1>7, <1>8 DEF UseBadge

LEMMA RefreshKeeps ==
    ASSUME IndInv, NEW t \in Task, Refresh(t)
    PROVE  IndInv'
<1> DEFINE v == Asked(t)
<1>1. /\ TypeOK /\ StoreSound /\ TaskInv(t) /\ Cache!CacheTypeOK /\ pc[t] = "refresh"
      /\ Cache!Remove(Host, v) /\ UNCHANGED <<now, world, calls, epoch, outcome>>
      /\ pc' = [pc EXCEPT ![t] = "find"] /\ reply' = [reply EXCEPT ![t] = Waiting]
      /\ job' = [job EXCEPT ![t].final = TRUE]
  BY DEF IndInv, TypeOK, Refresh, Goto
<1>2. v \in Version /\ job[t].began <= now /\ job[t].since <= epoch[v]
  BY <1>1 DEF TaskInv, CallSound
<1>3. Cache!CacheTypeOK' /\ Shrinks /\ store'[<<Host, v>>] = NoEntry
  BY <1>1, <1>2, RemoveShrinks
<1>4. StoreSound'
  BY <1>1, <1>3, ShrinkingKeepsStore
<1>5. TypeOK'
  <2>1. job' \in [Task -> Job]
    BY <1>1, JobFields
  <2> QED
    BY <1>1, <1>3, <2>1, Replies DEF TypeOK, world
<1>6. /\ pc'[t] = "find" /\ reply'[t] = Waiting /\ outcome'[t] = outcome[t]
      /\ job'[t].cert = job[t].cert /\ job'[t].began = job[t].began
      /\ job'[t].since = job[t].since /\ job'[t].alone = job[t].alone
      /\ job'[t].calm = job[t].calm
  BY <1>1, Typed DEF TypeOK, Job
<1>7. OnlyTask(t) /\ CountsAlone(t) /\ AddsOwn(t) /\ GoesOn(t)
  BY <1>1, <1>3, <1>6 DEF TypeOK, OnlyTask, CountsAlone, AddsOwn, GoesOn, Shrinks, Asked
<1>8. Placed(t)' /\ VerdictSound(t)' /\ OnTrack(t)'
  BY <1>1, <1>6, Replies DEF TaskInv, Placed, VerdictSound, OnTrack
<1>9. CallSound(t)'
  <2>1. Asked(t)' = v
    BY <1>6 DEF Asked
  <2> QED
    BY <1>1, <1>2, <1>3, <1>6, <2>1, Replies DEF CallSound
<1> QED
  BY <1>1, <1>4, <1>5, <1>7, <1>8, <1>9, TaskStepKeeps DEF TaskInv, world

LEMMA FailureEndsHope ==
    ASSUME IndInv, NEW t \in Task, reply[t] \in Failure, UNCHANGED world,
           job'[t].cert = job[t].cert, job'[t].calm = job[t].calm
    PROVE  ~Hopeful(t) /\ ~Hopeful(t)' /\ pc[t] # "idle"
<1>1. ~Hopeful(t)
  BY HopefulWaits
<1>2. pc[t] # "idle"
  BY Replies DEF IndInv, TaskInv, Placed
<1> QED
  BY <1>1, <1>2 DEF Hopeful, Vouches, Matching, world

LEMMA FailedJob ==
    ASSUME TypeOK, NEW t \in Task, NEW kind, Fail(t, job[t], kind)
    PROVE  job'[t].cert = job[t].cert /\ job'[t].calm = job[t].calm
  BY DEF TypeOK, Fail, NewJob

LEMMA RefusedKeeps ==
    ASSUME IndInv, NEW t \in Task, Refused(t)
    PROVE  IndInv'
<1> DEFINE vs == IF job[t].final THEN {Asked(t)} ELSE Version
<1>1. /\ TypeOK /\ StoreSound /\ TaskInv(t) /\ Cache!CacheTypeOK
      /\ reply[t] \in Failure /\ CountNegative(t, vs)
      /\ Fail(t, job[t], ErrorKind(t)) /\ UNCHANGED <<now, world, calls>>
  BY Replies DEF IndInv, TypeOK, Refused
<1>2. ~Hopeful(t)' /\ pc[t] # "idle"
  BY <1>1, FailedJob, FailureEndsHope
<1>3. CallSound(t) /\ Asked(t) \in Version
  BY <1>1, <1>2 DEF TaskInv, CallSound
<1>4. /\ CountsAlone(t) /\ epoch' \in [Version -> 0..MaxEpoch]
      /\ \A v \in Version :
           epoch'[v] # epoch[v] => v \in vs /\ (v = Asked(t) => job[t].alone)
  BY <1>1, <1>2, CountNegativeSound
<1>5. /\ Cache!CacheTypeOK' /\ Shrinks
      /\ \A v \in Version : epoch'[v] = epoch[v] \/ store'[<<Host, v>>] = NoEntry
  <2>1. CASE job[t].final
    <3>1. UNCHANGED <<store, index>>
      BY <2>1 DEF Refused, cacheState
    <3>2. \A v \in Version : epoch'[v] # epoch[v] => store[<<Host, v>>] = NoEntry
      BY <1>2, <1>3, <1>4, <2>1 DEF CallSound
    <3> QED
      BY <1>1, <3>1, <3>2 DEF Shrinks, Cache!CacheTypeOK
  <2>2. CASE ~job[t].final
    BY <1>1, <2>2, InvalidateEmpties DEF Refused
  <2> QED
    BY <2>1, <2>2
<1>6. StoreSound' /\ AddsOwn(t)
  BY <1>1, <1>5, ShrinkingKeepsStore DEF AddsOwn, Shrinks
<1>7. job[t] \in Job /\ calls' \in 0..MaxCalls /\ ErrorKind(t) \in {"CertError", "DnsError", "TlogError"}
  BY <1>1, Typed DEF TypeOK, ErrorKind
<1> QED
  BY <1>1, <1>2, <1>4, <1>5, <1>6, <1>7, FailKeeps

LEMMA OutageKeeps ==
    ASSUME IndInv, NEW t \in Task, Outage(t)
    PROVE  IndInv'
<1> DEFINE v == Asked(t)
           entry == store[<<Host, v>>]
<1>1. /\ TypeOK /\ StoreSound /\ TaskInv(t) /\ Cache!CacheTypeOK /\ reply[t] \in Failure
      /\ UNCHANGED <<store, index, now, world, calls, epoch>>
  BY Replies DEF IndInv, TypeOK, Outage, cacheState
<1>2. pc[t] # "idle" /\ ~Hopeful(t) /\ v \in Version /\ CallSound(t)
  BY <1>1, HopefulWaits, Replies DEF TaskInv, Placed, CallSound
<1>3. Cache!CacheTypeOK' /\ StoreSound' /\ AddsOwn(t) /\ CountsAlone(t)
  BY <1>1, UnchangedStore DEF AddsOwn, CountsAlone
<1>4. job[t] \in Job /\ calls' \in 0..MaxCalls /\ epoch' \in [Version -> 0..MaxEpoch]
  BY <1>1, Typed DEF TypeOK
<1>5. CASE Fallback(t) /\ Conclude(t, job[t], "stale", entry.evidence)
  <2>1. entry \in CachedBadge /\ now - entry.fetchedAt < MaxStaleness
    BY <1>1, <1>2, <1>5, Typed DEF Fallback, Within
  <2>2. Aged(entry) /\ entry.evidence.epoch >= epoch[v] /\ job[t].since <= epoch[v]
    BY <1>1, <1>2, <1>5 DEF StoreSound, Fallback, Within, CallSound
  <2>3. /\ entry.evidence \in Evidence /\ entry.evidence.asOf \in Nat
        /\ entry.evidence.epoch \in Nat /\ entry.fetchedAt \in Nat
        /\ now \in Nat /\ epoch[v] \in Nat /\ job[t].since \in Nat
    BY <1>1, <1>2, <2>1, EntryFields, EvidenceFields, Typed
  <2> DEFINE ev == entry.evidence
  <2>4. /\ ev.asOf <= now /\ now - ev.asOf <= AgeLimit("stale") /\ ev.epoch >= job[t].since
    BY <2>1, <2>2, <2>3, Numbers DEF AgeLimit, Aged
  <2>5. ~Hopeful(t)'
    <3>1. job'[t].cert = job[t].cert /\ job'[t].calm = job[t].calm
      BY <1>1, <1>5 DEF TypeOK, Conclude, NewJob
    <3> QED
      BY <1>1, <3>1, FailureEndsHope
  <2> HIDE DEF ev
  <2>6. Conclude(t, job[t], "stale", ev) /\ ev \in Evidence
    BY <1>5, <2>3 DEF ev
  <2> QED
    BY <1>1, <1>3, <1>4, <2>4, <2>5, <2>6, ConcludeKeeps
<1>6. CASE Fail(t, job[t], ErrorKind(t))
  <2>1. ~Hopeful(t)'
    BY <1>1, <1>6, FailedJob, FailureEndsHope
  <2>2. ErrorKind(t) \in {"CertError", "DnsError", "TlogError"}
    BY DEF ErrorKind
  <2> QED
    BY <1>1, <1>3, <1>4, <1>6, <2>1, <2>2, FailKeeps
<1> QED
  BY <1>5, <1>6 DEF Outage

-----------------------------------------------------------------------------
(* The environment *)

LEMMA PublishKeeps ==
    ASSUME IndInv, NEW rs \in SUBSET DnsRecord,
           NEW log \in [Version -> Badge \cup {NoBadge}], Publish(rs, log)
    PROVE  IndInv'
<1>1. /\ TypeOK /\ UNCHANGED <<store, index, now, epoch, pc, reply, outcome, calls>>
      /\ job' = [t \in Task |-> [job[t] EXCEPT !.calm = FALSE]]
      /\ dns' = rs /\ tlog' = log /\ changes < MaxChanges /\ changes' = changes + 1
  BY DEF IndInv, Publish, cacheState
<1>2. ASSUME NEW t \in Task
      PROVE  /\ job'[t] \in Job /\ ~job'[t].calm /\ job'[t].cert = job[t].cert
             /\ job'[t].final = job[t].final /\ job'[t].began = job[t].began
             /\ job'[t].since = job[t].since /\ job'[t].alone = job[t].alone
  BY <1>1, Typed DEF Job
<1>3. TypeOK'
  <2>1. job' \in [Task -> Job]
    BY <1>1, <1>2
  <2>2. changes' \in 0..MaxChanges
    BY <1>1, Numbers DEF TypeOK
  <2> QED
    BY <1>1, <2>1, <2>2 DEF TypeOK, Cache!CacheTypeOK
<1>4. StoreSound'
  BY <1>1, UnchangedStore DEF IndInv, TypeOK
<1>5. OverlapKnown'
  BY <1>1, <1>2 DEF IndInv, OverlapKnown, Asked
<1>6. ASSUME NEW t \in Task PROVE TaskInv(t)'
  <2>1. TaskInv(t) /\ Asked(t)' = Asked(t)
    BY <1>2 DEF IndInv, Asked
  <2>2. Placed(t)' /\ VerdictSound(t)'
    BY <1>1, <2>1 DEF TaskInv, Placed, VerdictSound
  <2>3. CallSound(t)'
    BY <1>1, <1>2, <2>1 DEF TaskInv, CallSound
  <2>4. ~Hopeful(t)'
    BY <1>2 DEF Hopeful
  <2> QED
    BY <2>2, <2>3, <2>4 DEF TaskInv
<1> QED
  BY <1>3, <1>4, <1>5, <1>6 DEF IndInv

\* No tick passes over an answer that only needs to be handled, and at most
\* MaxFlight over a badge.
LEMMA TickKeeps ==
    ASSUME IndInv, Tick
    PROVE  IndInv'
<1>1. /\ TypeOK /\ UNCHANGED <<store, index, dns, tlog, changes, calls, epoch, pc, job,
                               reply, outcome>>
      /\ now' = now + 1 /\ now < MaxTime /\ now \in Nat
  BY Numbers DEF IndInv, TypeOK, Tick, cacheState, world
<1>2. TypeOK'
  <2>1. now' \in 0..MaxTime
    BY <1>1, Numbers
  <2> QED
    BY <1>1, <2>1 DEF TypeOK, Cache!CacheTypeOK
<1>3. StoreSound'
  <2> SUFFICES ASSUME NEW v \in Version, store[<<Host, v>>] # NoEntry
               PROVE  store[<<Host, v>>].fetchedAt <= now'
    BY <1>1 DEF IndInv, StoreSound, Aged
  <2>1. store[<<Host, v>>].fetchedAt \in Nat /\ store[<<Host, v>>].fetchedAt <= now
    BY <1>1, Typed, EntryFields DEF IndInv, StoreSound, Aged, TypeOK, Cache!CacheTypeOK, Cache!Key
  <2> QED
    BY <1>1, <2>1
<1>4. OverlapKnown'
  BY <1>1 DEF IndInv, OverlapKnown, Asked
<1>5. ASSUME NEW t \in Task PROVE TaskInv(t)'
  <2>1. TaskInv(t) /\ Asked(t)' = Asked(t)
    BY <1>1 DEF IndInv, Asked
  <2>2. Placed(t)' /\ VerdictSound(t)'
    BY <1>1, <2>1 DEF TaskInv, Placed, VerdictSound
  <2>3. CallSound(t)'
    <3> SUFFICES ASSUME pc[t] # "idle" PROVE CallSound(t)'
      BY <1>1 DEF CallSound
    <3>1. CallSound(t) /\ job[t].began \in Nat
      BY <1>1, <2>1, Typed DEF TaskInv
    <3>2. job[t].began <= now'
      BY <1>1, <3>1 DEF CallSound
    <3>3. ASSUME reply[t] \in Evidence
          PROVE  reply[t].asOf <= now' /\ now' - reply[t].asOf <= MaxFlight
      <4>1. /\ reply[t].asOf \in Nat /\ reply[t].asOf <= now
            /\ now - reply[t].asOf < MaxFlight
        BY <3>1, <3>3, EvidenceFields DEF CallSound, Tick
      <4> QED
        BY <1>1, <4>1, Numbers
    <3> QED
      BY <1>1, <2>1, <3>1, <3>2, <3>3 DEF CallSound
  <2>4. Hopeful(t)' = Hopeful(t) /\ (OnTrack(t) => OnTrack(t)')
    BY <1>1, <2>1 DEF Hopeful, Vouches, Matching, OnTrack
  <2> QED
    BY <2>1, <2>2, <2>3, <2>4 DEF TaskInv
<1> QED
  BY <1>2, <1>3, <1>4, <1>5 DEF IndInv

LEMMA DropKeeps ==
    ASSUME IndInv, Drop
    PROVE  IndInv'
<1>1. /\ TypeOK /\ StoreSound /\ Cache!CacheTypeOK
      /\ UNCHANGED <<now, dns, tlog, changes, calls, epoch, pc, job, reply, outcome>>
  BY DEF IndInv, TypeOK, Drop, world
<1>2. {r.version : r \in dns} \ {0} \in SUBSET Version
  BY <1>1, RecordFields DEF TypeOK
<1>3. Cache!CacheTypeOK' /\ Shrinks
  BY <1>1, <1>2, RemoveShrinks, InvalidateEmpties, SetIndexShrinks DEF Drop
<1>4. TypeOK' /\ StoreSound'
  BY <1>1, <1>3, ShrinkingKeepsStore DEF TypeOK
<1>5. OverlapKnown'
  BY <1>1 DEF IndInv, OverlapKnown, Asked
<1>6. ASSUME NEW t \in Task PROVE TaskInv(t)'
  <2>1. TaskInv(t) /\ Asked(t)' = Asked(t)
    BY <1>1 DEF IndInv, Asked
  <2>2. Placed(t)' /\ VerdictSound(t)'
    BY <1>1, <2>1 DEF TaskInv, Placed, VerdictSound
  <2>3. CallSound(t)'
    BY <1>1, <1>3, <2>1 DEF TaskInv, CallSound, Shrinks
  <2>4. Hopeful(t)' = Hopeful(t) /\ (OnTrack(t) => OnTrack(t)')
    BY <1>1, <2>1 DEF Hopeful, Vouches, Matching, OnTrack
  <2> QED
    BY <2>1, <2>2, <2>3, <2>4 DEF TaskInv
<1> QED
  BY <1>4, <1>5, <1>6 DEF IndInv

-----------------------------------------------------------------------------
(* The theorems *)

LEMMA StutterKeeps ==
    ASSUME IndInv, UNCHANGED vars PROVE IndInv'
<1>1. UNCHANGED <<store, index, now, dns, tlog, changes, calls, epoch, pc, job, reply, outcome>>
  BY DEF vars, cacheState, world
<1>2. TypeOK' /\ StoreSound' /\ OverlapKnown'
  BY <1>1 DEF IndInv, TypeOK, Cache!CacheTypeOK, StoreSound, Aged, OverlapKnown, Asked
<1>3. ASSUME NEW t \in Task PROVE TaskInv(t)'
  <2>1. TaskInv(t) /\ Asked(t)' = Asked(t)
    BY <1>1 DEF IndInv, Asked
  <2> QED
    BY <1>1, <2>1 DEF TaskInv, Placed, VerdictSound, CallSound, Hopeful, Vouches, Matching, OnTrack
<1> QED
  BY <1>2, <1>3 DEF IndInv

LEMMA StepKeeps == IndInv /\ [Next]_vars => IndInv'
<1> SUFFICES ASSUME IndInv, [Next]_vars PROVE IndInv'
  OBVIOUS
<1>1. CASE UNCHANGED vars
  BY <1>1, StutterKeeps
<1>2. ASSUME NEW t \in Task, Call(t) PROVE IndInv'
  <2>1. calls' \in 0..MaxCalls
    BY <1>2, Numbers DEF Call, IndInv, TypeOK
  <2> QED
    BY <1>2, <2>1, RejectCertificateKeeps, VerifyKeeps DEF Call
<1>3. ASSUME NEW t \in Task, Step(t) PROVE IndInv'
  BY <1>3, AnswerKeeps, NotPublishedKeeps, FetchReplyKeeps, UseBadgeKeeps, RefreshKeeps,
     RefusedKeeps, OutageKeeps DEF Step, FetchReply
<1>4. CASE Environment
  <2>1. \A rs \in SUBSET DnsRecord : Publish(rs, tlog) => IndInv'
    BY PublishKeeps DEF IndInv, TypeOK
  <2>2. \A log \in TLogs : Publish(dns, log) => IndInv'
    BY PublishKeeps DEF IndInv, TypeOK, TLogs
  <2> QED
    BY <1>4, <2>1, <2>2, TickKeeps, DropKeeps DEF Environment
<1> QED
  BY <1>1, <1>2, <1>3, <1>4 DEF Next

(***************************************************************************)
(* The inductive invariant holds of every behaviour of verify: what is     *)
(* cached is indexed, of bounded age and no older than the last undisputed *)
(* negative answer; what a call has fetched is its own and recent; and     *)
(* overlapping calls for one version know of each other.                   *)
(***************************************************************************)
THEOREM ClientInvariant == Spec => []IndInv
  BY InitInv, StepKeeps, PTL DEF Spec

(***************************************************************************)
(* Every variable keeps its type: keys of the cache are versions, ages do  *)
(* not become negative, replies are answers, failures or records.          *)
(***************************************************************************)
THEOREM ClientTypes == Spec => []TypeOK
<1>1. IndInv => TypeOK
  BY DEF IndInv
<1> QED
  BY <1>1, ClientInvariant, PTL

(***************************************************************************)
(* A verdict rests on a badge the TL served within the window of its       *)
(* source: default_ttl for the cache, max_staleness for the fallback       *)
(* (find_badge_for_version, handle_tlog_error).                            *)
(***************************************************************************)
THEOREM EvidenceIsRecent == Spec => []EvidenceAgeBounded
<1>1. IndInv => EvidenceAgeBounded
  BY DEF IndInv, TaskInv, VerdictSound, EvidenceAgeBounded
<1> QED
  BY <1>1, ClientInvariant, PTL

(***************************************************************************)
(* A fingerprint mismatch outside the fallback rests on a badge fetched    *)
(* during the call, however many callers fill the cache meanwhile          *)
(* (verify_client_with_refresh).                                           *)
(***************************************************************************)
THEOREM MismatchesAreFresh == Spec => []MismatchIsFresh
<1>1. IndInv => MismatchIsFresh
  BY DEF IndInv, TaskInv, VerdictSound, MismatchIsFresh
<1> QED
  BY <1>1, ClientInvariant, PTL

(***************************************************************************)
(* What was published before an undisputed negative answer about a version *)
(* is not accepted from the cache or the fallback by calls that begin      *)
(* after it, nor by the call that got it, with any number of callers       *)
(* ("Do not keep its old positive state if a subsequent lookup times       *)
(* out").                                                                  *)
(***************************************************************************)
THEOREM NegativeAnswersStick == Spec => []RejectionSticky
<1>1. IndInv => RejectionSticky
  BY DEF IndInv, TaskInv, VerdictSound, RejectionSticky
<1> QED
  BY <1>1, ClientInvariant, PTL

(***************************************************************************)
(* A certificate that every record of its version vouches for is accepted  *)
(* by a call during which nothing changes or fails, whichever record the   *)
(* lookup takes and whatever the other callers do, unless the cache        *)
(* answered.                                                               *)
(***************************************************************************)
THEOREM VouchedCertificatesAccepted == Spec => []VouchedIsAccepted
<1>1. IndInv => VouchedIsAccepted
  <2> SUFFICES ASSUME IndInv, NEW t \in Task, Done(t), job[t].calm,
                      outcome[t].source # "cache", Names[job[t].cert] # 0,
                      Matching(Names[job[t].cert]) # {},
                      \A r \in Matching(Names[job[t].cert]) : Vouches(r, job[t].cert)
               PROVE  outcome[t].kind = "Verified"
    BY DEF VouchedIsAccepted
  <2>1. OnTrack(t)
    BY DEF IndInv, TaskInv, Hopeful
  <2> QED
    BY <2>1 DEF Done, OnTrack
<1> QED
  BY <1>1, ClientInvariant, PTL

=============================================================================
