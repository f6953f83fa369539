-------------------------- MODULE DpopReplay_proofs --------------------------
(***************************************************************************)
(* Proofs about DpopReplay: a proof authenticates at most one request, for *)
(* every number of tasks, proofs and cache sizes.  The clock never goes    *)
(* back and every caller of the cache uses one Skew; both are assumptions  *)
(* of the module.                                                          *)
(***************************************************************************)
EXTENDS DpopReplay, FiniteSetTheorems, TLAPS

\* An expiry lies in its generation, and a generation is BucketWidth long.
LEMMA GenerationBounds ==
    \A e \in Nat : /\ BucketOf(e) \in Nat
                   /\ BucketOf(e) * BucketWidth <= e
                   /\ e < (BucketOf(e) + 1) * BucketWidth
                   /\ (BucketOf(e) + 1) * BucketWidth <= e + BucketWidth
<1>1. TAKE e \in Nat
<1> DEFINE W == BucketWidth
<1>2. W \in Nat \ {0}
  BY CacheAssumption
<1>3. /\ BucketOf(e) \in Nat
      /\ e = W * BucketOf(e) + (e % W)
      /\ e % W \in 0..(W - 1)
  BY <1>2 DEF BucketOf
<1> QED
  BY <1>2, <1>3

\* A proof's fields and expiry are well typed.
LEMMA ProofFields ==
    \A p \in Proof : /\ p.jti \in Jti
                     /\ Exp(p) \in Nat \ {0}
                     /\ BucketOf(Exp(p)) \in Bucket
<1>1. TAKE p \in Proof
<1>2. p.jti \in Jti /\ p.iat \in Nat \ {0}
  BY ProofAssumption
<1>3. Exp(p) \in Nat \ {0}
  BY <1>2, WindowAssumption DEF Exp
<1> QED
  BY <1>2, <1>3 DEF Bucket

\* What Inner::evict leaves: entries whose generation is not over, unchanged.
LEMMA Eviction ==
    ASSUME IndInv
    PROVE  /\ EvictedIndex \in [Jti -> Nat]
           /\ EvictedBuckets \in [Bucket -> SUBSET Jti]
           /\ \A j \in Jti : \/ EvictedIndex[j] = index[j]
                             \/ EvictedIndex[j] = Absent /\ index[j] <= now
           /\ \A j \in Jti : EvictedIndex[j] # Absent =>
                    index[j] = EvictedIndex[j] /\ index[j] + BucketWidth > now
           /\ \A j \in Jti, b \in Bucket :
                j \in EvictedBuckets[b] <=>
                    EvictedIndex[j] # Absent /\ BucketOf(EvictedIndex[j]) = b
<1>1. /\ index \in [Jti -> Nat] /\ buckets \in [Bucket -> SUBSET Jti] /\ now \in Nat
      /\ BucketWidth \in Nat
  BY CacheAssumption DEF IndInv, TypeOK
<1>2. EvictedIndex \in [Jti -> Nat] /\ EvictedBuckets \in [Bucket -> SUBSET Jti]
  BY <1>1 DEF EvictedIndex, EvictedBuckets, Absent
<1>3. ASSUME NEW j \in Jti
      PROVE  \/ EvictedIndex[j] = index[j]
             \/ EvictedIndex[j] = Absent /\ index[j] <= now
  <2>1. CASE \E b \in Bucket : Ripe(b) /\ j \in buckets[b] /\ BucketOf(index[j]) = b
    <3>1. Ripe(BucketOf(index[j])) /\ EvictedIndex[j] = Absent
      BY <2>1 DEF EvictedIndex
    <3>2. index[j] <= now
      BY <3>1, <1>1, GenerationBounds DEF Ripe
    <3> QED
      BY <3>1, <3>2
  <2> QED
    BY <2>1 DEF EvictedIndex
<1>4. ASSUME NEW j \in Jti, index[j] # Absent
      PROVE  /\ BucketOf(index[j]) \in Bucket
             /\ j \in buckets[BucketOf(index[j])]
  <2>1. PICK p \in Proof : Exp(p) = index[j]
    BY <1>4 DEF IndInv, EntriesEarned
  <2> QED
    BY <2>1, <1>4, ProofFields DEF IndInv, Generations
<1>5. ASSUME NEW j \in Jti
      PROVE  EvictedIndex[j] # Absent <=>
                index[j] # Absent /\ ~Ripe(BucketOf(index[j]))
  <2>1. CASE index[j] = Absent
    BY <2>1, <1>3
  <2>2. CASE index[j] # Absent
    BY <2>2, <1>4, <1>1 DEF EvictedIndex
  <2> QED
    BY <2>1, <2>2
<1>6. ASSUME NEW j \in Jti, EvictedIndex[j] # Absent
      PROVE  index[j] = EvictedIndex[j] /\ index[j] + BucketWidth > now
  <2>1. index[j] = EvictedIndex[j]
    BY <1>6, <1>3
  <2>2. ~Ripe(BucketOf(index[j]))
    BY <1>6, <1>5
  <2>3. index[j] + BucketWidth > now
    BY <2>2, <1>1, GenerationBounds DEF Ripe
  <2> QED
    BY <2>1, <2>3
<1>7. ASSUME NEW j \in Jti, NEW b \in Bucket
      PROVE  j \in EvictedBuckets[b] <=>
                EvictedIndex[j] # Absent /\ BucketOf(EvictedIndex[j]) = b
  <2>1. j \in EvictedBuckets[b] <=> j \in buckets[b] /\ ~Ripe(b)
    BY DEF EvictedBuckets
  <2>2. j \in buckets[b] <=> index[j] # Absent /\ BucketOf(index[j]) = b
    BY DEF IndInv, Generations
  <2> QED
    BY <2>1, <2>2, <1>5, <1>6
<1> QED
  BY <1>2, <1>3, <1>6, <1>7

-----------------------------------------------------------------------------
(* The four ways a commit ends *)

\* An eviction alone keeps the invariant.
LEMMA EvictionKeeps ==
    ASSUME IndInv,
           index' = EvictedIndex, buckets' = EvictedBuckets,
           UNCHANGED <<now, uses>>
    PROVE  /\ index' \in [Jti -> Nat]
           /\ buckets' \in [Bucket -> SUBSET Jti]
           /\ UsedIsHeld' /\ NoReplay' /\ Generations' /\ EntriesEarned'
<1>1. /\ index' \in [Jti -> Nat]
      /\ buckets' \in [Bucket -> SUBSET Jti]
      /\ Generations'
  BY Eviction DEF Generations
<1>2. UsedIsHeld'
  <2>1. ASSUME NEW p \in Proof, uses[p] > 0
        PROVE  EvictedIndex[p.jti] = Exp(p) \/ Exp(p) <= now
    <3>1. index[p.jti] = Exp(p) \/ Exp(p) <= now
      BY <2>1 DEF IndInv, UsedIsHeld
    <3> QED
      BY <3>1, Eviction, ProofFields
  <2> QED
    BY <2>1, ProofFields DEF UsedIsHeld, Exp
<1>3. NoReplay'
  BY DEF IndInv, NoReplay
<1>4. EntriesEarned'
  BY Eviction DEF IndInv, EntriesEarned, Exp
<1> QED
  BY <1>1, <1>2, <1>3, <1>4

\* What is left once the lapsed entry of the task's own jti is gone as well.
LEMMA OwnEntryRemoved ==
    ASSUME IndInv, NEW t \in Task
    PROVE  LET j == proof[t].jti IN
           /\ OthersBuckets(t) \in [Bucket -> SUBSET Jti]
           /\ \A k \in Jti, b \in Bucket :
                k \in OthersBuckets(t)[b] <=>
                    k # j /\ EvictedIndex[k] # Absent /\ BucketOf(EvictedIndex[k]) = b
<1> DEFINE j == proof[t].jti
<1>1. proof[t] \in Proof /\ j \in Jti
  BY ProofFields DEF IndInv, TypeOK
<1>2. CASE EvictedIndex[j] = Absent
  BY <1>1, <1>2, Eviction DEF OthersBuckets
<1>3. CASE EvictedIndex[j] # Absent
  <2>1. OthersBuckets(t) = [b \in Bucket |-> IF b = BucketOf(EvictedIndex[j])
                                             THEN EvictedBuckets[b] \ {j}
                                             ELSE EvictedBuckets[b]]
    BY <1>3 DEF OthersBuckets, LeavesBucket
  <2> QED
    BY <2>1, <1>1, Eviction
<1> QED
  BY <1>2, <1>3

\* A jti that is not recorded was accepted, if at all, with proofs that lapsed.
LEMMA UnrecordedLapsed ==
    ASSUME IndInv, NEW t \in Task, ~Recorded(t),
           NEW q \in Proof, q.jti = proof[t].jti, uses[q] > 0
    PROVE  Exp(q) <= now
<1>1. q.jti \in Jti /\ Exp(q) \in Nat /\ now \in Nat
  BY ProofFields DEF IndInv, TypeOK
<1>2. index[q.jti] = Exp(q) \/ Exp(q) <= now
  BY DEF IndInv, UsedIsHeld
<1>3. ~(EvictedIndex[q.jti] > now)
  BY DEF Recorded
<1> QED
  BY <1>1, <1>2, <1>3, Eviction

LEMMA CommitFullKeeps ==
    ASSUME IndInv, NEW t \in Task, CommitFull(t)
    PROVE  IndInv'
<1> DEFINE j == proof[t].jti
<1>1. /\ proof[t] \in Proof /\ j \in Jti
      /\ index' = [EvictedIndex EXCEPT ![j] = Absent]
      /\ buckets' = OthersBuckets(t)
      /\ UNCHANGED <<now, proof, uses>>
      /\ ~Recorded(t)
  BY ProofFields DEF CommitFull, Finish, IndInv, TypeOK
<1>2. TypeOK'
  BY <1>1, Eviction, OwnEntryRemoved
     DEF IndInv, TypeOK, CommitFull, Finish, Absent, Outcome
<1>3. UsedIsHeld'
  <2>1. ASSUME NEW p \in Proof, uses[p] > 0
        PROVE  index'[p.jti] = Exp(p) \/ Exp(p) <= now
    <3>1. CASE p.jti = j
      BY <3>1, <2>1, <1>1, UnrecordedLapsed
    <3>2. CASE p.jti # j
      <4>1. index'[p.jti] = EvictedIndex[p.jti]
        BY <3>2, <1>1, Eviction, ProofFields
      <4>2. index[p.jti] = Exp(p) \/ Exp(p) <= now
        BY <2>1 DEF IndInv, UsedIsHeld
      <4> QED
        BY <4>1, <4>2, Eviction, ProofFields
    <3> QED
      BY <3>1, <3>2
  <2> QED
    BY <2>1, <1>1 DEF UsedIsHeld, Exp
<1>4. NoReplay'
  BY <1>1 DEF IndInv, NoReplay
<1>5. Generations'
  <2>1. ASSUME NEW k \in Jti, NEW b \in Bucket
        PROVE  k \in buckets'[b] <=> index'[k] # Absent /\ BucketOf(index'[k]) = b
    BY <1>1, Eviction, OwnEntryRemoved
  <2> QED
    BY <2>1 DEF Generations, BucketOf, Bucket, Exp
<1>6. EntriesEarned'
  <2>1. ASSUME NEW k \in Jti, index'[k] # Absent
        PROVE  index'[k] = index[k]
    BY <2>1, <1>1, Eviction
  <2> QED
    BY <2>1, <1>1 DEF IndInv, EntriesEarned, Exp
<1> QED
  BY <1>2, <1>3, <1>4, <1>5, <1>6 DEF IndInv

LEMMA CommitStoreKeeps ==
    ASSUME IndInv, NEW t \in Task, CommitStore(t)
    PROVE  IndInv'
<1> DEFINE p == proof[t]
           j == p.jti
<1>1. /\ p \in Proof /\ j \in Jti
      /\ Exp(p) \in Nat \ {0} /\ BucketOf(Exp(p)) \in Bucket
      /\ index' = [EvictedIndex EXCEPT ![j] = Exp(p)]
      /\ buckets' = EntersBucket(OthersBuckets(t), j, Exp(p))
      /\ uses' = [uses EXCEPT ![p] = @ + 1]
      /\ UNCHANGED <<now, proof>>
      /\ ~Recorded(t) /\ ~TooLate(t)
      /\ now \in Nat /\ uses \in [Proof -> Nat]
  BY ProofFields DEF CommitStore, Finish, IndInv, TypeOK
<1>2. \A k \in Jti : index'[k] = IF k = j THEN Exp(p) ELSE EvictedIndex[k]
  BY <1>1, Eviction
<1>3. buckets' = [b \in Bucket |-> IF b = BucketOf(Exp(p))
                                   THEN OthersBuckets(t)[b] \cup {j}
                                   ELSE OthersBuckets(t)[b]]
  BY <1>1 DEF EntersBucket
<1>4. uses[p] = 0
  <2>1. ~(Exp(p) <= now)
    BY <1>1 DEF TooLate
  <2> QED
    BY <2>1, <1>1, UnrecordedLapsed
<1>5. TypeOK'
  <2>1. index' \in [Jti -> Nat]
    BY <1>1, Eviction
  <2>2. buckets' \in [Bucket -> SUBSET Jti]
    BY <1>1, <1>3, OwnEntryRemoved
  <2> QED
    BY <2>1, <2>2, <1>1 DEF IndInv, TypeOK, CommitStore, Finish, Outcome
<1>6. UsedIsHeld'
  <2>1. ASSUME NEW q \in Proof, uses'[q] > 0
        PROVE  index'[q.jti] = Exp(q) \/ Exp(q) <= now
    <3>1. CASE q = p
      BY <3>1, <1>1, <1>2
    <3>2. CASE q # p /\ q.jti = j
      BY <3>2, <2>1, <1>1, UnrecordedLapsed
    <3>3. CASE q # p /\ q.jti # j
      <4>1. uses[q] > 0 /\ index'[q.jti] = EvictedIndex[q.jti]
        BY <3>3, <2>1, <1>1, <1>2, ProofFields
      <4>2. index[q.jti] = Exp(q) \/ Exp(q) <= now
        BY <4>1 DEF IndInv, UsedIsHeld
      <4> QED
        BY <4>1, <4>2, Eviction, ProofFields
    <3> QED
      BY <3>1, <3>2, <3>3
  <2> QED
    BY <2>1, <1>1 DEF UsedIsHeld, Exp
<1>7. NoReplay'
  BY <1>1, <1>4 DEF IndInv, NoReplay
<1>8. Generations'
  <2>1. ASSUME NEW k \in Jti, NEW b \in Bucket
        PROVE  k \in buckets'[b] <=> index'[k] # Absent /\ BucketOf(index'[k]) = b
    <3>1. CASE k = j
      BY <3>1, <1>1, <1>2, <1>3, OwnEntryRemoved DEF Absent
    <3>2. CASE k # j
      BY <3>2, <1>1, <1>2, <1>3, OwnEntryRemoved
    <3> QED
      BY <3>1, <3>2
  <2> QED
    BY <2>1 DEF Generations, BucketOf, Bucket, Exp
<1>9. EntriesEarned'
  <2>1. ASSUME NEW k \in Jti, index'[k] # Absent
        PROVE  \E q \in Proof : q.jti = k /\ Exp(q) = index'[k] /\ uses'[q] > 0
    <3>1. CASE k = j
      BY <3>1, <1>1, <1>2, <1>4
    <3>2. CASE k # j
      <4>1. index'[k] = index[k] /\ index[k] # Absent
        BY <3>2, <2>1, <1>2, Eviction
      <4>2. PICK q \in Proof : q.jti = k /\ Exp(q) = index[k] /\ uses[q] > 0
        BY <4>1 DEF IndInv, EntriesEarned
      <4>3. uses'[q] > 0
        BY <4>2, <1>1
      <4> QED
        BY <4>1, <4>2, <4>3
    <3> QED
      BY <3>1, <3>2
  <2> QED
    BY <2>1, <1>1 DEF EntriesEarned, Exp
<1> QED
  BY <1>5, <1>6, <1>7, <1>8, <1>9 DEF IndInv

-----------------------------------------------------------------------------

(***************************************************************************)
(* Every reachable state satisfies the inductive invariant: an accepted    *)
(* proof is recorded or lapsed, index and generations agree, and only      *)
(* accepted proofs are recorded (check_and_store, evict_expired).          *)
(***************************************************************************)
THEOREM ReplayInvariant == Spec => []IndInv
<1>1. Init => IndInv
  <2> SUFFICES ASSUME Init PROVE IndInv
    OBVIOUS
  <2>1. TypeOK
    BY DEF Init, TypeOK, Outcome, Absent
  <2>2. UsedIsHeld /\ NoReplay /\ Generations /\ EntriesEarned
    BY ProofFields DEF Init, UsedIsHeld, NoReplay, Generations, EntriesEarned
  <2> QED
    BY <2>1, <2>2 DEF IndInv
<1>2. IndInv /\ [Next]_vars => IndInv'
  <2> SUFFICES ASSUME IndInv, [Next]_vars PROVE IndInv'
    OBVIOUS
  <2> DEFINE CacheInv == UsedIsHeld /\ NoReplay /\ Generations /\ EntriesEarned
  <2>1. ASSUME UNCHANGED <<now, cache, uses>> PROVE CacheInv'
    BY <2>1 DEF cache, IndInv, UsedIsHeld, NoReplay, Generations, EntriesEarned,
                Exp, BucketOf, Bucket
  <2>2. ASSUME NEW t \in Task, NEW p \in Proof, Begin(t, p) PROVE IndInv'
    <3>1. TypeOK'
      BY <2>2 DEF Begin, cache, IndInv, TypeOK, Outcome
    <3> QED
      BY <3>1, <2>1, <2>2 DEF Begin, IndInv
  <2>3. ASSUME NEW t \in Task, NEW p \in Proof, BeginStale(t, p) PROVE IndInv'
    <3>1. TypeOK'
      BY <2>3 DEF BeginStale, cache, IndInv, TypeOK, Outcome
    <3> QED
      BY <3>1, <2>1, <2>3 DEF BeginStale, IndInv
  <2>4. ASSUME NEW t \in Task, Abort(t) PROVE IndInv'
    <3>1. TypeOK'
      BY <2>4 DEF Abort, Finish, cache, IndInv, TypeOK, Outcome
    <3> QED
      BY <3>1, <2>1, <2>4 DEF Abort, Finish, IndInv
  <2>5. ASSUME NEW t \in Task, CommitStale(t) PROVE IndInv'
    <3>1. CacheInv' /\ index' \in [Jti -> Nat] /\ buckets' \in [Bucket -> SUBSET Jti]
      BY <2>5, EvictionKeeps DEF CommitStale, Finish
    <3>2. TypeOK'
      BY <3>1, <2>5 DEF CommitStale, Finish, IndInv, TypeOK, Outcome
    <3> QED
      BY <3>1, <3>2 DEF IndInv
  <2>6. ASSUME NEW t \in Task, CommitReplay(t) PROVE IndInv'
    <3>1. CacheInv' /\ index' \in [Jti -> Nat] /\ buckets' \in [Bucket -> SUBSET Jti]
      BY <2>6, EvictionKeeps DEF CommitReplay, Finish
    <3>2. TypeOK'
      BY <3>1, <2>6 DEF CommitReplay, Finish, IndInv, TypeOK, Outcome
    <3> QED
      BY <3>1, <3>2 DEF IndInv
  <2>7. ASSUME EvictExpired PROVE IndInv'
    <3>1. CacheInv' /\ index' \in [Jti -> Nat] /\ buckets' \in [Bucket -> SUBSET Jti]
      BY <2>7, EvictionKeeps DEF EvictExpired
    <3>2. TypeOK'
      BY <3>1, <2>7 DEF EvictExpired, IndInv, TypeOK
    <3> QED
      BY <3>1, <3>2 DEF IndInv
  <2>8. ASSUME Tick PROVE IndInv'
    <3>1. TypeOK'
      BY <2>8 DEF Tick, cache, IndInv, TypeOK
    <3>2. UsedIsHeld'
      <4>1. ASSUME NEW p \in Proof, uses[p] > 0
            PROVE  index[p.jti] = Exp(p) \/ Exp(p) <= now + 1
        BY <4>1, ProofFields DEF IndInv, UsedIsHeld, TypeOK
      <4> QED
        BY <4>1, <2>8 DEF Tick, cache, UsedIsHeld, Exp
    <3>3. NoReplay' /\ Generations' /\ EntriesEarned'
      BY <2>8 DEF Tick, cache, IndInv, NoReplay, Generations, EntriesEarned,
                  Exp, BucketOf, Bucket
    <3> QED
      BY <3>1, <3>2, <3>3 DEF IndInv
  <2>9. CASE UNCHANGED vars
    <3>1. TypeOK'
      BY <2>9 DEF vars, IndInv, TypeOK
    <3> QED
      BY <3>1, <2>1, <2>9 DEF vars, cache, IndInv
  <2> QED
    BY <2>2, <2>3, <2>4, <2>5, <2>6, <2>7, <2>8, <2>9, CommitFullKeeps,
       CommitStoreKeeps DEF Next
<1> QED
  BY <1>1, <1>2, PTL DEF Spec

(***************************************************************************)
(* Single use: no proof authenticates two requests (commit_replay).        *)
(***************************************************************************)
THEOREM SingleUse == Spec => []NoReplay
<1>1. IndInv => NoReplay
  BY DEF IndInv
<1> QED
  BY <1>1, ReplayInvariant, PTL

(***************************************************************************)
(* A rejected request consumes no jti: whatever is recorded was accepted   *)
(* (verify_caller_with_content).                                           *)
(***************************************************************************)
THEOREM RejectionConsumesNothing == Spec => []EntriesEarned
<1>1. IndInv => EntriesEarned
  BY DEF IndInv
<1> QED
  BY <1>1, ReplayInvariant, PTL

(***************************************************************************)
(* A jti is not accepted again while an earlier use of it has not lapsed   *)
(* (check_and_store).                                                      *)
(***************************************************************************)
THEOREM JtiIsHeld == Spec => JtiHeld
<1> DEFINE Held == \A p, q \in Proof :
                    uses'[p] > uses[p] /\ uses[q] > 0 /\ q.jti = p.jti => Exp(q) <= now
<1>1. IndInv /\ [Next]_vars => [Held]_vars
  <2> SUFFICES ASSUME IndInv, [Next]_vars, NEW p \in Proof, NEW q \in Proof,
                      uses'[p] > uses[p], uses[q] > 0, q.jti = p.jti
               PROVE  Exp(q) <= now
    OBVIOUS
  <2>1. uses \in [Proof -> Nat]
    BY DEF IndInv, TypeOK
  <2>2. PICK t \in Task : CommitStore(t)
    BY <2>1 DEF Next, Begin, BeginStale, Abort, Finish, CommitStale, CommitReplay,
                CommitFull, EvictExpired, Tick, vars
  <2>3. p = proof[t] /\ ~Recorded(t)
    BY <2>1, <2>2 DEF CommitStore
  <2> QED
    BY <2>3, UnrecordedLapsed
<1> QED
  BY <1>1, ReplayInvariant, PTL DEF Spec, JtiHeld

(***************************************************************************)
(* A request is refused for want of room only when other entries, none of  *)
(* them lapsed by more than a generation, fill the cache.                  *)
(***************************************************************************)
THEOREM RefusalsAreJustified == Spec => FullWhenBusy
<1> DEFINE Busy(t) == {j \in Jti \ {proof[t].jti} : index[j] + BucketWidth > now}
           Justified == \A t \in Task :
                            FillsUp(t) => Cardinality(Busy(t)) >= MaxEntries
<1>1. IndInv /\ [Next]_vars => [Justified]_vars
  <2> SUFFICES ASSUME IndInv, [Next]_vars, NEW t \in Task, FillsUp(t)
               PROVE  Cardinality(Busy(t)) >= MaxEntries
    OBVIOUS
  <2>1. CommitFull(t)
    BY DEF FillsUp, Next, Begin, BeginStale, Abort, Finish, CommitStale, CommitReplay,
           CommitFull, CommitStore, EvictExpired, Tick, vars, IndInv, TypeOK
  <2>2. IsFiniteSet(Busy(t)) /\ IsFiniteSet(Others(t))
    BY JtiAssumption, FS_Subset DEF Others
  <2>3. Others(t) \subseteq Busy(t)
    BY Eviction DEF Others
  <2>4. Cardinality(Others(t)) <= Cardinality(Busy(t))
    BY <2>2, <2>3, FS_Subset
  <2>5. Cardinality(Others(t)) \in Nat /\ Cardinality(Busy(t)) \in Nat
    BY <2>2, FS_CardinalityType
  <2> QED
    BY <2>1, <2>4, <2>5, CacheAssumption DEF CommitFull
<1> QED
  BY <1>1, ReplayInvariant, PTL DEF Spec, FullWhenBusy
=============================================================================
