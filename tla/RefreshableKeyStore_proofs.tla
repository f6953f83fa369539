--------------------- MODULE RefreshableKeyStore_proofs ---------------------
(***************************************************************************)
(* Proofs about RefreshableKeyStore, for every set of calls and keys, every *)
(* cooldown and every interleaving of on-demand, forced and background     *)
(* refreshes.                                                              *)
(***************************************************************************)
EXTENDS RefreshableKeyStore, TLAPS

\* merge_from yields a map again, keeps every key and covers every kid fetched.
LEMMA MergeFromKeeps ==
    ASSUME NEW ks \in KeySet, NEW fetched \in KeySet
    PROVE  /\ MergeFrom(ks, fetched) \in KeySet
           /\ ks \subseteq MergeFrom(ks, fetched)
           /\ \A kid : HasKid(ks, kid) => HasKid(MergeFrom(ks, fetched), kid)
           /\ \A k \in fetched : HasKid(MergeFrom(ks, fetched), k.kid)
<1> DEFINE m == MergeFrom(ks, fetched)
<1>1. m \subseteq Key
  BY DEF KeySet, MergeFrom
<1>2. ASSUME NEW j \in m, NEW k \in m, j.kid = k.kid
      PROVE  j = k
  BY <1>2 DEF KeySet, MergeFrom, HasKid
<1>3. ks \subseteq m
  BY DEF MergeFrom
<1>4. \A k \in fetched : HasKid(m, k.kid)
  BY DEF MergeFrom, HasKid
<1> QED
  BY <1>1, <1>2, <1>3, <1>4 DEF KeySet, HasKid

\* The actors are distinct from what stands for none of them.
LEMMA Actors == /\ Task \subseteq Actor /\ Background \in Actor
                /\ NoTask \notin Actor /\ Background \notin Task
  BY ActorAssumption DEF Actor

\* Only a task holds the gate.
LEMMA OnDemandIsTask ==
    ASSUME TypeOK, NEW a \in Actor, OnDemand(a)
    PROVE  a \in Task
  BY Actors DEF TypeOK, OnDemand

LEMMA InitInv == Init => IndInv
<1> SUFFICES ASSUME Init PROVE IndInv
  OBVIOUS
<1>1. {} \in KeySet
  BY DEF KeySet
<1>2. TypeOK
  BY <1>1, InitialAssumption, TimeAssumption
     DEF Init, TypeOK, PC, Outcome, Time
<1>3. GateHeldByRefresher /\ RefreshIsVisible /\ StampsInOrder
  BY Actors DEF Init, GateHeldByRefresher, RefreshIsVisible, StampsInOrder, Actor
<1> QED
  BY <1>2, <1>3 DEF IndInv

-----------------------------------------------------------------------------
(* Steps that fetch nothing and merge nothing *)

LEMMA VerifyKeeps ==
    ASSUME IndInv, NEW t \in Task, NEW k \in Key, Verify(t, k)
    PROVE  IndInv'
<1> USE DEF Verify, Return, Forget, storeVars, world, history
<1>1. Verdict(snapshot, k) \in Outcome /\ {} \in KeySet
  BY DEF Verdict, Outcome, KeySet
<1>2. TypeOK'
  BY <1>1, Actors DEF IndInv, TypeOK, PC, Outcome, Time
<1>3. GateHeldByRefresher' /\ RefreshIsVisible' /\ StampsInOrder'
  BY Actors DEF IndInv, TypeOK, GateHeldByRefresher, RefreshIsVisible, StampsInOrder
<1> QED
  BY <1>2, <1>3 DEF IndInv

LEMMA MissKeeps ==
    ASSUME IndInv, NEW t \in Task, NEW k \in Key, Miss(t, k)
    PROVE  IndInv'
<1> USE DEF Miss, storeVars, world, history
<1>1. TypeOK'
  BY Actors DEF IndInv, TypeOK, PC, Outcome, Time
<1>2. GateHeldByRefresher' /\ RefreshIsVisible' /\ StampsInOrder'
  BY Actors DEF IndInv, TypeOK, GateHeldByRefresher, RefreshIsVisible, StampsInOrder
<1> QED
  BY <1>1, <1>2 DEF IndInv

LEMMA RetryKeeps ==
    ASSUME IndInv, NEW t \in Task, Retry(t)
    PROVE  IndInv'
<1> USE DEF Retry, Return, Forget, storeVars, world, history
<1>1. Verdict(snapshot, signer[t]) \in Outcome /\ {} \in KeySet
  BY DEF Verdict, Outcome, KeySet
<1>2. TypeOK'
  BY <1>1, Actors DEF IndInv, TypeOK, PC, Outcome, Time
<1>3. GateHeldByRefresher' /\ RefreshIsVisible' /\ StampsInOrder'
  BY Actors DEF IndInv, TypeOK, GateHeldByRefresher, RefreshIsVisible, StampsInOrder
<1> QED
  BY <1>2, <1>3 DEF IndInv

LEMMA EnterGateKeeps ==
    ASSUME IndInv, NEW t \in Task, EnterGate(t)
    PROVE  IndInv'
<1> USE DEF storeVars, world, history
<1>1. CASE GateRefresh(t)
  <2>1. TypeOK'
    BY <1>1, Actors DEF GateRefresh, IndInv, TypeOK, PC, Outcome, Time
  <2>2. GateHeldByRefresher' /\ RefreshIsVisible' /\ StampsInOrder'
    BY <1>1, Actors DEF GateRefresh, IndInv, TypeOK, GateHeldByRefresher,
                        RefreshIsVisible, StampsInOrder
  <2> QED
    BY <2>1, <2>2 DEF IndInv
<1>2. CASE GateSkip(t)
  <2>1. {} \in KeySet
    BY DEF KeySet
  <2>2. TypeOK'
    BY <1>2, <2>1, Actors DEF GateSkip, Return, Forget, IndInv, TypeOK, PC, Outcome, Time
  <2>3. GateHeldByRefresher' /\ RefreshIsVisible' /\ StampsInOrder'
    BY <1>2, Actors DEF GateSkip, Return, Forget, IndInv, TypeOK, GateHeldByRefresher,
                        RefreshIsVisible, StampsInOrder
  <2> QED
    BY <2>2, <2>3 DEF IndInv
<1> QED
  BY <1>1, <1>2 DEF EnterGate

LEMMA CancelKeeps ==
    ASSUME IndInv, NEW t \in Task, Cancel(t)
    PROVE  IndInv'
<1> USE DEF Cancel, Return, Forget, Released, OnDemand, storeVars, world, history
<1>1. {} \in KeySet
  BY DEF KeySet
<1>2. TypeOK'
  BY <1>1, Actors DEF IndInv, TypeOK, PC, Outcome, Time
<1>3. GateHeldByRefresher' /\ RefreshIsVisible' /\ StampsInOrder'
  BY Actors DEF IndInv, TypeOK, GateHeldByRefresher, RefreshIsVisible, StampsInOrder
<1> QED
  BY <1>2, <1>3 DEF IndInv

\* A forced refresh starts, or the loop wakes up or ends.
LEMMA UngatedKeeps ==
    ASSUME IndInv,
           (\E t \in Task : ForceRefresh(t)) \/ BackgroundWakes \/ StopBackground
    PROVE  IndInv'
<1> USE DEF ForceRefresh, BackgroundWakes, StopBackground, Forget, storeVars, world,
            history
<1>1. {} \in KeySet
  BY DEF KeySet
<1>2. TypeOK'
  <2>1. CASE \E t \in Task : ForceRefresh(t)
    BY <2>1, Actors DEF IndInv, TypeOK, PC, Outcome, Time
  <2>2. CASE BackgroundWakes
    BY <2>2 DEF IndInv, TypeOK, PC
  <2>3. CASE StopBackground
    <3>1. got' \in [Actor -> KeySet] /\ stamp' \in [Actor -> Nat]
      BY <2>3, <1>1 DEF IndInv, TypeOK
    <3>2. pc' \in [Actor -> PC] /\ running' \in BOOLEAN
      BY <2>3 DEF IndInv, TypeOK, PC
    <3> QED
      BY <2>3, <3>1, <3>2 DEF IndInv, TypeOK
  <2> QED
    BY <2>1, <2>2, <2>3
<1>3. GateHeldByRefresher' /\ RefreshIsVisible' /\ StampsInOrder'
  BY Actors DEF IndInv, TypeOK, GateHeldByRefresher, RefreshIsVisible, StampsInOrder
<1> QED
  BY <1>2, <1>3 DEF IndInv

-----------------------------------------------------------------------------
(* do_refresh *)

LEMMA ResolveKeeps ==
    ASSUME IndInv, NEW a \in Actor, Resolve(a)
    PROVE  IndInv'
<1> USE DEF storeVars, world, history
<1>1. CASE FetchReply(a)
  <2>1. TypeOK'
    BY <1>1 DEF FetchReply, IndInv, TypeOK, PC, Outcome, Time
  <2>2. GateHeldByRefresher' /\ RefreshIsVisible' /\ StampsInOrder'
    BY <1>1, Actors, TimeAssumption
       DEF FetchReply, IndInv, TypeOK, GateHeldByRefresher, RefreshIsVisible, StampsInOrder
  <2> QED
    BY <2>1, <2>2 DEF IndInv
<1>2. CASE FetchFails(a)
  <2> USE DEF FetchFails, Fail, Released, OnDemand
  <2>1. gate' \in Task \cup {NoTask}
    BY <1>2 DEF IndInv, TypeOK
  <2>2. /\ outcome' \in [Task -> Outcome]
        /\ signer' \in [Task -> Key \cup {NoKey}]
    BY <1>2 DEF IndInv, TypeOK, Outcome
  <2>3. TypeOK'
    BY <1>2, <2>1, <2>2 DEF IndInv, TypeOK, PC, Time
  <2>4. GateHeldByRefresher' /\ RefreshIsVisible' /\ StampsInOrder'
    BY <1>2, Actors DEF IndInv, TypeOK, GateHeldByRefresher, RefreshIsVisible,
                        StampsInOrder
  <2> QED
    BY <2>3, <2>4 DEF IndInv
<1> QED
  BY <1>1, <1>2 DEF Resolve

LEMMA MergeKeeps ==
    ASSUME IndInv, NEW a \in Actor, Merge(a)
    PROVE  IndInv'
<1> USE DEF storeVars, world, history
<1>1. /\ snapshot \in KeySet /\ got[a] \in KeySet /\ {} \in KeySet
      /\ stamp[a] \in Nat /\ now \in Nat /\ LockWait \in Nat
      /\ lastAnswered \in Time /\ lastRefreshed \in Time
  BY TimeAssumption DEF IndInv, TypeOK, KeySet
<1>2. /\ snapshot' \in KeySet
      /\ \A kid : HasKid(snapshot, kid) => HasKid(snapshot', kid)
      /\ \A k \in got[a] : HasKid(snapshot', k.kid)
  BY <1>1, MergeFromKeeps DEF Merge
<1>3. /\ pc' = [pc EXCEPT ![a] = IF OnDemand(a) THEN "retry" ELSE "idle"]
      /\ IF OnDemand(a) THEN UNCHANGED got ELSE got' = [got EXCEPT ![a] = {}]
      /\ IF OnDemand(a) THEN UNCHANGED stamp ELSE stamp' = [stamp EXCEPT ![a] = 0]
      /\ lastAnswered' = IF OnDemand(a) THEN stamp[a] ELSE lastAnswered
      /\ gate' = IF OnDemand(a) THEN NoTask ELSE gate
      /\ lastRefreshed' = stamp[a]
      /\ UNCHANGED <<now, signer, outcome, running, published, changes, lastAsked>>
  BY DEF Merge, Forget, Released
<1>4. TypeOK'
  <2>0. got \in [Actor -> KeySet] /\ stamp \in [Actor -> Nat] /\ pc \in [Actor -> PC]
    BY DEF IndInv, TypeOK
  <2>1. got' \in [Actor -> KeySet] /\ stamp' \in [Actor -> Nat]
    <3>1. got' \in [Actor -> KeySet]
      BY <1>1, <1>3, <2>0
    <3>2. stamp' \in [Actor -> Nat]
      BY <1>3, <2>0
    <3> QED
      BY <3>1, <3>2
  <2>2. pc' \in [Actor -> PC] /\ gate' \in Task \cup {NoTask}
    <3>1. pc' \in [Actor -> PC]
      BY <1>3, <2>0 DEF PC
    <3>2. gate' \in Task \cup {NoTask}
      BY <1>3 DEF IndInv, TypeOK
    <3> QED
      BY <3>1, <3>2
  <2>3. lastAnswered' \in Time /\ lastRefreshed' \in Time
    BY <1>1, <1>3 DEF Time
  <2> QED
    BY <1>2, <1>3, <2>1, <2>2, <2>3 DEF IndInv, TypeOK
<1>5. GateHeldByRefresher'
  BY <1>3, Actors DEF IndInv, TypeOK, GateHeldByRefresher, OnDemand
<1>6. RefreshIsVisible'
  <2>1. ASSUME NEW t \in Task, NEW k \in Key, pc'[t] = "retry", k \in got'[t]
        PROVE  HasKid(snapshot', k.kid)
    <3>1. CASE t = a
      BY <2>1, <3>1, <1>2, <1>3, Actors DEF IndInv, TypeOK
    <3>2. CASE t # a
      <4>1. pc[t] = "retry" /\ k \in got[t]
        BY <2>1, <3>2, <1>3, Actors DEF IndInv, TypeOK
      <4> QED
        BY <4>1, <1>2 DEF IndInv, RefreshIsVisible
    <3> QED
      BY <3>1, <3>2
  <2> QED
    BY <2>1 DEF RefreshIsVisible
<1>7. StampsInOrder'
  <2>1. stamp[a] <= now /\ now <= stamp[a] + LockWait
    BY DEF Merge, IndInv, StampsInOrder
  <2>2. ASSUME NEW b \in Actor, pc'[b] = "merge"
        PROVE  stamp'[b] <= now' /\ now' <= stamp'[b] + LockWait
    <3>1. b # a /\ pc[b] = "merge" /\ stamp'[b] = stamp[b]
      BY <2>2, <1>3 DEF IndInv, TypeOK
    <3> QED
      BY <3>1, <1>3 DEF IndInv, StampsInOrder
  <2>3. lastRefreshed' # Never
    BY <1>1, <1>3, TimeAssumption
  <2>4. CASE OnDemand(a)
    BY <2>1, <2>2, <2>3, <2>4, <1>1, <1>3 DEF StampsInOrder
  <2>5. CASE ~OnDemand(a)
    <3>1. lastAnswered' = lastAnswered
      BY <2>5, <1>3
    <3>2. lastAnswered # Never => lastAnswered \in Nat /\ lastAnswered <= now
      BY <1>1 DEF IndInv, StampsInOrder, Time
    <3> QED
      BY <3>1, <3>2, <2>1, <2>2, <2>3, <1>1, <1>3 DEF StampsInOrder
  <2> QED
    BY <2>4, <2>5
<1> QED
  BY <1>4, <1>5, <1>6, <1>7 DEF IndInv

\* The TL publishes, the clock ticks, or nothing happens.
LEMMA WorldKeeps ==
    ASSUME IndInv, (\E ks \in KeySet : Publish(ks)) \/ Tick \/ UNCHANGED vars
    PROVE  IndInv'
<1> USE DEF storeVars, world, history, vars
<1>1. TypeOK'
  BY TimeAssumption DEF Publish, Tick, IndInv, TypeOK
<1>2. GateHeldByRefresher' /\ RefreshIsVisible'
  BY DEF Publish, Tick, IndInv, GateHeldByRefresher, RefreshIsVisible
<1>3. StampsInOrder'
  <2>1. CASE Tick
    <3>1. /\ now \in Nat /\ LockWait \in Nat /\ lastAnswered \in Time
          /\ \A a \in Actor : stamp[a] \in Nat
      BY TimeAssumption DEF IndInv, TypeOK
    <3>2. \A a \in Actor : pc[a] = "merge" =>
                stamp[a] <= now + 1 /\ now + 1 <= stamp[a] + LockWait
      BY <2>1, <3>1 DEF Tick, IndInv, StampsInOrder
    <3>3. lastAnswered # Never => lastAnswered <= now + 1
      BY <3>1 DEF IndInv, StampsInOrder, Time
    <3> QED
      BY <2>1, <3>2, <3>3 DEF Tick, IndInv, StampsInOrder
  <2>2. CASE ~Tick
    BY <2>2 DEF Publish, IndInv, StampsInOrder
  <2> QED
    BY <2>1, <2>2
<1> QED
  BY <1>1, <1>2, <1>3 DEF IndInv

-----------------------------------------------------------------------------

(***************************************************************************)
(* Every reachable state is well typed, the gate is held by a refresh in   *)
(* progress, a finished refresh is visible to its caller's retry and       *)
(* last_refreshed never lags by more than the wait for the lock.           *)
(***************************************************************************)
THEOREM KeyStoreInvariant == Spec => []IndInv
<1>1. IndInv /\ [Next]_vars => IndInv'
  BY VerifyKeeps, MissKeeps, RetryKeeps, EnterGateKeeps, CancelKeeps, UngatedKeeps,
     ResolveKeeps, MergeKeeps, WorldKeeps DEF Next
<1> QED
  BY <1>1, InitInv, PTL DEF Spec

(***************************************************************************)
(* refresh_gate is never left locked by a refresh that failed or was       *)
(* cancelled (refresh_if_cooldown_elapsed).                                *)
(***************************************************************************)
THEOREM GateIsReleased == Spec => []GateHeldByRefresher
<1>1. IndInv => GateHeldByRefresher
  BY DEF IndInv
<1> QED
  BY <1>1, KeyStoreInvariant, PTL

(***************************************************************************)
(* No interleaving of refreshes loses or changes a root key (do_refresh,   *)
(* merge_from).                                                            *)
(***************************************************************************)
THEOREM NoKeyIsLost == Spec => KeysKept
<1>1. IndInv /\ [Next]_vars => [snapshot \subseteq snapshot']_vars
  <2> SUFFICES ASSUME IndInv, [Next]_vars PROVE snapshot \subseteq snapshot'
    OBVIOUS
  <2>1. CASE \E a \in Actor : Merge(a)
    BY <2>1, MergeFromKeeps DEF Merge, IndInv, TypeOK
  <2>2. CASE ~ \E a \in Actor : Merge(a)
    BY <2>2 DEF Next, Verify, Miss, Retry, Return, EnterGate, GateRefresh, GateSkip,
                ForceRefresh, Cancel, Resolve, FetchReply, FetchFails, Fail,
                BackgroundWakes, StopBackground, Publish, Tick, storeVars, vars
  <2> QED
    BY <2>1, <2>2
<1> QED
  BY <1>1, KeyStoreInvariant, PTL DEF Spec, KeysKept

(***************************************************************************)
(* On-demand requests follow a successful on-demand refresh by the         *)
(* cooldown, up to the wait for the lock (refresh_if_cooldown_elapsed).    *)
(***************************************************************************)
THEOREM RefreshesAreSpaced == Spec => OnDemandSpaced
<1> DEFINE Spaced == \A t \in Task : Asks(t) /\ lastAnswered # Never =>
                        now + LockWait >= lastAnswered + Cooldown
<1>1. IndInv /\ [Next]_vars => [Spaced]_vars
  <2> SUFFICES ASSUME IndInv, [Next]_vars, NEW t \in Task, Asks(t), lastAnswered # Never
               PROVE  now + LockWait >= lastAnswered + Cooldown
    OBVIOUS
  <2>1. CooledDown
    BY Actors DEF Asks, IndInv, TypeOK, Next, Verify, Miss, Retry, Return, EnterGate,
           GateRefresh, GateSkip, ForceRefresh, Cancel, Resolve, FetchReply, FetchFails,
           Fail, Merge, BackgroundWakes, StopBackground, Publish, Tick, vars
  <2>2. /\ lastRefreshed \in Nat /\ lastAnswered \in Nat /\ now \in Nat
        /\ LockWait \in Nat /\ Cooldown \in Nat
        /\ lastRefreshed # Never /\ lastAnswered <= lastRefreshed + LockWait
    BY TimeAssumption DEF IndInv, TypeOK, StampsInOrder, Time
  <2> QED
    BY <2>1, <2>2 DEF CooledDown
<1> QED
  BY <1>1, KeyStoreInvariant, PTL DEF Spec, OnDemandSpaced

(***************************************************************************)
(* A call whose own refresh brought the kid of its token does not end with *)
(* UnknownKeyId (try_scitt_verification).                                  *)
(***************************************************************************)
THEOREM RetryUsesTheRefresh == Spec => OwnRefreshDecides
<1> DEFINE Decides == \A t \in Task :
                pc[t] = "retry" /\ pc'[t] = "idle" /\ outcome'[t] = "UnknownKeyId"
                    => ~HasKid(got[t], signer[t].kid)
<1>1. IndInv /\ [Next]_vars => [Decides]_vars
  <2> SUFFICES ASSUME IndInv, [Next]_vars, NEW t \in Task, pc[t] = "retry",
                      pc'[t] = "idle", outcome'[t] = "UnknownKeyId"
               PROVE  ~HasKid(got[t], signer[t].kid)
    OBVIOUS
  <2>1. Retry(t)
    BY Actors DEF IndInv, TypeOK, Outcome, Next, Verify, Miss, Retry, Return, EnterGate,
           GateRefresh, GateSkip, ForceRefresh, Cancel, Resolve, FetchReply, FetchFails,
           Fail, Merge, BackgroundWakes, StopBackground, Publish, Tick, vars
  <2>2. Verdict(snapshot, signer[t]) = "UnknownKeyId"
    BY <2>1 DEF Retry, Return, IndInv, TypeOK
  <2>3. ~HasKid(snapshot, signer[t].kid)
    BY <2>2 DEF Verdict
  <2>4. got[t] \subseteq Key
    BY Actors DEF IndInv, TypeOK, KeySet
  <2> QED
    BY <2>3, <2>4 DEF IndInv, RefreshIsVisible, HasKid
<1> QED
  BY <1>1, KeyStoreInvariant, PTL DEF Spec, OwnRefreshDecides
=============================================================================
