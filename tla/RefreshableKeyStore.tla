------------------------ MODULE RefreshableKeyStore ------------------------
(***************************************************************************)
(* RefreshableKeyStore (crates/ans-verify/src/scitt): the root keys of the *)
(* transparency log (TL), refreshed by a background loop, by the           *)
(* application and, on an unknown key id, by the verification calls of     *)
(* try_scitt_verification themselves, behind a gate and a cooldown.        *)
(***************************************************************************)
EXTENDS Naturals, FiniteSets

CONSTANTS
    Task,         \* concurrent verification calls
    Background,   \* the background refresh loop
    Key,          \* root keys: a kid and key material
    InitialKeys,  \* the keys the store was built with
    NoTask, NoKey, Never,
    Cooldown,     \* on_demand_cooldown_secs
    LockWait,     \* ticks a fetched answer may wait for the write lock
    MaxTime, MaxChanges   \* bounds of the model

ASSUME ActorAssumption ==
    Background \notin Task /\ NoTask \notin Task \cup {Background}
ASSUME KeyAssumption == NoKey \notin Key
ASSUME TimeAssumption ==
    /\ Cooldown \in Nat /\ LockWait \in Nat /\ MaxTime \in Nat /\ MaxChanges \in Nat
    /\ Never \notin Nat

Actor == Task \cup {Background}

\* At most one key for each kid, as in a map keyed by kid.
KeySet == {ks \in SUBSET Key : \A j, k \in ks : j.kid = k.kid => j = k}

ASSUME InitialAssumption == InitialKeys \in KeySet

HasKid(ks, kid) == \E k \in ks : k.kid = kid

VARIABLES
    now,           \* the clock, in seconds
    snapshot,      \* the current key snapshot
    lastRefreshed, \* when the last refresh succeeded, or Never
    gate,          \* holder of refresh_gate, or NoTask
    pc,            \* actor -> where it is
    signer,        \* task -> the key that signed its token, or NoKey when done
    got, stamp,    \* actor -> its last fetch: the keys and when they came
    outcome,       \* task -> its last result
    running,       \* the background handle is alive
    published,     \* the keys the TL serves, the first line of each kid
    changes,       \* publications so far
    lastAsked,     \* history: start of the last on-demand fetch, or Never
    lastAnswered   \* history: stamp of the last on-demand refresh merged

storeVars == <<snapshot, lastRefreshed>>
world == <<published, changes>>
history == <<lastAsked, lastAnswered>>
vars == <<now, snapshot, lastRefreshed, gate, pc, signer, got, stamp,
          outcome, running, published, changes, lastAsked, lastAnswered>>

PC == {"idle", "gate", "fetch", "merge", "retry"}
Outcome == {"None", "Verified", "BadSignature", "UnknownKeyId"}
Time == Nat \cup {Never}

TypeOK ==
    /\ now \in Nat
    /\ snapshot \in KeySet
    /\ lastRefreshed \in Time
    /\ gate \in Task \cup {NoTask}
    /\ pc \in [Actor -> PC]
    /\ signer \in [Task -> Key \cup {NoKey}]
    /\ got \in [Actor -> KeySet]
    /\ stamp \in [Actor -> Nat]
    /\ outcome \in [Task -> Outcome]
    /\ running \in BOOLEAN
    /\ published \in KeySet
    /\ changes \in 0..MaxChanges
    /\ lastAsked \in Time
    /\ lastAnswered \in Time

Init ==
    /\ now = 0
    /\ snapshot = InitialKeys
    /\ lastRefreshed = Never
    /\ gate = NoTask
    /\ pc = [a \in Actor |-> "idle"]
    /\ signer = [t \in Task |-> NoKey]
    /\ got = [a \in Actor |-> {}]
    /\ stamp = [a \in Actor |-> 0]
    /\ outcome = [t \in Task |-> "None"]
    /\ running = TRUE
    /\ published \in KeySet
    /\ changes = 0
    /\ lastAsked = Never
    /\ lastAnswered = Never

-----------------------------------------------------------------------------
(* Verification of a token under a snapshot *)

Verdict(ks, k) ==
    IF k \in ks THEN "Verified"
    ELSE IF HasKid(ks, k.kid) THEN "BadSignature"
    ELSE "UnknownKeyId"

Forget(a) ==
    /\ got' = [got EXCEPT ![a] = {}]
    /\ stamp' = [stamp EXCEPT ![a] = 0]

Return(t, o) ==
    /\ pc' = [pc EXCEPT ![t] = "idle"]
    /\ outcome' = [outcome EXCEPT ![t] = o]
    /\ signer' = [signer EXCEPT ![t] = NoKey]
    /\ Forget(t)

\* The first attempt decides.
Verify(t, k) ==
    /\ pc[t] = "idle"
    /\ Verdict(snapshot, k) # "UnknownKeyId"
    /\ Return(t, Verdict(snapshot, k))
    /\ UNCHANGED <<now, storeVars, gate, running, world, history>>

\* The first attempt meets an unknown kid: refresh_if_cooldown_elapsed.
Miss(t, k) ==
    /\ pc[t] = "idle"
    /\ Verdict(snapshot, k) = "UnknownKeyId"
    /\ pc' = [pc EXCEPT ![t] = "gate"]
    /\ signer' = [signer EXCEPT ![t] = k]
    /\ outcome' = [outcome EXCEPT ![t] = "None"]
    /\ UNCHANGED <<now, storeVars, gate, got, stamp, running, world, history>>

\* Mutant: the retry runs under the snapshot of the first attempt.
RetryUnderOldSnapshot(t) ==
    /\ pc[t] = "retry"
    /\ Return(t, "UnknownKeyId")
    /\ UNCHANGED <<now, storeVars, gate, running, world, history>>

\* The only retry, under the refreshed snapshot.
Retry(t) ==
    /\ pc[t] = "retry"
    /\ Return(t, Verdict(snapshot, signer[t]))
    /\ UNCHANGED <<now, storeVars, gate, running, world, history>>

-----------------------------------------------------------------------------
(* refresh_if_cooldown_elapsed: the gate and, under it, the cooldown *)

CooledDown == lastRefreshed # Never => now - lastRefreshed >= Cooldown

\* Mutant: the cooldown is checked before the gate is waited for.
GateRefreshUnchecked(t) ==
    /\ pc[t] = "gate" /\ gate = NoTask
    /\ gate' = t
    /\ pc' = [pc EXCEPT ![t] = "fetch"]
    /\ lastAsked' = now
    /\ UNCHANGED <<now, storeVars, signer, got, stamp, outcome, running, world,
                   lastAnswered>>

GateRefresh(t) ==
    /\ pc[t] = "gate" /\ gate = NoTask
    /\ CooledDown
    /\ gate' = t
    /\ pc' = [pc EXCEPT ![t] = "fetch"]
    /\ lastAsked' = now
    /\ UNCHANGED <<now, storeVars, signer, got, stamp, outcome, running, world,
                   lastAnswered>>

\* Ok(false): the caller rejects with the error of its first attempt.
GateSkip(t) ==
    /\ pc[t] = "gate" /\ gate = NoTask
    /\ ~CooledDown
    /\ Return(t, "UnknownKeyId")
    /\ UNCHANGED <<now, storeVars, gate, running, world, history>>

-----------------------------------------------------------------------------
(* do_refresh *)

\* An application's own do_refresh (a task that holds no gate), and the loop
\* when its sleep ends.
ForceRefresh(t) ==
    /\ pc[t] = "idle"
    /\ pc' = [pc EXCEPT ![t] = "fetch"]
    /\ outcome' = [outcome EXCEPT ![t] = "None"]
    /\ UNCHANGED <<now, storeVars, gate, signer, got, stamp, running, world, history>>

BackgroundWakes ==
    /\ running /\ pc[Background] = "idle"
    /\ pc' = [pc EXCEPT ![Background] = "fetch"]
    /\ UNCHANGED <<now, storeVars, gate, signer, got, stamp, outcome, running,
                   world, history>>

OnDemand(a) == a = gate

\* The answer, and the clock read right after it.
FetchReply(a) ==
    /\ pc[a] = "fetch"
    /\ got' = [got EXCEPT ![a] = published]
    /\ stamp' = [stamp EXCEPT ![a] = now]
    /\ pc' = [pc EXCEPT ![a] = "merge"]
    /\ UNCHANGED <<now, storeVars, gate, signer, outcome, running, world, history>>

Released(a) == IF OnDemand(a) THEN NoTask ELSE gate

\* The refresh has failed: an on-demand caller rejects its token, an
\* application gets the error, the loop goes back to sleep.
Fail(a) ==
    /\ pc[a] = "fetch"
    /\ pc' = [pc EXCEPT ![a] = "idle"]
    /\ IF OnDemand(a)
       THEN /\ outcome' = [outcome EXCEPT ![a] = "UnknownKeyId"]
            /\ signer' = [signer EXCEPT ![a] = NoKey]
       ELSE UNCHANGED <<outcome, signer>>
    /\ UNCHANGED <<now, storeVars, got, stamp, running, world, history>>

\* Mutants: the gate stays held; a call tries until it succeeds; the loop ends
\* at the first error.
FetchFailsKeepsGate(a) == Fail(a) /\ UNCHANGED gate

FetchFailsTriesAgain(a) ==
    IF OnDemand(a)
    THEN /\ pc[a] = "fetch"
         /\ pc' = [pc EXCEPT ![a] = "gate"]
         /\ gate' = NoTask
         /\ UNCHANGED <<now, storeVars, signer, got, stamp, outcome, running,
                        world, history>>
    ELSE Fail(a) /\ gate' = Released(a)

FetchFailsEndsLoop(a) ==
    IF a = Background
    THEN /\ pc[a] = "fetch"
         /\ pc' = [pc EXCEPT ![a] = "retry"]
         /\ UNCHANGED <<now, storeVars, gate, signer, got, stamp, outcome, running,
                        world, history>>
    ELSE Fail(a) /\ gate' = Released(a)

FetchFails(a) == Fail(a) /\ gate' = Released(a)

\* Mutant: a refresh replaces the store.
MergeReplaces(ks, fetched) == fetched

\* ScittKeyStore::merge_from: a resident key is never given up.
MergeFrom(ks, fetched) == ks \cup {k \in fetched : ~HasKid(ks, k.kid)}

\* Under the write lock; an on-demand caller then retries.
Merge(a) ==
    /\ pc[a] = "merge"
    /\ snapshot' = MergeFrom(snapshot, got[a])
    /\ lastRefreshed' = stamp[a]
    /\ gate' = Released(a)
    /\ IF OnDemand(a)
       THEN /\ pc' = [pc EXCEPT ![a] = "retry"]
            /\ lastAnswered' = stamp[a]
            /\ UNCHANGED <<got, stamp>>
       ELSE /\ pc' = [pc EXCEPT ![a] = "idle"]
            /\ Forget(a)
            /\ UNCHANGED lastAnswered
    /\ UNCHANGED <<now, signer, outcome, running, world, lastAsked>>

-----------------------------------------------------------------------------
(* Cancellation, the end of the loop, the TL and the clock *)

\* A request's future is dropped at an await; the guard goes with it.
Cancel(t) ==
    /\ pc[t] # "idle"
    /\ Return(t, "None")
    /\ gate' = Released(t)
    /\ UNCHANGED <<now, storeVars, running, world, history>>

\* KeyRefreshHandle is dropped: the loop is cancelled, and aborted at an await.
StopBackground ==
    /\ running
    /\ running' = FALSE
    /\ pc' = [pc EXCEPT ![Background] = "idle"]
    /\ Forget(Background)
    /\ UNCHANGED <<now, storeVars, gate, signer, outcome, world, history>>

Publish(ks) ==
    /\ changes < MaxChanges /\ ks # published
    /\ published' = ks
    /\ changes' = changes + 1
    /\ UNCHANGED <<now, storeVars, gate, pc, signer, got, stamp, outcome, running,
                   history>>

\* The write lock is held for one merge only, so nobody waits long for it.
Tick ==
    /\ now < MaxTime
    /\ \A a \in Actor : pc[a] = "merge" => now - stamp[a] < LockWait
    /\ now' = now + 1
    /\ UNCHANGED <<storeVars, gate, pc, signer, got, stamp, outcome, running,
                   world, history>>

EnterGate(t) == GateRefresh(t) \/ GateSkip(t)
Resolve(a) == FetchReply(a) \/ FetchFails(a)

Next ==
    \/ \E t \in Task : \/ \E k \in Key : Verify(t, k) \/ Miss(t, k)
                       \/ EnterGate(t) \/ ForceRefresh(t) \/ Retry(t) \/ Cancel(t)
    \/ \E a \in Actor : Resolve(a) \/ Merge(a)
    \/ BackgroundWakes \/ StopBackground
    \/ \E ks \in KeySet : Publish(ks)
    \/ Tick

Spec == Init /\ [][Next]_vars

(***************************************************************************)
(* Woken tasks are polled and the HTTP client times out (WF); tokio's      *)
(* Mutex is first come, first served, so a waiter is not passed over for   *)
(* ever (SF); the TL does not fail the loop's every request (SF).          *)
(***************************************************************************)
Fairness ==
    /\ \A t \in Task : SF_vars(EnterGate(t)) /\ WF_vars(Retry(t))
    /\ \A a \in Actor : WF_vars(Resolve(a)) /\ WF_vars(Merge(a))
    /\ WF_vars(BackgroundWakes) /\ SF_vars(FetchReply(Background))

FairSpec == Spec /\ Fairness

-----------------------------------------------------------------------------
(* Properties *)

(***************************************************************************)
(* No refresh, whichever others it overlaps with, loses or changes a key   *)
(* the store had (do_refresh: "a concurrent refresh cannot overwrite keys  *)
(* added by another in-flight refresh").                                   *)
(***************************************************************************)
KeysKept == [][snapshot \subseteq snapshot']_vars

(***************************************************************************)
(* refresh_gate is held by a refresh in progress and by nothing else: no   *)
(* end of a refresh, cancellation included, leaves it locked.              *)
(***************************************************************************)
GateHeldByRefresher ==
    \A t \in Task : gate = t => pc[t] \in {"fetch", "merge"}

\* Task t sends an on-demand request to the TL.
Asks(t) == pc[t] = "gate" /\ pc'[t] = "fetch"

(***************************************************************************)
(* However the loop and forced refreshes interleave, an on-demand request  *)
(* follows the last on-demand refresh by the cooldown, up to the wait for  *)
(* the write lock (last_refreshed may be set back by as much).             *)
(***************************************************************************)
OnDemandSpaced ==
    [][\A t \in Task :
        Asks(t) /\ lastAnswered # Never => now + LockWait >= lastAnswered + Cooldown]_vars

(***************************************************************************)
(* A call whose own refresh brought the kid of its token never ends with   *)
(* UnknownKeyId (the retry of try_scitt_verification).                     *)
(***************************************************************************)
OwnRefreshDecides ==
    [][\A t \in Task :
        pc[t] = "retry" /\ pc'[t] = "idle" /\ outcome'[t] = "UnknownKeyId"
        => ~HasKid(got[t], signer[t].kid)]_vars

(***************************************************************************)
(* Every call returns: failed, slow or cancelled refreshes of others never *)
(* leave it waiting at the gate.                                           *)
(***************************************************************************)
CallsReturn == \A t \in Task : pc[t] # "idle" ~> pc[t] = "idle"

(***************************************************************************)
(* A rotation is learned without any request: while the background handle  *)
(* lives, a kid the TL keeps serving gets into the store, whatever fetches *)
(* fail meanwhile (start_background_refresh: errors "do not terminate the  *)
(* loop").                                                                 *)
(***************************************************************************)
RotationLearned ==
    \A k \in Key :
        []running /\ <>[](k \in published) => <>HasKid(snapshot, k.kid)

(***************************************************************************)
(* DEFAULT_ON_DEMAND_COOLDOWN: "This bounds the worst-case TL request rate *)
(* to 1 / cooldown regardless of inbound traffic volume."  A refresh that  *)
(* fails, or is cancelled, leaves last_refreshed alone, and the next       *)
(* caller asks at once.                                                    *)
(***************************************************************************)
RequestRateBounded ==
    [][\A t \in Task : Asks(t) /\ lastAsked # Never => now >= lastAsked + Cooldown]_vars

(***************************************************************************)
(* try_scitt_verification: the refresh and retry "handles key rotations    *)
(* between periodic refresh cycles", so no call ends with UnknownKeyId     *)
(* while the store has the kid.  A caller that waits at the gate while     *)
(* another one fetches the key gets Ok(false) and does not look again.     *)
(***************************************************************************)
KnownKidIsUsed ==
    [][\A t \in Task :
        pc[t] = "gate" /\ pc'[t] = "idle" /\ outcome'[t] = "UnknownKeyId"
        => ~HasKid(snapshot, signer[t].kid)]_vars

(***************************************************************************)
(* The inductive invariant behind them: what a task's refresh fetched is   *)
(* in the store when it retries, and last_refreshed is at most LockWait    *)
(* behind the last on-demand refresh.                                      *)
(***************************************************************************)
RefreshIsVisible ==
    \A t \in Task, k \in Key :
        pc[t] = "retry" /\ k \in got[t] => HasKid(snapshot, k.kid)

StampsInOrder ==
    /\ \A a \in Actor : pc[a] = "merge" => stamp[a] <= now /\ now <= stamp[a] + LockWait
    /\ lastAnswered # Never =>
        /\ lastRefreshed # Never
        /\ lastAnswered <= now
        /\ lastAnswered <= lastRefreshed + LockWait

IndInv == TypeOK /\ GateHeldByRefresher /\ RefreshIsVisible /\ StampsInOrder

=============================================================================
