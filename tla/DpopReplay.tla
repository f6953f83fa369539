----------------------------- MODULE DpopReplay -----------------------------
(***************************************************************************)
(* The replay defence of DPoP caller authentication                        *)
(* (crates/ans-verify/src/pop): concurrent verify_caller calls check the   *)
(* freshness of a proof at the start and record its jti in the shared      *)
(* MemoryReplayCache as their very last step, after every await.           *)
(***************************************************************************)
EXTENDS Naturals, FiniteSets

CONSTANTS
    Task,        \* concurrent requests
    Jti,         \* proof identifiers (their digests)
    Proof,       \* the proofs presented: a jti and an iat
    Skew,        \* freshness window, one for all callers of the cache
    Grace,       \* REPLAY_GRACE_SECS
    BucketWidth, \* BUCKET_WIDTH_SECS
    MaxEntries,  \* the cache's entry ceiling
    MaxTime      \* bound of the model

ASSUME ProofAssumption == Proof \subseteq [jti : Jti, iat : Nat \ {0}]
ASSUME JtiAssumption == IsFiniteSet(Jti)
ASSUME WindowAssumption == Skew \in Nat /\ Grace \in Nat
ASSUME CacheAssumption == BucketWidth \in Nat \ {0} /\ MaxEntries \in Nat \ {0}
ASSUME ClockAssumption == MaxTime \in Nat

Absent == 0   \* no expiry: an iat of 0 is malformed, so no entry has it

\* ProofResult::replay_exp: when a recorded jti lapses.
Exp(p) == p.iat + Skew + Grace

BucketOf(exp) == exp \div BucketWidth
Bucket == {BucketOf(Exp(p)) : p \in Proof}

VARIABLES
    now,      \* wall clock, in seconds; assumed not to be set back
    index,    \* jti -> expiry, or Absent
    buckets,  \* expiry generation -> its jtis
    pc,       \* task -> "idle", or "commit": past every check but the jti's
    proof,    \* task -> the proof it verifies
    outcome,  \* task -> its last result
    uses      \* history: proof -> times it was accepted

cache == <<index, buckets>>
vars == <<now, index, buckets, pc, proof, outcome, uses>>

Outcome == {"None", "Accepted", "ProofStale", "Replay", "ReplayCacheFull", "Rejected"}

TypeOK ==
    /\ now \in Nat
    /\ index \in [Jti -> Nat]
    /\ buckets \in [Bucket -> SUBSET Jti]
    /\ pc \in [Task -> {"idle", "commit"}]
    /\ proof \in [Task -> Proof]
    /\ outcome \in [Task -> Outcome]
    /\ uses \in [Proof -> Nat]

Init ==
    /\ now = 0
    /\ index = [j \in Jti |-> Absent]
    /\ buckets = [b \in Bucket |-> {}]
    /\ pc = [t \in Task |-> "idle"]
    /\ proof \in [Task -> Proof]
    /\ outcome = [t \in Task |-> "None"]
    /\ uses = [p \in Proof |-> 0]

-----------------------------------------------------------------------------
(* The cache: eviction by generation, and a jti's entry *)

\* Mutant: a generation goes when its first expiry may have come.
RipeEarly(b) == b * BucketWidth <= now

Ripe(b) == (b + 1) * BucketWidth <= now

\* Mutant: nothing leaves the index.
IndexUnevicted == index

\* Inner::evict
EvictedIndex ==
    [j \in Jti |-> IF \E b \in Bucket : /\ Ripe(b) /\ j \in buckets[b]
                                        /\ BucketOf(index[j]) = b
                   THEN Absent ELSE index[j]]
EvictedBuckets == [b \in Bucket |-> IF Ripe(b) THEN {} ELSE buckets[b]]

\* Inner::remove and Inner::add, on the buckets.
LeavesBucket(bs, j, exp) ==
    [b \in Bucket |-> IF b = BucketOf(exp) THEN bs[b] \ {j} ELSE bs[b]]
EntersBucket(bs, j, exp) ==
    [b \in Bucket |-> IF b = BucketOf(exp) THEN bs[b] \cup {j} ELSE bs[b]]

\* evict_expired; an application may call it at any time.
EvictExpired ==
    /\ index' = EvictedIndex
    /\ buckets' = EvictedBuckets
    /\ UNCHANGED <<now, pc, proof, outcome, uses>>

-----------------------------------------------------------------------------
(* A request *)

Fresh(p) == now <= p.iat + Skew /\ p.iat <= now + Skew

\* Mutant: the jti is recorded where the proof is checked.
BeginRecords(t, p) ==
    /\ pc[t] = "idle"
    /\ Fresh(p)
    /\ index' = [index EXCEPT ![p.jti] = Exp(p)]
    /\ buckets' = EntersBucket(buckets, p.jti, Exp(p))
    /\ pc' = [pc EXCEPT ![t] = "commit"]
    /\ proof' = [proof EXCEPT ![t] = p]
    /\ outcome' = [outcome EXCEPT ![t] = "None"]
    /\ UNCHANGED <<now, uses>>

\* verify_proof_unrecorded accepts: the awaits for the token, the receipt and
\* the content follow.
Begin(t, p) ==
    /\ pc[t] = "idle"
    /\ Fresh(p)
    /\ pc' = [pc EXCEPT ![t] = "commit"]
    /\ proof' = [proof EXCEPT ![t] = p]
    /\ outcome' = [outcome EXCEPT ![t] = "None"]
    /\ UNCHANGED <<now, cache, uses>>

Finish(t, o) ==
    /\ pc' = [pc EXCEPT ![t] = "idle"]
    /\ outcome' = [outcome EXCEPT ![t] = o]
    /\ UNCHANGED <<now, proof>>

\* check_freshness refuses.
BeginStale(t, p) ==
    /\ pc[t] = "idle"
    /\ ~Fresh(p)
    /\ outcome' = [outcome EXCEPT ![t] = "ProofStale"]
    /\ UNCHANGED <<now, cache, pc, proof, uses>>

\* The token, the receipt, the binding or the content is refused, or the
\* request's future is dropped.
Abort(t) ==
    /\ pc[t] = "commit"
    /\ Finish(t, "Rejected")
    /\ UNCHANGED <<cache, uses>>

(***************************************************************************)
(* commit_replay: check_and_store runs under one lock, evicts first, and   *)
(* then takes one of four ways out.                                        *)
(***************************************************************************)

\* Mutant: the commit trusts the freshness checked at the start.
TooLateNever(t) == FALSE

TooLate(t) == Exp(proof[t]) <= now
Recorded(t) == EvictedIndex[proof[t].jti] > now

\* What is left once a lapsed entry of the same jti is removed.
Others(t) == {j \in Jti \ {proof[t].jti} : EvictedIndex[j] # Absent}
OthersBuckets(t) ==
    LET j == proof[t].jti IN
    IF EvictedIndex[j] = Absent THEN EvictedBuckets
    ELSE LeavesBucket(EvictedBuckets, j, EvictedIndex[j])

CommitStale(t) ==
    /\ pc[t] = "commit" /\ TooLate(t)
    /\ index' = EvictedIndex
    /\ buckets' = EvictedBuckets
    /\ Finish(t, "ProofStale")
    /\ UNCHANGED uses

CommitReplay(t) ==
    /\ pc[t] = "commit" /\ ~TooLate(t) /\ Recorded(t)
    /\ index' = EvictedIndex
    /\ buckets' = EvictedBuckets
    /\ Finish(t, "Replay")
    /\ UNCHANGED uses

CommitFull(t) ==
    /\ pc[t] = "commit" /\ ~TooLate(t) /\ ~Recorded(t)
    /\ Cardinality(Others(t)) >= MaxEntries
    /\ index' = [EvictedIndex EXCEPT ![proof[t].jti] = Absent]
    /\ buckets' = OthersBuckets(t)
    /\ Finish(t, "ReplayCacheFull")
    /\ UNCHANGED uses

CommitStore(t) ==
    /\ pc[t] = "commit" /\ ~TooLate(t) /\ ~Recorded(t)
    /\ Cardinality(Others(t)) < MaxEntries
    /\ index' = [EvictedIndex EXCEPT ![proof[t].jti] = Exp(proof[t])]
    /\ buckets' = EntersBucket(OthersBuckets(t), proof[t].jti, Exp(proof[t]))
    /\ Finish(t, "Accepted")
    /\ uses' = [uses EXCEPT ![proof[t]] = @ + 1]

Tick ==
    /\ now < MaxTime
    /\ now' = now + 1
    /\ UNCHANGED <<cache, pc, proof, outcome, uses>>

Next ==
    \/ \E t \in Task :
        \/ \E p \in Proof : Begin(t, p) \/ BeginStale(t, p)
        \/ Abort(t)
        \/ CommitStale(t) \/ CommitReplay(t) \/ CommitFull(t) \/ CommitStore(t)
    \/ EvictExpired
    \/ Tick

Spec == Init /\ [][Next]_vars

-----------------------------------------------------------------------------
(* Properties *)

(***************************************************************************)
(* Single use: no proof authenticates two requests, however long they stay *)
(* in flight and whatever eviction does in between (commit_replay).        *)
(***************************************************************************)
NoReplay == \A p \in Proof : uses[p] <= 1

(***************************************************************************)
(* A jti, which two proofs may share, is not accepted again before the     *)
(* proof that used it lapses (check_and_store).                            *)
(***************************************************************************)
JtiHeld ==
    [][\A p, q \in Proof :
        uses'[p] > uses[p] /\ uses[q] > 0 /\ q.jti = p.jti => Exp(q) <= now]_vars

(***************************************************************************)
(* Index and generations stay in step: no jti stays behind in either, so   *)
(* every entry is evicted some day (Inner::add, remove, evict).            *)
(***************************************************************************)
Generations ==
    \A j \in Jti, b \in Bucket :
        j \in buckets[b] <=> index[j] # Absent /\ BucketOf(index[j]) = b

(***************************************************************************)
(* "An error or digest mismatch rejects without consuming the jti"         *)
(* (verify_caller_with_content): a jti is recorded only for a proof that   *)
(* was accepted, and until that proof's own expiry.                        *)
(***************************************************************************)
EntriesEarned ==
    \A j \in Jti : index[j] # Absent =>
        \E p \in Proof : p.jti = j /\ Exp(p) = index[j] /\ uses[p] > 0

\* A commit of task t that ends for want of room.
FillsUp(t) == pc[t] = "commit" /\ pc'[t] = "idle" /\ outcome'[t] = "ReplayCacheFull"

(***************************************************************************)
(* A request is refused for want of room only when the other entries fill  *)
(* the cache and none of them lapsed more than a generation ago            *)
(* (PopErrorKind::ReplayCacheFull says "still-live entries"; lapsed ones   *)
(* count until their generation is over).                                  *)
(***************************************************************************)
FullWhenBusy ==
    [][\A t \in Task : FillsUp(t) =>
        Cardinality({j \in Jti \ {proof[t].jti} : index[j] + BucketWidth > now})
            >= MaxEntries]_vars

(***************************************************************************)
(* The inductive invariant behind NoReplay: an accepted proof is either    *)
(* still recorded or has lapsed, and then its commit is refused.           *)
(***************************************************************************)
UsedIsHeld ==
    \A p \in Proof : uses[p] > 0 => index[p.jti] = Exp(p) \/ Exp(p) <= now

IndInv == TypeOK /\ UsedIsHeld /\ NoReplay /\ Generations /\ EntriesEarned

=============================================================================
