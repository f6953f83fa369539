----------------------------- MODULE BadgeCache -----------------------------
(***************************************************************************)
(* The locking protocol of BadgeCache (crates/ans-verify/src/cache.rs).    *)
(* Tasks call its async operations concurrently.  version_index is behind  *)
(* a write lock that insert_with_ttl, invalidate_fqdn and                  *)
(* set_version_index hold across several awaits of the moka cache; single  *)
(* key invalidation and moka's eviction take no lock; clear empties the    *)
(* store before it takes the lock.  A caller may give a call up: its future*)
(* is dropped at an await, and with it the guard of the lock.              *)
(***************************************************************************)
EXTENDS Naturals

CONSTANTS Fqdn, Version, Value, NoEntry,
    Task,     \* concurrent callers
    NoTask    \* the write lock is free

ASSUME NoTaskAssumption == NoTask \notin Task
ASSUME NoEntryAssumption == NoEntry \notin Value

VARIABLES
    store, index,  \* as in VersionedCache
    writer,        \* holder of the write lock, or NoTask
    op,            \* task -> the call it is in
    orphans        \* history variable: the entries abandoned drops left
                   \* behind, which no index lists

vars == <<store, index, writer, op, orphans>>

Key == Fqdn \X Version

(***************************************************************************)
(* A call in progress.                                                     *)
(*   "insert": the entry is built, the lock is awaited, then held while    *)
(*             the version is indexed (indexed = TRUE) and the entry put;  *)
(*             added says the version was not in the index before.         *)
(*   "drop":   invalidate_fqdn or set_version_index, holding the lock with *)
(*             the versions left to invalidate; previous is the index it   *)
(*             found and kept the one it put there.                        *)
(*   "clear":  the store is emptied, the lock is awaited.                  *)
(***************************************************************************)
Idle == [kind |-> "idle"]
InsertOp ==
    [kind : {"insert"}, fqdn : Fqdn, version : Version, value : Value,
     indexed : BOOLEAN, added : BOOLEAN]
DropOp ==
    [kind : {"drop"}, fqdn : Fqdn, left : SUBSET Version,
     previous : SUBSET Version, kept : SUBSET Version]
ClearOp == [kind : {"clear"}]
Op == {Idle} \cup InsertOp \cup DropOp \cup ClearOp

TypeOK ==
    /\ store \in [Key -> Value \cup {NoEntry}]
    /\ index \in [Fqdn -> SUBSET Version]
    /\ writer \in Task \cup {NoTask}
    /\ op \in [Task -> Op]
    /\ orphans \subseteq Key

Init ==
    /\ store = [k \in Key |-> NoEntry]
    /\ index = [f \in Fqdn |-> {}]
    /\ writer = NoTask
    /\ op = [t \in Task |-> Idle]
    /\ orphans = {}

\* The tasks inside a critical section.
Locked(t) ==
    \/ op[t].kind = "drop"
    \/ op[t].kind = "insert" /\ op[t].indexed

-----------------------------------------------------------------------------
(* insert_with_ttl *)

InsertCall(t, f, v, x) ==
    /\ op[t] = Idle
    /\ op' = [op EXCEPT ![t] =
                [kind |-> "insert", fqdn |-> f, version |-> v, value |-> x,
                 indexed |-> FALSE, added |-> FALSE]]
    /\ UNCHANGED <<store, index, writer, orphans>>

\* Mutant: the guard is dropped before the put.
InsertIndexGuardDropped(t) ==
    /\ op[t].kind = "insert" /\ ~op[t].indexed
    /\ writer = NoTask
    /\ index' = [index EXCEPT ![op[t].fqdn] = @ \cup {op[t].version}]
    /\ op' = [op EXCEPT ![t].indexed = TRUE,
                        ![t].added = op[t].version \notin index[op[t].fqdn]]
    /\ UNCHANGED <<store, writer, orphans>>

\* The write lock is taken and the version is pushed unless it is there.
InsertIndex(t) ==
    /\ op[t].kind = "insert" /\ ~op[t].indexed
    /\ writer = NoTask
    /\ writer' = t
    /\ index' = [index EXCEPT ![op[t].fqdn] = @ \cup {op[t].version}]
    /\ op' = [op EXCEPT ![t].indexed = TRUE,
                        ![t].added = op[t].version \notin index[op[t].fqdn]]
    /\ UNCHANGED <<store, orphans>>

\* The entry is put and the lock released.
InsertEntry(t) ==
    /\ op[t].kind = "insert" /\ op[t].indexed
    /\ store' = [store EXCEPT ![<<op[t].fqdn, op[t].version>>] = op[t].value]
    /\ writer' = NoTask
    /\ op' = [op EXCEPT ![t] = Idle]
    /\ orphans' = orphans \ {<<op[t].fqdn, op[t].version>>}
    /\ UNCHANGED index

-----------------------------------------------------------------------------
(* invalidate_fqdn and set_version_index *)

\* Mutants: a replaced index invalidates nothing; the new versions are
\* added to the old ones.
DropBeginKeepsEntries(t, f, vs) ==
    /\ op[t] = Idle
    /\ writer = NoTask
    /\ writer' = t
    /\ index' = [index EXCEPT ![f] = vs]
    /\ op' = [op EXCEPT ![t] =
                [kind |-> "drop", fqdn |-> f, previous |-> index[f], kept |-> vs,
                 left |-> IF vs = {} THEN index[f] ELSE {}]]
    /\ UNCHANGED <<store, orphans>>

DropBeginExtends(t, f, vs) ==
    /\ op[t] = Idle
    /\ writer = NoTask
    /\ writer' = t
    /\ index' = [index EXCEPT ![f] = @ \cup vs]
    /\ op' = [op EXCEPT ![t] =
                [kind |-> "drop", fqdn |-> f, previous |-> index[f], kept |-> vs,
                 left |-> index[f] \ vs]]
    /\ UNCHANGED <<store, orphans>>

DropBegin(t, f, vs) ==
    /\ op[t] = Idle
    /\ writer = NoTask
    /\ writer' = t
    /\ index' = [index EXCEPT ![f] = vs]
    /\ op' = [op EXCEPT ![t] =
                [kind |-> "drop", fqdn |-> f, previous |-> index[f], kept |-> vs,
                 left |-> index[f] \ vs]]
    /\ UNCHANGED <<store, orphans>>

InvalidateFqdn(t, f) == DropBegin(t, f, {})

SetVersionIndex(t, f, vs) == DropBegin(t, f, vs)

\* One awaited invalidation, under the lock.
DropEntry(t, v) ==
    /\ op[t].kind = "drop"
    /\ v \in op[t].left
    /\ store' = [store EXCEPT ![<<op[t].fqdn, v>>] = NoEntry]
    /\ op' = [op EXCEPT ![t].left = @ \ {v}]
    /\ orphans' = orphans \ {<<op[t].fqdn, v>>}
    /\ UNCHANGED <<index, writer>>

\* Mutant: an early return leaks the guard.
DropEndLeaksGuard(t) ==
    /\ op[t].kind = "drop"
    /\ op[t].left = {}
    /\ op' = [op EXCEPT ![t] = Idle]
    /\ orphans' = orphans \ ({op[t].fqdn} \X op[t].kept)
    /\ UNCHANGED <<store, index, writer>>

DropEnd(t) ==
    /\ op[t].kind = "drop"
    /\ op[t].left = {}
    /\ writer' = NoTask
    /\ op' = [op EXCEPT ![t] = Idle]
    /\ orphans' = orphans \ ({op[t].fqdn} \X op[t].kept)
    /\ UNCHANGED <<store, index>>

-----------------------------------------------------------------------------
(* A future dropped at an await: for the lock, for an entry to be put, or  *)
(* for an entry to be invalidated.  The guard goes with it; the index and  *)
(* the entries stay as they are.                                           *)

\* The entries a drop leaves behind when it goes no further.
LeftBehind(t) ==
    {<<op[t].fqdn, v>> : v \in {w \in op[t].left : store[<<op[t].fqdn, w>>] # NoEntry}}

CancelInsert(t) ==
    /\ op[t].kind = "insert"
    /\ writer' = IF Locked(t) THEN NoTask ELSE writer
    /\ orphans' = IF Locked(t) THEN orphans \ {<<op[t].fqdn, op[t].version>>}
                               ELSE orphans
    /\ op' = [op EXCEPT ![t] = Idle]
    /\ UNCHANGED <<store, index>>

CancelDrop(t) ==
    /\ op[t].kind = "drop"
    /\ op[t].left # {}
    /\ writer' = NoTask
    /\ orphans' = (orphans \ ({op[t].fqdn} \X op[t].kept)) \cup LeftBehind(t)
    /\ op' = [op EXCEPT ![t] = Idle]
    /\ UNCHANGED <<store, index>>

CancelClear(t) ==
    /\ op[t].kind = "clear"
    /\ op' = [op EXCEPT ![t] = Idle]
    /\ UNCHANGED <<store, index, writer, orphans>>

-----------------------------------------------------------------------------
(* invalidate(key), and moka evicting an entry: no lock, the index stays *)

Remove(k) ==
    /\ store[k] # NoEntry
    /\ store' = [store EXCEPT ![k] = NoEntry]
    /\ orphans' = orphans \ {k}
    /\ UNCHANGED <<index, writer, op>>

(* clear: invalidate_all, then the index under the lock *)

ClearEntries(t) ==
    /\ op[t] = Idle
    /\ store' = [k \in Key |-> NoEntry]
    /\ op' = [op EXCEPT ![t] = [kind |-> "clear"]]
    /\ orphans' = {}
    /\ UNCHANGED <<index, writer>>

ClearIndex(t) ==
    /\ op[t].kind = "clear"
    /\ writer = NoTask
    /\ index' = [f \in Fqdn |-> {}]
    /\ op' = [op EXCEPT ![t] = Idle]
    /\ UNCHANGED <<store, writer, orphans>>

-----------------------------------------------------------------------------

Call(t) ==
    \E f \in Fqdn :
        \/ InvalidateFqdn(t, f)
        \/ \E vs \in SUBSET Version : SetVersionIndex(t, f, vs)
        \/ \E v \in Version, x \in Value : InsertCall(t, f, v, x)

Advance(t) ==
    \/ InsertIndex(t)
    \/ InsertEntry(t)
    \/ \E v \in Version : DropEntry(t, v)
    \/ DropEnd(t)

Cancel(t) == CancelInsert(t) \/ CancelDrop(t)

\* What the verifiers call, every future polled to its end.
PolledNext ==
    \/ \E t \in Task : Call(t) \/ Advance(t)
    \/ \E k \in Key : Remove(k)

PolledSpec == Init /\ [][PolledNext]_vars

\* The same, with callers that may give up.
Next == PolledNext \/ \E t \in Task : Cancel(t)

Spec == Init /\ [][Next]_vars

\* tokio wakes the waiters of a released lock in the order they came, and
\* polls every task it has woken.  Nobody has to give up.
FairSpec ==
    /\ Spec
    /\ \A t \in Task : SF_vars(InsertIndex(t)) /\ WF_vars(Advance(t))

\* The whole public interface, with clear, which no verifier calls.
NextWithClear ==
    Next \/ \E t \in Task : ClearEntries(t) \/ ClearIndex(t) \/ CancelClear(t)

SpecWithClear == Init /\ [][NextWithClear]_vars

-----------------------------------------------------------------------------
(* Properties *)

(***************************************************************************)
(* The write lock excludes: whoever is between the lock and its release is *)
(* the recorded holder (cache.rs "Serialize indexed insertion with host    *)
(* invalidation").                                                         *)
(***************************************************************************)
WriterExclusive == \A t \in Task : Locked(t) <=> writer = t

(***************************************************************************)
(* Every entry can be found by the next invalidate_fqdn: it is indexed, or *)
(* the holder of the lock is still going to drop it.  The one exception is *)
(* what an abandoned invalidate_fqdn or set_version_index left behind.     *)
(***************************************************************************)
EntriesIndexed ==
    \A f \in Fqdn, v \in Version :
        store[<<f, v>>] # NoEntry =>
            \/ v \in index[f]
            \/ \E t \in Task : /\ op[t].kind = "drop"
                               /\ op[t].fqdn = f
                               /\ v \in op[t].left
            \/ <<f, v>> \in orphans

(***************************************************************************)
(* When invalidate_fqdn or set_version_index ends, an entry of that host   *)
(* is left only if its version is one it kept, or if it is an orphan: of   *)
(* an earlier abandoned drop, or of this one, given up before its turn.    *)
(* ("Invalidate all cached badges for an FQDN (all versions)"; "Removed    *)
(* versions are invalidated so a client cannot reuse them through a direct *)
(* lookup".)                                                               *)
(***************************************************************************)
DropIsComplete ==
    [][\A t \in Task :
        op[t].kind = "drop" /\ op'[t].kind # "drop" =>
            \A v \in Version \ op[t].kept :
                store'[<<op[t].fqdn, v>>] # NoEntry =>
                    /\ <<op[t].fqdn, v>> \in orphans'
                    /\ v \in op[t].left \/ v \notin op[t].previous]_vars

(***************************************************************************)
(* What makes the two above inductive: while a holder drops, the index is  *)
(* already the one it keeps, and what it has to drop comes from the one it *)
(* found; while it inserts, its version is in the index.                   *)
(***************************************************************************)
HolderIndex ==
    \A t \in Task :
        /\ op[t].kind = "drop" =>
                /\ index[op[t].fqdn] = op[t].kept
                /\ op[t].left \subseteq op[t].previous \ op[t].kept
        /\ op[t].kind = "insert" /\ op[t].indexed =>
                op[t].version \in index[op[t].fqdn]
        /\ op[t].kind = "insert" /\ op[t].added => op[t].indexed

\* What a drop in progress has invalidated, nobody puts back.
StaysDropped ==
    \A t \in Task, v \in Version :
        /\ op[t].kind = "drop"
        /\ v \in (op[t].previous \ op[t].kept) \ op[t].left
        => store[<<op[t].fqdn, v>>] = NoEntry

IndInv == TypeOK /\ WriterExclusive /\ HolderIndex /\ StaysDropped /\ EntriesIndexed

(***************************************************************************)
(* No caller waits for the lock forever: every insertion that was called   *)
(* and every drop that began returns, though others give up with the lock  *)
(* in hand.                                                                *)
(***************************************************************************)
CallsReturn == \A t \in Task : op[t] # Idle ~> op[t] = Idle

(***************************************************************************)
(* The index as a reader can see it, who waits for the lock: during a drop *)
(* it is still the previous one, during an insertion the version pushed    *)
(* ahead of its entry is not there yet.  Entries are read without a lock,  *)
(* so the store is seen as it is.                                          *)
(***************************************************************************)
Dropping(f) == {t \in Task : op[t].kind = "drop" /\ op[t].fqdn = f}

PushedAhead(f) ==
    {v \in Version : \E t \in Task : /\ op[t].kind = "insert"
                                     /\ op[t].added
                                     /\ op[t].fqdn = f
                                     /\ op[t].version = v}

SeenIndex ==
    [f \in Fqdn |-> IF Dropping(f) = {} THEN index[f] \ PushedAhead(f)
                    ELSE UNION {op[t].previous : t \in Dropping(f)}]

Atomic == INSTANCE AbandonableCache WITH index <- SeenIndex

\* Each call takes effect at one instant, as in VersionedCache, or, given up,
\* as AbandonInsert and AbandonDrop say.
ImplementsAtomic == Atomic!AbandonableSpec

=============================================================================
