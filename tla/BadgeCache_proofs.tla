-------------------------- MODULE BadgeCache_proofs --------------------------
(***************************************************************************)
(* Proofs about BadgeCache, for any number of hosts, versions, values and  *)
(* concurrent callers, any of whom may give up at an await: the write lock *)
(* excludes, an entry is out of reach of invalidate_fqdn only if a drop    *)
(* was abandoned, a finished drop is complete, and the locked operations   *)
(* implement the atomic ones of AbandonableCache, and of VersionedCache    *)
(* where nobody gives up.                                                  *)
(***************************************************************************)
EXTENDS BadgeCache, TLAPS

-----------------------------------------------------------------------------
(* What the kind of a call says about its record. *)

LEMMA OpByKind ==
    ASSUME TypeOK, NEW t \in Task
    PROVE  /\ op[t].kind = "insert" => op[t] \in InsertOp
           /\ op[t].kind = "drop" => op[t] \in DropOp
           /\ op[t].kind \in {"idle", "insert", "drop", "clear"}
  BY DEF TypeOK, Op, Idle, InsertOp, DropOp, ClearOp

LEMMA InitIndInv == Init => IndInv
<1> SUFFICES ASSUME Init PROVE IndInv
  OBVIOUS
<1>1. TypeOK
  BY DEF Init, TypeOK, Op, Key
<1>2. \A t \in Task : op[t].kind = "idle"
  BY DEF Init, Idle
<1>3. WriterExclusive
  BY <1>2, NoTaskAssumption DEF Init, WriterExclusive, Locked
<1>4. HolderIndex
  BY <1>2 DEF HolderIndex
<1>5. StaysDropped
  BY <1>2 DEF StaysDropped
<1>6. EntriesIndexed
  BY DEF Init, EntriesIndexed, Key
<1> QED BY <1>1, <1>3, <1>4, <1>5, <1>6 DEF IndInv

-----------------------------------------------------------------------------
(* One lemma per action. *)

LEMMA InsertCallIndInv ==
    ASSUME IndInv, NEW t \in Task, NEW f \in Fqdn, NEW v \in Version,
           NEW x \in Value, InsertCall(t, f, v, x)
    PROVE  IndInv'
<1> DEFINE call == [kind |-> "insert", fqdn |-> f, version |-> v, value |-> x,
                    indexed |-> FALSE, added |-> FALSE]
<1>1. /\ op' = [op EXCEPT ![t] = call]
      /\ op[t] = Idle
      /\ UNCHANGED <<store, index, writer, orphans>>
  BY DEF InsertCall
<1>2. call \in InsertOp
  BY DEF InsertOp
<1>3. TypeOK'
  BY <1>1, <1>2 DEF IndInv, TypeOK, Op
<1>4. \A s \in Task : s # t => op'[s] = op[s]
  BY <1>1 DEF IndInv, TypeOK
<1>5. op'[t] = call
  BY <1>1 DEF IndInv, TypeOK
<1>6. WriterExclusive'
  BY <1>1, <1>4, <1>5 DEF IndInv, WriterExclusive, Locked, Idle
<1>7. HolderIndex'
  BY <1>1, <1>4, <1>5 DEF IndInv, HolderIndex
<1>8. StaysDropped'
  BY <1>1, <1>4, <1>5 DEF IndInv, StaysDropped
<1>9. EntriesIndexed'
  BY <1>1, <1>4, <1>5 DEF IndInv, EntriesIndexed, Idle
<1> QED BY <1>3, <1>6, <1>7, <1>8, <1>9 DEF IndInv

LEMMA InsertIndexIndInv ==
    ASSUME IndInv, NEW t \in Task, InsertIndex(t)
    PROVE  IndInv'
<1> DEFINE f == op[t].fqdn
           v == op[t].version
<1>1. op[t] \in InsertOp
  BY OpByKind DEF IndInv, InsertIndex
<1>2. /\ op'[t] = [op[t] EXCEPT !.indexed = TRUE, !.added = v \notin index[f]]
      /\ \A s \in Task : s # t => op'[s] = op[s]
  BY DEF InsertIndex, IndInv, TypeOK
<1>3. op'[t] \in InsertOp
  BY <1>1, <1>2 DEF InsertOp
<1>4. /\ op'[t].kind = "insert" /\ op'[t].indexed
      /\ op'[t].fqdn = f /\ op'[t].version = v
      /\ f \in Fqdn /\ v \in Version
  BY <1>1, <1>2 DEF InsertOp
<1>5. /\ index'[f] = index[f] \cup {v}
      /\ \A g \in Fqdn : g # f => index'[g] = index[g]
      /\ index' \in [Fqdn -> SUBSET Version]
  BY <1>4 DEF InsertIndex, IndInv, TypeOK
<1>6. TypeOK'
  <2>1. op' \in [Task -> Op]
    BY <1>2, <1>3 DEF InsertIndex, IndInv, TypeOK, Op
  <2> QED BY <2>1, <1>5 DEF InsertIndex, IndInv, TypeOK
<1>7. \A s \in Task : ~Locked(s)
  BY NoTaskAssumption DEF InsertIndex, IndInv, WriterExclusive
<1>8. WriterExclusive'
  BY <1>2, <1>4, <1>7 DEF InsertIndex, WriterExclusive, Locked
<1>9. \A s \in Task : op'[s].kind # "drop" /\ op[s].kind # "drop"
  BY <1>2, <1>4, <1>7 DEF Locked
<1>10. HolderIndex'
  <2> SUFFICES ASSUME NEW s \in Task
               PROVE  /\ op'[s].kind = "insert" /\ op'[s].indexed =>
                              op'[s].version \in index'[op'[s].fqdn]
                      /\ op'[s].kind = "insert" /\ op'[s].added => op'[s].indexed
    BY <1>9 DEF HolderIndex
  <2>1. CASE s = t
    BY <2>1, <1>4, <1>5
  <2>2. CASE s # t
    BY <2>2, <1>2, <1>7 DEF Locked, IndInv, HolderIndex
  <2> QED BY <2>1, <2>2
<1>11. StaysDropped'
  BY <1>9 DEF StaysDropped
<1>12. EntriesIndexed'
  BY <1>9, <1>5 DEF EntriesIndexed, IndInv, InsertIndex
<1> QED BY <1>6, <1>8, <1>10, <1>11, <1>12 DEF IndInv

(***************************************************************************)
(* When the one holder of the lock is idle again, what it left idle calls  *)
(* say nothing about index or entries: the end of a hold, completed or     *)
(* abandoned.                                                              *)
(***************************************************************************)
LEMMA HoldEnds ==
    ASSUME IndInv, NEW t \in Task, Locked(t),
           op' = [op EXCEPT ![t] = Idle], writer' = NoTask, index' = index
    PROVE  /\ op' \in [Task -> Op] /\ WriterExclusive' /\ HolderIndex' /\ StaysDropped'
           /\ \A s \in Task : op'[s].kind # "drop"
           /\ \A s \in Task : s # t => op[s].kind # "drop"
<1>1. op'[t] = Idle /\ \A s \in Task : s # t => op'[s] = op[s]
  BY DEF IndInv, TypeOK
<1>2. op' \in [Task -> Op]
  BY DEF IndInv, TypeOK, Op
<1>3. writer = t /\ \A s \in Task : s # t => ~Locked(s)
  BY DEF IndInv, WriterExclusive
<1>4. WriterExclusive'
  BY <1>1, <1>3, NoTaskAssumption DEF WriterExclusive, Locked, Idle
<1>5. \A s \in Task : s # t => op[s].kind # "drop"
  BY <1>3 DEF Locked
<1>6. \A s \in Task : op'[s].kind # "drop"
  BY <1>1, <1>5 DEF Idle
<1>7. HolderIndex'
  BY <1>1, <1>6 DEF HolderIndex, IndInv, Idle
<1>8. StaysDropped'
  BY <1>6 DEF StaysDropped
<1> QED BY <1>2, <1>4, <1>5, <1>6, <1>7, <1>8

LEMMA InsertEntryIndInv ==
    ASSUME IndInv, NEW t \in Task, InsertEntry(t)
    PROVE  IndInv'
<1> DEFINE f == op[t].fqdn
           v == op[t].version
<1>1. op[t] \in InsertOp
  BY OpByKind DEF IndInv, InsertEntry
<1>2. Locked(t) /\ op[t].kind # "drop"
  BY DEF InsertEntry, Locked
<1>3. f \in Fqdn /\ v \in Version /\ op[t].value \in Value
  BY <1>1 DEF InsertOp
<1>4. /\ op' \in [Task -> Op] /\ WriterExclusive' /\ HolderIndex' /\ StaysDropped'
      /\ \A s \in Task : op[s].kind # "drop"
  BY <1>2, HoldEnds DEF InsertEntry
<1>5. TypeOK'
  BY <1>3, <1>4 DEF InsertEntry, IndInv, TypeOK, Key
<1>6. v \in index[f]
  BY DEF IndInv, HolderIndex, InsertEntry
<1>7. \A g \in Fqdn, w \in Version :
        (g # f \/ w # v) => /\ store'[<<g, w>>] = store[<<g, w>>]
                            /\ <<g, w>> \in orphans => <<g, w>> \in orphans'
  BY <1>3 DEF InsertEntry, IndInv, TypeOK, Key
<1>8. EntriesIndexed'
  BY <1>4, <1>6, <1>7 DEF EntriesIndexed, IndInv, InsertEntry
<1> QED BY <1>4, <1>5, <1>8 DEF IndInv

LEMMA DropBeginIndInv ==
    ASSUME IndInv, NEW t \in Task, NEW f \in Fqdn, NEW vs \in SUBSET Version,
           DropBegin(t, f, vs)
    PROVE  IndInv'
<1> DEFINE call == [kind |-> "drop", fqdn |-> f, previous |-> index[f], kept |-> vs,
                    left |-> index[f] \ vs]
<1>1. op'[t] = call /\ \A s \in Task : s # t => op'[s] = op[s]
  BY DEF DropBegin, IndInv, TypeOK
<1>2. call \in DropOp
  BY DEF DropOp, IndInv, TypeOK
<1>3. /\ index'[f] = vs
      /\ \A g \in Fqdn : g # f => index'[g] = index[g]
  BY DEF DropBegin, IndInv, TypeOK
<1>4. TypeOK'
  BY <1>1, <1>2 DEF DropBegin, IndInv, TypeOK, Op
<1>5. \A s \in Task : ~Locked(s)
  BY NoTaskAssumption DEF DropBegin, IndInv, WriterExclusive
<1>6. WriterExclusive'
  BY <1>1, <1>5 DEF DropBegin, WriterExclusive, Locked
<1>7. HolderIndex'
  BY <1>1, <1>3, <1>5 DEF HolderIndex, IndInv, Locked
<1>8. StaysDropped'
  BY <1>1, <1>5 DEF StaysDropped, Locked
<1>9. EntriesIndexed'
  BY <1>1, <1>3, <1>5 DEF EntriesIndexed, IndInv, Locked, DropBegin
<1> QED BY <1>4, <1>6, <1>7, <1>8, <1>9 DEF IndInv

LEMMA DropEntryIndInv ==
    ASSUME IndInv, NEW t \in Task, NEW v \in Version, DropEntry(t, v)
    PROVE  IndInv'
<1> DEFINE f == op[t].fqdn
<1>1. op[t] \in DropOp
  BY OpByKind DEF IndInv, DropEntry
<1>2. /\ op'[t] = [op[t] EXCEPT !.left = op[t].left \ {v}]
      /\ \A s \in Task : s # t => op'[s] = op[s]
  BY DEF DropEntry, IndInv, TypeOK
<1>3. /\ op'[t] \in DropOp /\ f \in Fqdn
      /\ op'[t].kind = "drop" /\ op'[t].fqdn = f
      /\ op'[t].previous = op[t].previous
      /\ op'[t].kept = op[t].kept /\ op'[t].left = op[t].left \ {v}
  BY <1>1, <1>2 DEF DropOp
<1>4. TypeOK'
  BY <1>2, <1>3 DEF DropEntry, IndInv, TypeOK, Op, Key
<1>5. WriterExclusive'
  BY <1>2, <1>3 DEF DropEntry, IndInv, WriterExclusive, Locked
<1>6. HolderIndex'
  BY <1>2, <1>3 DEF DropEntry, IndInv, HolderIndex
<1>7. \A g \in Fqdn, w \in Version :
        store'[<<g, w>>] = IF g = f /\ w = v THEN NoEntry ELSE store[<<g, w>>]
  BY <1>3 DEF DropEntry, IndInv, TypeOK, Key
<1>8. StaysDropped'
  <2> SUFFICES ASSUME NEW s \in Task, NEW w \in Version, op'[s].kind = "drop",
                      w \in (op'[s].previous \ op'[s].kept) \ op'[s].left
               PROVE  store'[<<op'[s].fqdn, w>>] = NoEntry
    BY DEF StaysDropped
  <2>1. op'[s].fqdn \in Fqdn
    BY <1>4, OpByKind DEF TypeOK, Op, DropOp, InsertOp, ClearOp, Idle
  <2>2. CASE s = t
    BY <2>1, <2>2, <1>3, <1>7 DEF IndInv, StaysDropped, DropEntry
  <2>3. CASE s # t
    BY <2>1, <2>3, <1>2, <1>7 DEF IndInv, StaysDropped
  <2> QED BY <2>2, <2>3
<1>9. EntriesIndexed'
  <2> SUFFICES ASSUME NEW g \in Fqdn, NEW w \in Version,
                      store'[<<g, w>>] # NoEntry, w \notin index'[g],
                      <<g, w>> \notin orphans'
               PROVE  \E s \in Task : /\ op'[s].kind = "drop"
                                      /\ op'[s].fqdn = g
                                      /\ w \in op'[s].left
    BY DEF EntriesIndexed
  <2>1. PICK s \in Task : op[s].kind = "drop" /\ op[s].fqdn = g /\ w \in op[s].left
    BY <1>7 DEF EntriesIndexed, IndInv, DropEntry
  <2>2. CASE s = t
    BY <2>1, <2>2, <1>3, <1>7
  <2>3. CASE s # t
    BY <2>1, <2>3, <1>2
  <2> QED BY <2>2, <2>3
<1> QED BY <1>4, <1>5, <1>6, <1>8, <1>9 DEF IndInv

LEMMA DropEndIndInv ==
    ASSUME IndInv, NEW t \in Task, DropEnd(t)
    PROVE  IndInv'
<1>1. op[t] \in DropOp
  BY OpByKind DEF IndInv, DropEnd
<1>2. /\ op' \in [Task -> Op] /\ WriterExclusive' /\ HolderIndex' /\ StaysDropped'
      /\ \A s \in Task : s # t => op[s].kind # "drop"
  BY HoldEnds DEF DropEnd, Locked
<1>3. TypeOK'
  BY <1>2 DEF DropEnd, IndInv, TypeOK
<1>4. index[op[t].fqdn] = op[t].kept
  BY DEF DropEnd, IndInv, HolderIndex
<1>5. EntriesIndexed'
  <2> SUFFICES ASSUME NEW g \in Fqdn, NEW w \in Version,
                      store[<<g, w>>] # NoEntry, w \notin index[g]
               PROVE  <<g, w>> \in orphans'
    BY DEF EntriesIndexed, DropEnd
  <2>1. <<g, w>> \in orphans
    BY <1>2 DEF EntriesIndexed, IndInv, DropEnd
  <2> QED BY <2>1, <1>4 DEF DropEnd
<1> QED BY <1>2, <1>3, <1>5 DEF IndInv

LEMMA CancelInsertIndInv ==
    ASSUME IndInv, NEW t \in Task, CancelInsert(t)
    PROVE  IndInv'
<1> DEFINE f == op[t].fqdn
           v == op[t].version
<1>1. op[t] \in InsertOp /\ f \in Fqdn /\ v \in Version
  BY OpByKind DEF IndInv, CancelInsert, InsertOp
<1>2. op'[t] = Idle /\ \A s \in Task : s # t => op'[s] = op[s]
  BY DEF CancelInsert, IndInv, TypeOK
<1>3. op' \in [Task -> Op]
  BY DEF CancelInsert, IndInv, TypeOK, Op
<1>4. TypeOK'
  BY <1>3 DEF CancelInsert, IndInv, TypeOK
<1>5. CASE Locked(t)
  <2>1. /\ WriterExclusive' /\ HolderIndex' /\ StaysDropped'
        /\ \A s \in Task : op[s].kind # "drop"
    BY <1>5, HoldEnds DEF CancelInsert
  <2>2. v \in index[f]
    BY <1>5 DEF IndInv, HolderIndex, CancelInsert, Locked
  <2>3. EntriesIndexed'
    <3> SUFFICES ASSUME NEW g \in Fqdn, NEW w \in Version,
                        store[<<g, w>>] # NoEntry, w \notin index[g]
                 PROVE  <<g, w>> \in orphans'
      BY DEF EntriesIndexed, CancelInsert
    <3>1. <<g, w>> \in orphans
      BY <2>1 DEF EntriesIndexed, IndInv
    <3> QED BY <3>1, <2>2, <1>5 DEF CancelInsert
  <2> QED BY <1>4, <2>1, <2>3 DEF IndInv
<1>6. CASE ~Locked(t)
  <2>1. UNCHANGED <<store, index, writer, orphans>>
    BY <1>6 DEF CancelInsert
  <2>2. WriterExclusive'
    BY <1>2, <1>6, <2>1 DEF IndInv, WriterExclusive, Locked, Idle
  <2>3. HolderIndex'
    BY <1>2, <2>1 DEF IndInv, HolderIndex, Idle
  <2>4. StaysDropped'
    BY <1>2, <2>1 DEF IndInv, StaysDropped, Idle
  <2>5. EntriesIndexed'
    BY <1>2, <2>1 DEF IndInv, EntriesIndexed, CancelInsert
  <2> QED BY <1>4, <2>2, <2>3, <2>4, <2>5 DEF IndInv
<1> QED BY <1>5, <1>6

LEMMA CancelDropIndInv ==
    ASSUME IndInv, NEW t \in Task, CancelDrop(t)
    PROVE  IndInv'
<1> DEFINE f == op[t].fqdn
<1>1. op[t] \in DropOp /\ f \in Fqdn /\ op[t].left \subseteq Version
  BY OpByKind DEF IndInv, CancelDrop, DropOp
<1>2. /\ op' \in [Task -> Op] /\ WriterExclusive' /\ HolderIndex' /\ StaysDropped'
      /\ \A s \in Task : s # t => op[s].kind # "drop"
  BY HoldEnds DEF CancelDrop, Locked
<1>3. LeftBehind(t) \subseteq Key
  <2>1. \A w \in op[t].left : <<f, w>> \in Key
    BY <1>1 DEF Key
  <2> QED BY <2>1 DEF LeftBehind
<1>4. TypeOK'
  BY <1>2, <1>3 DEF CancelDrop, IndInv, TypeOK
<1>5. index[f] = op[t].kept
  BY DEF CancelDrop, IndInv, HolderIndex
<1>6. EntriesIndexed'
  <2> SUFFICES ASSUME NEW g \in Fqdn, NEW w \in Version,
                      store[<<g, w>>] # NoEntry, w \notin index[g]
               PROVE  <<g, w>> \in orphans'
    BY DEF EntriesIndexed, CancelDrop
  <2>1. <<g, w>> \in orphans \/ (g = f /\ w \in op[t].left)
    BY <1>2 DEF EntriesIndexed, IndInv
  <2>2. CASE <<g, w>> \in orphans
    BY <2>2, <1>5 DEF CancelDrop
  <2>3. CASE g = f /\ w \in op[t].left
    BY <2>3 DEF CancelDrop, LeftBehind
  <2> QED BY <2>1, <2>2, <2>3
<1> QED BY <1>2, <1>4, <1>6 DEF IndInv

LEMMA RemoveIndInv ==
    ASSUME IndInv, NEW k \in Key, Remove(k)
    PROVE  IndInv'
<1>1. TypeOK'
  BY DEF Remove, IndInv, TypeOK
<1>2. WriterExclusive' /\ HolderIndex'
  BY DEF Remove, IndInv, WriterExclusive, Locked, HolderIndex
<1>3. \A j \in Key : store'[j] # NoEntry =>
                       store[j] # NoEntry /\ (j \in orphans => j \in orphans')
  BY DEF Remove, IndInv, TypeOK
<1>4. EntriesIndexed'
  BY <1>3 DEF Remove, IndInv, EntriesIndexed, Key
<1>5. StaysDropped'
  <2> SUFFICES ASSUME NEW s \in Task, NEW w \in Version, op[s].kind = "drop",
                      w \in (op[s].previous \ op[s].kept) \ op[s].left
               PROVE  store'[<<op[s].fqdn, w>>] = NoEntry
    BY DEF StaysDropped, Remove
  <2>1. <<op[s].fqdn, w>> \in Key
    BY OpByKind DEF IndInv, DropOp, Key
  <2> QED BY <2>1, <1>3 DEF IndInv, StaysDropped
<1> QED BY <1>1, <1>2, <1>4, <1>5 DEF IndInv

-----------------------------------------------------------------------------

LEMMA NextIndInv == IndInv /\ [Next]_vars => IndInv'
<1> SUFFICES ASSUME IndInv, [Next]_vars PROVE IndInv'
  OBVIOUS
<1>1. ASSUME NEW t \in Task, Call(t) PROVE IndInv'
  BY <1>1, DropBeginIndInv, InsertCallIndInv
  DEF Call, InvalidateFqdn, SetVersionIndex
<1>2. ASSUME NEW t \in Task, Advance(t) PROVE IndInv'
  BY <1>2, InsertIndexIndInv, InsertEntryIndInv, DropEntryIndInv, DropEndIndInv
  DEF Advance
<1>3. ASSUME NEW k \in Key, Remove(k) PROVE IndInv'
  BY <1>3, RemoveIndInv
<1>4. ASSUME NEW t \in Task, Cancel(t) PROVE IndInv'
  BY <1>4, CancelInsertIndInv, CancelDropIndInv DEF Cancel
<1>5. CASE UNCHANGED vars
  BY <1>5 DEF vars, IndInv, TypeOK, WriterExclusive, Locked, HolderIndex, StaysDropped,
              EntriesIndexed
<1> QED BY <1>1, <1>2, <1>3, <1>4, <1>5 DEF Next, PolledNext

(***************************************************************************)
(* The inductive invariant: types, lock exclusion, the index a lock holder *)
(* works from and what it has dropped so far, for any number of callers    *)
(* that complete their calls or give them up.                              *)
(***************************************************************************)
THEOREM InductiveInvariant == Spec => []IndInv
  BY InitIndInv, NextIndInv, PTL DEF Spec

(***************************************************************************)
(* No entry is ever out of reach of invalidate_fqdn, but for those of the  *)
(* drops that were abandoned.                                              *)
(***************************************************************************)
THEOREM IndexCoversEntries == Spec => []EntriesIndexed
<1>1. IndInv => EntriesIndexed
  BY DEF IndInv
<1> QED BY <1>1, InductiveInvariant, PTL

(***************************************************************************)
(* Where every future is polled to its end, there is no such exception.    *)
(***************************************************************************)
NoOrphans == orphans = {}

THEOREM PolledIndexCoversEntries == PolledSpec => [](EntriesIndexed /\ NoOrphans)
<1>1. Init => IndInv /\ NoOrphans
  BY InitIndInv DEF Init, NoOrphans
<1>2. NoOrphans /\ [PolledNext]_vars => NoOrphans'
  BY DEF NoOrphans, PolledNext, vars, Call, Advance, InvalidateFqdn, SetVersionIndex,
         DropBegin, InsertCall, InsertIndex, InsertEntry, DropEntry, DropEnd, Remove
<1>3. IndInv /\ [PolledNext]_vars => IndInv'
  BY NextIndInv DEF Next
<1>4. IndInv => EntriesIndexed
  BY DEF IndInv
<1> QED BY <1>1, <1>2, <1>3, <1>4, PTL DEF PolledSpec

(* A step in which a drop ends is DropEnd or CancelDrop: nothing else ends it. *)
LEMMA DropEndsBy ==
    ASSUME IndInv, [Next]_vars, NEW t \in Task,
           op[t].kind = "drop", op'[t].kind # "drop"
    PROVE  DropEnd(t) \/ CancelDrop(t)
<1>1. op[t] \in DropOp
  BY OpByKind DEF IndInv
<1>2. op'[t] # op[t]
  OBVIOUS
<1>3. ASSUME NEW s \in Task, Call(s) PROVE FALSE
  BY <1>2, <1>3 DEF Call, InvalidateFqdn, SetVersionIndex, DropBegin, InsertCall,
                    Idle, IndInv, TypeOK
<1>4. ASSUME NEW s \in Task, Advance(s), s # t PROVE FALSE
  BY <1>2, <1>4 DEF Advance, InsertIndex, InsertEntry, DropEntry, DropEnd, IndInv, TypeOK
<1>5. ASSUME NEW w \in Version, DropEntry(t, w) PROVE FALSE
  BY <1>5, <1>1 DEF DropEntry, IndInv, TypeOK, DropOp
<1>6. ~InsertIndex(t) /\ ~InsertEntry(t)
  BY DEF InsertIndex, InsertEntry
<1>7. ~ \E k \in Key : Remove(k)
  BY <1>2 DEF Remove
<1>8. ASSUME NEW s \in Task, Cancel(s), s # t PROVE FALSE
  BY <1>2, <1>8 DEF Cancel, CancelInsert, CancelDrop, IndInv, TypeOK
<1>9. ~CancelInsert(t)
  BY DEF CancelInsert
<1>10. ~ UNCHANGED vars
  BY <1>2 DEF vars
<1> QED BY <1>3, <1>4, <1>5, <1>6, <1>7, <1>8, <1>9, <1>10
        DEF Next, PolledNext, Advance, Cancel

LEMMA DropCompleteStep ==
    ASSUME IndInv, [Next]_vars, NEW t \in Task,
           op[t].kind = "drop", op'[t].kind # "drop",
           NEW v \in Version \ op[t].kept, store'[<<op[t].fqdn, v>>] # NoEntry
    PROVE  /\ <<op[t].fqdn, v>> \in orphans'
           /\ v \in op[t].left \/ v \notin op[t].previous
<1> DEFINE key == <<op[t].fqdn, v>>
<1>1. op[t] \in DropOp /\ op[t].fqdn \in Fqdn
  BY OpByKind DEF IndInv, DropOp
<1>2. \A s \in Task : s # t => op[s].kind # "drop"
  BY DEF IndInv, WriterExclusive, Locked
<1>3. v \notin index[op[t].fqdn]
  BY DEF IndInv, HolderIndex
<1>4. DropEnd(t) \/ CancelDrop(t)
  BY DropEndsBy
<1>5. store[key] # NoEntry
  BY <1>4 DEF DropEnd, CancelDrop
<1>6. v \in op[t].left \/ v \notin op[t].previous
  BY <1>5 DEF IndInv, StaysDropped
<1>7. key \in orphans \/ v \in op[t].left
  BY <1>1, <1>2, <1>3, <1>5 DEF IndInv, EntriesIndexed
<1>8. CASE DropEnd(t)
  BY <1>6, <1>7, <1>8 DEF DropEnd
<1>9. CASE CancelDrop(t)
  <2>1. CASE key \in orphans
    BY <1>6, <1>9, <2>1 DEF CancelDrop
  <2>2. CASE v \in op[t].left
    BY <1>5, <1>9, <2>2 DEF CancelDrop, LeftBehind
  <2> QED BY <1>7, <2>1, <2>2
<1> QED BY <1>4, <1>8, <1>9

(***************************************************************************)
(* When invalidate_fqdn or set_version_index ends, what is left of the     *)
(* host are the versions it kept and orphans: of an abandoned drop, this   *)
(* one or an earlier one.  What ran in between changes nothing about it.   *)
(***************************************************************************)
THEOREM DropsComplete == Spec => DropIsComplete
<1>1. IndInv /\ [Next]_vars =>
        [\A t \in Task :
          op[t].kind = "drop" /\ op'[t].kind # "drop" =>
            \A v \in Version \ op[t].kept :
              store'[<<op[t].fqdn, v>>] # NoEntry =>
                /\ <<op[t].fqdn, v>> \in orphans'
                /\ v \in op[t].left \/ v \notin op[t].previous]_vars
  BY DropCompleteStep
<1> QED BY <1>1, InductiveInvariant, PTL DEF Spec, DropIsComplete

-----------------------------------------------------------------------------
(* The locked operations implement the atomic ones.  When t is the only    *)
(* possible holder, what a reader sees of the index follows from op[t].    *)

SeenBy(t) ==
    [f \in Fqdn |->
        IF op[t].kind = "drop" /\ op[t].fqdn = f THEN op[t].previous
        ELSE IF op[t].kind = "insert" /\ op[t].added /\ op[t].fqdn = f
        THEN index[f] \ {op[t].version} ELSE index[f]]

OnlyHolder(t) == \A s \in Task : s # t => ~Locked(s)

View == \A t \in Task : OnlyHolder(t) => SeenIndex = SeenBy(t)

LEMMA ViewByHolder == IndInv => View
<1> SUFFICES ASSUME IndInv, NEW t \in Task, OnlyHolder(t), NEW f \in Fqdn
             PROVE  (IF Dropping(f) = {} THEN index[f] \ PushedAhead(f)
                     ELSE UNION {op[s].previous : s \in Dropping(f)}) = SeenBy(t)[f]
  BY DEF View, SeenIndex, SeenBy
<1>1. \A s \in Task : s # t => op[s].kind # "drop"
  BY DEF OnlyHolder, Locked
<1>2. \A s \in Task : s # t => ~(op[s].kind = "insert" /\ op[s].added)
  BY DEF OnlyHolder, Locked, IndInv, HolderIndex
<1>3. CASE op[t].kind = "drop" /\ op[t].fqdn = f
  <2>1. Dropping(f) = {t}
    BY <1>1, <1>3 DEF Dropping
  <2>2. UNION {op[s].previous : s \in {t}} = op[t].previous
    OBVIOUS
  <2> QED BY <1>3, <2>1, <2>2 DEF SeenBy
<1>4. CASE ~(op[t].kind = "drop" /\ op[t].fqdn = f)
  <2>1. Dropping(f) = {}
    BY <1>1, <1>4 DEF Dropping
  <2>2. op[t].kind = "insert" => op[t].version \in Version
    BY OpByKind DEF IndInv, InsertOp
  <2>3. PushedAhead(f) = IF op[t].kind = "insert" /\ op[t].added /\ op[t].fqdn = f
                         THEN {op[t].version} ELSE {}
    BY <1>2, <2>2 DEF PushedAhead
  <2> QED BY <1>4, <2>1, <2>3 DEF SeenBy
<1> QED BY <1>3, <1>4

LEMMA ViewByHolderNext == IndInv' => View'
  BY ViewByHolder, PTL

(* Before and after a step of t that leaves the others alone. *)
LEMMA SeenAround ==
    ASSUME IndInv, IndInv', NEW t \in Task, OnlyHolder(t),
           \A s \in Task : s # t => op'[s] = op[s]
    PROVE  SeenIndex = SeenBy(t) /\ SeenIndex' = SeenBy(t)'
<1>1. OnlyHolder(t)'
  BY DEF OnlyHolder, Locked
<1> QED BY <1>1, ViewByHolder, ViewByHolderNext DEF View

LEMMA HolderAlone ==
    ASSUME IndInv, NEW t \in Task, Locked(t) \/ writer = NoTask
    PROVE  OnlyHolder(t)
  BY NoTaskAssumption DEF OnlyHolder, IndInv, WriterExclusive

-----------------------------------------------------------------------------
(* One lemma per action: a step of the atomic cache, or a stutter. *)

Unseen == UNCHANGED <<store, orphans>> /\ SeenIndex' = SeenIndex

AtomicInsert(f, v, x) == Atomic!Insert(f, v, x) /\ orphans' = orphans \ {<<f, v>>}
AtomicRemove(f, v) == Atomic!Remove(f, v) /\ orphans' = orphans \ {<<f, v>>}
AtomicDrop(f, vs) == Atomic!SetVersionIndex(f, vs) /\ orphans' = orphans \ ({f} \X vs)

LEMMA InsertCallUnseen ==
    ASSUME IndInv, NEW t \in Task, NEW f \in Fqdn, NEW v \in Version,
           NEW x \in Value, InsertCall(t, f, v, x)
    PROVE  Unseen
<1>1. /\ op'[t].kind = "insert" /\ ~op'[t].added
      /\ op[t].kind = "idle"
      /\ \A s \in Task : s # t => op'[s] = op[s]
      /\ UNCHANGED <<store, index, orphans>>
  BY DEF InsertCall, IndInv, TypeOK, Idle
<1>2. \A g \in Fqdn : Dropping(g)' = Dropping(g)
  BY <1>1 DEF Dropping
<1>3. \A g \in Fqdn : \A s \in Dropping(g) : op'[s] = op[s]
  BY <1>1 DEF Dropping
<1>4. \A g \in Fqdn : PushedAhead(g)' = PushedAhead(g)
  BY <1>1 DEF PushedAhead
<1>5. \A g \in Fqdn : UNION {op'[s].previous : s \in Dropping(g)}
                       = UNION {op[s].previous : s \in Dropping(g)}
  BY <1>3
<1>6. SeenIndex' = SeenIndex
  BY <1>1, <1>2, <1>4, <1>5 DEF SeenIndex
<1> QED BY <1>1, <1>6 DEF Unseen

LEMMA InsertIndexUnseen ==
    ASSUME IndInv, NEW t \in Task, InsertIndex(t)
    PROVE  Unseen
<1> DEFINE f == op[t].fqdn
           v == op[t].version
<1>1. /\ op[t] \in InsertOp
      /\ op'[t] = [op[t] EXCEPT !.indexed = TRUE, !.added = v \notin index[f]]
      /\ \A s \in Task : s # t => op'[s] = op[s]
      /\ index' = [index EXCEPT ![f] = @ \cup {v}]
      /\ UNCHANGED <<store, orphans>>
  BY OpByKind DEF InsertIndex, IndInv, TypeOK
<1>2. /\ op'[t].kind = "insert" /\ op'[t].fqdn = f /\ op'[t].version = v
      /\ op'[t].added = (v \notin index[f])
      /\ f \in Fqdn /\ v \in Version
  BY <1>1 DEF InsertOp
<1>3. OnlyHolder(t)
  BY HolderAlone DEF InsertIndex
<1>4. SeenIndex = SeenBy(t) /\ SeenIndex' = SeenBy(t)'
  BY <1>1, <1>3, SeenAround, InsertIndexIndInv
<1>5. SeenBy(t) = index
  <2>1. ~op[t].added
    BY DEF InsertIndex, IndInv, HolderIndex
  <2> QED BY <2>1 DEF SeenBy, IndInv, TypeOK, InsertIndex
<1>6. SeenBy(t)' = index
  <2> SUFFICES ASSUME NEW g \in Fqdn
               PROVE  (IF op'[t].kind = "insert" /\ op'[t].added /\ op'[t].fqdn = g
                       THEN index'[g] \ {op'[t].version} ELSE index'[g]) = index[g]
    BY <1>2 DEF SeenBy, IndInv, TypeOK
  <2>1. index'[g] = IF g = f THEN index[f] \cup {v} ELSE index[g]
    BY <1>1, <1>2 DEF IndInv, TypeOK
  <2> QED BY <1>2, <2>1
<1> QED BY <1>1, <1>4, <1>5, <1>6 DEF Unseen

LEMMA InsertEntryAtomic ==
    ASSUME IndInv, NEW t \in Task, InsertEntry(t)
    PROVE  AtomicInsert(op[t].fqdn, op[t].version, op[t].value)
<1> DEFINE f == op[t].fqdn
           v == op[t].version
<1>1. op[t] \in InsertOp /\ f \in Fqdn /\ v \in Version
  BY OpByKind DEF IndInv, InsertEntry, InsertOp
<1>2. op'[t].kind = "idle" /\ \A s \in Task : s # t => op'[s] = op[s]
  BY DEF InsertEntry, IndInv, TypeOK, Idle
<1>3. OnlyHolder(t)
  BY HolderAlone DEF InsertEntry, Locked
<1>4. SeenIndex = SeenBy(t) /\ SeenIndex' = SeenBy(t)'
  BY <1>2, <1>3, SeenAround, InsertEntryIndInv
<1>5. SeenBy(t)' = index
  BY <1>2 DEF SeenBy, InsertEntry, IndInv, TypeOK
<1>6. index = [SeenBy(t) EXCEPT ![f] = @ \cup {v}]
  <2>1. v \in index[f]
    BY DEF IndInv, HolderIndex, InsertEntry
  <2> QED BY <1>1, <2>1 DEF SeenBy, IndInv, TypeOK, InsertEntry
<1> QED BY <1>4, <1>5, <1>6 DEF AtomicInsert, Atomic!Insert, InsertEntry

LEMMA CancelInsertAtomic ==
    ASSUME IndInv, NEW t \in Task, CancelInsert(t)
    PROVE  Unseen \/ Atomic!AbandonInsert(op[t].fqdn, op[t].version)
<1> DEFINE f == op[t].fqdn
           v == op[t].version
<1>1. op[t] \in InsertOp /\ f \in Fqdn /\ v \in Version
  BY OpByKind DEF IndInv, CancelInsert, InsertOp
<1>2. op'[t].kind = "idle" /\ \A s \in Task : s # t => op'[s] = op[s]
  BY DEF CancelInsert, IndInv, TypeOK, Idle
<1>3. CASE Locked(t)
  <2>1. OnlyHolder(t)
    BY <1>3, HolderAlone
  <2>2. SeenIndex = SeenBy(t) /\ SeenIndex' = SeenBy(t)'
    BY <1>2, <2>1, SeenAround, CancelInsertIndInv
  <2>3. SeenBy(t)' = index
    BY <1>2 DEF SeenBy, CancelInsert, IndInv, TypeOK
  <2>4. index = [SeenBy(t) EXCEPT ![f] = @ \cup {v}]
    <3>1. v \in index[f]
      BY <1>3 DEF IndInv, HolderIndex, CancelInsert, Locked
    <3> QED BY <1>1, <3>1 DEF SeenBy, IndInv, TypeOK, CancelInsert
  <2> QED BY <1>3, <2>2, <2>3, <2>4 DEF Atomic!AbandonInsert, CancelInsert
<1>4. CASE ~Locked(t)
  <2>1. ~op[t].added
    BY <1>4 DEF Locked, CancelInsert, IndInv, HolderIndex
  <2>2. \A g \in Fqdn : Dropping(g)' = Dropping(g)
    BY <1>2 DEF Dropping, CancelInsert
  <2>3. \A g \in Fqdn : \A s \in Dropping(g) : op'[s] = op[s]
    BY <1>2 DEF Dropping, CancelInsert
  <2>4. \A g \in Fqdn : PushedAhead(g)' = PushedAhead(g)
    BY <1>2, <2>1 DEF PushedAhead
  <2>5. \A g \in Fqdn : UNION {op'[s].previous : s \in Dropping(g)}
                         = UNION {op[s].previous : s \in Dropping(g)}
    BY <2>3
  <2>6. UNCHANGED <<store, index, orphans>>
    BY <1>4 DEF CancelInsert
  <2>7. SeenIndex' = SeenIndex
    BY <2>2, <2>4, <2>5, <2>6 DEF SeenIndex
  <2> QED BY <2>6, <2>7 DEF Unseen
<1> QED BY <1>3, <1>4

LEMMA DropBeginUnseen ==
    ASSUME IndInv, NEW t \in Task, NEW f \in Fqdn, NEW vs \in SUBSET Version,
           DropBegin(t, f, vs)
    PROVE  Unseen
<1>1. /\ op'[t] = [kind |-> "drop", fqdn |-> f, previous |-> index[f], kept |-> vs,
                   left |-> index[f] \ vs]
      /\ op[t].kind = "idle"
      /\ \A s \in Task : s # t => op'[s] = op[s]
      /\ UNCHANGED <<store, orphans>>
  BY DEF DropBegin, IndInv, TypeOK, Idle
<1>2. OnlyHolder(t)
  BY HolderAlone DEF DropBegin
<1>3. SeenIndex = SeenBy(t) /\ SeenIndex' = SeenBy(t)'
  BY <1>1, <1>2, SeenAround, DropBeginIndInv
<1>4. SeenBy(t) = index
  BY <1>1 DEF SeenBy, IndInv, TypeOK
<1>5. SeenBy(t)' = index
  BY <1>1 DEF SeenBy, DropBegin, IndInv, TypeOK
<1> QED BY <1>1, <1>3, <1>4, <1>5 DEF Unseen

LEMMA DropEntryAtomic ==
    ASSUME IndInv, NEW t \in Task, NEW v \in Version, DropEntry(t, v)
    PROVE  AtomicRemove(op[t].fqdn, v)
<1>1. /\ op[t] \in DropOp
      /\ op'[t] = [op[t] EXCEPT !.left = op[t].left \ {v}]
      /\ \A s \in Task : s # t => op'[s] = op[s]
  BY OpByKind DEF DropEntry, IndInv, TypeOK
<1>2. /\ op'[t].kind = "drop" /\ op'[t].fqdn = op[t].fqdn
      /\ op'[t].previous = op[t].previous
      /\ op[t].fqdn \in Fqdn
  BY <1>1 DEF DropOp
<1>3. OnlyHolder(t)
  BY HolderAlone DEF DropEntry, Locked
<1>4. SeenIndex = SeenBy(t) /\ SeenIndex' = SeenBy(t)'
  BY <1>1, <1>3, SeenAround, DropEntryIndInv
<1>5. SeenBy(t)' = SeenBy(t)
  BY <1>2 DEF SeenBy, DropEntry
<1>6. store' = [k \in Key |-> IF k[1] = op[t].fqdn /\ k[2] \in {v}
                              THEN NoEntry ELSE store[k]]
  <2>1. \A k \in Key : k = <<op[t].fqdn, v>> <=> k[1] = op[t].fqdn /\ k[2] \in {v}
    BY DEF Key
  <2>2. store' = [k \in Key |-> IF k = <<op[t].fqdn, v>> THEN NoEntry ELSE store[k]]
    BY DEF DropEntry, IndInv, TypeOK
  <2> QED BY <2>1, <2>2
<1> QED BY <1>4, <1>5, <1>6
        DEF AtomicRemove, DropEntry, Atomic!Remove, Atomic!Without, Atomic!Key, Key

(* What a reader sees of the index when a drop ends, in either way. *)
LEMMA SeenAfterDrop ==
    ASSUME IndInv, NEW t \in Task, DropEnd(t) \/ CancelDrop(t)
    PROVE  /\ op[t].fqdn \in Fqdn /\ op[t].kept \in SUBSET Version
           /\ SeenIndex[op[t].fqdn] = op[t].previous
           /\ SeenIndex' = [SeenIndex EXCEPT ![op[t].fqdn] = op[t].kept]
<1> DEFINE f == op[t].fqdn
<1>1. op[t].kind = "drop" /\ op[t] \in DropOp
  BY OpByKind DEF IndInv, DropEnd, CancelDrop
<1>2. f \in Fqdn /\ op[t].kept \in SUBSET Version
  BY <1>1 DEF DropOp
<1>3. op'[t].kind = "idle" /\ index' = index /\ \A s \in Task : s # t => op'[s] = op[s]
  BY DEF DropEnd, CancelDrop, IndInv, TypeOK, Idle
<1>4. OnlyHolder(t)
  BY <1>1, HolderAlone DEF Locked
<1>5. SeenIndex = SeenBy(t) /\ SeenIndex' = SeenBy(t)'
  BY <1>3, <1>4, SeenAround, DropEndIndInv, CancelDropIndInv
<1>6. SeenBy(t)' = index
  BY <1>3 DEF SeenBy, IndInv, TypeOK
<1>7. SeenBy(t) = [index EXCEPT ![f] = op[t].previous]
  BY <1>1, <1>2 DEF SeenBy, IndInv, TypeOK
<1>8. index[f] = op[t].kept
  BY <1>1 DEF IndInv, HolderIndex
<1>9. index = [[index EXCEPT ![f] = op[t].previous] EXCEPT ![f] = op[t].kept]
  BY <1>2, <1>8 DEF IndInv, TypeOK
<1> QED BY <1>2, <1>5, <1>6, <1>7, <1>9 DEF IndInv, TypeOK

LEMMA DropEndAtomic ==
    ASSUME IndInv, NEW t \in Task, DropEnd(t)
    PROVE  AtomicDrop(op[t].fqdn, op[t].kept)
<1> DEFINE f == op[t].fqdn
<1>1. \A v \in Version : v \in op[t].previous \ op[t].kept => store[<<f, v>>] = NoEntry
  BY DEF DropEnd, IndInv, StaysDropped
<1>2. store = [k \in Key |-> IF k[1] = f /\ k[2] \in op[t].previous \ op[t].kept
                             THEN NoEntry ELSE store[k]]
  BY <1>1 DEF IndInv, TypeOK, Key
<1> QED BY <1>2, SeenAfterDrop
        DEF AtomicDrop, DropEnd, Atomic!SetVersionIndex, Atomic!Without, Atomic!Key, Key

LEMMA CancelDropAtomic ==
    ASSUME IndInv, NEW t \in Task, CancelDrop(t)
    PROVE  Atomic!AbandonDrop(op[t].fqdn, op[t].kept)
<1> DEFINE f == op[t].fqdn
<1>1. op[t] \in DropOp /\ op[t].previous \subseteq Version
  BY OpByKind DEF IndInv, CancelDrop, DropOp
<1>2. op[t].left \subseteq op[t].previous \ op[t].kept
  BY DEF IndInv, HolderIndex, CancelDrop
<1>3. \A v \in (op[t].previous \ op[t].kept) \ op[t].left : store[<<f, v>>] = NoEntry
  BY <1>1 DEF IndInv, StaysDropped, CancelDrop
<1>4. {w \in op[t].left : store[<<f, w>>] # NoEntry}
        = {w \in op[t].previous \ op[t].kept : store[<<f, w>>] # NoEntry}
  BY <1>2, <1>3
<1>5. LeftBehind(t) = {<<f, v>> : v \in {w \in op[t].previous \ op[t].kept :
                                            store[<<f, w>>] # NoEntry}}
  BY <1>4 DEF LeftBehind
<1> QED BY <1>5, SeenAfterDrop DEF CancelDrop, Atomic!AbandonDrop

LEMMA RemoveAtomic ==
    ASSUME IndInv, NEW k \in Key, Remove(k)
    PROVE  AtomicRemove(k[1], k[2])
<1>1. SeenIndex' = SeenIndex
  BY DEF Remove, SeenIndex, Dropping, PushedAhead
<1>2. store' = [j \in Key |-> IF j[1] = k[1] /\ j[2] \in {k[2]} THEN NoEntry ELSE store[j]]
  <2>1. \A j \in Key : j = k <=> j[1] = k[1] /\ j[2] \in {k[2]}
    BY DEF Key
  <2>2. store' = [j \in Key |-> IF j = k THEN NoEntry ELSE store[j]]
    BY DEF Remove, IndInv, TypeOK
  <2> QED BY <2>1, <2>2
<1>3. k = <<k[1], k[2]>>
  BY DEF Key
<1> QED BY <1>1, <1>2, <1>3
        DEF AtomicRemove, Remove, Atomic!Remove, Atomic!Without, Atomic!Key, Key

-----------------------------------------------------------------------------

Completed ==
    \E f \in Fqdn :
        \/ \E vs \in SUBSET Version : AtomicDrop(f, vs)
        \/ \E v \in Version : \/ AtomicRemove(f, v)
                              \/ \E x \in Value : AtomicInsert(f, v, x)

LEMMA PolledStep ==
    ASSUME IndInv, PolledNext
    PROVE  Completed \/ Unseen
<1>1. ASSUME NEW t \in Task, Call(t) PROVE Unseen
  BY <1>1, DropBeginUnseen, InsertCallUnseen DEF Call, InvalidateFqdn, SetVersionIndex
<1>2. ASSUME NEW t \in Task, InsertEntry(t) PROVE Completed
  <2>1. op[t].fqdn \in Fqdn /\ op[t].version \in Version /\ op[t].value \in Value
    BY <1>2, OpByKind DEF IndInv, InsertEntry, InsertOp
  <2> QED BY <1>2, <2>1, InsertEntryAtomic DEF Completed
<1>3. ASSUME NEW t \in Task, NEW v \in Version, DropEntry(t, v) PROVE Completed
  <2>1. op[t].fqdn \in Fqdn
    BY <1>3, OpByKind DEF IndInv, DropEntry, DropOp
  <2> QED BY <1>3, <2>1, DropEntryAtomic DEF Completed
<1>4. ASSUME NEW t \in Task, DropEnd(t) PROVE Completed
  BY <1>4, SeenAfterDrop, DropEndAtomic DEF Completed
<1>5. ASSUME NEW t \in Task, Advance(t) PROVE Completed \/ Unseen
  BY <1>2, <1>3, <1>4, <1>5, InsertIndexUnseen DEF Advance
<1>6. ASSUME NEW k \in Key, Remove(k) PROVE Completed
  <2>1. k[1] \in Fqdn /\ k[2] \in Version
    BY DEF Key
  <2> QED BY <1>6, <2>1, RemoveAtomic DEF Completed
<1> QED BY <1>1, <1>5, <1>6 DEF PolledNext

LEMMA CancelStep ==
    ASSUME IndInv, NEW t \in Task, Cancel(t)
    PROVE  Atomic!AbandonableNext \/ Unseen
<1>1. CASE CancelInsert(t)
  <2>1. op[t].fqdn \in Fqdn /\ op[t].version \in Version
    BY <1>1, OpByKind DEF IndInv, CancelInsert, InsertOp
  <2> QED BY <1>1, <2>1, CancelInsertAtomic DEF Atomic!AbandonableNext
<1>2. CASE CancelDrop(t)
  BY <1>2, SeenAfterDrop, CancelDropAtomic DEF Atomic!AbandonableNext
<1> QED BY <1>1, <1>2 DEF Cancel

LEMMA NextAtomic ==
    IndInv /\ [Next]_vars => [Atomic!AbandonableNext]_<<store, SeenIndex, orphans>>
<1> SUFFICES ASSUME IndInv, [Next]_vars
             PROVE  Atomic!AbandonableNext \/ Unseen
  BY DEF Unseen
<1>1. Completed => Atomic!AbandonableNext
  BY DEF Completed, AtomicDrop, AtomicRemove, AtomicInsert, Atomic!AbandonableNext
<1>2. CASE UNCHANGED vars
  BY <1>2 DEF vars, Unseen, SeenIndex, Dropping, PushedAhead
<1> QED BY <1>1, <1>2, PolledStep, CancelStep DEF Next

LEMMA InitAtomic == Init => Atomic!AbandonableInit
<1> SUFFICES ASSUME Init PROVE Atomic!AbandonableInit
  OBVIOUS
<1>1. \A t \in Task : op[t].kind = "idle"
  BY DEF Init, Idle
<1>2. \A f \in Fqdn : Dropping(f) = {} /\ PushedAhead(f) = {}
  BY <1>1 DEF Dropping, PushedAhead
<1>3. SeenIndex = [f \in Fqdn |-> {}]
  BY <1>2 DEF Init, SeenIndex
<1> QED BY <1>3 DEF Init, Atomic!AbandonableInit, Atomic!CacheInit, Atomic!Key, Key

(***************************************************************************)
(* BadgeCache, locks and all, behaves like the atomic cache whose callers  *)
(* may give up, for any number of concurrent callers.                      *)
(***************************************************************************)
THEOREM CacheIsAtomic == Spec => ImplementsAtomic
<1>1. Init => Atomic!AbandonableInit
  BY InitAtomic
<1>2. IndInv /\ [Next]_vars => [Atomic!AbandonableNext]_<<store, SeenIndex, orphans>>
  BY NextAtomic
<1> QED BY <1>1, <1>2, InductiveInvariant, PTL
        DEF Spec, ImplementsAtomic, Atomic!AbandonableSpec, Atomic!abandonableVars

(***************************************************************************)
(* Where nobody gives up, it behaves like the atomic cache the verifiers   *)
(* are modelled with.                                                      *)
(***************************************************************************)
Polled == INSTANCE VersionedCache WITH index <- SeenIndex

THEOREM PolledCacheIsAtomic == PolledSpec => Polled!CacheSpec
<1>1. Init => Polled!CacheInit
  BY InitAtomic DEF Atomic!AbandonableInit, Atomic!CacheInit, Atomic!Key,
                    Polled!CacheInit, Polled!Key
<1>2. Completed => Polled!CacheNext
  BY DEF Completed, AtomicDrop, AtomicRemove, AtomicInsert, Polled!CacheNext,
         Atomic!SetVersionIndex, Atomic!Remove, Atomic!Insert, Atomic!Without, Atomic!Key,
         Polled!SetVersionIndex, Polled!Remove, Polled!Insert, Polled!Without, Polled!Key
<1>3. IndInv /\ [PolledNext]_vars => [Polled!CacheNext]_<<store, SeenIndex>>
  <2> SUFFICES ASSUME IndInv, [PolledNext]_vars
               PROVE  Polled!CacheNext \/ Unseen
    BY DEF Unseen
  <2>1. CASE UNCHANGED vars
    BY <2>1 DEF vars, Unseen, SeenIndex, Dropping, PushedAhead
  <2> QED BY <1>2, <2>1, PolledStep
<1>4. IndInv /\ [PolledNext]_vars => IndInv'
  BY NextIndInv DEF Next
<1> QED BY <1>1, <1>3, <1>4, InitIndInv, PTL
        DEF PolledSpec, Polled!CacheSpec, Polled!cacheVars

=============================================================================
