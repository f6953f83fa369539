-------------------------- MODULE AbandonableCache --------------------------
(***************************************************************************)
(* The badge cache as its callers see it when they may also give a call up *)
(* (crates/ans-verify/src/cache.rs): the operations of VersionedCache, and *)
(* what is left of an insertion or of a drop whose future is dropped at an *)
(* await, after the index was changed and before the entries were.         *)
(***************************************************************************)
EXTENDS VersionedCache

VARIABLE
    orphans  \* history variable: the entries that an abandoned drop left
             \* behind, which no index lists

abandonableVars == <<store, index, orphans>>

AbandonableInit == CacheInit /\ orphans = {}

\* insert_with_ttl given up after the push: the version is indexed, its entry
\* is the old one or none.
AbandonInsert(f, v) ==
    /\ index' = [index EXCEPT ![f] = @ \cup {v}]
    /\ orphans' = orphans \ {<<f, v>>}
    /\ UNCHANGED store

\* invalidate_fqdn or set_version_index given up among its invalidations: the
\* index is replaced, and the entries not yet invalidated have left it.
AbandonDrop(f, vs) ==
    /\ index' = [index EXCEPT ![f] = vs]
    /\ orphans' = (orphans \ ({f} \X vs)) \cup
                  {<<f, v>> : v \in {w \in index[f] \ vs : store[<<f, w>>] # NoEntry}}
    /\ UNCHANGED store

AbandonableNext ==
    \E f \in Fqdn :
        \/ InvalidateFqdn(f) /\ UNCHANGED orphans
        \/ \E vs \in SUBSET Version :
            \/ SetVersionIndex(f, vs) /\ orphans' = orphans \ ({f} \X vs)
            \/ AbandonDrop(f, vs)
        \/ \E v \in Version :
            \/ Remove(f, v) /\ orphans' = orphans \ {<<f, v>>}
            \/ \E x \in Value : Insert(f, v, x) /\ orphans' = orphans \ {<<f, v>>}
            \/ AbandonInsert(f, v)

AbandonableSpec == AbandonableInit /\ [][AbandonableNext]_abandonableVars

=============================================================================
