--------------------------- MODULE VersionedCache ---------------------------
(***************************************************************************)
(* The badge cache as its callers see it (crates/ans-verify/src/cache.rs): *)
(* one entry per <<fqdn, version>>, and per fqdn the set of versions the   *)
(* cache knows of.  Every operation is one atomic step here; the lock that *)
(* makes it look so is in BadgeCache, which is shown to implement this     *)
(* module, and ServerVerifier is built from these operations.              *)
(***************************************************************************)
EXTENDS Naturals

CONSTANTS
    Fqdn,     \* host names
    Version,  \* agent versions
    Value,    \* what an entry holds
    NoEntry   \* a key without an entry

VARIABLES
    store,  \* moka cache: key -> value or NoEntry
    index   \* version_index: fqdn -> versions (an absent fqdn is {})

cacheVars == <<store, index>>

Key == Fqdn \X Version

CacheInit ==
    /\ store = [k \in Key |-> NoEntry]
    /\ index = [f \in Fqdn |-> {}]

\* insert_with_ttl for a version key: index the version, then put the entry.
Insert(f, v, x) ==
    /\ store' = [store EXCEPT ![<<f, v>>] = x]
    /\ index' = [index EXCEPT ![f] = @ \cup {v}]

\* The store without the entries of f at the versions vs.
Without(f, vs) ==
    [k \in Key |-> IF k[1] = f /\ k[2] \in vs THEN NoEntry ELSE store[k]]

\* set_version_index: replace the index of f and drop the entries of the
\* versions that were indexed and no longer are.
SetVersionIndex(f, vs) ==
    /\ store' = Without(f, index[f] \ vs)
    /\ index' = [index EXCEPT ![f] = vs]

\* invalidate_fqdn: drop the entry of every indexed version of f.
InvalidateFqdn(f) ==
    /\ store' = Without(f, index[f])
    /\ index' = [index EXCEPT ![f] = {}]

\* invalidate(key), and an eviction by moka (capacity or hard_ttl): the index
\* is not touched.
Remove(f, v) ==
    /\ store' = Without(f, {v})
    /\ UNCHANGED index

CacheNext ==
    \E f \in Fqdn :
        \/ InvalidateFqdn(f)
        \/ \E vs \in SUBSET Version : SetVersionIndex(f, vs)
        \/ \E v \in Version :
            \/ Remove(f, v)
            \/ \E x \in Value : Insert(f, v, x)

CacheSpec == CacheInit /\ [][CacheNext]_cacheVars

CacheTypeOK ==
    /\ store \in [Key -> Value \cup {NoEntry}]
    /\ index \in [Fqdn -> SUBSET Version]

=============================================================================
