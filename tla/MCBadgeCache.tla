---------------------------- MODULE MCBadgeCache ----------------------------
(***************************************************************************)
(* One host, two versions and three callers are enough for an insertion, a *)
(* host invalidation and an eviction to meet, and for any of the callers   *)
(* to give up meanwhile.                                                   *)
(***************************************************************************)
EXTENDS BadgeCache, TLC

Symmetry == Permutations(Task) \cup Permutations(Version)

=============================================================================
