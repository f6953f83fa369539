----------------------- MODULE MCRefreshableKeyStore -----------------------
(* A small instance of RefreshableKeyStore: one known key, one to be learned. *)
EXTENDS RefreshableKeyStore

CONSTANTS t1, t2, kid1, kid2, m1

MCKey == {[kid |-> kid1, material |-> m1], [kid |-> kid2, material |-> m1]}
MCInitialKeys == {[kid |-> kid1, material |-> m1]}
=============================================================================
