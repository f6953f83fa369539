---------------------------- MODULE MCDpopReplay ----------------------------
(* A small instance of DpopReplay: two proofs share a jti. *)
EXTENDS DpopReplay, TLC

CONSTANTS t1, t2, t3, j1, j2, j3

MCProof == {[jti |-> j1, iat |-> 2], [jti |-> j1, iat |-> 5],
            [jti |-> j2, iat |-> 2], [jti |-> j3, iat |-> 3]}
Tasks == Permutations(Task)
=============================================================================
