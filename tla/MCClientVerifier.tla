-------------------------- MODULE MCClientVerifier --------------------------
(***************************************************************************)
(* Two versions with a certificate each, the first of whose badges lists   *)
(* both: a withdrawal, and the deployment of a version not yet published.  *)
(* Badges are Active and records have a version; the theorems have neither *)
(* restriction.                                                            *)
(***************************************************************************)
EXTENDS ClientVerifier, TLC

CONSTANTS c1, c2, noName

Callers == Permutations(Task)

CertNames == [c \in Cert |-> CASE c = c1 -> 1 [] c = c2 -> 2 [] OTHER -> 0]

Active(cs, v) == [status |-> "Active", certs |-> cs, agent |-> v, host |-> TRUE]

Badges == {Active({c1, c2}, 1), Active({c2}, 2)}

Records == {[version |-> 1, agent |-> 1], [version |-> 2, agent |-> 2]}

=============================================================================
