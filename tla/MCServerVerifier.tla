-------------------------- MODULE MCServerVerifier --------------------------
(***************************************************************************)
(* Two versions and two certificates: a rolling deployment, a renewal, a   *)
(* revocation and a withdrawal all happen with these badges and records.   *)
(***************************************************************************)
EXTENDS ServerVerifier, TLC

CONSTANTS c1, c2

Callers == Permutations(Task)

Active(cs) == [status |-> "Active", certs |-> cs, host |-> TRUE]

AllBadges ==
    {Active({c1}), Active({c2}),
     [status |-> "Revoked", certs |-> {c1}, host |-> TRUE],
     [status |-> "Unknown", certs |-> {c1}, host |-> TRUE],
     [status |-> "Active", certs |-> {c1}, host |-> FALSE]}

FewBadges == {Active({c1}), [status |-> "Revoked", certs |-> {c1}, host |-> TRUE]}
Renewal == {Active({c1}), Active({c2}), [status |-> "Revoked", certs |-> {c1}, host |-> TRUE]}

Versioned == {[version |-> v, agent |-> v] : v \in Version}
OneUnversioned == {[version |-> 2, agent |-> 2], [version |-> 0, agent |-> 1]}
OneRecord == {[version |-> 1, agent |-> 1]}

=============================================================================
