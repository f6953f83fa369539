------------------------ MODULE MCScittVerification ------------------------
(* Two log keys, one of them rotated in; one agent with a server and an     *)
(* identity certificate; tokens and receipts of either key, good and bad.   *)
EXTENDS ScittVerification, TLC

Key(hash, id) == [hash |-> hash, id |-> id]
K1 == Key(1, "a")
K2 == Key(2, "b")
Line(k) == [defects |-> {}, name |-> "log", kid |-> k.hash, key |-> k]

MCInitialKeys == 1 :> Trusted(Line(K1))
MCPublished == <<Line(Key(1, "c")), Line(K2)>>

T(k, exp, status) ==
    [defects |-> {}, kid |-> k.hash, signer |-> k, iss |-> "log", exp |-> exp,
     status |-> status, serverCerts |-> {"s"}, identityCerts |-> {"i"},
     ansName |-> "n", agent |-> "id", host |-> "h"]
T1 == T(K1, 1, "ACTIVE")
T2 == T(K2, 2, "ACTIVE")

R(k, name, host, defects) ==
    [defects |-> defects, kid |-> k.hash, signer |-> k, iss |-> NoIssuer,
     ansName |-> name, ansId |-> {}, host |-> host]
R1 == R(K1, "n", {"h"}, {})
R2 == R(K2, "n", {"h"}, {})
ROther == R(K1, "m", {"h"}, {})
RBad == R(K1, "n", {"h"}, {"walk"})

ServerCert == [fp |-> "s", name |-> {}, host |-> {"h"}]
ClientCert == [fp |-> "i", name |-> {"n"}, host |-> {"h"}]

Req(server, cert, dialed, token, receipt) ==
    [isServer |-> server, cert |-> cert, dialed |-> dialed, token |-> token,
     receipt |-> receipt]

MCRequests ==
    { Req(TRUE, ServerCert, "h", T1, Absent),   \* a good token
      Req(TRUE, ServerCert, "h", T1, R1),       \* with its receipt
      Req(TRUE, ServerCert, "h", T1, R2),       \* a receipt of the new key
      Req(TRUE, ServerCert, "h", T2, R2),       \* a token of the new key
      Req(TRUE, ServerCert, "x", T1, Absent),   \* another host was dialed
      Req(TRUE, ServerCert, "h", T1, ROther),   \* another agent's receipt
      Req(TRUE, ServerCert, "h", T1, RBad),     \* a broken proof
      Req(FALSE, ServerCert, "x", T1, Absent),  \* the server's certificate as client
      Req(FALSE, ClientCert, "x", T1, R1),      \* the client itself
      Req(TRUE, ServerCert, "h", Absent, R1),   \* a receipt alone
      Req(TRUE, ServerCert, "h", Absent, Absent) }

Symmetric == Permutations(Tasks)
=============================================================================
