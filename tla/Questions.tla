----------------------------- MODULE Questions -----------------------------
(***************************************************************************)
(* Questions about sequential modules, as predicates over one input of a   *)
(* family.  MCAlgorithms enumerates small inputs; Questions_proofs and     *)
(* ScittVerification_proofs answer the questions for all of them.          *)
(***************************************************************************)
EXTENDS ProofOfPossession

CONSTANTS
    Bad,        \* a field of a DNS row that does not parse
    Malformed,  \* a DNS row that does not parse
    NoReply, MaxRedirects, DefaultCache,   \* of VerifierConfiguration
    MaxHashPathLen,                        \* of MerkleProof
    Null                                   \* of RegistrationClient

Tlsa == INSTANCE DaneMatching
Config == INSTANCE VerifierConfiguration
Merkle == INSTANCE MerkleProof
Log == INSTANCE LogClients
Ans == INSTANCE CertificateRequests
RA == INSTANCE RegistrationClient

\* CacheConfig holds two durations, and None is no policy.
ASSUME DefaultCacheAssumption == DefaultCache \in [default : Nat, hard : Nat]
ASSUME AbsentAssumption == Absent # "RequireScitt"
ASSUME HashPathAssumption == MaxHashPathLen \in Nat
ASSUME RedirectAssumption == MaxRedirects \in Nat

VARIABLE input   \* [family, of]: what is asked, and of which arguments

Pick(name, value) == input' = [family |-> name, of |-> value]
Given(name) == input.family = name

UpTo(n, S) == UNION {[1 .. k -> S] : k \in 0 .. n}

\* Every error of a token or a receipt is there and blames the right party
\* (verify_status_token_at, verify_receipt), and no answer of the log changes
\* a verdict other than UnknownKeyId (merge_from).  An input is the artifact,
\* the trusted keys, the answers, the tolerance and the time.
ArtifactErrors ==
    Given("artifact") =>
        /\ ErrorsAreEarned(input.of[1], input.of[2], input.of[4], input.of[5])
        /\ \A lines \in input.of[3] :
             RefreshIsMonotone(input.of[1], input.of[2], lines, input.of[4], input.of[5])

\* A proof binds its own request (verify_proof_unrecorded) and an accepted caller
\* is proven (verify_caller_with_content).
PopBinds ==
    /\ Given("proof") => ProofBindsRequest(input.of[1], input.of[2], input.of[3],
                                           input.of[4], input.of[5], input.of[6])
    /\ Given("caller") => CallerIsProven(input.of[1], input.of[2], input.of[3],
                                         input.of[4], input.of[5], input.of[6])

\* DANE decides what lookup_tlsa, verify_dane and enforce_dane make of TLSA rows
\* as RFC 6698 says, a bogus zone decides nothing, and a renewed certificate of
\* the same key is judged like the old one.
DaneDecides ==
    /\ Given("tlsa") => Tlsa!DaneSound(input.of[1], input.of[2], input.of[3])
    /\ Given("zone") => Tlsa!BogusNeverAccepted(input.of[1], input.of[2],
                                                input.of[3], input.of[4])
    /\ Given("renewal") => Tlsa!RenewalStable(input.of[1], input.of[2], input.of[3])

\* Of all that walk_inclusion_path is given, it takes to the root of a tree what is
\* in the tree, and that along its RFC 9162 path only.  An input is the size of the
\* tree, the position, the leaf and the length that paths have at most.
InclusionExact ==
    Given("walk") =>
        LET n == input.of[1]
        IN  Merkle!WalkIsExact(n, input.of[2], input.of[3],
                               UpTo(input.of[4], Merkle!Nodes(n)))

\* A verifier does what its configuration says, however it was put together: the
\* order of builder calls, what build refuses, the accessors of an outcome and the
\* verifiers of a TLS handshake.
ConfigurationHonoured ==
    /\ Given("build") =>
         /\ Config!CallsCommute(input.of[1])
         /\ \A systemDns \in BOOLEAN :
              /\ Config!BuildersAgree(input.of[1], systemDns)
              /\ \A url \in input.of[2] : Config!BuildIsSafe(input.of[1], systemDns, url)
    /\ Given("outcome") => Config!OutcomesAgree(input.of)
    /\ Given("handshake") =>
         Config!HandshakesAreSound(input.of[1], input.of[2], input.of[3], input.of[4],
                                   input.of[5], input.of[6])
\* DNS and the log are quoted truthfully: an outage is told from an answer, no
\* host but the one asked decides, and no order of arrival matters (dns.rs,
\* tlog.rs, scitt/client.rs and the is_unavailable of their errors).  A question to
\* the log is the trusted hosts, the client, the agent, the URL and the web.
AnswersHonest ==
    /\ Given("badge") => Tlsa!LookupsAreHonest(input.of[1], input.of[2])
    /\ Given("discovery") => Tlsa!DiscoveryIsHonest(input.of[1], input.of[2])
    /\ Given("records") => Tlsa!ChoiceIgnoresOrder(input.of)
    /\ Given("log") =>
         /\ Log!BadgesAreHonest(input.of[1], input.of[2], input.of[4], input.of[5])
         /\ Log!LookupsStayHome(input.of[2], input.of[3], input.of[5])
    /\ Given("errors") => Log!AdverseSurvives(input.of)
    /\ Given("artifacts") => /\ Log!ScittErrorsHonest(input.of[2], input.of[3], input.of[4])
                             /\ Log!RootKeysHonest(input.of[2], input.of[4])
                             /\ Log!BaseIsKept(input.of[1], <<"root-keys">>)

\* Names agree wherever they are written: in URIs, DNS, certificates and badges
\* (Fqdn, AnsName, AnsCsrBuilder::build, Badge, verify_against_badge).
IdentityAgrees ==
    /\ Given("name") => Ans!NamesPrintOnce(input.of)
    /\ Given("labels") => Ans!LabelsStayApart(input.of[1], input.of[2])
    /\ Given("lookups") => Ans!LookupsAreApart(input.of[1], input.of[2])
    /\ Given("request") =>
         /\ Ans!RequestsAreAcceptable(input.of[1], input.of[2], input.of[4], input.of[5])
         /\ Ans!RenewalKeepsKey(input.of[1], input.of[2], input.of[3], input.of[4], input.of[5])
         /\ input.of[5] = Absent /\ input.of[2] = input.of[3] =>
              Ans!CertificateFitsBadge(input.of[1], input.of[2], input.of[4], input.of[6])
    /\ Given("badge of") =>
         LET badge == Ans!Badge(input.of[1])
         IN  /\ Ans!BadgesReadTwice(input.of[1])
             /\ badge # Malformed => \A dialed \in input.of[3] :
                    Ans!RolesAreApart(badge, input.of[2], dialed)

\* A call of the registration client does what its caller asked, or says why not
\* (AnsClient's operations, their requests, errors and models).
RegistrationHonest ==
    /\ Given("client") =>
         /\ input.of[2] = <<>> => RA!RequestsStayApart(input.of[1], input.of[3])
         /\ RA!ProfilesAreHonoured(input.of[1], input.of[2])
    /\ Given("replies") =>
         RA!ErrorsKeepStatus(input.of[1], input.of[2], RA!CsrSubmissionResponse)
    /\ Given("pending") => RA!IdLeadsToAgent(input.of[1], input.of[2])
    /\ Given("feed") => RA!EventsReadInOrder(input.of[1], input.of[2], input.of[3])
    /\ Given("json") => RA!SpellingsAgree(input.of[1], input.of[2], input.of[3])
=============================================================================
