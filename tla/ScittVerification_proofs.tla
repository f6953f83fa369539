---------------------- MODULE ScittVerification_proofs ----------------------
(***************************************************************************)
(* Proofs about the SCITT modules.  ScittArtifacts and ProofOfPossession,  *)
(* for every input rather than the enumerated ones of MCAlgorithms; then   *)
(* ScittVerification, its tier policies and caches, for any number of      *)
(* concurrent calls of both roles, any certificates, tokens and receipts,  *)
(* any keys before and after a refresh.                                    *)
(***************************************************************************)
EXTENDS ScittVerification, Questions, WellFoundedInduction, SequenceTheorems, TLAPS

(***************************************************************************)
(* The first error of a sequence of checks                                 *)
(***************************************************************************)
\* A check that can fail has an error other than "ok".
IsChecks(s) == \E S : s \in Seq(S) /\ \A i \in 1 .. Len(s) : s[i][1] \/ s[i][2] # "ok"
Passes(checks) == \A i \in 1 .. Len(checks) : checks[i][1]

\* A set of naturals has a least member: induction, as far as the prover has it.
LEMMA LeastNumber ==
    ASSUME NEW S \in SUBSET Nat, S # {} PROVE \E i \in S : \A j \in S : i <= j
<1>1. PICK i \in S : \A j \in S : <<j, i>> \notin OpToRel(<, Nat)
  BY NatLessThanWellFounded, WFMin
<1>2. \A j \in S : ~(j < i)
  BY <1>1 DEF OpToRel
<1> QED
  BY <1>2

LEMMA FirstFailing ==
    ASSUME NEW checks, IsChecks(checks), ~Passes(checks)
    PROVE  \E i \in 1 .. Len(checks) :
             /\ ~checks[i][1] /\ First(checks) = checks[i][2]
             /\ \A j \in 1 .. Len(checks) : ~checks[j][1] => i <= j
<1> DEFINE failing == {i \in 1 .. Len(checks) : ~checks[i][1]}
           least == CHOOSE i \in failing : \A j \in failing : i <= j
<1>1. failing # {} /\ failing \in SUBSET Nat
  BY DEF Passes, IsChecks
<1>2. \E i \in failing : \A j \in failing : i <= j
  BY <1>1, LeastNumber
<1>3. least \in failing /\ \A j \in failing : least <= j
  BY <1>2
<1>4. First(checks) = checks[least][2]
  BY <1>1 DEF First
<1> QED
  BY <1>3, <1>4

LEMMA FirstOk ==
    ASSUME NEW checks, IsChecks(checks)
    PROVE  /\ First(checks) = "ok" <=> Passes(checks)
           /\ ~Passes(checks) => \E i \in 1 .. Len(checks) : First(checks) = checks[i][2]
<1>1. Passes(checks) => First(checks) = "ok"
  BY DEF First, Passes
<1>2. ASSUME ~Passes(checks) 
      PROVE \E i \in 1 .. Len(checks) : First(checks) = checks[i][2] /\ checks[i][2] # "ok"
  BY <1>2, FirstFailing, ElementOfSeq DEF IsChecks
<1> QED
  BY <1>1, <1>2

LEMMA FirstOfConcat ==
    ASSUME NEW s, NEW t, IsChecks(s), IsChecks(t)
    PROVE  /\ IsChecks(s \o t)
           /\ Passes(s \o t) <=> Passes(s) /\ Passes(t)
           /\ First(s \o t) = IF Passes(s) THEN First(t) ELSE First(s)
<1>1. /\ IsChecks(s \o t) /\ Len(s) \in Nat /\ Len(t) \in Nat
      /\ Len(s \o t) = Len(s) + Len(t)
      /\ \A i \in 1 .. Len(s) + Len(t) :
           (s \o t)[i] = IF i <= Len(s) THEN s[i] ELSE t[i - Len(s)]
  <2>1. PICK S : s \in Seq(S) /\ \A i \in 1 .. Len(s) : s[i][1] \/ s[i][2] # "ok"
    BY DEF IsChecks
  <2>2. PICK T : t \in Seq(T) /\ \A i \in 1 .. Len(t) : t[i][1] \/ t[i][2] # "ok"
    BY DEF IsChecks
  <2>3. s \in Seq(S \cup T) /\ t \in Seq(S \cup T)
    BY <2>1, <2>2, SeqMonotonic
  <2>4. /\ s \o t \in Seq(S \cup T) /\ Len(s) \in Nat /\ Len(t) \in Nat
        /\ Len(s \o t) = Len(s) + Len(t)
        /\ \A i \in 1 .. Len(s) + Len(t) :
             (s \o t)[i] = IF i <= Len(s) THEN s[i] ELSE t[i - Len(s)]
    BY <2>3
  <2>5. \A i \in 1 .. Len(s \o t) : (s \o t)[i][1] \/ (s \o t)[i][2] # "ok"
    BY <2>1, <2>2, <2>4
  <2> QED
    BY <2>4, <2>5 DEF IsChecks
<1>2. \A i \in 1 .. Len(s) : (s \o t)[i] = s[i]
  BY <1>1
<1>3. \A i \in 1 .. Len(t) : (s \o t)[i + Len(s)] = t[i] /\ i + Len(s) \in 1 .. Len(s \o t)
  BY <1>1
<1>4. Passes(s \o t) <=> Passes(s) /\ Passes(t)
  <2>1. Passes(s \o t) => Passes(s) /\ Passes(t)
    BY <1>1, <1>2, <1>3 DEF Passes
  <2>2. Passes(s) /\ Passes(t) => Passes(s \o t)
    BY <1>1 DEF Passes
  <2> QED
    BY <2>1, <2>2
<1>5. ASSUME ~Passes(s) PROVE First(s \o t) = First(s)
  <2>1. PICK i \in 1 .. Len(s) : /\ ~s[i][1] /\ First(s) = s[i][2]
                                 /\ \A j \in 1 .. Len(s) : ~s[j][1] => i <= j
    BY <1>5, FirstFailing
  <2>2. PICK k \in 1 .. Len(s \o t) :
          /\ ~(s \o t)[k][1] /\ First(s \o t) = (s \o t)[k][2]
          /\ \A j \in 1 .. Len(s \o t) : ~(s \o t)[j][1] => k <= j
    BY <1>1, <1>4, <1>5, FirstFailing
  <2>3. k <= i
    BY <1>1, <1>2, <2>1, <2>2
  <2>4. i <= k
    BY <1>1, <1>2, <2>1, <2>2, <2>3
  <2> QED
    BY <1>1, <1>2, <2>1, <2>2, <2>3, <2>4
<1>6. ASSUME Passes(s) PROVE First(s \o t) = First(t)
  <2>1. CASE Passes(t)
    BY <1>1, <1>4, <1>6, <2>1, FirstOk
  <2>2. CASE ~Passes(t)
    <3>1. PICK i \in 1 .. Len(t) : /\ ~t[i][1] /\ First(t) = t[i][2]
                                   /\ \A j \in 1 .. Len(t) : ~t[j][1] => i <= j
      BY <2>2, FirstFailing
    <3>2. PICK k \in 1 .. Len(s \o t) :
            /\ ~(s \o t)[k][1] /\ First(s \o t) = (s \o t)[k][2]
            /\ \A j \in 1 .. Len(s \o t) : ~(s \o t)[j][1] => k <= j
      BY <1>1, <1>4, <2>2, FirstFailing
    <3>3. k > Len(s) /\ k - Len(s) \in 1 .. Len(t) /\ (s \o t)[k] = t[k - Len(s)]
      BY <1>1, <1>2, <1>6, <3>2 DEF Passes
    <3>4. k <= i + Len(s)
      <4>1. i + Len(s) \in 1 .. Len(s \o t) /\ (s \o t)[i + Len(s)] = t[i]
        BY <1>3, <3>1
      <4>2. ~(s \o t)[i + Len(s)][1]
        BY <3>1, <4>1
      <4> QED
        BY <3>2, <4>1, <4>2
    <3>5. i <= k - Len(s)
      <4>1. ~t[k - Len(s)][1]
        BY <3>2, <3>3
      <4> QED
        BY <3>1, <3>3, <4>1
    <3>6. k - Len(s) = i
      <4>1. k \in Int /\ i \in Int /\ Len(s) \in Int
        BY <1>1
      <4> QED
        BY <3>4, <3>5, <4>1
    <3> QED
      BY <3>1, <3>2, <3>3, <3>6
  <2> QED
    BY <2>1, <2>2
<1> QED
  BY <1>1, <1>4, <1>5, <1>6

\* Four checks, as every verdict below has where it depends on the keys.
LEMMA FirstOfFour ==
    ASSUME NEW c, IsChecks(c), Len(c) = 4
    PROVE  First(c) = IF ~c[1][1] THEN c[1][2] ELSE IF ~c[2][1] THEN c[2][2]
                      ELSE IF ~c[3][1] THEN c[3][2] ELSE IF ~c[4][1] THEN c[4][2] ELSE "ok"
<1>1. CASE Passes(c)
  BY <1>1, FirstOk DEF Passes
<1>2. CASE ~Passes(c)
  <2>1. PICK i \in 1 .. 4 : /\ ~c[i][1] /\ First(c) = c[i][2]
                            /\ \A j \in 1 .. 4 : ~c[j][1] => i <= j
    BY <1>2, FirstFailing
  <2> QED
    BY <2>1
<1> QED
  BY <1>1, <1>2

-----------------------------------------------------------------------------
(* The verdict on a token and on a receipt, by the groups of its checks     *)

\* The groups that the definitions of ScittArtifacts put together.
EnvelopeChecks(a) ==
    << <<"oversized"   \notin a.defects, "OversizedInput">>,
       <<"cbor"        \notin a.defects, "CborDecodeError">>,
       <<"trailing"    \notin a.defects, "CborDecodeError">>,
       <<"not cose"    \notin a.defects, "NotACoseSign1">>,
       <<"arity"       \notin a.defects, "InvalidArrayLength">>,
       <<"element"     \notin a.defects, "InvalidProtectedHeader">>,
       <<"detached"    \notin a.defects, "InvalidProtectedHeader">>,
       <<"sig length"  \notin a.defects, "InvalidSignatureLength">> >>
ClaimChecks(a) ==
    << <<"payload"    \notin a.defects, "CborDecodeError">>,
       <<"agent id"   \notin a.defects, "CborDecodeError">>,
       <<KnownStatus(a),                "CborDecodeError">> >>
PresenceChecks(a) ==
    << <<"metadata"   \notin a.defects, "CborDecodeError">>,
       <<"field"      \notin a.defects, "MissingTokenField">>,
       <<"ans name"   \notin a.defects, "MissingTokenField">> >>
TokenKeyChecks(a, store) ==
    << <<"sig encoding" \notin a.defects, "SignatureInvalid">>,
       <<KnownKey(a, store),    "UnknownKeyId">>,
       <<SignedBy(a, store),    "SignatureInvalid">>,
       <<IssuerBound(a, store), "IssuerMismatch">> >>
TokenEndChecks(a, skew, at) ==
    << <<~Lapsed(a, skew, at),    "TokenExpired">>,
       <<~ShouldReject(a.status), "TerminalStatus">> >>
ReceiptKeyChecks(a, store) ==
    << <<"vds" \notin a.defects, "InvalidProtectedHeader">>,
       <<KnownKey(a, store),     "UnknownKeyId">>,
       <<IssuerBound(a, store),  "IssuerMismatch">>,
       <<"sig encoding" \notin a.defects /\ SignedBy(a, store), "SignatureInvalid">> >>
WalkChecks(a) == << <<"walk" \notin a.defects, "InvalidMerkleProof">> >>

\* No error is called "ok", so that "ok" is the verdict of nothing but success.
LEMMA Parts ==
    ASSUME NEW a
    PROVE  /\ IsChecks(EnvelopeChecks(a)) /\ IsChecks(HeaderChecks(a))
           /\ IsChecks(ClaimChecks(a)) /\ IsChecks(CertEntryChecks(a))
           /\ IsChecks(PresenceChecks(a))
<1>1. IsChecks(EnvelopeChecks(a)) /\ IsChecks(HeaderChecks(a))
  <2> DEFINE c == EnvelopeChecks(a)
             h == HeaderChecks(a)
  <2>1. c \in Seq({c[i] : i \in 1 .. 8}) /\ Len(c) = 8
    <3>1. DOMAIN c = 1 .. 8 /\ c = [i \in 1 .. 8 |-> c[i]]
      BY DEF EnvelopeChecks
    <3> HIDE DEF c
    <3>2. [i \in 1 .. 8 |-> c[i]] \in Seq({c[i] : i \in 1 .. 8})
      OBVIOUS
    <3> QED
      BY <3>1, <3>2
  <2>2. \A i \in 1 .. 8 : c[i][2] # "ok"
    <3>1. /\ c[1][2] = "OversizedInput" /\ c[2][2] = "CborDecodeError"
          /\ c[3][2] = "CborDecodeError" /\ c[4][2] = "NotACoseSign1"
          /\ c[5][2] = "InvalidArrayLength" /\ c[6][2] = "InvalidProtectedHeader"
          /\ c[7][2] = "InvalidProtectedHeader" /\ c[8][2] = "InvalidSignatureLength"
      BY DEF EnvelopeChecks
    <3> HIDE DEF c
    <3> QED
      BY <3>1
  <2>3. h \in Seq({h[i] : i \in 1 .. 5}) /\ Len(h) = 5
    <3>1. DOMAIN h = 1 .. 5 /\ h = [i \in 1 .. 5 |-> h[i]]
      BY DEF HeaderChecks
    <3> HIDE DEF h
    <3>2. [i \in 1 .. 5 |-> h[i]] \in Seq({h[i] : i \in 1 .. 5})
      OBVIOUS
    <3> QED
      BY <3>1, <3>2
  <2>4. \A i \in 1 .. 5 : h[i][2] # "ok"
    <3>1. /\ h[1][2] = "InvalidProtectedHeader" /\ h[2][2] = "InvalidProtectedHeader"
          /\ h[3][2] = "UnsupportedAlgorithm" /\ h[4][2] = "MissingKid"
          /\ h[5][2] = "InvalidProtectedHeader"
      BY DEF HeaderChecks
    <3> HIDE DEF h
    <3> QED
      BY <3>1
  <2> HIDE DEF c, h
  <2>6. IsChecks(c) /\ IsChecks(h)
    BY <2>1, <2>2, <2>3, <2>4 DEF IsChecks
  <2> QED
    BY <2>6 DEF c, h
<1>2. IsChecks(ClaimChecks(a)) /\ IsChecks(CertEntryChecks(a)) /\ IsChecks(PresenceChecks(a))
  <2> DEFINE c == ClaimChecks(a)
             e == CertEntryChecks(a)
             d == PresenceChecks(a)
  <2>1. c \in Seq({c[1], c[2], c[3]}) /\ Len(c) = 3 /\ \A i \in 1 .. 3 : c[i][2] # "ok"
    BY DEF ClaimChecks
  <2>2. e \in Seq({e[1], e[2], e[3], e[4]}) /\ Len(e) = 4 /\ \A i \in 1 .. 4 : e[i][2] # "ok"
    BY DEF CertEntryChecks
  <2>3. d \in Seq({d[1], d[2], d[3]}) /\ Len(d) = 3 /\ \A i \in 1 .. 3 : d[i][2] # "ok"
    BY DEF PresenceChecks
  <2> HIDE DEF c, d, e
  <2>5. IsChecks(c) /\ IsChecks(d) /\ IsChecks(e)
    BY <2>1, <2>2, <2>3 DEF IsChecks
  <2> QED
    BY <2>5 DEF c, d, e
<1> QED
  BY <1>1, <1>2

LEMMA CheckGroups ==
    ASSUME NEW a, NEW store, NEW skew, NEW at
    PROVE  /\ IsChecks(CoseChecks(a)) /\ IsChecks(PayloadChecks(a))
           /\ IsChecks(VdpChecks(a)) /\ IsChecks(WalkChecks(a))
           /\ IsChecks(TokenKeyChecks(a, store)) /\ IsChecks(ReceiptKeyChecks(a, store))
           /\ IsChecks(TokenEndChecks(a, skew, at))
<1>1. IsChecks(CoseChecks(a))
  <2>1. CoseChecks(a) = EnvelopeChecks(a) \o HeaderChecks(a)
    BY DEF CoseChecks, EnvelopeChecks
  <2> QED
    BY <2>1, Parts, FirstOfConcat
<1>2. IsChecks(PayloadChecks(a))
  <2>1. PayloadChecks(a) = (ClaimChecks(a) \o CertEntryChecks(a)) \o PresenceChecks(a)
    BY DEF PayloadChecks, ClaimChecks, PresenceChecks
  <2>2. IsChecks(ClaimChecks(a) \o CertEntryChecks(a))
    BY Parts, FirstOfConcat
  <2> QED
    BY <2>1, <2>2, Parts, FirstOfConcat
<1>3. IsChecks(VdpChecks(a)) /\ IsChecks(WalkChecks(a))
  <2> DEFINE v == VdpChecks(a)
             w == WalkChecks(a)
  <2>1. v \in Seq({v[1], v[2], v[3], v[4]}) /\ Len(v) = 4 /\ \A i \in 1 .. 4 : v[i][2] # "ok"
    BY DEF VdpChecks
  <2>2. w \in Seq({w[1]}) /\ Len(w) = 1 /\ \A i \in 1 .. 1 : w[i][2] # "ok"
    BY DEF WalkChecks
  <2> QED
    BY <2>1, <2>2 DEF IsChecks
<1>4. IsChecks(TokenKeyChecks(a, store)) /\ IsChecks(ReceiptKeyChecks(a, store))
  <2> DEFINE v == TokenKeyChecks(a, store)
             w == ReceiptKeyChecks(a, store)
  <2>1. v \in Seq({v[1], v[2], v[3], v[4]}) /\ Len(v) = 4 /\ \A i \in 1 .. 4 : v[i][2] # "ok"
    BY DEF TokenKeyChecks
  <2>2. w \in Seq({w[1], w[2], w[3], w[4]}) /\ Len(w) = 4 /\ \A i \in 1 .. 4 : w[i][2] # "ok"
    BY DEF ReceiptKeyChecks
  <2> QED
    BY <2>1, <2>2 DEF IsChecks
<1>5. IsChecks(TokenEndChecks(a, skew, at))
  <2> DEFINE e == TokenEndChecks(a, skew, at)
  <2>1. e \in Seq({e[1], e[2]}) /\ Len(e) = 2 /\ \A i \in 1 .. 2 : e[i][2] # "ok"
    BY DEF TokenEndChecks
  <2> QED
    BY <2>1 DEF IsChecks
<1> QED
  BY <1>1, <1>2, <1>3, <1>4, <1>5

\* What a group of checks may report.
Reports(s, errors) == \A i \in 1 .. Len(s) : s[i][2] \in errors

LEMMA ReportsFirst ==
    ASSUME NEW s, NEW errors, IsChecks(s), Reports(s, errors)
    PROVE  First(s) \in errors \cup {"ok"}
  BY FirstOk DEF Reports

LEMMA ReportsConcat ==
    ASSUME NEW s, NEW t, NEW errors, IsChecks(s), IsChecks(t),
           First(s) \in errors \cup {"ok"}, First(t) \in errors \cup {"ok"}
    PROVE  First(s \o t) \in errors \cup {"ok"}
  BY FirstOfConcat

CoseErrors ==
    {"OversizedInput", "CborDecodeError", "NotACoseSign1", "InvalidArrayLength",
     "InvalidProtectedHeader", "InvalidSignatureLength", "UnsupportedAlgorithm", "MissingKid"}

LEMMA GroupErrors ==
    ASSUME NEW a, NEW skew, NEW at
    PROVE  /\ First(CoseChecks(a)) \in CoseErrors \cup {"ok"}
           /\ First(PayloadChecks(a)) \in {"CborDecodeError", "MissingTokenField"} \cup {"ok"}
           /\ First(VdpChecks(a)) \in {"InvalidMerkleProof"} \cup {"ok"}
           /\ First(WalkChecks(a)) \in {"InvalidMerkleProof"} \cup {"ok"}
           /\ First(TokenEndChecks(a, skew, at)) \in {"TokenExpired", "TerminalStatus"} \cup {"ok"}
<1>1. /\ CoseChecks(a) = EnvelopeChecks(a) \o HeaderChecks(a)
      /\ PayloadChecks(a) = (ClaimChecks(a) \o CertEntryChecks(a)) \o PresenceChecks(a)
  BY DEF CoseChecks, EnvelopeChecks, PayloadChecks, ClaimChecks, PresenceChecks
<1>2. Reports(EnvelopeChecks(a), CoseErrors)
  <2> DEFINE c == EnvelopeChecks(a)
  <2>1. /\ Len(c) = 8
        /\ c[1][2] = "OversizedInput" /\ c[2][2] = "CborDecodeError"
        /\ c[3][2] = "CborDecodeError" /\ c[4][2] = "NotACoseSign1"
        /\ c[5][2] = "InvalidArrayLength" /\ c[6][2] = "InvalidProtectedHeader"
        /\ c[7][2] = "InvalidProtectedHeader" /\ c[8][2] = "InvalidSignatureLength"
    BY DEF EnvelopeChecks
  <2> HIDE DEF c
  <2>2. \A i \in 1 .. 8 : c[i][2] \in CoseErrors
    BY <2>1 DEF CoseErrors
  <2> QED
    BY <2>1, <2>2 DEF Reports, c
<1>3. Reports(HeaderChecks(a), CoseErrors)
  <2> DEFINE h == HeaderChecks(a)
  <2>1. /\ Len(h) = 5
        /\ h[1][2] = "InvalidProtectedHeader" /\ h[2][2] = "InvalidProtectedHeader"
        /\ h[3][2] = "UnsupportedAlgorithm" /\ h[4][2] = "MissingKid"
        /\ h[5][2] = "InvalidProtectedHeader"
    BY DEF HeaderChecks
  <2> HIDE DEF h
  <2>2. \A i \in 1 .. 5 : h[i][2] \in CoseErrors
    BY <2>1 DEF CoseErrors
  <2> QED
    BY <2>1, <2>2 DEF Reports, h
<1>4. /\ Reports(ClaimChecks(a), {"CborDecodeError", "MissingTokenField"})
      /\ Reports(CertEntryChecks(a), {"CborDecodeError", "MissingTokenField"})
      /\ Reports(PresenceChecks(a), {"CborDecodeError", "MissingTokenField"})
  <2>1. Reports(ClaimChecks(a), {"CborDecodeError", "MissingTokenField"})
    <3> DEFINE c == ClaimChecks(a)
    <3>1. /\ Len(c) = 3
          /\ c[1][2] = "CborDecodeError"
          /\ c[2][2] = "CborDecodeError"
          /\ c[3][2] = "CborDecodeError"
      BY DEF ClaimChecks
    <3> HIDE DEF c
    <3>2. \A i \in 1 .. 3 : c[i][2] \in {"CborDecodeError", "MissingTokenField"}
      BY <3>1
    <3> QED
      BY <3>1, <3>2 DEF Reports, c
  <2>2. Reports(CertEntryChecks(a), {"CborDecodeError", "MissingTokenField"})
    <3> DEFINE c == CertEntryChecks(a)
    <3>1. /\ Len(c) = 4
          /\ c[1][2] = "CborDecodeError"
          /\ c[2][2] = "CborDecodeError"
          /\ c[3][2] = "CborDecodeError"
          /\ c[4][2] = "MissingTokenField"
      BY DEF CertEntryChecks
    <3> HIDE DEF c
    <3>2. \A i \in 1 .. 4 : c[i][2] \in {"CborDecodeError", "MissingTokenField"}
      BY <3>1
    <3> QED
      BY <3>1, <3>2 DEF Reports, c
  <2>3. Reports(PresenceChecks(a), {"CborDecodeError", "MissingTokenField"})
    <3> DEFINE c == PresenceChecks(a)
    <3>1. /\ Len(c) = 3
          /\ c[1][2] = "CborDecodeError"
          /\ c[2][2] = "MissingTokenField"
          /\ c[3][2] = "MissingTokenField"
      BY DEF PresenceChecks
    <3> HIDE DEF c
    <3>2. \A i \in 1 .. 3 : c[i][2] \in {"CborDecodeError", "MissingTokenField"}
      BY <3>1
    <3> QED
      BY <3>1, <3>2 DEF Reports, c
  <2> QED
    BY <2>1, <2>2, <2>3
<1>5. /\ Reports(VdpChecks(a), {"InvalidMerkleProof"})
      /\ Reports(WalkChecks(a), {"InvalidMerkleProof"})
      /\ Reports(TokenEndChecks(a, skew, at), {"TokenExpired", "TerminalStatus"})
  <2>1. Reports(VdpChecks(a), {"InvalidMerkleProof"})
    <3> DEFINE c == VdpChecks(a)
    <3>1. /\ Len(c) = 4
          /\ c[1][2] = "InvalidMerkleProof"
          /\ c[2][2] = "InvalidMerkleProof"
          /\ c[3][2] = "InvalidMerkleProof"
          /\ c[4][2] = "InvalidMerkleProof"
      BY DEF VdpChecks
    <3> HIDE DEF c
    <3>2. \A i \in 1 .. 4 : c[i][2] \in {"InvalidMerkleProof"}
      BY <3>1
    <3> QED
      BY <3>1, <3>2 DEF Reports, c
  <2>2. Reports(WalkChecks(a), {"InvalidMerkleProof"})
    <3> DEFINE c == WalkChecks(a)
    <3>1. /\ Len(c) = 1
          /\ c[1][2] = "InvalidMerkleProof"
      BY DEF WalkChecks
    <3> HIDE DEF c
    <3>2. \A i \in 1 .. 1 : c[i][2] \in {"InvalidMerkleProof"}
      BY <3>1
    <3> QED
      BY <3>1, <3>2 DEF Reports, c
  <2>3. Reports(TokenEndChecks(a, skew, at), {"TokenExpired", "TerminalStatus"})
    <3> DEFINE c == TokenEndChecks(a, skew, at)
    <3>1. /\ Len(c) = 2
          /\ c[1][2] = "TokenExpired"
          /\ c[2][2] = "TerminalStatus"
      BY DEF TokenEndChecks
    <3> HIDE DEF c
    <3>2. \A i \in 1 .. 2 : c[i][2] \in {"TokenExpired", "TerminalStatus"}
      BY <3>1
    <3> QED
      BY <3>1, <3>2 DEF Reports, c
  <2> QED
    BY <2>1, <2>2, <2>3
<1>6. /\ IsChecks(EnvelopeChecks(a)) /\ IsChecks(HeaderChecks(a)) /\ IsChecks(ClaimChecks(a))
      /\ IsChecks(CertEntryChecks(a)) /\ IsChecks(PresenceChecks(a))
  BY Parts
<1>7. First(CoseChecks(a)) \in CoseErrors \cup {"ok"}
  BY <1>1, <1>2, <1>3, <1>6, ReportsFirst, ReportsConcat
<1>8. First(PayloadChecks(a)) \in {"CborDecodeError", "MissingTokenField"} \cup {"ok"}
  <2> DEFINE errors == {"CborDecodeError", "MissingTokenField"}
  <2>1. /\ First(ClaimChecks(a)) \in errors \cup {"ok"}
        /\ First(CertEntryChecks(a)) \in errors \cup {"ok"}
        /\ First(PresenceChecks(a)) \in errors \cup {"ok"}
    BY <1>4, <1>6, ReportsFirst
  <2> HIDE DEF errors
  <2>2. First(ClaimChecks(a) \o CertEntryChecks(a)) \in errors \cup {"ok"}
    BY <1>6, <2>1, ReportsConcat
  <2>3. IsChecks(ClaimChecks(a) \o CertEntryChecks(a))
    BY <1>6, FirstOfConcat
  <2> QED
    BY <1>1, <1>6, <2>1, <2>2, <2>3, ReportsConcat DEF errors
<1>9. /\ First(VdpChecks(a)) \in {"InvalidMerkleProof"} \cup {"ok"}
      /\ First(WalkChecks(a)) \in {"InvalidMerkleProof"} \cup {"ok"}
      /\ First(TokenEndChecks(a, skew, at)) \in {"TokenExpired", "TerminalStatus"} \cup {"ok"}
  BY <1>5, CheckGroups, ReportsFirst
<1> QED
  BY <1>7, <1>8, <1>9

LEMMA TokenVerdictByGroups ==
    ASSUME NEW a, NEW store, NEW skew, NEW at
    PROVE  TokenVerdict(a, store, skew, at) =
             IF ~Passes(CoseChecks(a)) THEN First(CoseChecks(a))
             ELSE IF ~Passes(TokenKeyChecks(a, store)) THEN First(TokenKeyChecks(a, store))
             ELSE IF ~Passes(PayloadChecks(a)) THEN First(PayloadChecks(a))
             ELSE First(TokenEndChecks(a, skew, at))
<1> DEFINE c == CoseChecks(a)
           k == TokenKeyChecks(a, store)
           p == PayloadChecks(a)
           e == TokenEndChecks(a, skew, at)
<1>1. TokenVerdict(a, store, skew, at) = First(((c \o k) \o p) \o e)
  BY DEF TokenVerdict, TokenKeyChecks, TokenEndChecks
<1>2. IsChecks(c) /\ IsChecks(k) /\ IsChecks(p) /\ IsChecks(e)
  BY CheckGroups
<1> HIDE DEF c, k, p, e
<1>3. /\ IsChecks(c \o k) /\ (Passes(c \o k) <=> Passes(c) /\ Passes(k))
      /\ First(c \o k) = IF Passes(c) THEN First(k) ELSE First(c)
  BY <1>2, FirstOfConcat
<1>4. /\ IsChecks((c \o k) \o p)
      /\ Passes((c \o k) \o p) <=> Passes(c \o k) /\ Passes(p)
      /\ First((c \o k) \o p) = IF Passes(c \o k) THEN First(p) ELSE First(c \o k)
  BY <1>2, <1>3, FirstOfConcat
<1>5. First(((c \o k) \o p) \o e) =
        IF Passes((c \o k) \o p) THEN First(e) ELSE First((c \o k) \o p)
  BY <1>2, <1>4, FirstOfConcat
<1> QED
  BY <1>1, <1>3, <1>4, <1>5 DEF c, k, p, e

LEMMA ReceiptVerdictByGroups ==
    ASSUME NEW a, NEW store
    PROVE  ReceiptVerdict(a, store) =
             IF ~Passes(CoseChecks(a)) THEN First(CoseChecks(a))
             ELSE IF ~Passes(ReceiptKeyChecks(a, store)) THEN First(ReceiptKeyChecks(a, store))
             ELSE IF ~Passes(VdpChecks(a)) THEN First(VdpChecks(a))
             ELSE First(WalkChecks(a))
<1> DEFINE c == CoseChecks(a)
           k == ReceiptKeyChecks(a, store)
           p == VdpChecks(a)
           e == WalkChecks(a)
<1>1. ReceiptVerdict(a, store) = First(((c \o k) \o p) \o e)
  BY DEF ReceiptVerdict, ReceiptKeyChecks, WalkChecks
<1>2. IsChecks(c) /\ IsChecks(k) /\ IsChecks(p) /\ IsChecks(e)
  BY CheckGroups
<1> HIDE DEF c, k, p, e
<1>3. /\ IsChecks(c \o k) /\ (Passes(c \o k) <=> Passes(c) /\ Passes(k))
      /\ First(c \o k) = IF Passes(c) THEN First(k) ELSE First(c)
  BY <1>2, FirstOfConcat
<1>4. /\ IsChecks((c \o k) \o p)
      /\ Passes((c \o k) \o p) <=> Passes(c \o k) /\ Passes(p)
      /\ First((c \o k) \o p) = IF Passes(c \o k) THEN First(p) ELSE First(c \o k)
  BY <1>2, <1>3, FirstOfConcat
<1>5. First(((c \o k) \o p) \o e) =
        IF Passes((c \o k) \o p) THEN First(e) ELSE First((c \o k) \o p)
  BY <1>2, <1>4, FirstOfConcat
<1> QED
  BY <1>1, <1>3, <1>4, <1>5 DEF c, k, p, e

LEMMA KeyVerdicts ==
    ASSUME NEW a, NEW store
    PROVE  /\ First(TokenKeyChecks(a, store)) =
                IF "sig encoding" \in a.defects THEN "SignatureInvalid"
                ELSE IF ~KnownKey(a, store) THEN "UnknownKeyId"
                ELSE IF ~SignedBy(a, store) THEN "SignatureInvalid"
                ELSE IF ~IssuerBound(a, store) THEN "IssuerMismatch" ELSE "ok"
           /\ First(ReceiptKeyChecks(a, store)) =
                IF "vds" \in a.defects THEN "InvalidProtectedHeader"
                ELSE IF ~KnownKey(a, store) THEN "UnknownKeyId"
                ELSE IF ~IssuerBound(a, store) THEN "IssuerMismatch"
                ELSE IF "sig encoding" \in a.defects \/ ~SignedBy(a, store)
                THEN "SignatureInvalid" ELSE "ok"
<1> DEFINE v == TokenKeyChecks(a, store)
           w == ReceiptKeyChecks(a, store)
<1>1. IsChecks(v) /\ IsChecks(w)
  BY CheckGroups
<1>2. Len(v) = 4 /\ Len(w) = 4
  BY DEF TokenKeyChecks, ReceiptKeyChecks
<1>3. /\ v[1][1] <=> "sig encoding" \notin a.defects
      /\ v[2][1] <=> KnownKey(a, store)
      /\ v[3][1] <=> SignedBy(a, store)
      /\ v[4][1] <=> IssuerBound(a, store)
      /\ v[1][2] = "SignatureInvalid" /\ v[2][2] = "UnknownKeyId"
      /\ v[3][2] = "SignatureInvalid" /\ v[4][2] = "IssuerMismatch"
  BY DEF TokenKeyChecks
<1>4. /\ w[1][1] <=> "vds" \notin a.defects
      /\ w[2][1] <=> KnownKey(a, store)
      /\ w[3][1] <=> IssuerBound(a, store)
      /\ w[4][1] <=> "sig encoding" \notin a.defects /\ SignedBy(a, store)
      /\ w[1][2] = "InvalidProtectedHeader" /\ w[2][2] = "UnknownKeyId"
      /\ w[3][2] = "IssuerMismatch" /\ w[4][2] = "SignatureInvalid"
  BY DEF ReceiptKeyChecks
<1> HIDE DEF v, w
<1>5. First(v) = IF ~v[1][1] THEN v[1][2] ELSE IF ~v[2][1] THEN v[2][2]
                 ELSE IF ~v[3][1] THEN v[3][2] ELSE IF ~v[4][1] THEN v[4][2] ELSE "ok"
  BY <1>1, <1>2, FirstOfFour
<1>6. First(w) = IF ~w[1][1] THEN w[1][2] ELSE IF ~w[2][1] THEN w[2][2]
                 ELSE IF ~w[3][1] THEN w[3][2] ELSE IF ~w[4][1] THEN w[4][2] ELSE "ok"
  BY <1>1, <1>2, FirstOfFour
<1>7. First(v) = IF "sig encoding" \in a.defects THEN "SignatureInvalid"
                 ELSE IF ~KnownKey(a, store) THEN "UnknownKeyId"
                 ELSE IF ~SignedBy(a, store) THEN "SignatureInvalid"
                 ELSE IF ~IssuerBound(a, store) THEN "IssuerMismatch" ELSE "ok"
  BY <1>3, <1>5
<1>8. First(w) = IF "vds" \in a.defects THEN "InvalidProtectedHeader"
                 ELSE IF ~KnownKey(a, store) THEN "UnknownKeyId"
                 ELSE IF ~IssuerBound(a, store) THEN "IssuerMismatch"
                 ELSE IF "sig encoding" \in a.defects \/ ~SignedBy(a, store)
                 THEN "SignatureInvalid" ELSE "ok"
  BY <1>4, <1>6
<1> QED
  BY <1>7, <1>8 DEF v, w

-----------------------------------------------------------------------------
(* A refresh of the keys                                                    *)

LEMMA MergeKeeps ==
    ASSUME NEW store, NEW lines
    PROVE  \A kid \in DOMAIN store :
             /\ kid \in DOMAIN MergeFrom(store, lines)
             /\ MergeFrom(store, lines)[kid] = store[kid]
  BY DEF MergeFrom

\* A second refresh from the same lines changes nothing.
LEMMA MergeIdempotent ==
    ASSUME NEW store, NEW lines
    PROVE  MergeFrom(MergeFrom(store, lines), lines) = MergeFrom(store, lines)
<1> DEFINE merged == MergeFrom(store, lines)
           first(kid) == CHOOSE i \in 1 .. Len(Usable(lines)) :
                            /\ Usable(lines)[i].kid = kid
                            /\ \A j \in 1 .. i - 1 : Usable(lines)[j].kid # kid
           value(kid) == Trusted(Usable(lines)[first(kid)])
           new == KidsOf(Usable(lines))
<1> HIDE DEF value, new
<1>1. /\ merged = [kid \in DOMAIN store \cup new |->
                     IF kid \in DOMAIN store THEN store[kid] ELSE value(kid)]
      /\ MergeFrom(merged, lines) = [kid \in DOMAIN merged \cup new |->
                     IF kid \in DOMAIN merged THEN merged[kid] ELSE value(kid)]
  BY DEF MergeFrom, value, new
<1> HIDE DEF merged
<1>2. DOMAIN merged \cup new = DOMAIN merged
  BY <1>1
<1>3. merged = [kid \in DOMAIN merged |-> merged[kid]]
  BY <1>1
<1> QED
  BY <1>1, <1>2, <1>3 DEF merged

LEMMA KnownKeysStay ==
    ASSUME NEW a, NEW store, NEW lines, KnownKey(a, store)
    PROVE  /\ KnownKey(a, MergeFrom(store, lines))
           /\ SignedBy(a, MergeFrom(store, lines)) <=> SignedBy(a, store)
           /\ IssuerBound(a, MergeFrom(store, lines)) <=> IssuerBound(a, store)
  BY MergeKeeps DEF KnownKey, SignedBy, IssuerBound

(***************************************************************************)
(* A refresh of the keys changes no verdict but UnknownKeyId, for every    *)
(* artifact, store and answer of the log (merge_from): what was accepted   *)
(* stays accepted, and no error turns into another one.                    *)
(***************************************************************************)
THEOREM RefreshChangesNoVerdict ==
    ASSUME NEW a, NEW store, NEW lines, NEW skew, NEW at
    PROVE  RefreshIsMonotone(a, store, lines, skew, at)
<1> DEFINE merged == MergeFrom(store, lines)
<1>1. CASE KnownKey(a, store)
  <2>1. /\ First(TokenKeyChecks(a, merged)) = First(TokenKeyChecks(a, store))
        /\ First(ReceiptKeyChecks(a, merged)) = First(ReceiptKeyChecks(a, store))
    BY <1>1, KnownKeysStay, KeyVerdicts
  <2>2. /\ Passes(TokenKeyChecks(a, merged)) <=> Passes(TokenKeyChecks(a, store))
        /\ Passes(ReceiptKeyChecks(a, merged)) <=> Passes(ReceiptKeyChecks(a, store))
    BY <2>1, CheckGroups, FirstOk
  <2> QED
    BY <2>1, <2>2, TokenVerdictByGroups, ReceiptVerdictByGroups DEF RefreshIsMonotone
<1>2. CASE ~KnownKey(a, store)
  <2>1. ASSUME TokenVerdict(a, store, skew, at) # "UnknownKeyId"
        PROVE  TokenVerdict(a, merged, skew, at) = TokenVerdict(a, store, skew, at)
    <3>1. ~Passes(CoseChecks(a)) \/ "sig encoding" \in a.defects
      BY <1>2, <2>1, TokenVerdictByGroups, KeyVerdicts, CheckGroups, FirstOk
    <3>2. CASE ~Passes(CoseChecks(a))
      BY <3>2, TokenVerdictByGroups
    <3>3. CASE "sig encoding" \in a.defects
      <4>1. \A k : First(TokenKeyChecks(a, k)) = "SignatureInvalid"
        BY <3>3, KeyVerdicts
      <4>2. \A k : ~Passes(TokenKeyChecks(a, k))
        BY <4>1, CheckGroups, FirstOk
      <4> QED
        BY <4>1, <4>2, TokenVerdictByGroups
    <3> QED
      BY <3>1, <3>2, <3>3
  <2>2. ASSUME ReceiptVerdict(a, store) # "UnknownKeyId"
        PROVE  ReceiptVerdict(a, merged) = ReceiptVerdict(a, store)
    <3>1. ~Passes(CoseChecks(a)) \/ "vds" \in a.defects
      BY <1>2, <2>2, ReceiptVerdictByGroups, KeyVerdicts, CheckGroups, FirstOk
    <3>2. CASE ~Passes(CoseChecks(a))
      BY <3>2, ReceiptVerdictByGroups
    <3>3. CASE "vds" \in a.defects
      <4>1. \A k : First(ReceiptKeyChecks(a, k)) = "InvalidProtectedHeader"
        BY <3>3, KeyVerdicts
      <4>2. \A k : ~Passes(ReceiptKeyChecks(a, k))
        BY <4>1, CheckGroups, FirstOk
      <4> QED
        BY <4>1, <4>2, ReceiptVerdictByGroups
    <3> QED
      BY <3>1, <3>2, <3>3
  <2> QED
    BY <2>1, <2>2 DEF RefreshIsMonotone
<1> QED
  BY <1>1, <1>2

(***************************************************************************)
(* Errors blame the right party, for every artifact, store, tolerance and  *)
(* time: verify_status_token_at and verify_receipt call a token expired,   *)
(* terminal or incomplete, and a receipt's proof broken, only after a      *)
(* trusted key's signature and issuer held, and UnknownKeyId, the one      *)
(* error that makes the verifier ask the log for keys, only for a          *)
(* well-formed artifact of a key it really lacks.                          *)
(***************************************************************************)
THEOREM ErrorsNameTheCause ==
    ASSUME NEW a, NEW store, NEW skew, NEW at
    PROVE  ErrorsAreEarned(a, store, skew, at)
<1> DEFINE c == First(CoseChecks(a))
           tk == First(TokenKeyChecks(a, store))
           rk == First(ReceiptKeyChecks(a, store))
           p == First(PayloadChecks(a))
           v == First(VdpChecks(a))
           e == First(TokenEndChecks(a, skew, at))
           w == First(WalkChecks(a))
           token == TokenVerdict(a, store, skew, at)
           receipt == ReceiptVerdict(a, store)
<1>1. /\ token = IF c # "ok" THEN c ELSE IF tk # "ok" THEN tk ELSE IF p # "ok" THEN p ELSE e
      /\ receipt = IF c # "ok" THEN c ELSE IF rk # "ok" THEN rk ELSE IF v # "ok" THEN v ELSE w
  BY CheckGroups, FirstOk, TokenVerdictByGroups, ReceiptVerdictByGroups
<1>2. /\ c \in CoseErrors \cup {"ok"} /\ p \in {"CborDecodeError", "MissingTokenField"} \cup {"ok"}
      /\ v \in {"InvalidMerkleProof"} \cup {"ok"} /\ w \in {"InvalidMerkleProof"} \cup {"ok"}
      /\ e \in {"TokenExpired", "TerminalStatus"} \cup {"ok"}
  BY GroupErrors
<1>3. /\ tk \in {"SignatureInvalid", "UnknownKeyId", "IssuerMismatch", "ok"}
      /\ tk = "ok" => SignedBy(a, store) /\ IssuerBound(a, store)
      /\ tk = "UnknownKeyId" => ~KnownKey(a, store)
  BY KeyVerdicts
<1>4. /\ rk \in {"InvalidProtectedHeader", "SignatureInvalid", "UnknownKeyId",
                 "IssuerMismatch", "ok"}
      /\ rk = "ok" => SignedBy(a, store) /\ IssuerBound(a, store)
      /\ rk = "UnknownKeyId" => ~KnownKey(a, store)
  BY KeyVerdicts
<1> HIDE DEF c, tk, rk, p, v, e, w, token, receipt
<1>5. token \in {"TokenExpired", "TerminalStatus", "MissingTokenField", "ok"} => tk = "ok"
  BY <1>1, <1>2, <1>3 DEF CoseErrors
<1>6. receipt \in {"InvalidMerkleProof", "ok"} => rk = "ok"
  BY <1>1, <1>2, <1>4 DEF CoseErrors
<1>7. token = "UnknownKeyId" => c = "ok" /\ tk = "UnknownKeyId"
  BY <1>1, <1>2, <1>3 DEF CoseErrors
<1>8. receipt = "UnknownKeyId" => c = "ok" /\ rk = "UnknownKeyId"
  BY <1>1, <1>2, <1>4 DEF CoseErrors
<1> QED
  BY <1>3, <1>4, <1>5, <1>6, <1>7, <1>8 DEF ErrorsAreEarned, c, tk, rk, token, receipt

-----------------------------------------------------------------------------
(* Time *)

\* An acceptance holds at every earlier time, and at every time before exp:
\* the tolerance only widens what exp allows.
LEMMA AcceptedInTime ==
    ASSUME NEW a, a.exp \in Int, NEW store, NEW skew \in Nat, NEW at \in Int,
           TokenVerdict(a, store, skew, at) = "ok"
    PROVE  \A other \in Int : other <= at \/ other < a.exp
             => TokenVerdict(a, store, skew, other) = "ok"
<1>1. \A x : Passes(TokenEndChecks(a, skew, x)) <=> ~Lapsed(a, skew, x) /\ ~ShouldReject(a.status)
  <2> SUFFICES ASSUME NEW x
               PROVE  Passes(TokenEndChecks(a, skew, x))
                        <=> ~Lapsed(a, skew, x) /\ ~ShouldReject(a.status)
    OBVIOUS
  <2> DEFINE e == TokenEndChecks(a, skew, x)
  <2>1. /\ Len(e) = 2 /\ (e[1][1] <=> ~Lapsed(a, skew, x))
        /\ (e[2][1] <=> ~ShouldReject(a.status))
    BY DEF TokenEndChecks
  <2> HIDE DEF e
  <2>2. Passes(e) <=> e[1][1] /\ e[2][1]
    BY <2>1 DEF Passes
  <2> QED
    BY <2>1, <2>2 DEF e
<1>2. \A x : TokenVerdict(a, store, skew, x) = "ok" <=>
        /\ Passes(CoseChecks(a)) /\ Passes(TokenKeyChecks(a, store))
        /\ Passes(PayloadChecks(a)) /\ Passes(TokenEndChecks(a, skew, x))
  BY TokenVerdictByGroups, CheckGroups, FirstOk
<1>3. Capped(skew) \in Nat
  BY MaxSkewAssumption DEF Capped
<1>4. \A other \in Int : (other <= at \/ other < a.exp) /\ ~Lapsed(a, skew, at)
        => ~Lapsed(a, skew, other)
  BY <1>3 DEF Lapsed
<1> QED
  BY <1>1, <1>2, <1>4

-----------------------------------------------------------------------------
(* Short sequences of checks                                                *)

Earnest(check) == check[1] \/ check[2] # "ok"

LEMMA OneCheck ==
    ASSUME NEW x, Earnest(x)
    PROVE  IsChecks(<<x>>) /\ (Passes(<<x>>) <=> x[1])
<1> DEFINE c == <<x>>
<1>1. c \in Seq({x}) /\ Len(c) = 1 /\ c[1] = x
  OBVIOUS
<1> HIDE DEF c
<1>2. IsChecks(c) /\ (Passes(c) <=> x[1])
  BY <1>1 DEF IsChecks, Passes, Earnest
<1> QED
  BY <1>2 DEF c

LEMMA TwoChecks ==
    ASSUME NEW x, NEW y, Earnest(x), Earnest(y)
    PROVE  IsChecks(<<x, y>>) /\ (Passes(<<x, y>>) <=> x[1] /\ y[1])
<1> DEFINE c == <<x, y>>
<1>1. c \in Seq({x, y}) /\ Len(c) = 2 /\ c[1] = x /\ c[2] = y
  OBVIOUS
<1> HIDE DEF c
<1>2. IsChecks(c) /\ (Passes(c) <=> x[1] /\ y[1])
  BY <1>1 DEF IsChecks, Passes, Earnest
<1> QED
  BY <1>2 DEF c

LEMMA ThreeChecks ==
    ASSUME NEW x, NEW y, NEW z, Earnest(x), Earnest(y), Earnest(z)
    PROVE  IsChecks(<<x, y, z>>) /\ (Passes(<<x, y, z>>) <=> x[1] /\ y[1] /\ z[1])
<1> DEFINE c == <<x, y, z>>
<1>1. c \in Seq({x, y, z}) /\ Len(c) = 3 /\ c[1] = x /\ c[2] = y /\ c[3] = z
  OBVIOUS
<1> HIDE DEF c
<1>2. IsChecks(c) /\ (Passes(c) <=> x[1] /\ y[1] /\ z[1])
  BY <1>1 DEF IsChecks, Passes, Earnest
<1> QED
  BY <1>2 DEF c

LEMMA FourChecks ==
    ASSUME NEW x, NEW y, NEW z, NEW u, Earnest(x), Earnest(y), Earnest(z), Earnest(u)
    PROVE  /\ IsChecks(<<x, y, z, u>>)
           /\ Passes(<<x, y, z, u>>) <=> x[1] /\ y[1] /\ z[1] /\ u[1]
<1> DEFINE c == <<x, y, z, u>>
<1>1. c \in Seq({x, y, z, u}) /\ Len(c) = 4 /\ c[1] = x /\ c[2] = y /\ c[3] = z /\ c[4] = u
  OBVIOUS
<1> HIDE DEF c
<1>2. IsChecks(c) /\ (Passes(c) <=> x[1] /\ y[1] /\ z[1] /\ u[1])
  BY <1>1 DEF IsChecks, Passes, Earnest
<1> QED
  BY <1>2 DEF c

LEMMA FiveChecks ==
    ASSUME NEW x, NEW y, NEW z, NEW u, NEW v,
           Earnest(x), Earnest(y), Earnest(z), Earnest(u), Earnest(v)
    PROVE  /\ IsChecks(<<x, y, z, u, v>>)
           /\ Passes(<<x, y, z, u, v>>) <=> x[1] /\ y[1] /\ z[1] /\ u[1] /\ v[1]
<1> DEFINE c == <<x, y, z, u, v>>
<1>1. /\ c \in Seq({x, y, z, u, v}) /\ Len(c) = 5
      /\ c[1] = x /\ c[2] = y /\ c[3] = z /\ c[4] = u /\ c[5] = v
  OBVIOUS
<1> HIDE DEF c
<1>2. IsChecks(c) /\ (Passes(c) <=> x[1] /\ y[1] /\ z[1] /\ u[1] /\ v[1])
  BY <1>1 DEF IsChecks, Passes, Earnest
<1> QED
  BY <1>2 DEF c

\* A URL is usable, or one of two checks says why not.
LEMMA UrlErrorOk ==
    ASSUME NEW url
    PROVE  UrlError(url) = "ok" <=> url.defects = {} /\ url.scheme \in {"http", "https"}
<1> DEFINE x == <<url.defects = {}, "MalformedProof">>
           y == <<url.scheme \in {"http", "https"}, "MalformedProof">>
<1>1. (x[1] <=> url.defects = {}) /\ (y[1] <=> url.scheme \in {"http", "https"})
  OBVIOUS
<1>2. Earnest(x) /\ Earnest(y)
  BY DEF Earnest
<1>3. UrlError(url) = First(<<x, y>>)
  BY DEF UrlError
<1> HIDE DEF x, y
<1> QED
  BY <1>1, <1>2, <1>3, TwoChecks, FirstOk

-----------------------------------------------------------------------------
(* The verdict on a proof of possession                                     *)

\* The groups that ProofVerdict puts together.
RevisionChecks(proof) ==
    << <<ProfileKnown(proof.payload), "UnsupportedProfile">>,
       <<"digest" \notin proof.defects, "MalformedProof">> >>
LeafChecks(proof, at) ==
    << <<LeafOk(proof.header.x5c[1]), "CertInvalid">>,
       <<CertValid(proof.header.x5c[1], at), "CertInvalid">> >>
SignatureChecks(proof) == << <<SignatureHolds(proof), "SignatureInvalid">> >>
ClaimsChecks(proof, request, at) ==
    << <<TokenBound(proof.payload, request.token), "TokenBindingMismatch">>,
       <<proof.payload.iat # 0, "MalformedProof">>,
       <<Fresh(proof.payload, at), "ProofStale">>,
       <<proof.payload.jti # "", "MalformedProof">>,
       <<"jti size" \notin proof.defects, "MalformedProof">> >>

\* What an accepted proof is.
Decodes(proof) ==
    /\ "oversized" \notin proof.defects /\ "segments" \notin proof.defects
    /\ "header" \notin proof.defects /\ proof.header.typ = "dpop+jwt"
    /\ proof.header.alg = "ES256" /\ Len(proof.header.x5c) = 1
    /\ "payload" \notin proof.defects /\ "null profile" \notin proof.defects
    /\ ProfileKnown(proof.payload) /\ "digest" \notin proof.defects
Holds(proof, request, at) ==
    /\ LeafOk(proof.header.x5c[1]) /\ CertValid(proof.header.x5c[1], at)
    /\ "jwk curve" \notin proof.defects /\ "jwk coords" \notin proof.defects
    /\ proof.header.jwk = proof.header.x5c[1].key
    /\ SignatureHolds(proof)
    /\ proof.payload.htm = request.method /\ UrlError(request.url) = "ok"
    /\ proof.payload.htu = NormalizeHtu(request.url)
    /\ TokenBound(proof.payload, request.token) /\ proof.payload.iat # 0
    /\ Fresh(proof.payload, at) /\ proof.payload.jti # "" /\ "jti size" \notin proof.defects

LEMMA ProofGroups ==
    ASSUME NEW proof, NEW request, NEW at
    PROVE  /\ IsChecks(JwsChecks(proof)) /\ IsChecks(ProofHeaderChecks(proof))
           /\ IsChecks(ProofPayloadChecks(proof)) /\ IsChecks(RevisionChecks(proof))
           /\ IsChecks(LeafChecks(proof, at)) /\ IsChecks(JwkChecks(proof))
           /\ IsChecks(SignatureChecks(proof)) /\ IsChecks(HttpChecks(proof.payload, request))
           /\ IsChecks(ClaimsChecks(proof, request, at))
           /\ Decodes(proof) <=> /\ Passes(JwsChecks(proof)) /\ Passes(ProofHeaderChecks(proof))
                                 /\ Passes(ProofPayloadChecks(proof))
                                 /\ Passes(RevisionChecks(proof))
           /\ Holds(proof, request, at) <=>
                /\ Passes(LeafChecks(proof, at)) /\ Passes(JwkChecks(proof))
                /\ Passes(SignatureChecks(proof)) /\ Passes(HttpChecks(proof.payload, request))
                /\ Passes(ClaimsChecks(proof, request, at))
<1>1. /\ IsChecks(JwsChecks(proof))
      /\ Passes(JwsChecks(proof)) <=> "oversized" \notin proof.defects /\ "segments" \notin proof.defects
  <2> DEFINE x == <<"oversized" \notin proof.defects, "MalformedProof">>
             y == <<"segments"  \notin proof.defects, "MalformedProof">>
  <2>1. (x[1] <=> "oversized" \notin proof.defects) /\ (y[1] <=> "segments" \notin proof.defects)
    OBVIOUS
  <2>2. Earnest(x) /\ Earnest(y)
    BY DEF Earnest
  <2>3. JwsChecks(proof) = <<x, y>>
    BY DEF JwsChecks
  <2> HIDE DEF x, y
  <2> QED
    BY <2>1, <2>2, <2>3, TwoChecks
<1>2. /\ IsChecks(ProofHeaderChecks(proof))
      /\ Passes(ProofHeaderChecks(proof)) <=>
           /\ "header" \notin proof.defects /\ proof.header.typ = "dpop+jwt"
           /\ proof.header.alg = "ES256" /\ Len(proof.header.x5c) = 1
  <2> DEFINE x == <<"header" \notin proof.defects,    "MalformedProof">>
             y == <<proof.header.typ = "dpop+jwt",    "UnsupportedAlg">>
             z == <<proof.header.alg = "ES256",       "UnsupportedAlg">>
             u == <<Len(proof.header.x5c) = 1,        "CertInvalid">>
  <2>1. /\ (x[1] <=> "header" \notin proof.defects) /\ (y[1] <=> proof.header.typ = "dpop+jwt")
        /\ (z[1] <=> proof.header.alg = "ES256") /\ (u[1] <=> Len(proof.header.x5c) = 1)
    OBVIOUS
  <2>2. Earnest(x) /\ Earnest(y) /\ Earnest(z) /\ Earnest(u)
    BY DEF Earnest
  <2>3. ProofHeaderChecks(proof) = <<x, y, z, u>>
    BY DEF ProofHeaderChecks
  <2> HIDE DEF x, y, z, u
  <2> QED
    BY <2>1, <2>2, <2>3, FourChecks
<1>3. /\ IsChecks(ProofPayloadChecks(proof))
      /\ Passes(ProofPayloadChecks(proof)) <=>
           "payload" \notin proof.defects /\ "null profile" \notin proof.defects
  <2> DEFINE x == <<"payload" \notin proof.defects, "MalformedProof">>
             y == <<"null profile" \notin proof.defects, "MalformedProof">>
  <2>1. /\ x[1] <=> "payload" \notin proof.defects
        /\ y[1] <=> "null profile" \notin proof.defects
    OBVIOUS
  <2>2. Earnest(x) /\ Earnest(y)
    BY DEF Earnest
  <2>3. ProofPayloadChecks(proof) = <<x, y>>
    BY DEF ProofPayloadChecks
  <2> HIDE DEF x, y
  <2> QED
    BY <2>1, <2>2, <2>3, TwoChecks
<1>4. /\ IsChecks(RevisionChecks(proof))
      /\ Passes(RevisionChecks(proof)) <=>
           ProfileKnown(proof.payload) /\ "digest" \notin proof.defects
  <2> DEFINE x == <<ProfileKnown(proof.payload), "UnsupportedProfile">>
             y == <<"digest" \notin proof.defects, "MalformedProof">>
  <2>1. (x[1] <=> ProfileKnown(proof.payload)) /\ (y[1] <=> "digest" \notin proof.defects)
    OBVIOUS
  <2>2. Earnest(x) /\ Earnest(y)
    BY DEF Earnest
  <2>3. RevisionChecks(proof) = <<x, y>>
    BY DEF RevisionChecks
  <2> HIDE DEF x, y
  <2> QED
    BY <2>1, <2>2, <2>3, TwoChecks
<1>5. /\ IsChecks(LeafChecks(proof, at))
      /\ Passes(LeafChecks(proof, at)) <=>
           LeafOk(proof.header.x5c[1]) /\ CertValid(proof.header.x5c[1], at)
  <2> DEFINE x == <<LeafOk(proof.header.x5c[1]), "CertInvalid">>
             y == <<CertValid(proof.header.x5c[1], at), "CertInvalid">>
  <2>1. /\ x[1] <=> LeafOk(proof.header.x5c[1])
        /\ y[1] <=> CertValid(proof.header.x5c[1], at)
    OBVIOUS
  <2>2. Earnest(x) /\ Earnest(y)
    BY DEF Earnest
  <2>3. LeafChecks(proof, at) = <<x, y>>
    BY DEF LeafChecks
  <2> HIDE DEF x, y
  <2> QED
    BY <2>1, <2>2, <2>3, TwoChecks
<1>6. /\ IsChecks(JwkChecks(proof))
      /\ Passes(JwkChecks(proof)) <=>
           /\ "jwk curve" \notin proof.defects /\ "jwk coords" \notin proof.defects
           /\ proof.header.jwk = proof.header.x5c[1].key
  <2> DEFINE x == <<"jwk curve"  \notin proof.defects, "UnsupportedAlg">>
             y == <<"jwk coords" \notin proof.defects, "MalformedProof">>
             z == <<proof.header.jwk = proof.header.x5c[1].key, "KeyMismatch">>
  <2>1. /\ x[1] <=> "jwk curve" \notin proof.defects
        /\ y[1] <=> "jwk coords" \notin proof.defects
        /\ z[1] <=> proof.header.jwk = proof.header.x5c[1].key
    OBVIOUS
  <2>2. Earnest(x) /\ Earnest(y) /\ Earnest(z)
    BY DEF Earnest
  <2>3. JwkChecks(proof) = <<x, y, z>>
    BY DEF JwkChecks
  <2> HIDE DEF x, y, z
  <2> QED
    BY <2>1, <2>2, <2>3, ThreeChecks
<1>7. IsChecks(SignatureChecks(proof)) /\ (Passes(SignatureChecks(proof)) <=> SignatureHolds(proof))
  <2> DEFINE x == <<SignatureHolds(proof), "SignatureInvalid">>
  <2>1. (x[1] <=> SignatureHolds(proof)) /\ Earnest(x) /\ SignatureChecks(proof) = <<x>>
    BY DEF Earnest, SignatureChecks
  <2> HIDE DEF x
  <2> QED
    BY <2>1, OneCheck
<1>8. /\ IsChecks(HttpChecks(proof.payload, request))
      /\ Passes(HttpChecks(proof.payload, request)) <=>
           /\ proof.payload.htm = request.method /\ UrlError(request.url) = "ok"
           /\ proof.payload.htu = NormalizeHtu(request.url)
  <2> DEFINE x == <<proof.payload.htm = request.method, "HttpBindingMismatch">>
             y == <<UrlError(request.url) = "ok", UrlError(request.url)>>
             z == <<proof.payload.htu = NormalizeHtu(request.url), "HttpBindingMismatch">>
  <2>1. /\ x[1] <=> proof.payload.htm = request.method
        /\ y[1] <=> UrlError(request.url) = "ok"
        /\ z[1] <=> proof.payload.htu = NormalizeHtu(request.url)
    OBVIOUS
  <2>2. Earnest(x) /\ Earnest(y) /\ Earnest(z)
    BY DEF Earnest
  <2>3. HttpChecks(proof.payload, request) = <<x, y, z>>
    BY DEF HttpChecks
  <2> HIDE DEF x, y, z
  <2> QED
    BY <2>1, <2>2, <2>3, ThreeChecks
<1>9. /\ IsChecks(ClaimsChecks(proof, request, at))
      /\ Passes(ClaimsChecks(proof, request, at)) <=>
           /\ TokenBound(proof.payload, request.token) /\ proof.payload.iat # 0
           /\ Fresh(proof.payload, at) /\ proof.payload.jti # ""
           /\ "jti size" \notin proof.defects
  <2> DEFINE x == <<TokenBound(proof.payload, request.token), "TokenBindingMismatch">>
             y == <<proof.payload.iat # 0, "MalformedProof">>
             z == <<Fresh(proof.payload, at), "ProofStale">>
             u == <<proof.payload.jti # "", "MalformedProof">>
             v == <<"jti size" \notin proof.defects, "MalformedProof">>
  <2>1. /\ x[1] <=> TokenBound(proof.payload, request.token)
        /\ y[1] <=> proof.payload.iat # 0
        /\ z[1] <=> Fresh(proof.payload, at)
        /\ u[1] <=> proof.payload.jti # ""
        /\ v[1] <=> "jti size" \notin proof.defects
    OBVIOUS
  <2>2. Earnest(x) /\ Earnest(y) /\ Earnest(z) /\ Earnest(u) /\ Earnest(v)
    BY DEF Earnest
  <2>3. ClaimsChecks(proof, request, at) = <<x, y, z, u, v>>
    BY DEF ClaimsChecks
  <2> HIDE DEF x, y, z, u, v
  <2> QED
    BY <2>1, <2>2, <2>3, FiveChecks
<1>10. Decodes(proof) <=> /\ Passes(JwsChecks(proof)) /\ Passes(ProofHeaderChecks(proof))
                          /\ Passes(ProofPayloadChecks(proof)) /\ Passes(RevisionChecks(proof))
  BY <1>1, <1>2, <1>3, <1>4 DEF Decodes
<1>11. Holds(proof, request, at) <=>
         /\ Passes(LeafChecks(proof, at)) /\ Passes(JwkChecks(proof))
         /\ Passes(SignatureChecks(proof)) /\ Passes(HttpChecks(proof.payload, request))
         /\ Passes(ClaimsChecks(proof, request, at))
  BY <1>5, <1>6, <1>7, <1>8, <1>9 DEF Holds
<1> QED
  BY <1>1, <1>2, <1>3, <1>4, <1>5, <1>6, <1>7, <1>8, <1>9, <1>10, <1>11

LEMMA ProofVerdictOk ==
    ASSUME NEW proof, NEW request, NEW at
    PROVE  ProofVerdict(proof, request, at) = "ok" <=> Decodes(proof) /\ Holds(proof, request, at)
<1> DEFINE a == JwsChecks(proof)
           b == ProofHeaderChecks(proof)
           c == ProofPayloadChecks(proof)
           d == RevisionChecks(proof)
           e == LeafChecks(proof, at)
           f == JwkChecks(proof)
           g == SignatureChecks(proof)
           h == HttpChecks(proof.payload, request)
           k == ClaimsChecks(proof, request, at)
           wellFormed == First(((a \o b) \o c) \o d)
           rest == First((((e \o f) \o g) \o h) \o k)
<1>1. ProofVerdict(proof, request, at) = IF wellFormed # "ok" THEN wellFormed ELSE rest
  BY DEF ProofVerdict, RevisionChecks, LeafChecks, SignatureChecks, ClaimsChecks
<1>2. /\ IsChecks(a) /\ IsChecks(b) /\ IsChecks(c) /\ IsChecks(d) /\ IsChecks(e)
      /\ IsChecks(f) /\ IsChecks(g) /\ IsChecks(h) /\ IsChecks(k)
      /\ Decodes(proof) <=> Passes(a) /\ Passes(b) /\ Passes(c) /\ Passes(d)
      /\ Holds(proof, request, at) <=>
           Passes(e) /\ Passes(f) /\ Passes(g) /\ Passes(h) /\ Passes(k)
  BY ProofGroups
<1> HIDE DEF a, b, c, d, e, f, g, h, k
<1>3. wellFormed = "ok" <=> Passes(a) /\ Passes(b) /\ Passes(c) /\ Passes(d)
  <2>1. IsChecks(a \o b) /\ (Passes(a \o b) <=> Passes(a) /\ Passes(b))
    BY <1>2, FirstOfConcat
  <2>2. IsChecks((a \o b) \o c) /\ (Passes((a \o b) \o c) <=> Passes(a \o b) /\ Passes(c))
    BY <1>2, <2>1, FirstOfConcat
  <2>3. /\ IsChecks(((a \o b) \o c) \o d)
        /\ Passes(((a \o b) \o c) \o d) <=> Passes((a \o b) \o c) /\ Passes(d)
    BY <1>2, <2>2, FirstOfConcat
  <2> QED
    BY <2>1, <2>2, <2>3, FirstOk
<1>4. rest = "ok" <=> Passes(e) /\ Passes(f) /\ Passes(g) /\ Passes(h) /\ Passes(k)
  <2>1. IsChecks(e \o f) /\ (Passes(e \o f) <=> Passes(e) /\ Passes(f))
    BY <1>2, FirstOfConcat
  <2>2. IsChecks((e \o f) \o g) /\ (Passes((e \o f) \o g) <=> Passes(e \o f) /\ Passes(g))
    BY <1>2, <2>1, FirstOfConcat
  <2>3. /\ IsChecks(((e \o f) \o g) \o h)
        /\ Passes(((e \o f) \o g) \o h) <=> Passes((e \o f) \o g) /\ Passes(h)
    BY <1>2, <2>2, FirstOfConcat
  <2>4. /\ IsChecks((((e \o f) \o g) \o h) \o k)
        /\ Passes((((e \o f) \o g) \o h) \o k) <=> Passes(((e \o f) \o g) \o h) /\ Passes(k)
    BY <1>2, <2>3, FirstOfConcat
  <2> QED
    BY <2>1, <2>2, <2>3, <2>4, FirstOk
<1> HIDE DEF wellFormed, rest
<1> QED
  BY <1>1, <1>2, <1>3, <1>4

LEMMA SignerErrorOk ==
    ASSUME NEW key, NEW cert
    PROVE  SignerError(key, cert) = "ok" <=> cert.defects = {} /\ cert.key = key
<1> DEFINE x == <<cert.defects = {}, "CertInvalid">>
           y == <<cert.key = key, "CertInvalid">>
<1>1. (x[1] <=> cert.defects = {}) /\ (y[1] <=> cert.key = key)
  OBVIOUS
<1>2. Earnest(x) /\ Earnest(y)
  BY DEF Earnest
<1>3. SignerError(key, cert) = First(<<x, y>>)
  BY DEF SignerError
<1> HIDE DEF x, y
<1> QED
  BY <1>1, <1>2, <1>3, TwoChecks, FirstOk

\* normalize_htu identifies the URLs of one request and no others.
SameTarget(r, s) ==
    /\ r.scheme = s.scheme /\ r.host = s.host
    /\ EffectivePort(r) = EffectivePort(s)
    /\ r.path = s.path \/ {r.path, s.path} = {"", "/"}

LEMMA NormalFormIsRequest ==
    ASSUME NEW r, NEW s, r.scheme \in {"http", "https"}, s.scheme \in {"http", "https"}
    PROVE  NormalizeHtu(r) = NormalizeHtu(s) <=> SameTarget(r, s)
<1> DEFINE Port(url) == IF url.port = DefaultPort(url.scheme) THEN 0 ELSE url.port
           Path(url) == IF url.path = "" THEN "/" ELSE url.path
<1>1. NormalizeHtu(r) = NormalizeHtu(s) <=>
        /\ r.scheme = s.scheme /\ r.host = s.host /\ Port(r) = Port(s) /\ Path(r) = Path(s)
  <2>1. \A u : /\ NormalizeHtu(u) = [scheme |-> u.scheme, authority |-> HostPort(u), path |-> Path(u)]
               /\ HostPort(u) = [host |-> u.host, port |-> Port(u)]
    BY DEF NormalizeHtu, HostPort
  <2> HIDE DEF Port, Path
  <2>2. \A u, v : HostPort(u) = HostPort(v) <=> u.host = v.host /\ Port(u) = Port(v)
    BY <2>1
  <2>3. \A u, v : NormalizeHtu(u) = NormalizeHtu(v) <=>
          u.scheme = v.scheme /\ HostPort(u) = HostPort(v) /\ Path(u) = Path(v)
    BY <2>1
  <2> QED
    BY <2>2, <2>3
<1>2. r.scheme = s.scheme => (Port(r) = Port(s) <=> EffectivePort(r) = EffectivePort(s))
  BY DEF EffectivePort, DefaultPort
<1>3. Path(r) = Path(s) <=> r.path = s.path \/ {r.path, s.path} = {"", "/"}
  OBVIOUS
<1> HIDE DEF Port, Path
<1> QED
  BY <1>1, <1>2, <1>3 DEF SameTarget

(***************************************************************************)
(* A minted proof authenticates its own request and no other, for every    *)
(* key, certificate, pair of requests and pair of times: verify_proof      *)
(* accepts what Signer::sign minted exactly if both mean the same method,  *)
(* URL and token, the proof is fresh and its certificate valid.  (A proof  *)
(* minted at second 0 of the epoch would be refused as malformed.)         *)
(***************************************************************************)
THEOREM ProofsBindRequests ==
    ASSUME NEW key, NEW cert, NEW minted, NEW received, NEW at \in Int \ {0}, NEW clock \in Int
    PROVE  ProofBindsRequest(key, cert, minted, received, at, clock)
<1> SUFFICES ASSUME SignerError(key, cert) = "ok", UrlError(minted.url) = "ok"
             PROVE  ProofVerdict(Sign(key, cert, minted, "jti", at), received, clock) = "ok" <=>
                      /\ UrlError(received.url) = "ok" /\ SameRequest(minted, received)
                      /\ clock - at \in -PopSkew .. PopSkew
                      /\ clock >= cert.from - PopSkew /\ clock <= cert.until + PopSkew
  BY DEF ProofBindsRequest
<1> DEFINE p == Sign(key, cert, minted, "jti", at)
<1>1. /\ p.defects = {}
      /\ p.header = [typ |-> "dpop+jwt", alg |-> "ES256", jwk |-> key, x5c |-> <<cert>>]
      /\ p.payload = [htm |-> minted.method, htu |-> NormalizeHtu(minted.url), iat |-> at,
                      jti |-> "jti", ath |-> minted.token, profile |-> ProfileRevision,
                      digest |-> minted.content]
      /\ p.signature = [key |-> key, header |-> p.header, payload |-> p.payload]
  BY DEF Sign
<1> HIDE DEF p
<1>2. /\ p.header.typ = "dpop+jwt" /\ p.header.alg = "ES256" /\ p.header.jwk = key
      /\ p.header.x5c = <<cert>> /\ Len(p.header.x5c) = 1 /\ p.header.x5c[1] = cert
  BY <1>1
<1>3. /\ p.payload.htm = minted.method /\ p.payload.htu = NormalizeHtu(minted.url)
      /\ p.payload.iat = at /\ p.payload.jti = "jti" /\ p.payload.ath = minted.token
      /\ p.payload.profile = ProfileRevision
  BY <1>1
<1>4. cert.defects = {} /\ cert.key = key
  BY SignerErrorOk
<1>5. Decodes(p)
  BY <1>1, <1>2, <1>3 DEF Decodes, ProfileKnown
<1>6. SignatureHolds(p) /\ LeafOk(p.header.x5c[1]) /\ p.header.jwk = p.header.x5c[1].key
  BY <1>1, <1>2, <1>4 DEF SignatureHolds, LeafOk
<1>7. Holds(p, received, clock) <=>
        /\ CertValid(cert, clock) /\ minted.method = received.method
        /\ UrlError(received.url) = "ok" /\ NormalizeHtu(minted.url) = NormalizeHtu(received.url)
        /\ minted.token = received.token /\ clock - at \in -PopSkew .. PopSkew
  BY <1>1, <1>2, <1>3, <1>6 DEF Holds, TokenBound, Fresh
<1>8. UrlError(received.url) = "ok" =>
        (NormalizeHtu(minted.url) = NormalizeHtu(received.url)
           <=> SameTarget(minted.url, received.url))
  <2> SUFFICES ASSUME UrlError(received.url) = "ok"
               PROVE  NormalizeHtu(minted.url) = NormalizeHtu(received.url)
                        <=> SameTarget(minted.url, received.url)
    OBVIOUS
  <2>1. minted.url.scheme \in {"http", "https"} /\ received.url.scheme \in {"http", "https"}
    BY UrlErrorOk
  <2> QED
    BY <2>1, NormalFormIsRequest
<1> QED
  BY <1>5, <1>7, <1>8, ProofVerdictOk DEF SameRequest, SameTarget, CertValid, p

-----------------------------------------------------------------------------
(* The verdict on a caller, and the artifacts that earlier requests left    *)

\* What the cache holds verified once, under the keys hashed into its cache key.
Vouched(cache) ==
    /\ \A store, token : ArtifactCacheKey(store, token) \in cache.status =>
         \E skew, at : TokenVerdict(token, store, skew, at) = "ok"
    /\ \A store, receipt : ArtifactCacheKey(store, receipt) \in cache.receipts =>
         ReceiptVerdict(receipt, store) = "ok"

\* What verify_status_token_at looks at last: expiry, then the status.
LEMMA LiveWhenVerified ==
    ASSUME NEW a, NEW store, NEW skew, NEW at
    PROVE  /\ Passes(TokenEndChecks(a, skew, at)) <=> ~Lapsed(a, skew, at) /\ ~ShouldReject(a.status)
           /\ TokenVerdict(a, store, skew, at) = "ok" <=>
                /\ Passes(CoseChecks(a)) /\ Passes(TokenKeyChecks(a, store))
                /\ Passes(PayloadChecks(a)) /\ Passes(TokenEndChecks(a, skew, at))
<1>1. Passes(TokenEndChecks(a, skew, at)) <=> ~Lapsed(a, skew, at) /\ ~ShouldReject(a.status)
  <2> DEFINE c == <<~Lapsed(a, skew, at), "TokenExpired">>
             d == <<~ShouldReject(a.status), "TerminalStatus">>
  <2>1. (c[1] <=> ~Lapsed(a, skew, at)) /\ (d[1] <=> ~ShouldReject(a.status))
    OBVIOUS
  <2>2. Earnest(c) /\ Earnest(d)
    BY DEF Earnest
  <2>3. TokenEndChecks(a, skew, at) = <<c, d>>
    BY DEF TokenEndChecks
  <2> HIDE DEF c, d
  <2> QED
    BY <2>1, <2>2, <2>3, TwoChecks
<1>2. TokenVerdict(a, store, skew, at) = "ok" <=>
        /\ Passes(CoseChecks(a)) /\ Passes(TokenKeyChecks(a, store))
        /\ Passes(PayloadChecks(a)) /\ Passes(TokenEndChecks(a, skew, at))
  BY TokenVerdictByGroups, CheckGroups, FirstOk
<1> QED
  BY <1>1, <1>2

\* Once verified, a token fails later only by lapsing.
LEMMA VerifiedUntilLapsed ==
    ASSUME NEW a, NEW store, NEW skew, NEW at, TokenVerdict(a, store, skew, at) = "ok",
           NEW skew2, NEW at2
    PROVE  TokenVerdict(a, store, skew2, at2) = "ok" <=> ~Lapsed(a, skew2, at2)
BY LiveWhenVerified

\* Under a sound cache both artifacts are judged as without any.
LEMMA CacheChangesNothing ==
    ASSUME NEW cache, Vouched(cache), NEW token, NEW receipt, NEW store, NEW skew, NEW at
    PROVE  /\ StatusVerdict(cache, token, store, skew, at) = TokenVerdict(token, store, skew, at)
           /\ CallerReceiptVerdict(cache, receipt, store) =
                IF receipt = Absent THEN "ok" ELSE ReceiptVerdict(receipt, store)
<1>1. ASSUME StatusHit(cache, token, store, skew, at)
      PROVE  TokenVerdict(token, store, skew, at) = "ok"
  <2>1. ArtifactCacheKey(store, token) \in cache.status /\ ~Lapsed(token, skew, at)
    BY <1>1 DEF StatusHit
  <2>2. PICK skew1, at1 : TokenVerdict(token, store, skew1, at1) = "ok"
    BY <2>1 DEF Vouched
  <2> QED
    BY <2>1, <2>2, VerifiedUntilLapsed
<1>2. StatusVerdict(cache, token, store, skew, at) = TokenVerdict(token, store, skew, at)
  BY <1>1 DEF StatusVerdict
<1>3. CallerReceiptVerdict(cache, receipt, store) =
        IF receipt = Absent THEN "ok" ELSE ReceiptVerdict(receipt, store)
  BY DEF CallerReceiptVerdict, Vouched
<1> QED
  BY <1>2, <1>3

\* bind_receipt_to_status, without an expected host, binds the names.
LEMMA BindingOk ==
    ASSUME NEW receipt, NEW token, Binding(receipt, token, {}) = "ok"
    PROVE  receipt.ansName = token.ansName
<1> DEFINE x == <<"event" \notin receipt.defects, "InvalidReceiptIdentity">>
           y == <<receipt.ansName = token.ansName, "IdentityBinding">>
           z == <<receipt.ansId \subseteq {token.agent}, "IdentityBinding">>
           u == <<{} # {} => receipt.host # {}, "InvalidReceiptIdentity">>
           v == <<{} # {} => receipt.host = {}, "IdentityBinding">>
<1>1. y[1] <=> receipt.ansName = token.ansName
  OBVIOUS
<1>2. Earnest(x) /\ Earnest(y) /\ Earnest(z) /\ Earnest(u) /\ Earnest(v)
  BY DEF Earnest
<1>3. Binding(receipt, token, {}) = First(<<x, y, z, u, v>>)
  BY DEF Binding
<1> HIDE DEF x, y, z, u, v
<1> QED
  BY <1>1, <1>2, <1>3, FiveChecks, FirstOk

LEMMA PreflightOk ==
    ASSUME NEW request, NEW opts
    PROVE  First(PreflightChecks(request, opts)) = "ok" =>
             (opts.requireReceipt => request.receipt # Absent)
<1> DEFINE x == <<opts.authorities = {} \/ UrlError(request.url) = "ok", UrlError(request.url)>>
           y == <<\/ opts.authorities = {}
                  \/ HostPort(request.url) \in {NormalizeAuthority(a) : a \in opts.authorities},
                  "UntrustedAuthority">>
           z == <<request.proof # Absent, "MissingHeaders">>
           u == <<request.status # Absent, "MissingHeaders">>
           v == <<~opts.requireReceipt \/ request.receipt # Absent, "MissingHeaders">>
<1>1. v[1] <=> ~opts.requireReceipt \/ request.receipt # Absent
  OBVIOUS
<1>2. Earnest(x) /\ Earnest(y) /\ Earnest(z) /\ Earnest(u) /\ Earnest(v)
  BY DEF Earnest
<1>3. PreflightChecks(request, opts) = <<x, y, z, u, v>>
  BY DEF PreflightChecks
<1> HIDE DEF x, y, z, u, v
<1> QED
  BY <1>1, <1>2, <1>3, FiveChecks, FirstOk

\* bind_caller and the content check, together.
LEMMA BoundOk ==
    ASSUME NEW cert, NEW token, NEW receipt, NEW opts, NEW request,
           First(BindingChecks(cert, token, receipt, opts) \o ContentChecks(request)) = "ok"
    PROVE  /\ cert.fp \in token.identityCerts /\ cert.name.host = token.ansName.host
           /\ receipt # Absent => receipt.ansName = token.ansName
           /\ request.content # Absent /\ request.proof.payload.digest = request.content
<1> DEFINE bound == IF receipt = Absent THEN "ok" ELSE Binding(receipt, token, {})
           x == <<MatchesIdentityCert(token, cert.fp), "BindingFailed">>
           y == <<cert.name # Absent, "BindingFailed">>
           z == <<cert.name # Absent => cert.name.host = token.ansName.host, "BindingFailed">>
           u == <<bound = "ok",
                  IF bound = "IdentityBinding" THEN "BindingFailed" ELSE "ReceiptInvalid">>
           v == <<opts.allowed = {} \/ token.ansName.host \in AllowedHosts(opts),
                  "ExpectedPeerMismatch">>
           c == <<request.content # Absent, "content callback">>
           d == <<request.proof.payload.digest = request.content, "ContentBindingMismatch">>
<1>1. /\ x[1] <=> MatchesIdentityCert(token, cert.fp)
      /\ y[1] <=> cert.name # Absent
      /\ z[1] <=> (cert.name # Absent => cert.name.host = token.ansName.host)
      /\ u[1] <=> bound = "ok"
      /\ c[1] <=> request.content # Absent
      /\ d[1] <=> request.proof.payload.digest = request.content
  OBVIOUS
<1>2. /\ Earnest(x) /\ Earnest(y) /\ Earnest(z) /\ Earnest(u) /\ Earnest(v)
      /\ Earnest(c) /\ Earnest(d)
  BY DEF Earnest
<1>3. /\ BindingChecks(cert, token, receipt, opts) = <<x, y, z, u, v>>
      /\ ContentChecks(request) = <<c, d>>
  BY DEF BindingChecks, ContentChecks
<1>4. bound = "ok" => (receipt # Absent => receipt.ansName = token.ansName)
  BY BindingOk
<1> HIDE DEF bound, x, y, z, u, v, c, d
<1>5. /\ IsChecks(<<x, y, z, u, v>>) /\ IsChecks(<<c, d>>)
      /\ Passes(<<x, y, z, u, v>>) <=> x[1] /\ y[1] /\ z[1] /\ u[1] /\ v[1]
      /\ Passes(<<c, d>>) <=> c[1] /\ d[1]
  BY <1>2, FiveChecks, TwoChecks
<1>6. Passes(<<x, y, z, u, v>>) /\ Passes(<<c, d>>)
  BY <1>3, <1>5, FirstOfConcat, FirstOk
<1> QED
  BY <1>1, <1>4, <1>5, <1>6 DEF MatchesIdentityCert

(***************************************************************************)
(* verify_caller_with_content accepts only proven callers, for every       *)
(* request, every option, every key store and every answer of the replay   *)
(* cache, and whatever earlier requests left in the artifact cache, as     *)
(* long as what they left had verified when it went in.  The cache changes *)
(* no verdict, and a jti is consumed only by an accepted request.          *)
(***************************************************************************)
THEOREM CallersAreProven ==
    ASSUME NEW request, NEW opts, NEW store, NEW cache, Vouched(cache), NEW replay, NEW at
    PROVE  CallerIsProven(request, opts, store, cache, replay, at)
<1> DEFINE token == request.status
           cert == request.proof.header.x5c[1]
           signed == request.proof.signature.payload
           preflight == First(PreflightChecks(request, opts))
           proof == ProofVerdict(request.proof, request, at)
           status == TokenVerdict(token, store, opts.statusSkew, at)
           receipt == IF request.receipt = Absent THEN "ok"
                      ELSE ReceiptVerdict(request.receipt, store)
           binding == First(BindingChecks(cert, token, request.receipt, opts)
                            \o ContentChecks(request))
           answer == VerifyCaller(request, opts, store, cache, replay, at)
           accepts == /\ preflight = "ok" /\ proof = "ok" /\ status = "ok"
                      /\ receipt = "ok" /\ binding = "ok"
<1>1. Vouched(NoArtifacts)
  BY DEF Vouched, NoArtifacts
<1>2. ASSUME NEW c, Vouched(c)
      PROVE  LET v == VerifyCaller(request, opts, store, c, replay, at)
                 none == VerifyCaller(request, opts, store, NoArtifacts, replay, at)
             IN  v.verdict = none.verdict
  <2>1. /\ StatusVerdict(c, token, store, opts.statusSkew, at) = status
        /\ CallerReceiptVerdict(c, request.receipt, store) = receipt
    BY <1>2, CacheChangesNothing
  <2>2. /\ StatusVerdict(NoArtifacts, token, store, opts.statusSkew, at) = status
        /\ CallerReceiptVerdict(NoArtifacts, request.receipt, store) = receipt
    BY <1>1, CacheChangesNothing
  <2> HIDE DEF status, receipt
  <2> QED
    BY <2>1, <2>2 DEF VerifyCaller
<1>3. /\ answer.verdict = "ok" => accepts /\ replay = "fresh"
      /\ answer.consumed <=> accepts /\ replay = "fresh"
      /\ accepts /\ replay = "fresh" => answer.verdict = "ok"
  <2>1. /\ StatusVerdict(cache, token, store, opts.statusSkew, at) = status
        /\ CallerReceiptVerdict(cache, request.receipt, store) = receipt
    BY CacheChangesNothing
  <2> HIDE DEF status, receipt
  <2> DEFINE s1 == IF preflight # "ok" THEN preflight ELSE proof
             s2 == IF s1 # "ok" THEN s1 ELSE status
             s3 == IF s2 # "ok" THEN s2 ELSE receipt
             s4 == IF s3 # "ok" THEN s3 ELSE binding
             reported == IF s1 = "ok" /\ s2 # "ok" THEN "StatusInvalid"
                         ELSE IF s2 = "ok" /\ s3 # "ok" THEN "ReceiptInvalid" ELSE s4
  <2>2. /\ answer.verdict = IF s4 # "ok" THEN reported ELSE ReplayVerdict(replay)
        /\ answer.consumed = (s4 = "ok" /\ replay = "fresh")
    BY <2>1 DEF VerifyCaller
  <2> HIDE DEF preflight, proof, binding, answer
  <2>3. s4 = "ok" <=> accepts
    OBVIOUS
  <2>4. s4 # "ok" => reported # "ok"
    OBVIOUS
  <2>5. ReplayVerdict(replay) = "ok" <=> replay = "fresh"
    BY DEF ReplayVerdict
  <2> HIDE DEF s4, reported, accepts
  <2> QED
    BY <2>2, <2>3, <2>4, <2>5
<1>4. ASSUME accepts
      PROVE  /\ request.proof.signature.key = cert.key
             /\ signed.htm = request.method /\ signed.htu = NormalizeHtu(request.url)
             /\ signed.ath = request.token /\ signed.digest = request.content
             /\ cert.fp \in token.identityCerts /\ cert.name.host = token.ansName.host
             /\ SignedBy(token, store) /\ ~Lapsed(token, opts.statusSkew, at)
             /\ ~ShouldReject(token.status)
             /\ opts.requireReceipt => request.receipt # Absent
             /\ request.receipt # Absent =>
                  SignedBy(request.receipt, store) /\ request.receipt.ansName = token.ansName
  <2>1. Holds(request.proof, request, at)
    BY <1>4, ProofVerdictOk
  <2>2. request.proof.signature = [key |-> cert.key, header |-> request.proof.header,
                                   payload |-> request.proof.payload]
    BY <2>1 DEF Holds, SignatureHolds
  <2> DEFINE payload == request.proof.payload
  <2>3. /\ request.proof.signature.key = cert.key
        /\ signed.htm = request.method /\ signed.htu = NormalizeHtu(request.url)
        /\ signed.ath = request.token
    <3>1. request.proof.signature.key = cert.key /\ signed = payload
      BY <2>2
    <3>2. /\ payload.htm = request.method /\ payload.htu = NormalizeHtu(request.url)
          /\ payload.ath = request.token
      BY <2>1 DEF Holds, TokenBound
    <3> QED
      BY <3>1, <3>2
  <2>4. /\ cert.fp \in token.identityCerts /\ cert.name.host = token.ansName.host
        /\ request.receipt # Absent => request.receipt.ansName = token.ansName
        /\ request.proof.payload.digest = request.content
    BY <1>4, BoundOk
  <2>5. signed.digest = request.content
    BY <2>2, <2>4
  <2>6. SignedBy(token, store) /\ ~Lapsed(token, opts.statusSkew, at) /\ ~ShouldReject(token.status)
    BY <1>4, LiveWhenVerified, ErrorsNameTheCause DEF ErrorsAreEarned
  <2>7. request.receipt # Absent => SignedBy(request.receipt, store)
    BY <1>4, ErrorsNameTheCause DEF ErrorsAreEarned
  <2>8. opts.requireReceipt => request.receipt # Absent
    BY <1>4, PreflightOk
  <2> QED
    BY <2>3, <2>4, <2>5, <2>6, <2>7, <2>8
<1>5. answer.verdict = VerifyCaller(request, opts, store, NoArtifacts, replay, at).verdict
  BY <1>2
<1> HIDE DEF answer, accepts
<1>6. /\ answer.verdict = "ok" => accepts /\ answer.consumed
      /\ answer.consumed => answer.verdict = "ok"
  BY <1>3
<1> QED
  BY <1>4, <1>5, <1>6 DEF CallerIsProven, answer

(***************************************************************************)
(* The premise of CallersAreProven is what the code maintains: an empty    *)
(* VerifiedArtifactCache is sound and every request leaves it sound,       *)
(* accepted or refused, because insert_status and insert_receipt follow a  *)
(* verification under the very store whose trust scope is in the key.      *)
(***************************************************************************)
THEOREM ArtifactCacheStaysSound ==
    /\ Vouched(NoArtifacts)
    /\ \A cache, request, opts, store, replay, at :
         Vouched(cache) => Vouched(VerifyCaller(request, opts, store, cache, replay, at).cache)
<1>1. Vouched(NoArtifacts)
  BY DEF Vouched, NoArtifacts
<1>2. ASSUME NEW cache, NEW request, NEW opts, NEW store, NEW replay, NEW at, Vouched(cache)
      PROVE  Vouched(VerifyCaller(request, opts, store, cache, replay, at).cache)
  <2> DEFINE status == TokenVerdict(request.status, store, opts.statusSkew, at)
             receipt == IF request.receipt = Absent THEN "ok"
                        ELSE ReceiptVerdict(request.receipt, store)
             after == VerifyCaller(request, opts, store, cache, replay, at).cache
  <2>1. /\ StatusVerdict(cache, request.status, store, opts.statusSkew, at) = status
        /\ CallerReceiptVerdict(cache, request.receipt, store) = receipt
    BY <1>2, CacheChangesNothing
  <2>2. /\ \A key \in after.status : \/ key \in cache.status
                                     \/ status = "ok" /\ key = ArtifactCacheKey(store, request.status)
        /\ \A key \in after.receipts :
             \/ key \in cache.receipts
             \/ /\ ReceiptVerdict(request.receipt, store) = "ok"
                /\ key = ArtifactCacheKey(store, request.receipt)
    BY <2>1 DEF VerifyCaller
  <2>3. \A s, t, x, y : ArtifactCacheKey(s, x) = ArtifactCacheKey(t, y) => s = t /\ x = y
    BY DEF ArtifactCacheKey, TrustScope
  <2> HIDE DEF after
  <2>4. ASSUME NEW s, NEW t, ArtifactCacheKey(s, t) \in after.status
        PROVE  \E skew, x : TokenVerdict(t, s, skew, x) = "ok"
    BY <1>2, <2>2, <2>3, <2>4 DEF Vouched
  <2>5. ASSUME NEW s, NEW r, ArtifactCacheKey(s, r) \in after.receipts
        PROVE  ReceiptVerdict(r, s) = "ok"
    BY <1>2, <2>2, <2>3, <2>5 DEF Vouched
  <2> QED
    BY <2>4, <2>5 DEF Vouched, after
<1> QED
  BY <1>1, <1>2

-----------------------------------------------------------------------------
(* Two questions of Questions, for every input                              *)

(***************************************************************************)
(* Errors blame the right party and a key refresh changes no verdict       *)
(* (verify_status_token_at, verify_receipt, merge_from), whatever the      *)
(* input is: no artifact, key store or answer of the log is an exception.  *)
(***************************************************************************)
THEOREM ErrorsAlwaysEarned == []ArtifactErrors
<1>1. ArtifactErrors
  BY ErrorsNameTheCause, RefreshChangesNoVerdict DEF ArtifactErrors
<1> QED
  BY <1>1, PTL

\* What the code is given: integral times, none of them the epoch for the time of
\* minting, and an artifact cache that earlier requests filled.
PopInputs ==
    /\ Given("proof") => input.of[5] \in Int \ {0} /\ input.of[6] \in Int
    /\ Given("caller") => Vouched(input.of[4])

(***************************************************************************)
(* A proof binds its own request and an accepted caller is proven          *)
(* (verify_proof_unrecorded, verify_caller_with_content), for every input  *)
(* whose artifact cache is one that requests leave behind                  *)
(* (ArtifactCacheStaysSound).                                              *)
(***************************************************************************)
THEOREM ProofsAlwaysBind == []PopInputs => []PopBinds
<1>1. PopInputs => PopBinds
  BY ProofsBindRequests, CallersAreProven DEF PopInputs, PopBinds
<1> QED
  BY <1>1, PTL

-----------------------------------------------------------------------------
(* Time, keys and the verdict without caches                                *)

LEMMA StoresGrow ==
    ASSUME NEW store \in Stores
    PROVE  /\ MergeFrom(store, Published) \in Stores
           /\ MergeFrom(store, Published) = MergeFrom(InitialKeys, Published)
           /\ Below(store, store) /\ Below(store, MergeFrom(store, Published))
           /\ \A earlier : Below(earlier, store) => Below(earlier, MergeFrom(store, Published))
  BY MergeIdempotent DEF Stores, Below

\* What is accepted under some keys is accepted under all later ones.
LEMMA AcceptedUnderMoreKeys ==
    ASSUME NEW a, NEW earlier \in Stores, NEW later, Below(earlier, later), NEW at
    PROVE  /\ TokenVerdict(a, earlier, Skew, at) = "ok" => TokenVerdict(a, later, Skew, at) = "ok"
           /\ ReceiptVerdict(a, earlier) = "ok" => ReceiptVerdict(a, later) = "ok"
<1>1. earlier = later \/ later = MergeFrom(earlier, Published)
  BY MergeIdempotent DEF Stores, Below
<1>2. RefreshIsMonotone(a, earlier, Published, Skew, at)
  BY RefreshChangesNoVerdict
<1> QED
  BY <1>1, <1>2 DEF RefreshIsMonotone

LEMMA UncachedOk ==
    ASSUME NEW req, NEW store, NEW at
    PROVE  Uncached(req, store, at) = "ok" <=>
             /\ req.token # Absent /\ TokenVerdict(req.token, store, Skew, at) = "ok"
             /\ CheckCertificate(req, req.token) = "ok"
             /\ req.receipt # Absent => /\ ReceiptVerdict(req.receipt, store) = "ok"
                                        /\ Binding(req.receipt, req.token, ExpectedHost(req)) = "ok"
<1>1. CASE req.token = Absent
  BY <1>1 DEF Uncached
<1>2. CASE req.token # Absent
  <2> DEFINE token == TokenVerdict(req.token, store, Skew, at)
             cert == CheckCertificate(req, req.token)
             receipt == IF req.receipt = Absent THEN "ok" ELSE ReceiptVerdict(req.receipt, store)
             binding == IF req.receipt = Absent THEN "ok"
                        ELSE Binding(req.receipt, req.token, ExpectedHost(req))
             c == << <<token = "ok", token>>, <<cert = "ok", cert>>,
                     <<receipt = "ok", receipt>>, <<binding = "ok", binding>> >>
  <2>1. Uncached(req, store, at) = First(c)
    BY <1>2 DEF Uncached
  <2> HIDE DEF token, cert, receipt, binding
  <2>2. Len(c) = 4 /\ c \in Seq({c[1], c[2], c[3], c[4]})
    OBVIOUS
  <2>3. /\ (c[1][1] <=> token = "ok") /\ c[1][2] = token
        /\ (c[2][1] <=> cert = "ok") /\ c[2][2] = cert
        /\ (c[3][1] <=> receipt = "ok") /\ c[3][2] = receipt
        /\ (c[4][1] <=> binding = "ok") /\ c[4][2] = binding
    OBVIOUS
  <2> HIDE DEF c
  <2>4. Passes(c) <=> c[1][1] /\ c[2][1] /\ c[3][1] /\ c[4][1]
    BY <2>2 DEF Passes
  <2>5. IsChecks(c)
    BY <2>2, <2>3 DEF IsChecks
  <2> QED
    BY <1>2, <2>1, <2>3, <2>4, <2>5, FirstOk DEF token, cert, receipt, binding
<1> QED
  BY <1>1, <1>2

\* An accepted certificate ties the host of the call to that of the token, in
\* both roles: the one dialed, or the one the client's certificate names.
LEMMA CertificateTiesHost ==
    ASSUME NEW req \in Requests, CheckCertificate(req, req.token) = "ok"
    PROVE  ExpectedHost(req) = {req.token.host}
<1> DEFINE cert == req.cert
           token == req.token
           isServer == req.isServer
           dialed == Host(req)
           c == << <<IF isServer THEN MatchesServerCert(token, cert.fp)
                     ELSE MatchesIdentityCert(token, cert.fp), "MissingTokenField">>,
                   <<isServer \/ cert.name # {},               "NoUriSan">>,
                   <<isServer \/ cert.name = {token.ansName},  "IdentityBinding">>,
                   <<isServer \/ cert.host = {token.host},     "IdentityBinding">>,
                   <<DialedHostMatches(token, dialed),         "HostMismatch">> >>
<1>1. First(c) = "ok"
  BY DEF CheckCertificate, CertificateVerdict
<1>2. IsChecks(c) /\ Len(c) = 5
  <2>1. DOMAIN c = 1 .. 5 /\ c = [i \in 1 .. 5 |-> c[i]] /\ Len(c) = 5
    OBVIOUS
  <2>2. /\ c[1][2] = "MissingTokenField" /\ c[2][2] = "NoUriSan" /\ c[3][2] = "IdentityBinding"
        /\ c[4][2] = "IdentityBinding" /\ c[5][2] = "HostMismatch"
    OBVIOUS
  <2> HIDE DEF c
  <2>3. [i \in 1 .. 5 |-> c[i]] \in Seq({c[i] : i \in 1 .. 5})
    OBVIOUS
  <2>4. \A i \in 1 .. 5 : c[i][2] # "ok"
    BY <2>2
  <2> QED
    BY <2>1, <2>3, <2>4 DEF IsChecks
<1>3. /\ c[4][1] <=> (isServer \/ cert.host = {token.host})
      /\ c[5][1] <=> DialedHostMatches(token, dialed)
  OBVIOUS
<1> HIDE DEF c
<1>4. c[4][1] /\ c[5][1]
  <2>1. Passes(c)
    BY <1>1, <1>2, FirstOk
  <2>2. \A i \in 1 .. 5 : c[i][1]
    BY <1>2, <2>1 DEF Passes
  <2> QED
    BY <2>2
<1>5. (isServer \/ cert.host = {token.host}) /\ DialedHostMatches(token, dialed)
  BY <1>3, <1>4
<1>6. isServer \in BOOLEAN
  BY RequestAssumption
<1> QED
  BY <1>4, <1>5, <1>6 DEF ExpectedHost, DialedHostMatches, Host

-----------------------------------------------------------------------------
(* The inductive invariant, call by call and entry by entry, as predicates  *)
(* of what a call and an entry are: c is its record, r its result.          *)

TokenHonest(e, at) == \E store \in Stores :
    /\ e.key = ArtifactCacheKey(store, e.token)
    /\ \E x \in 0 .. at : TokenVerdict(e.token, store, Skew, x) = "ok"
ReceiptHonest(e) == \E store \in Stores :
    e.key = ArtifactCacheKey(store, e.receipt) /\ ReceiptVerdict(e.receipt, store) = "ok"
OutcomeSound(e, at) == \E store \in Stores, req \in Requests :
    /\ e.token = req.token /\ req.token # Absent
    /\ e.key = <<req.cert.fp, ArtifactCacheKey(store, req.token),
                 IF req.receipt = Absent THEN Absent
                 ELSE ArtifactCacheKey(store, req.receipt)>>
    /\ \E x \in 0 .. at : TokenVerdict(req.token, store, Skew, x) = "ok"
    /\ req.receipt # Absent =>
         /\ ReceiptVerdict(req.receipt, store) = "ok"
         /\ Binding(req.receipt, req.token, {req.token.host}) = "ok"

Knows(c, ks, at) ==
    /\ c \in Calls
    /\ Below(c.scope, c.snapshot) /\ Below(c.snapshot, ks)
    /\ c.since <= at
    /\ c.cache => c.snapshot = c.scope
    /\ c.badge => c.dane

DoneFits(pol, c, r, ks, at) ==
    /\ r.kind \in {"StatusTokenVerified", "FullScitt"} =>
         Uncached(c.req, ks, c.since) = "ok" /\ r.kind = TierOf(c.req)
    /\ r.kind = "rejected" /\ r.error \notin {"badge", "DaneError"} =>
         Uncached(c.req, c.scope, at) # "ok"
    /\ r.kind # "rejected" =>
         /\ r.kind = "badge" => HeadersEmpty(c.req) /\ pol # "RequireScitt"
         /\ pol = "BadgeWithScittEnhancement" => r.badge
         /\ c.req.receipt # Absent => ReceiptVerdict(c.req.receipt, ks) = "ok"
         /\ c.req.isServer /\ DaneOn => c.dane

Fits(pol, stage, c, r, ks, at) == stage # "idle" =>
    /\ Knows(c, ks, at)
    /\ stage = "badge" => /\ pol # "RequireScitt"
                          /\ pol # "BadgeWithScittEnhancement" => HeadersEmpty(c.req)
    /\ stage \in Stages \ {"badge", "done"} /\ pol = "BadgeWithScittEnhancement" => c.badge
    /\ stage \in {"token", "token refresh", "receipt", "receipt refresh"} => c.req.token # Absent
    /\ stage = "token refresh" => TokenVerdict(c.req.token, c.snapshot, Skew, at) # "ok"
    /\ stage \in {"receipt", "receipt refresh"} =>
         /\ TokenVerdict(c.req.token, c.snapshot, Skew, c.since) = "ok"
         /\ CheckCertificate(c.req, c.req.token) = "ok"
    /\ stage = "receipt refresh" =>
         c.req.receipt # Absent /\ ReceiptVerdict(c.req.receipt, c.snapshot) # "ok"
    /\ stage = "dane" => Uncached(c.req, ks, c.since) = "ok"
    /\ stage = "done" => DoneFits(pol, c, r, ks, at)

Framed ==
    /\ policy \in Policies /\ keys \in Stores /\ now \in Nat
    /\ pc \in [Tasks -> Stages \cup {"idle"}]
    /\ DOMAIN call = Tasks /\ DOMAIN result = Tasks

InvByCall ==
    /\ Framed
    /\ \A t \in Tasks : Fits(policy, pc[t], call[t], result[t], keys, now)
    /\ \A e \in tokenCache : TokenHonest(e, now)
    /\ \A e \in receiptCache : ReceiptHonest(e)
    /\ \A e \in outcomeCache : OutcomeSound(e, now)

LEMMA InvByCallSuffices == InvByCall => IndInv
<1> SUFFICES ASSUME InvByCall PROVE IndInv
  OBVIOUS
<1>1. StateTyped
  BY DEF InvByCall, Framed, StateTyped, Fits, Knows
<1>2. CallsSound
  <2> SUFFICES ASSUME NEW t \in Tasks PROVE CallInOrder(t) /\ PolicyKept(t) /\ StageEarned(t)
    BY DEF CallsSound
  <2>1. Fits(policy, pc[t], call[t], result[t], keys, now) /\ pc[t] \in Stages \cup {"idle"}
    BY DEF InvByCall, Framed
  <2>2. CallInOrder(t)
    BY <2>1 DEF Fits, Knows, CallInOrder
  <2>3. PolicyKept(t)
    BY <2>1 DEF Fits, PolicyKept, Stages
  <2>4. StageEarned(t)
    BY <2>1 DEF Fits, StageEarned
  <2> QED
    BY <2>2, <2>3, <2>4
<1>3. CacheHonest
  BY DEF InvByCall, TokenHonest, ReceiptHonest, CacheHonest, Stores
<1>4. OutcomeHonest
  BY DEF InvByCall, OutcomeSound, OutcomeHonest
<1>5. \A t \in Tasks : Done(t) => DoneFits(policy, call[t], result[t], keys, now)
  BY DEF InvByCall, Fits, Done
<1>6. CachesInvisible
  BY <1>5 DEF DoneFits, CachesInvisible, CacheTransparent, CacheOnlySpares, ScittAccepted,
              ScittRejected
<1>7. NoDowngrade
  BY <1>5 DEF DoneFits, NoDowngrade
<1> QED
  BY <1>1, <1>2, <1>3, <1>4, <1>6, <1>7 DEF IndInv

\* Time passing and keys arriving disturb no call and no entry.
LEMMA FitsLater ==
    ASSUME NEW pol, NEW stage, NEW c, NEW r, NEW ks \in Stores, NEW at \in Nat,
           Fits(pol, stage, c, r, ks, at),
           NEW ks2 \in {ks, MergeFrom(ks, Published)}, NEW at2 \in {at, at + 1}
    PROVE  Fits(pol, stage, c, r, ks2, at2)
<1> SUFFICES ASSUME stage # "idle" PROVE Fits(pol, stage, c, r, ks2, at2)
  BY DEF Fits
<1>1. Knows(c, ks, at) /\ c.req \in Requests /\ c.scope \in Stores /\ c.snapshot \in Stores
      /\ c.since \in Nat
  BY DEF Fits, Knows, Calls
<1>2. ks2 \in Stores /\ Below(ks, ks2) /\ Below(c.snapshot, ks2)
  BY <1>1, StoresGrow DEF Knows
<1>3. Knows(c, ks2, at2)
  BY <1>1, <1>2 DEF Knows
<1>4. \A x : Uncached(c.req, ks, x) = "ok" => Uncached(c.req, ks2, x) = "ok"
  BY <1>2, UncachedOk, AcceptedUnderMoreKeys
<1>5. \A store : TokenVerdict(c.req.token, store, Skew, at) # "ok" /\ c.req.token # Absent
        => TokenVerdict(c.req.token, store, Skew, at2) # "ok"
  <2> SUFFICES ASSUME NEW store, c.req.token # Absent,
                      TokenVerdict(c.req.token, store, Skew, at2) = "ok"
               PROVE  TokenVerdict(c.req.token, store, Skew, at) = "ok"
    OBVIOUS
  <2>1. c.req.token.exp \in Int
    BY <1>1, RequestAssumption
  <2> QED
    BY <2>1, SkewAssumption, AcceptedInTime
<1>6. Uncached(c.req, c.scope, at) # "ok" => Uncached(c.req, c.scope, at2) # "ok"
  BY <1>5, UncachedOk
<1>7. c.req.receipt # Absent /\ ReceiptVerdict(c.req.receipt, ks) = "ok"
        => ReceiptVerdict(c.req.receipt, ks2) = "ok"
  BY <1>2, AcceptedUnderMoreKeys
<1>8. DoneFits(pol, c, r, ks, at) => DoneFits(pol, c, r, ks2, at2)
  BY <1>4, <1>6, <1>7 DEF DoneFits
<1> QED
  BY <1>3, <1>4, <1>5, <1>8 DEF Fits

LEMMA HonestLater ==
    ASSUME NEW at \in Nat, NEW at2 \in {at, at + 1}, NEW e
    PROVE  /\ TokenHonest(e, at) => TokenHonest(e, at2)
           /\ OutcomeSound(e, at) => OutcomeSound(e, at2)
<1>1. 0 .. at \subseteq 0 .. at2
  OBVIOUS
<1> QED
  BY <1>1 DEF TokenHonest, OutcomeSound

\* A step that moves one call: what is left to show of it.
LEMMA OneCallMoves ==
    ASSUME InvByCall, NEW t \in Tasks,
           policy' = policy, now' = now, keys' \in {keys, MergeFrom(keys, Published)},
           pc' \in [Tasks -> Stages \cup {"idle"}],
           DOMAIN call' = Tasks, DOMAIN result' = Tasks,
           \A u \in Tasks \ {t} :
             pc'[u] = pc[u] /\ call'[u] = call[u] /\ result'[u] = result[u],
           Fits(policy, pc'[t], call'[t], result'[t], keys', now),
           \A e \in tokenCache' : TokenHonest(e, now),
           \A e \in receiptCache' : ReceiptHonest(e),
           \A e \in outcomeCache' : OutcomeSound(e, now)
    PROVE  InvByCall'
<1>1. Framed'
  BY StoresGrow DEF InvByCall, Framed
<1>2. ASSUME NEW u \in Tasks \ {t} PROVE Fits(policy', pc'[u], call'[u], result'[u], keys', now')
  <2>1. Fits(policy, pc[u], call[u], result[u], keys, now) /\ keys \in Stores /\ now \in Nat
    BY DEF InvByCall, Framed
  <2>2. Fits(policy, pc[u], call[u], result[u], keys', now)
    BY <2>1, FitsLater
  <2> QED
    BY <2>2
<1> QED
  BY <1>1, <1>2 DEF InvByCall

-----------------------------------------------------------------------------
(* The ends of a call                                                       *)

\* Without caches the token fails under the keys of the call if it fails under
\* the snapshot, which has at least those keys.
LEMMA FailsUnderScope ==
    ASSUME NEW c, NEW ks, NEW at \in Nat, Knows(c, ks, at), c.req.token # Absent,
           \/ TokenVerdict(c.req.token, c.snapshot, Skew, at) # "ok"
           \/ CheckCertificate(c.req, c.req.token) # "ok"
           \/ c.req.receipt # Absent /\ ReceiptVerdict(c.req.receipt, c.snapshot) # "ok"
           \/ /\ c.req.receipt # Absent
              /\ Binding(c.req.receipt, c.req.token, ExpectedHost(c.req)) # "ok"
    PROVE  Uncached(c.req, c.scope, at) # "ok"
<1>1. c.scope \in Stores /\ Below(c.scope, c.snapshot)
  BY DEF Knows, Calls
<1>2. /\ TokenVerdict(c.req.token, c.scope, Skew, at) = "ok"
           => TokenVerdict(c.req.token, c.snapshot, Skew, at) = "ok"
      /\ ReceiptVerdict(c.req.receipt, c.scope) = "ok"
           => ReceiptVerdict(c.req.receipt, c.snapshot) = "ok"
  BY <1>1, AcceptedUnderMoreKeys
<1> QED
  BY <1>2, UncachedOk

LEMMA RejectedFits ==
    ASSUME NEW c, NEW ks, NEW at, NEW pol, NEW error, Knows(c, ks, at),
           error \in {"badge", "DaneError"} \/ Uncached(c.req, c.scope, at) # "ok"
    PROVE  Fits(pol, "done", c, [kind |-> "rejected", error |-> error, badge |-> c.badge], ks, at)
  BY DEF Fits, DoneFits

LEMMA AcceptedFits ==
    ASSUME NEW c, NEW ks, NEW at, NEW pol, Knows(c, ks, at),
           Uncached(c.req, ks, c.since) = "ok",
           pol = "BadgeWithScittEnhancement" => c.badge,
           c.req.isServer /\ DaneOn => c.dane
    PROVE  Fits(pol, "done", c, [kind |-> TierOf(c.req), error |-> "ok", badge |-> c.badge], ks, at)
<1> DEFINE r == [kind |-> TierOf(c.req), error |-> "ok", badge |-> c.badge]
<1>1. r.kind = TierOf(c.req) /\ r.badge = c.badge
      /\ r.kind \in {"StatusTokenVerified", "FullScitt"}
  BY DEF TierOf
<1>2. c.req.receipt # Absent => ReceiptVerdict(c.req.receipt, ks) = "ok"
  BY UncachedOk
<1> HIDE DEF r
<1>3. DoneFits(pol, c, r, ks, at)
  BY <1>1, <1>2 DEF DoneFits
<1>4. Fits(pol, "done", c, r, ks, at)
  BY <1>3 DEF Fits
<1> QED
  BY <1>4 DEF r

\* Reject, whatever the reason.
LEMMA RejectFits ==
    ASSUME InvByCall, NEW t \in Tasks, NEW error, Reject(t, error),
           NEW c, Knows(c, keys, now), c.badge = call[t].badge,
           error \in {"badge", "DaneError"} \/ Uncached(c.req, c.scope, now) # "ok"
    PROVE  /\ pc' \in [Tasks -> Stages \cup {"idle"}] /\ DOMAIN result' = Tasks
           /\ \A u \in Tasks \ {t} : pc'[u] = pc[u] /\ result'[u] = result[u]
           /\ Fits(policy, pc'[t], c, result'[t], keys, now)
<1>1. /\ pc \in [Tasks -> Stages \cup {"idle"}] /\ DOMAIN result = Tasks
  BY DEF InvByCall, Framed
<1>2. /\ pc' = [pc EXCEPT ![t] = "done"]
      /\ result' = [result EXCEPT ![t] = [kind |-> "rejected", error |-> error, badge |-> c.badge]]
  BY DEF Reject, Finish
<1>3. pc'[t] = "done" /\ result'[t] = [kind |-> "rejected", error |-> error, badge |-> c.badge]
  BY <1>1, <1>2
<1>4. Fits(policy, pc'[t], c, result'[t], keys, now)
  BY <1>3, RejectedFits
<1>5. pc' \in [Tasks -> Stages \cup {"idle"}] /\ DOMAIN result' = Tasks
  BY <1>1, <1>2 DEF Stages
<1>6. \A u \in Tasks \ {t} : pc'[u] = pc[u] /\ result'[u] = result[u]
  BY <1>1, <1>2
<1> QED
  BY <1>4, <1>5, <1>6

\* The end of the SCITT path for both roles: a server's may still need DANE.
LEMMA VerifiedFits ==
    ASSUME InvByCall, NEW t \in Tasks, Verified(t),
           NEW c, Knows(c, keys, now),
           c.req = call[t].req, c.badge = call[t].badge,
           Uncached(c.req, keys, c.since) = "ok",
           policy = "BadgeWithScittEnhancement" => c.badge
    PROVE  /\ pc' \in [Tasks -> Stages \cup {"idle"}] /\ DOMAIN result' = Tasks
           /\ \A u \in Tasks \ {t} : pc'[u] = pc[u] /\ result'[u] = result[u]
           /\ Fits(policy, pc'[t], c, result'[t], keys, now)
<1>1. /\ pc \in [Tasks -> Stages \cup {"idle"}] /\ DOMAIN result = Tasks
  BY DEF InvByCall, Framed
<1>2. c.req \in Requests /\ c.req.isServer \in BOOLEAN
  BY RequestAssumption DEF Knows, Calls
<1>3. CASE c.req.isServer /\ DaneOn /\ policy # "BadgeWithScittEnhancement"
  <2>1. pc' = [pc EXCEPT ![t] = "dane"] /\ result' = result
    BY <1>3 DEF Verified, VerifiedServer
  <2>2. pc'[t] = "dane"
    BY <1>1, <2>1
  <2>3. Fits(policy, pc'[t], c, result'[t], keys, now)
    BY <1>3, <2>2 DEF Fits
  <2>4. pc' \in [Tasks -> Stages \cup {"idle"}] /\ DOMAIN result' = Tasks
    BY <1>1, <2>1 DEF Stages
  <2>5. \A u \in Tasks \ {t} : pc'[u] = pc[u] /\ result'[u] = result[u]
    BY <1>1, <2>1
  <2> QED
    BY <2>3, <2>4, <2>5
<1>4. CASE ~(c.req.isServer /\ DaneOn /\ policy # "BadgeWithScittEnhancement")
  <2>1. /\ pc' = [pc EXCEPT ![t] = "done"]
        /\ result' = [result EXCEPT ![t] =
             [kind |-> TierOf(c.req), error |-> "ok", badge |-> c.badge]]
    BY <1>4 DEF Verified, VerifiedServer, VerifiedClient, Finish
  <2>2. pc'[t] = "done"
        /\ result'[t] = [kind |-> TierOf(c.req), error |-> "ok", badge |-> c.badge]
    BY <1>1, <2>1
  <2>3. c.req.isServer /\ DaneOn => c.dane
    BY <1>4 DEF Knows
  <2>4. Fits(policy, pc'[t], c, result'[t], keys, now)
    BY <2>2, <2>3, AcceptedFits
  <2>5. pc' \in [Tasks -> Stages \cup {"idle"}] /\ DOMAIN result' = Tasks
    BY <1>1, <2>1 DEF Stages
  <2>6. \A u \in Tasks \ {t} : pc'[u] = pc[u] /\ result'[u] = result[u]
    BY <1>1, <2>1
  <2> QED
    BY <2>4, <2>5, <2>6
<1> QED
  BY <1>3, <1>4

-----------------------------------------------------------------------------
(* The steps of a call                                                      *)

LEMMA InitKept == Init => InvByCall
  BY DEF Init, InvByCall, Framed, Fits, Stores

LEMMA DispatchKept ==
    ASSUME InvByCall, NEW t \in Tasks, NEW req \in Requests, Dispatch(t, req)
    PROVE  InvByCall'
<1> DEFINE c == [req |-> req, scope |-> keys, snapshot |-> keys, cache |-> TRUE,
                 badge |-> FALSE, dane |-> FALSE, retried |-> FALSE, since |-> now]
<1>1. /\ pc \in [Tasks -> Stages \cup {"idle"}] /\ DOMAIN call = Tasks /\ DOMAIN result = Tasks
      /\ keys \in Stores /\ now \in Nat
  BY DEF InvByCall, Framed
<1>2. /\ call' = [call EXCEPT ![t] = c]
      /\ policy' = policy /\ keys' = keys /\ now' = now
      /\ tokenCache' = tokenCache /\ receiptCache' = receiptCache /\ outcomeCache' = outcomeCache
  BY DEF Dispatch, Arrive, caches
<1>3. c \in Calls /\ Knows(c, keys, now) /\ c.req = req
  BY <1>1, StoresGrow DEF Calls, Knows
<1> HIDE DEF c
<1>4. call'[t] = c /\ DOMAIN call' = Tasks /\ \A u \in Tasks \ {t} : call'[u] = call[u]
  BY <1>1, <1>2
<1>5. CASE /\ \/ policy = "BadgeWithScittEnhancement"
              \/ policy = "ScittWithBadgeFallback" /\ HeadersEmpty(req)
           /\ pc' = [pc EXCEPT ![t] = "badge"] /\ UNCHANGED result
  <2>1. pc'[t] = "badge" /\ pc' \in [Tasks -> Stages \cup {"idle"}]
        /\ \A u \in Tasks \ {t} : pc'[u] = pc[u]
    BY <1>1, <1>5 DEF Stages
  <2>2. Fits(policy, pc'[t], c, result'[t], keys, now)
    BY <1>3, <1>5, <2>1 DEF Fits
  <2> QED
    BY <1>1, <1>2, <1>4, <1>5, <2>1, <2>2, OneCallMoves DEF InvByCall
<1>6. CASE /\ policy = "RequireScitt" /\ HeadersEmpty(req)
           /\ pc' = [pc EXCEPT ![t] = "done"]
           /\ result' = [result EXCEPT ![t] = [kind |-> "rejected",
                           error |-> "MissingTokenField", badge |-> FALSE]]
  <2>1. /\ pc'[t] = "done" /\ pc' \in [Tasks -> Stages \cup {"idle"}]
        /\ DOMAIN result' = Tasks
        /\ \A u \in Tasks \ {t} : pc'[u] = pc[u] /\ result'[u] = result[u]
        /\ result'[t].kind = "rejected"
    BY <1>1, <1>6 DEF Stages
  <2>2. Uncached(c.req, c.scope, now) # "ok"
    BY <1>3, <1>6, UncachedOk DEF HeadersEmpty
  <2>3. Fits(policy, pc'[t], c, result'[t], keys, now)
    BY <1>3, <2>1, <2>2 DEF Fits, DoneFits
  <2> QED
    BY <1>1, <1>2, <1>4, <2>1, <2>3, OneCallMoves DEF InvByCall
<1>7. CASE /\ policy # "BadgeWithScittEnhancement" /\ ~HeadersEmpty(req)
           /\ pc' = [pc EXCEPT ![t] = "lookup"] /\ UNCHANGED result
  <2>1. pc'[t] = "lookup" /\ pc' \in [Tasks -> Stages \cup {"idle"}]
        /\ \A u \in Tasks \ {t} : pc'[u] = pc[u]
    BY <1>1, <1>7 DEF Stages
  <2>2. Fits(policy, pc'[t], c, result'[t], keys, now)
    BY <1>3, <1>7, <2>1 DEF Fits
  <2> QED
    BY <1>1, <1>2, <1>4, <1>7, <2>1, <2>2, OneCallMoves DEF InvByCall
<1> QED
  BY <1>5, <1>6, <1>7 DEF Dispatch

LEMMA BadgeKept ==
    ASSUME InvByCall, NEW t \in Tasks, Badge(t)
    PROVE  InvByCall'
<1> DEFINE c == call[t]
<1>1. /\ pc \in [Tasks -> Stages \cup {"idle"}] /\ DOMAIN call = Tasks /\ DOMAIN result = Tasks
      /\ keys \in Stores /\ now \in Nat /\ pc[t] = "badge"
      /\ Fits(policy, pc[t], c, result[t], keys, now)
  BY DEF InvByCall, Framed, Badge
<1>2. /\ policy' = policy /\ keys' = keys /\ now' = now
      /\ tokenCache' = tokenCache /\ receiptCache' = receiptCache /\ outcomeCache' = outcomeCache
  BY DEF Badge, caches
<1>3. /\ Knows(c, keys, now) /\ c \in Calls /\ policy # "RequireScitt"
      /\ policy # "BadgeWithScittEnhancement" => HeadersEmpty(c.req)
  BY <1>1 DEF Fits, Knows
<1>4. CASE Reject(t, "badge") /\ UNCHANGED call
  BY <1>1, <1>2, <1>3, <1>4, RejectFits, OneCallMoves DEF InvByCall
<1>5. CASE /\ call' = [call EXCEPT ![t].badge = TRUE, ![t].dane = TRUE]
           /\ IF HeadersEmpty(call[t].req)
              THEN /\ result' = [result EXCEPT ![t] = [kind |-> "badge",
                                    error |-> "ok", badge |-> TRUE]]
                   /\ pc' = [pc EXCEPT ![t] = "done"]
              ELSE pc' = [pc EXCEPT ![t] = "lookup"] /\ UNCHANGED result
  <2> DEFINE d == [c EXCEPT !.badge = TRUE, !.dane = TRUE]
  <2>1. call'[t] = d /\ DOMAIN call' = Tasks /\ \A u \in Tasks \ {t} : call'[u] = call[u]
    BY <1>1, <1>5
  <2>2. d \in Calls /\ d.req = c.req /\ d.badge = TRUE /\ d.dane = TRUE /\ d.scope = c.scope
        /\ d.snapshot = c.snapshot /\ d.since = c.since /\ d.cache = c.cache
    BY <1>3 DEF Calls
  <2> HIDE DEF d, c
  <2>3. Knows(d, keys, now)
    BY <1>3, <2>2 DEF Knows
  <2>4. CASE HeadersEmpty(c.req)
    <3>1. /\ pc'[t] = "done" /\ pc' \in [Tasks -> Stages \cup {"idle"}]
          /\ DOMAIN result' = Tasks
          /\ \A u \in Tasks \ {t} : pc'[u] = pc[u] /\ result'[u] = result[u]
          /\ result'[t].kind = "badge" /\ result'[t].badge = TRUE
      <4>1. /\ result' = [result EXCEPT ![t] = [kind |-> "badge", error |-> "ok", badge |-> TRUE]]
            /\ pc' = [pc EXCEPT ![t] = "done"]
        BY <1>5, <2>4 DEF c
      <4> QED
        BY <1>1, <4>1 DEF Stages
    <3>2. DoneFits(policy, d, result'[t], keys, now)
      BY <1>3, <2>2, <2>4, <3>1 DEF DoneFits, HeadersEmpty
    <3>3. Fits(policy, pc'[t], d, result'[t], keys, now)
      BY <2>3, <3>1, <3>2 DEF Fits
    <3> QED
      BY <1>2, <2>1, <3>1, <3>3, OneCallMoves DEF InvByCall
  <2>5. CASE ~HeadersEmpty(c.req)
    <3>1. /\ pc'[t] = "lookup" /\ pc' \in [Tasks -> Stages \cup {"idle"}]
          /\ result' = result /\ \A u \in Tasks \ {t} : pc'[u] = pc[u]
      BY <1>1, <1>5, <2>5 DEF Stages, c
    <3>2. Fits(policy, pc'[t], d, result'[t], keys, now)
      BY <2>2, <2>3, <3>1 DEF Fits
    <3> QED
      BY <1>1, <1>2, <2>1, <3>1, <3>2, OneCallMoves DEF InvByCall
  <2> QED
    BY <2>4, <2>5
<1> QED
  BY <1>4, <1>5 DEF Badge

\* A hit in layer 2 is as good as a verification now: the entry is of the same
\* token and receipt under the same keys, and the certificate is checked again.
LEMMA HitIsEarned ==
    ASSUME InvByCall, NEW t \in Tasks, pc[t] # "idle", call[t].req.token # Absent,
           HasOutcome(t), CheckCertificate(call[t].req, call[t].req.token) = "ok"
    PROVE  Uncached(call[t].req, keys, call[t].since) = "ok"
<1> DEFINE c == call[t]
           req == call[t].req
<1>1. Knows(c, keys, now) /\ keys \in Stores /\ now \in Nat /\ req \in Requests
      /\ c.since \in Nat /\ c.since <= now
  BY DEF InvByCall, Framed, Fits, Knows, Calls
<1>2. PICK e \in outcomeCache :
        /\ e.key = <<req.cert.fp, ArtifactCacheKey(keys, req.token),
                     IF req.receipt = Absent THEN Absent ELSE ArtifactCacheKey(keys, req.receipt)>>
        /\ FreshEntry(e.token)
  BY DEF HasOutcome
<1>3. OutcomeSound(e, now)
  BY DEF InvByCall
<1>4. PICK store \in Stores, r \in Requests :
        /\ e.token = r.token /\ r.token # Absent
        /\ e.key = <<r.cert.fp, ArtifactCacheKey(store, r.token),
                     IF r.receipt = Absent THEN Absent ELSE ArtifactCacheKey(store, r.receipt)>>
        /\ \E x \in 0 .. now : TokenVerdict(r.token, store, Skew, x) = "ok"
        /\ r.receipt # Absent =>
             /\ ReceiptVerdict(r.receipt, store) = "ok"
             /\ Binding(r.receipt, r.token, {r.token.host}) = "ok"
  BY <1>3 DEF OutcomeSound
<1>5. store = keys /\ r.token = req.token
  BY <1>2, <1>4 DEF ArtifactCacheKey, TrustScope
<1>6. req.receipt # Absent => r.receipt = req.receipt
  <2>1. (IF r.receipt = Absent THEN Absent ELSE ArtifactCacheKey(store, r.receipt))
          = (IF req.receipt = Absent THEN Absent ELSE ArtifactCacheKey(keys, req.receipt))
    BY <1>2, <1>4
  <2>2. Absent # ArtifactCacheKey(keys, req.receipt)
    BY <1>1, RequestAssumption DEF Stores
  <2> QED
    BY <1>5, <2>1, <2>2 DEF ArtifactCacheKey, TrustScope
<1>7. TokenVerdict(req.token, keys, Skew, c.since) = "ok"
  <2>1. PICK x \in 0 .. now : TokenVerdict(req.token, keys, Skew, x) = "ok"
    BY <1>4, <1>5
  <2>2. req.token.exp \in Int /\ now < req.token.exp
    BY <1>1, <1>2, <1>4, <1>5, RequestAssumption DEF FreshEntry
  <2>3. c.since < req.token.exp
    BY <1>1, <2>2
  <2> QED
    BY <1>1, <2>1, <2>2, <2>3, SkewAssumption, AcceptedInTime
<1>8. ExpectedHost(req) = {req.token.host}
  BY <1>1, CertificateTiesHost
<1> QED
  BY <1>4, <1>5, <1>6, <1>7, <1>8, UncachedOk

LEMMA LookupKept ==
    ASSUME InvByCall, NEW t \in Tasks, Lookup(t)
    PROVE  InvByCall'
<1> DEFINE c == call[t]
           d == [c EXCEPT !.scope = keys, !.snapshot = keys]
<1>1. /\ pc \in [Tasks -> Stages \cup {"idle"}] /\ DOMAIN call = Tasks /\ DOMAIN result = Tasks
      /\ keys \in Stores /\ now \in Nat /\ pc[t] = "lookup"
      /\ Fits(policy, pc[t], c, result[t], keys, now)
  BY DEF InvByCall, Framed, Lookup
<1>2. /\ policy' = policy /\ keys' = keys /\ now' = now
      /\ tokenCache' = tokenCache /\ receiptCache' = receiptCache /\ outcomeCache' = outcomeCache
  BY DEF Lookup, caches
<1>3. /\ Knows(c, keys, now) /\ c \in Calls
      /\ policy = "BadgeWithScittEnhancement" => c.badge
  BY <1>1 DEF Fits, Knows, Stages
<1>4. call'[t] = d /\ DOMAIN call' = Tasks /\ \A u \in Tasks \ {t} : call'[u] = call[u]
  <2>1. call' = [call EXCEPT ![t].scope = keys, ![t].snapshot = keys]
    BY DEF Lookup
  <2> QED
    BY <1>1, <2>1
<1>5. d \in Calls /\ d.req = c.req /\ d.badge = c.badge /\ d.dane = c.dane /\ d.scope = keys
      /\ d.snapshot = keys /\ d.since = c.since /\ d.cache = c.cache
  BY <1>1, <1>3 DEF Calls
<1> HIDE DEF d
<1>6. Knows(d, keys, now)
  BY <1>1, <1>3, <1>5, StoresGrow DEF Knows
<1>7. CASE c.req.token = Absent
  <2>1. Reject(t, "MissingTokenField")
    BY <1>7 DEF Lookup
  <2>2. Uncached(d.req, d.scope, now) # "ok"
    BY <1>5, <1>7, UncachedOk
  <2> QED
    BY <1>1, <1>2, <1>4, <1>5, <1>6, <2>1, <2>2, RejectFits, OneCallMoves DEF InvByCall
<1>8. CASE c.req.token # Absent /\ HasOutcome(t)
  <2>1. IF CheckCertificate(c.req, c.req.token) = "ok" THEN Verified(t)
        ELSE Reject(t, CheckCertificate(c.req, c.req.token))
    BY <1>8 DEF Lookup
  <2>2. CASE CheckCertificate(c.req, c.req.token) = "ok"
    <3>1. Uncached(d.req, keys, d.since) = "ok"
      BY <1>1, <1>5, <1>8, <2>2, HitIsEarned
    <3>2. Verified(t)
      BY <2>1, <2>2
    <3> QED
      BY <1>1, <1>2, <1>3, <1>4, <1>5, <1>6, <3>1, <3>2, VerifiedFits, OneCallMoves DEF InvByCall
  <2>3. CASE CheckCertificate(c.req, c.req.token) # "ok"
    <3>1. Uncached(d.req, d.scope, now) # "ok"
      BY <1>5, <2>3, UncachedOk
    <3>2. Reject(t, CheckCertificate(c.req, c.req.token))
      BY <2>1, <2>3
    <3> QED
      BY <1>1, <1>2, <1>4, <1>5, <1>6, <3>1, <3>2, RejectFits, OneCallMoves DEF InvByCall
  <2> QED
    BY <2>2, <2>3
<1>9. CASE c.req.token # Absent /\ ~HasOutcome(t)
  <2>1. pc' = [pc EXCEPT ![t] = "token"] /\ result' = result
    BY <1>9 DEF Lookup
  <2>2. pc'[t] = "token" /\ pc' \in [Tasks -> Stages \cup {"idle"}]
        /\ \A u \in Tasks \ {t} : pc'[u] = pc[u]
    BY <1>1, <2>1 DEF Stages
  <2>3. Fits(policy, pc'[t], d, result'[t], keys, now)
    BY <1>3, <1>5, <1>6, <1>9, <2>2 DEF Fits
  <2> QED
    BY <1>1, <1>2, <1>4, <2>1, <2>2, <2>3, OneCallMoves DEF InvByCall
<1> QED
  BY <1>7, <1>8, <1>9

\* The same of a hit in layer 1, at the time the call began.
LEMMA CachedTokenIsEarned ==
    ASSUME InvByCall, NEW t \in Tasks, pc[t] # "idle", call[t].req.token # Absent,
           CachedToken(t)
    PROVE  TokenVerdict(call[t].req.token, call[t].snapshot, Skew, call[t].since) = "ok"
<1> DEFINE c == call[t]
           req == call[t].req
<1>1. Knows(c, keys, now) /\ now \in Nat /\ req \in Requests /\ c.since \in Nat /\ c.since <= now
      /\ c.snapshot = c.scope
  BY DEF InvByCall, Framed, Fits, Knows, Calls, CachedToken
<1>2. PICK e \in tokenCache : e.key = ArtifactCacheKey(c.scope, req.token) /\ FreshEntry(e.token)
  BY DEF CachedToken, TokenKey
<1>3. PICK store \in Stores :
        /\ e.key = ArtifactCacheKey(store, e.token)
        /\ \E x \in 0 .. now : TokenVerdict(e.token, store, Skew, x) = "ok"
  BY DEF InvByCall, TokenHonest
<1>4. store = c.snapshot /\ e.token = req.token
  BY <1>1, <1>2, <1>3 DEF ArtifactCacheKey, TrustScope
<1>5. PICK x \in 0 .. now : TokenVerdict(req.token, c.snapshot, Skew, x) = "ok"
  BY <1>3, <1>4
<1>6. req.token.exp \in Int /\ now < req.token.exp
  BY <1>1, <1>2, <1>4, RequestAssumption DEF FreshEntry
<1>7. c.since < req.token.exp
  BY <1>1, <1>6
<1> QED
  BY <1>1, <1>5, <1>6, <1>7, SkewAssumption, AcceptedInTime

\* The token is vouched for: on to the receipt, unless the certificate fails.
LEMMA TokenVouchedKept ==
    ASSUME InvByCall, NEW t \in Tasks, pc[t] = "token", TokenVouched(t),
           TokenVerdict(call[t].req.token, call[t].snapshot, Skew, call[t].since) = "ok",
           UNCHANGED <<policy, keys, now, receiptCache, outcomeCache>>,
           \A e \in tokenCache' : TokenHonest(e, now)
    PROVE  InvByCall'
<1> DEFINE c == call[t]
           d == [c EXCEPT !.retried = FALSE]
<1>1. /\ pc \in [Tasks -> Stages \cup {"idle"}] /\ DOMAIN call = Tasks /\ DOMAIN result = Tasks
      /\ keys \in Stores /\ now \in Nat
      /\ Fits(policy, pc[t], c, result[t], keys, now)
  BY DEF InvByCall, Framed
<1>2. /\ Knows(c, keys, now) /\ c \in Calls /\ c.req.token # Absent
      /\ policy = "BadgeWithScittEnhancement" => c.badge
  BY <1>1 DEF Fits, Knows, Stages
<1>3. CASE CheckCertificate(c.req, c.req.token) = "ok"
  <2>1. /\ pc' = [pc EXCEPT ![t] = "receipt"] /\ result' = result
        /\ call' = [call EXCEPT ![t].retried = FALSE]
    BY <1>3 DEF TokenVouched
  <2>2. call'[t] = d /\ DOMAIN call' = Tasks /\ \A u \in Tasks \ {t} : call'[u] = call[u]
    BY <1>1, <2>1
  <2>3. pc'[t] = "receipt" /\ pc' \in [Tasks -> Stages \cup {"idle"}]
        /\ \A u \in Tasks \ {t} : pc'[u] = pc[u]
    BY <1>1, <2>1 DEF Stages
  <2>4. d \in Calls /\ d.req = c.req /\ d.badge = c.badge /\ d.dane = c.dane
        /\ d.scope = c.scope /\ d.snapshot = c.snapshot /\ d.since = c.since /\ d.cache = c.cache
    BY <1>2 DEF Calls
  <2> HIDE DEF d
  <2>5. Knows(d, keys, now)
    BY <1>2, <2>4 DEF Knows
  <2>6. Fits(policy, pc'[t], d, result'[t], keys, now)
    BY <1>2, <1>3, <2>3, <2>4, <2>5 DEF Fits
  <2> QED
    BY <1>1, <2>1, <2>2, <2>3, <2>6, OneCallMoves DEF InvByCall
<1>4. CASE CheckCertificate(c.req, c.req.token) # "ok"
  <2>1. Reject(t, CheckCertificate(c.req, c.req.token)) /\ call' = call
    BY <1>4 DEF TokenVouched
  <2>2. Uncached(c.req, c.scope, now) # "ok"
    BY <1>4, UncachedOk
  <2> QED
    BY <1>1, <1>2, <2>1, <2>2, RejectFits, OneCallMoves DEF InvByCall
<1> QED
  BY <1>3, <1>4

LEMMA TokenKept ==
    ASSUME InvByCall, NEW t \in Tasks, Token(t)
    PROVE  InvByCall'
<1> DEFINE c == call[t]
           verdict == TokenVerdict(c.req.token, c.snapshot, Skew, now)
<1>1. /\ pc \in [Tasks -> Stages \cup {"idle"}] /\ DOMAIN call = Tasks /\ DOMAIN result = Tasks
      /\ keys \in Stores /\ now \in Nat /\ pc[t] = "token"
      /\ Fits(policy, pc[t], c, result[t], keys, now)
  BY DEF InvByCall, Framed, Token
<1>2. /\ policy' = policy /\ keys' = keys /\ now' = now
      /\ receiptCache' = receiptCache /\ outcomeCache' = outcomeCache
  BY DEF Token
<1>3. /\ Knows(c, keys, now) /\ c \in Calls /\ c.req.token # Absent
      /\ policy = "BadgeWithScittEnhancement" => c.badge
  BY <1>1 DEF Fits, Knows, Stages
<1>4. /\ c.req \in Requests /\ c.req.token.exp \in Int /\ c.since \in Nat /\ c.since <= now
      /\ c.snapshot \in Stores /\ c.scope \in Stores
  BY <1>3, RequestAssumption DEF Knows, Calls
<1>5. CASE CachedToken(t) /\ TokenVouched(t) /\ UNCHANGED tokenCache
  <2>1. TokenVerdict(c.req.token, c.snapshot, Skew, c.since) = "ok"
    BY <1>1, <1>3, <1>5, CachedTokenIsEarned
  <2> QED
    BY <1>1, <1>2, <1>5, <2>1, TokenVouchedKept DEF InvByCall
<1>6. CASE /\ verdict = "ok" /\ TokenVouched(t)
           /\ tokenCache' = IF c.cache
                THEN tokenCache \cup {[key |-> TokenKey(t), token |-> c.req.token]}
                ELSE tokenCache
  <2>1. TokenVerdict(c.req.token, c.snapshot, Skew, c.since) = "ok"
    BY <1>1, <1>4, <1>6, SkewAssumption, AcceptedInTime
  <2>2. ASSUME c.cache
        PROVE  TokenHonest([key |-> TokenKey(t), token |-> c.req.token], now)
    <3> DEFINE e == [key |-> TokenKey(t), token |-> c.req.token]
    <3>1. e.key = ArtifactCacheKey(c.scope, e.token) /\ e.token = c.req.token
      BY DEF TokenKey
    <3>2. TokenVerdict(e.token, c.scope, Skew, now) = "ok" /\ now \in 0 .. now
      BY <1>1, <1>3, <1>6, <2>2, <3>1 DEF Knows
    <3> HIDE DEF e
    <3>3. TokenHonest(e, now)
      BY <1>4, <3>1, <3>2 DEF TokenHonest
    <3> QED
      BY <3>3 DEF e
  <2>3. \A e \in tokenCache' : TokenHonest(e, now)
    BY <1>6, <2>2 DEF InvByCall
  <2> QED
    BY <1>1, <1>2, <1>6, <2>1, <2>3, TokenVouchedKept
<1>7. CASE /\ verdict = "UnknownKeyId" /\ pc' = [pc EXCEPT ![t] = RefreshOf["token"]]
           /\ UNCHANGED <<call, result, tokenCache>>
  <2>1. pc'[t] = "token refresh" /\ pc' \in [Tasks -> Stages \cup {"idle"}]
        /\ \A u \in Tasks \ {t} : pc'[u] = pc[u]
    BY <1>1, <1>7 DEF Stages, RefreshOf
  <2>2. Fits(policy, pc'[t], c, result'[t], keys, now)
    BY <1>3, <1>7, <2>1 DEF Fits
  <2> QED
    BY <1>1, <1>2, <1>7, <2>1, <2>2, OneCallMoves DEF InvByCall
<1>8. CASE verdict # "ok" /\ Reject(t, verdict) /\ UNCHANGED <<call, tokenCache>>
  <2>1. Uncached(c.req, c.scope, now) # "ok"
    BY <1>1, <1>3, <1>8, FailsUnderScope
  <2>2. call' = call /\ tokenCache' = tokenCache /\ Reject(t, verdict)
    BY <1>8
  <2> QED
    BY <1>1, <1>2, <1>3, <2>1, <2>2, RejectFits, OneCallMoves DEF InvByCall
<1> QED
  BY <1>5, <1>6, <1>7, <1>8 DEF Token

LEMMA RefreshKept ==
    ASSUME InvByCall, NEW t \in Tasks, Refresh(t)
    PROVE  InvByCall'
<1> DEFINE c == call[t]
           merged == MergeFrom(keys, Published)
           d == [c EXCEPT !.snapshot = merged, !.cache = FALSE, !.retried = TRUE]
<1>1. PICK stage \in {"token", "receipt"} :
        /\ pc[t] = RefreshOf[stage]
        /\ \/ /\ keys' = merged
              /\ call' = [call EXCEPT ![t].snapshot = keys', ![t].cache = FALSE,
                                      ![t].retried = TRUE]
              /\ pc' = [pc EXCEPT ![t] = stage]
              /\ UNCHANGED result
           \/ /\ Reject(t, "UnknownKeyId")
              /\ UNCHANGED <<keys, call>>
        /\ UNCHANGED <<policy, now, caches, calls>>
  BY DEF Refresh
<1>2. /\ pc \in [Tasks -> Stages \cup {"idle"}] /\ DOMAIN call = Tasks /\ DOMAIN result = Tasks
      /\ keys \in Stores /\ now \in Nat
      /\ Fits(policy, pc[t], c, result[t], keys, now)
  BY DEF InvByCall, Framed
<1>3. /\ policy' = policy /\ now' = now
      /\ tokenCache' = tokenCache /\ receiptCache' = receiptCache /\ outcomeCache' = outcomeCache
  BY <1>1 DEF caches
<1>4. (stage = "token" /\ pc[t] = "token refresh") \/ (stage = "receipt" /\ pc[t] = "receipt refresh")
  <2>1. pc[t] = RefreshOf[stage] /\ stage \in {"token", "receipt"}
    BY <1>1
  <2>2. RefreshOf["token"] = "token refresh" /\ RefreshOf["receipt"] = "receipt refresh"
    BY DEF RefreshOf
  <2> QED
    BY <2>1, <2>2
<1>5. /\ Knows(c, keys, now) /\ c \in Calls /\ c.req.token # Absent
      /\ policy = "BadgeWithScittEnhancement" => c.badge
      /\ c.snapshot \in Stores /\ c.scope \in Stores
  BY <1>2, <1>4 DEF Fits, Knows, Stages, Calls
<1>6. CASE /\ keys' = merged
           /\ call' = [call EXCEPT ![t].snapshot = keys', ![t].cache = FALSE,
                                   ![t].retried = TRUE]
           /\ pc' = [pc EXCEPT ![t] = stage]
           /\ UNCHANGED result
  <2>1. call'[t] = d /\ DOMAIN call' = Tasks /\ \A u \in Tasks \ {t} : call'[u] = call[u]
    BY <1>2, <1>6
  <2>2. pc'[t] = stage /\ pc' \in [Tasks -> Stages \cup {"idle"}]
        /\ \A u \in Tasks \ {t} : pc'[u] = pc[u]
    <3>1. pc' = [pc EXCEPT ![t] = stage] /\ stage \in Stages
      BY <1>6 DEF Stages
    <3> QED
      BY <1>2, <3>1
  <2> HIDE DEF merged
  <2>3. merged \in Stores /\ Below(c.snapshot, merged) /\ Below(c.scope, merged)
        /\ Below(merged, merged)
    BY <1>2, <1>5, StoresGrow DEF Knows, Below, merged
  <2>4. d \in Calls /\ d.req = c.req /\ d.badge = c.badge /\ d.dane = c.dane
        /\ d.scope = c.scope /\ d.snapshot = merged /\ d.since = c.since /\ d.cache = FALSE
    BY <1>5, <2>3 DEF Calls
  <2> HIDE DEF d
  <2>5. Knows(d, keys', now)
    BY <1>5, <1>6, <2>3, <2>4 DEF Knows
  <2>6. stage = "receipt" => /\ TokenVerdict(c.req.token, merged, Skew, c.since) = "ok"
                             /\ CheckCertificate(c.req, c.req.token) = "ok"
    <3>1. stage = "receipt" => /\ TokenVerdict(c.req.token, c.snapshot, Skew, c.since) = "ok"
                               /\ CheckCertificate(c.req, c.req.token) = "ok"
      BY <1>2, <1>4 DEF Fits
    <3> QED
      BY <1>5, <2>3, <3>1, AcceptedUnderMoreKeys
  <2>7. Fits(policy, pc'[t], d, result'[t], keys', now)
    BY <1>4, <1>5, <2>2, <2>4, <2>5, <2>6 DEF Fits
  <2>8. keys' \in {keys, MergeFrom(keys, Published)} /\ result' = result
    BY <1>6 DEF merged
  <2> QED
    BY <1>2, <1>3, <2>1, <2>2, <2>7, <2>8, OneCallMoves DEF InvByCall
<1>7. CASE Reject(t, "UnknownKeyId") /\ UNCHANGED <<keys, call>>
  <2>1. \/ TokenVerdict(c.req.token, c.snapshot, Skew, now) # "ok"
        \/ c.req.receipt # Absent /\ ReceiptVerdict(c.req.receipt, c.snapshot) # "ok"
    BY <1>2, <1>4 DEF Fits
  <2>2. Uncached(c.req, c.scope, now) # "ok"
    BY <1>2, <1>5, <2>1, FailsUnderScope
  <2>3. call' = call /\ keys' = keys
    BY <1>7
  <2> QED
    BY <1>2, <1>3, <1>5, <1>7, <2>2, <2>3, RejectFits, OneCallMoves DEF InvByCall
<1> QED
  BY <1>1, <1>6, <1>7

\* The agreement of the artifacts, then the entry in layer 2 and the outcome.
LEMMA ReceiptVouchedKept ==
    ASSUME InvByCall, NEW t \in Tasks, pc[t] = "receipt", ReceiptVouched(t),
           call[t].req.receipt # Absent =>
             /\ ReceiptVerdict(call[t].req.receipt, call[t].snapshot) = "ok",
           UNCHANGED <<policy, keys, now, call, tokenCache>>,
           \A e \in receiptCache' : ReceiptHonest(e)
    PROVE  InvByCall'
<1> DEFINE c == call[t]
           req == c.req
           verdict == IF req.receipt = Absent THEN "ok"
                      ELSE Binding(req.receipt, req.token, ExpectedHost(req))
           entry == [key |-> OutcomeKey(t), token |-> req.token]
<1>1. /\ pc \in [Tasks -> Stages \cup {"idle"}] /\ DOMAIN call = Tasks /\ DOMAIN result = Tasks
      /\ keys \in Stores /\ now \in Nat
      /\ Fits(policy, pc[t], c, result[t], keys, now)
  BY DEF InvByCall, Framed
<1>2. /\ Knows(c, keys, now) /\ c \in Calls /\ req.token # Absent
      /\ policy = "BadgeWithScittEnhancement" => c.badge
      /\ c.snapshot \in Stores /\ c.scope \in Stores /\ req \in Requests
      /\ c.since \in Nat /\ c.since <= now
      /\ TokenVerdict(req.token, c.snapshot, Skew, c.since) = "ok"
      /\ CheckCertificate(req, req.token) = "ok"
  BY <1>1 DEF Fits, Knows, Stages, Calls
<1>3. CASE verdict = "ok"
  <2>1. /\ Verified(t)
        /\ outcomeCache' = IF c.cache THEN outcomeCache \cup {entry} ELSE outcomeCache
    BY <1>3 DEF ReceiptVouched
  <2>2. req.receipt # Absent => Binding(req.receipt, req.token, ExpectedHost(req)) = "ok"
    BY <1>3
  <2>3. ASSUME c.cache PROVE OutcomeSound(entry, now)
    <3>1. /\ entry.token = req.token
          /\ entry.key = <<req.cert.fp, ArtifactCacheKey(c.scope, req.token),
                           IF req.receipt = Absent THEN Absent
                           ELSE ArtifactCacheKey(c.scope, req.receipt)>>
      BY DEF OutcomeKey, TokenKey, ReceiptKey
    <3>2. ExpectedHost(req) = {req.token.host}
      BY <1>2, CertificateTiesHost
    <3>3. c.snapshot = c.scope /\ c.since \in 0 .. now
      BY <1>1, <1>2, <2>3 DEF Knows
    <3> HIDE DEF entry
    <3> QED
      BY <1>2, <2>2, <3>1, <3>2, <3>3 DEF OutcomeSound
  <2>4. \A e \in outcomeCache' : OutcomeSound(e, now)
    BY <2>1, <2>3 DEF InvByCall
  <2>5. Uncached(req, keys, c.since) = "ok"
    <3>1. Below(c.snapshot, keys)
      BY <1>2 DEF Knows
    <3>2. /\ TokenVerdict(req.token, keys, Skew, c.since) = "ok"
          /\ req.receipt # Absent => ReceiptVerdict(req.receipt, keys) = "ok"
      BY <1>2, <3>1, AcceptedUnderMoreKeys
    <3> QED
      BY <1>2, <2>2, <3>2, UncachedOk
  <2>6. /\ pc' \in [Tasks -> Stages \cup {"idle"}] /\ DOMAIN result' = Tasks
        /\ \A u \in Tasks \ {t} : pc'[u] = pc[u] /\ result'[u] = result[u]
        /\ Fits(policy, pc'[t], c, result'[t], keys, now)
    BY <1>2, <2>1, <2>5, VerifiedFits
  <2> QED
    BY <1>1, <2>4, <2>6, OneCallMoves DEF InvByCall
<1>4. CASE verdict # "ok"
  <2>1. Reject(t, verdict) /\ outcomeCache' = outcomeCache
    BY <1>4 DEF ReceiptVouched
  <2>2. Uncached(req, c.scope, now) # "ok"
    BY <1>1, <1>2, <1>4, FailsUnderScope
  <2> QED
    BY <1>1, <1>2, <2>1, <2>2, RejectFits, OneCallMoves DEF InvByCall
<1> QED
  BY <1>3, <1>4

LEMMA ReceiptKept ==
    ASSUME InvByCall, NEW t \in Tasks, Receipt(t)
    PROVE  InvByCall'
<1> DEFINE c == call[t]
           req == c.req
           cached == req.receipt = Absent \/ CachedReceipt(t)
           verdict == ReceiptVerdict(req.receipt, c.snapshot)
<1>1. /\ pc \in [Tasks -> Stages \cup {"idle"}] /\ DOMAIN call = Tasks /\ DOMAIN result = Tasks
      /\ keys \in Stores /\ now \in Nat /\ pc[t] = "receipt"
      /\ Fits(policy, pc[t], c, result[t], keys, now)
  BY DEF InvByCall, Framed, Receipt
<1>2. /\ policy' = policy /\ keys' = keys /\ now' = now /\ call' = call
      /\ tokenCache' = tokenCache
  BY DEF Receipt
<1>3. /\ Knows(c, keys, now) /\ req.token # Absent
      /\ policy = "BadgeWithScittEnhancement" => c.badge
      /\ c.snapshot \in Stores /\ c.scope \in Stores
      /\ TokenVerdict(req.token, c.snapshot, Skew, c.since) = "ok"
      /\ CheckCertificate(req, req.token) = "ok"
  BY <1>1 DEF Fits, Knows, Stages, Calls
<1>4. CASE cached /\ ReceiptVouched(t) /\ UNCHANGED receiptCache
  <2>1. ASSUME req.receipt # Absent PROVE verdict = "ok"
    <3>1. CachedReceipt(t)
      BY <1>4, <2>1
    <3>2. PICK e \in receiptCache : e.key = ArtifactCacheKey(c.scope, req.receipt)
      BY <2>1, <3>1 DEF CachedReceipt, ReceiptKey
    <3>3. PICK store \in Stores :
            e.key = ArtifactCacheKey(store, e.receipt) /\ ReceiptVerdict(e.receipt, store) = "ok"
      BY DEF InvByCall, ReceiptHonest
    <3>4. c.snapshot = c.scope
      BY <1>3, <3>1 DEF CachedReceipt, Knows
    <3> QED
      BY <3>2, <3>3, <3>4 DEF ArtifactCacheKey, TrustScope
  <2> QED
    BY <1>1, <1>2, <1>4, <2>1, ReceiptVouchedKept DEF InvByCall
<1>5. CASE /\ verdict = "ok" /\ ~cached /\ ReceiptVouched(t)
           /\ receiptCache' = IF c.cache
                THEN receiptCache \cup {[key |-> ReceiptKey(t), receipt |-> req.receipt]}
                ELSE receiptCache
  <2>1. ASSUME c.cache
        PROVE  ReceiptHonest([key |-> ReceiptKey(t), receipt |-> req.receipt])
    <3> DEFINE e == [key |-> ReceiptKey(t), receipt |-> req.receipt]
    <3>1. e.key = ArtifactCacheKey(c.scope, e.receipt) /\ e.receipt = req.receipt
      BY <1>5 DEF ReceiptKey
    <3>2. ReceiptVerdict(e.receipt, c.scope) = "ok"
      BY <1>3, <1>5, <2>1, <3>1 DEF Knows
    <3> HIDE DEF e
    <3>3. ReceiptHonest(e)
      BY <1>3, <3>1, <3>2 DEF ReceiptHonest
    <3> QED
      BY <3>3 DEF e
  <2>2. \A e \in receiptCache' : ReceiptHonest(e)
    BY <1>5, <2>1 DEF InvByCall
  <2> QED
    BY <1>1, <1>2, <1>5, <2>2, ReceiptVouchedKept
<1>6. CASE /\ ~cached /\ verdict = "UnknownKeyId" /\ pc' = [pc EXCEPT ![t] = RefreshOf["receipt"]]
           /\ UNCHANGED <<result, receiptCache, outcomeCache>>
  <2>1. pc'[t] = "receipt refresh" /\ pc' \in [Tasks -> Stages \cup {"idle"}]
        /\ \A u \in Tasks \ {t} : pc'[u] = pc[u]
    BY <1>1, <1>6 DEF Stages, RefreshOf
  <2>2. Fits(policy, pc'[t], c, result'[t], keys, now)
    BY <1>3, <1>6, <2>1 DEF Fits
  <2> QED
    BY <1>1, <1>2, <1>6, <2>1, <2>2, OneCallMoves DEF InvByCall
<1>7. CASE /\ ~cached /\ verdict # "ok" /\ Reject(t, verdict)
           /\ UNCHANGED <<receiptCache, outcomeCache>>
  <2>1. Uncached(req, c.scope, now) # "ok"
    BY <1>1, <1>3, <1>7, FailsUnderScope
  <2> QED
    BY <1>1, <1>2, <1>3, <1>7, <2>1, RejectFits, OneCallMoves DEF InvByCall
<1> QED
  BY <1>4, <1>5, <1>6, <1>7 DEF Receipt

LEMMA DaneKept ==
    ASSUME InvByCall, NEW t \in Tasks, Dane(t)
    PROVE  InvByCall'
<1> DEFINE c == call[t]
           d == [c EXCEPT !.dane = TRUE]
<1>1. /\ pc \in [Tasks -> Stages \cup {"idle"}] /\ DOMAIN call = Tasks /\ DOMAIN result = Tasks
      /\ keys \in Stores /\ now \in Nat /\ pc[t] = "dane"
      /\ Fits(policy, pc[t], c, result[t], keys, now)
  BY DEF InvByCall, Framed, Dane
<1>2. /\ policy' = policy /\ keys' = keys /\ now' = now
      /\ tokenCache' = tokenCache /\ receiptCache' = receiptCache /\ outcomeCache' = outcomeCache
  BY DEF Dane, caches
<1>3. /\ Knows(c, keys, now) /\ c \in Calls
      /\ Uncached(c.req, keys, c.since) = "ok"
      /\ policy = "BadgeWithScittEnhancement" => c.badge
  BY <1>1 DEF Fits, Knows, Stages
<1>4. CASE Reject(t, "DaneError") /\ UNCHANGED call
  BY <1>1, <1>2, <1>3, <1>4, RejectFits, OneCallMoves DEF InvByCall
<1>5. CASE /\ call' = [call EXCEPT ![t].dane = TRUE]
           /\ Finish(t, TierOf(call[t].req), "ok")
  <2>1. call'[t] = d /\ DOMAIN call' = Tasks /\ \A u \in Tasks \ {t} : call'[u] = call[u]
    BY <1>1, <1>5
  <2>2. d \in Calls /\ d.req = c.req /\ d.badge = c.badge /\ d.dane = TRUE /\ d.scope = c.scope
        /\ d.snapshot = c.snapshot /\ d.since = c.since /\ d.cache = c.cache
    BY <1>3 DEF Calls
  <2> HIDE DEF d, c
  <2>3. Knows(d, keys, now)
    BY <1>3, <2>2 DEF Knows
  <2>4. /\ pc' = [pc EXCEPT ![t] = "done"]
        /\ result' = [result EXCEPT ![t] =
             [kind |-> TierOf(d.req), error |-> "ok", badge |-> d.badge]]
    BY <1>5, <2>2 DEF Finish, c
  <2>5. /\ pc'[t] = "done" /\ pc' \in [Tasks -> Stages \cup {"idle"}] /\ DOMAIN result' = Tasks
        /\ result'[t] = [kind |-> TierOf(d.req), error |-> "ok", badge |-> d.badge]
        /\ \A u \in Tasks \ {t} : pc'[u] = pc[u] /\ result'[u] = result[u]
    BY <1>1, <2>4 DEF Stages
  <2>6. Fits(policy, pc'[t], d, result'[t], keys, now)
    <3>1. /\ Uncached(d.req, keys, d.since) = "ok"
          /\ policy = "BadgeWithScittEnhancement" => d.badge
      BY <1>3, <2>2
    <3>2. d.req.isServer /\ DaneOn => d.dane
      BY <2>2
    <3>3. Fits(policy, "done", d, [kind |-> TierOf(d.req), error |-> "ok", badge |-> d.badge],
               keys, now)
      BY <2>3, <3>1, <3>2, AcceptedFits
    <3> QED
      BY <2>5, <3>3
  <2> QED
    BY <1>2, <2>1, <2>5, <2>6, OneCallMoves DEF InvByCall
<1> QED
  BY <1>4, <1>5 DEF Dane

LEMMA ReturnKept ==
    ASSUME InvByCall, NEW t \in Tasks, Return(t)
    PROVE  InvByCall'
<1>1. /\ pc \in [Tasks -> Stages \cup {"idle"}] /\ DOMAIN call = Tasks /\ DOMAIN result = Tasks
  BY DEF InvByCall, Framed
<1>2. /\ policy' = policy /\ keys' = keys /\ now' = now
      /\ tokenCache' = tokenCache /\ receiptCache' = receiptCache /\ outcomeCache' = outcomeCache
  BY DEF Return, caches
<1>3. /\ pc'[t] = "idle" /\ pc' \in [Tasks -> Stages \cup {"idle"}]
      /\ DOMAIN call' = Tasks /\ DOMAIN result' = Tasks
      /\ \A u \in Tasks \ {t} :
           pc'[u] = pc[u] /\ call'[u] = call[u] /\ result'[u] = result[u]
  BY <1>1 DEF Return
<1>4. Fits(policy, pc'[t], call'[t], result'[t], keys, now)
  BY <1>3 DEF Fits
<1> QED
  BY <1>2, <1>3, <1>4, OneCallMoves DEF InvByCall

-----------------------------------------------------------------------------
(* The steps of the environment, and the theorems                           *)

LEMMA EnvironmentKept ==
    ASSUME InvByCall, BackgroundRefresh \/ Evict \/ Tick
    PROVE  InvByCall'
<1>1. Framed
  BY DEF InvByCall
<1>2. /\ policy' = policy /\ UNCHANGED <<pc, call, result>>
      /\ keys' \in {keys, MergeFrom(keys, Published)} /\ now' \in {now, now + 1}
      /\ tokenCache' \subseteq tokenCache /\ receiptCache' \subseteq receiptCache
      /\ outcomeCache' \subseteq outcomeCache
  BY DEF BackgroundRefresh, Evict, Tick, caches
<1>3. Framed'
  BY <1>1, <1>2, StoresGrow DEF Framed
<1>4. ASSUME NEW t \in Tasks PROVE Fits(policy', pc'[t], call'[t], result'[t], keys', now')
  <2>1. Fits(policy, pc[t], call[t], result[t], keys, now) /\ keys \in Stores /\ now \in Nat
    BY <1>1 DEF InvByCall, Framed
  <2>2. Fits(policy, pc[t], call[t], result[t], keys', now')
    BY <1>2, <2>1, FitsLater
  <2> QED
    BY <1>2, <2>2
<1>5. /\ \A e \in tokenCache' : TokenHonest(e, now')
      /\ \A e \in outcomeCache' : OutcomeSound(e, now')
  BY <1>1, <1>2, HonestLater DEF InvByCall, Framed
<1> QED
  BY <1>2, <1>3, <1>4, <1>5 DEF InvByCall

LEMMA StutterKept ==
    ASSUME InvByCall, UNCHANGED vars
    PROVE  InvByCall'
  BY DEF InvByCall, Framed, vars

LEMMA AlwaysByCall == Spec => []InvByCall
<1>1. InvByCall /\ [Next]_vars => InvByCall'
  <2> SUFFICES ASSUME InvByCall, [Next]_vars PROVE InvByCall'
    OBVIOUS
  <2>1. ASSUME NEW t \in Tasks, NEW req \in Requests, BeginServer(t, req) \/ BeginClient(t, req)
        PROVE  InvByCall'
    BY <2>1, DispatchKept DEF BeginServer, BeginClient
  <2>2. ASSUME NEW t \in Tasks,
               Badge(t) \/ Lookup(t) \/ Token(t) \/ Refresh(t) \/ Receipt(t) \/ Dane(t) \/ Return(t)
        PROVE  InvByCall'
    BY <2>2, BadgeKept, LookupKept, TokenKept, RefreshKept, ReceiptKept, DaneKept, ReturnKept
  <2>3. CASE BackgroundRefresh \/ Evict \/ Tick
    BY <2>3, EnvironmentKept
  <2>4. CASE UNCHANGED vars
    BY <2>4, StutterKept
  <2> QED
    BY <2>1, <2>2, <2>3, <2>4 DEF Next
<1> QED
  BY <1>1, InitKept, PTL DEF Spec

(***************************************************************************)
(* The inductive invariant holds: every stage of every call has earned     *)
(* what the next one relies on, and every entry of both layers stands for  *)
(* a verification under the keys hashed into its cache key.                *)
(***************************************************************************)
THEOREM ScittInvariant == Spec => []IndInv
  BY AlwaysByCall, InvByCallSuffices, PTL

(***************************************************************************)
(* No observer of the outcomes can tell that there are caches: any number  *)
(* of concurrent calls of both roles, over one cache, with keys refreshed  *)
(* at any moment, accept only what a verifier without caches accepts when  *)
(* the call began, and reject only what it rejects when the call ends.     *)
(***************************************************************************)
THEOREM NobodySeesTheCaches == Spec => []CachesInvisible
<1>1. IndInv => CachesInvisible
  BY DEF IndInv
<1> QED
  BY <1>1, ScittInvariant, PTL

(***************************************************************************)
(* A verified-token or verified-receipt entry vouches for its bytes under  *)
(* exactly the trusted keys hashed into its key (artifact_cache_key), also *)
(* when keys are merged between the lookup and the insertion.              *)
(***************************************************************************)
THEOREM EntriesVouchForTheirKeys == Spec => []CacheHonest
<1>1. IndInv => CacheHonest
  BY DEF IndInv
<1> QED
  BY <1>1, ScittInvariant, PTL

(***************************************************************************)
(* Evidence that was presented, or that the tier policy demands, is never  *)
(* waived, and DANE is never skipped (verify_server_with_scitt,            *)
(* verify_client_with_scitt), whatever the caches answer.                  *)
(***************************************************************************)
THEOREM NoEvidenceIsWaived == Spec => []NoDowngrade
<1>1. IndInv => NoDowngrade
  BY DEF IndInv
<1> QED
  BY <1>1, ScittInvariant, PTL
=============================================================================
