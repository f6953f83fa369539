-------------------------- MODULE Questions_proofs --------------------------
(***************************************************************************)
(* The questions of Questions, answered for every input rather than the    *)
(* enumerated ones of MCAlgorithms, for DaneMatching, MerkleProof,         *)
(* VerifierConfiguration, DnsDiscovery, LogClients, AgentNames,            *)
(* CertificateRequests and RegistrationClient.  ScittVerification_proofs   *)
(* answers the other two.                                                  *)
(***************************************************************************)
EXTENDS Questions, Selection, WellFoundedInduction, SequenceTheorems, FiniteSetTheorems, TLAPS

\* A set of naturals has a least member: induction, as far as the prover has it.
LEMMA LeastNumber ==
    ASSUME NEW S \in SUBSET Nat, S # {} PROVE \E i \in S : \A j \in S : i <= j
<1>1. PICK i \in S : \A j \in S : <<j, i>> \notin OpToRel(<, Nat)
  BY NatLessThanWellFounded, WFMin
<1>2. \A j \in S : ~(j < i)
  BY <1>1 DEF OpToRel
<1> QED
  BY <1>2

-----------------------------------------------------------------------------
(* DANE *)

\* Association data is of a hash and of some bytes, or absent.
RowTyped(row) == row.data = Absent \/ \E hash, bytes : row.data = Tlsa!Data(hash, bytes)

LEMMA HashNames ==
    ASSUME NEW m \in 0 .. 2, Tlsa!HashOf(m) = "SHA-256" PROVE m = 1
BY DEF Tlsa!HashOf

\* matches_cert says "match" only of a record that names the certificate, and of
\* every such record if the certificate's DER is known.
LEMMA MatchNames ==
    ASSUME NEW r, NEW cert, RowTyped(r), Tlsa!TlsaRecord(r) # Malformed
    PROVE  /\ Tlsa!MatchesCert(r, cert) = "match" => Tlsa!Names(r, cert)
           /\ cert.known /\ Tlsa!Names(r, cert) => Tlsa!MatchesCert(r, cert) = "match"
<1>1. /\ r.data # Absent /\ r.selector \in {0, 1} /\ r.matching \in 0 .. 2
  BY DEF Tlsa!TlsaRecord, Tlsa!TlsaSelector, Tlsa!TlsaMatchingType
<1>2. PICK hash, bytes : r.data = [hash |-> hash, of |-> bytes]
  BY <1>1 DEF RowTyped, Tlsa!Data
<1>3. \A h, b : r.data = Tlsa!Data(h, b) <=> r.data.hash = h /\ r.data.of = b
  BY <1>2 DEF Tlsa!Data
<1>4. ASSUME ~cert.known, Tlsa!MatchesCert(r, cert) = "match" PROVE Tlsa!Names(r, cert)
  <2>1. /\ r.usage = 3 /\ r.selector = 0 /\ r.matching = 1
        /\ r.data = Tlsa!Data("SHA-256", cert.der)
    BY <1>4 DEF Tlsa!MatchesCert, Tlsa!MatchesFingerprint, Tlsa!IsVerifiable,
                Tlsa!Fingerprint, Tlsa!DomainIssued
  <2>2. Tlsa!HashOf(1) = "SHA-256"
    BY DEF Tlsa!HashOf
  <2> QED
    BY <1>3, <2>1, <2>2 DEF Tlsa!Names, Tlsa!DomainIssued
<1>5. ASSUME cert.known PROVE Tlsa!MatchesCert(r, cert) = "match" <=> Tlsa!Names(r, cert)
  BY <1>1, <1>3, <1>5 DEF Tlsa!MatchesCert, Tlsa!IsEvaluable, Tlsa!Names, Tlsa!DomainIssued
<1> QED
  BY <1>4, <1>5

(***************************************************************************)
(* A success that DANE was asked about rests on a row that names the       *)
(* certificate or on the permitted absence of usable rows, and a row that  *)
(* names it is found (lookup_tlsa, verify_dane_with, enforce_dane), for    *)
(* any number of rows of any kind in any order, under every policy.        *)
(***************************************************************************)
THEOREM DaneIsSound ==
    ASSUME NEW reply, NEW cert, NEW policy \in Tlsa!DanePolicy,
           reply.kind = "answer" => \A i \in DOMAIN reply.rows : RowTyped(reply.rows[i])
    PROVE  Tlsa!DaneSound(reply, cert, policy)
<1> DEFINE records == Tlsa!TlsaRecords(reply.rows)
           accepted == Tlsa!EnforceDane("Verified", reply, cert, policy) = "Verified"
           named == /\ reply.kind = "answer"
                    /\ \E i \in DOMAIN reply.rows :
                         /\ Tlsa!TlsaRecord(reply.rows[i]) # Malformed
                         /\ Tlsa!Names(reply.rows[i], cert)
           matched == \E r \in records : Tlsa!MatchesCert(r, cert) = "match"
<1> SUFFICES ASSUME policy # "Disabled"
             PROVE  /\ accepted => named \/ (policy = "ValidateIfPresent" /\ Tlsa!NoneUsable(reply))
                    /\ named /\ cert.known => accepted
  BY DEF Tlsa!DaneSound
<1>1. /\ Tlsa!ShouldVerify(policy)
      /\ policy = "Required" \/ policy = "ValidateIfPresent"
      /\ Tlsa!IsRequired(policy) <=> policy = "Required"
  BY DEF Tlsa!DanePolicy, Tlsa!ShouldVerify, Tlsa!IsRequired
<1>2. \A r : r \in records <=>
        \E i \in DOMAIN reply.rows :
          r = reply.rows[i] /\ Tlsa!TlsaRecord(reply.rows[i]) # Malformed
  BY DEF Tlsa!TlsaRecords, Tlsa!TlsaRecord
<1>3. reply.kind = "answer" => (records = {} <=> Tlsa!NoneUsable(reply))
  BY <1>2 DEF Tlsa!NoneUsable
<1>4. reply.kind = "answer" => /\ matched => named
                               /\ named /\ cert.known => matched
  BY <1>2, MatchNames
<1>5. accepted <=> Tlsa!IsAcceptable(Tlsa!VerifyDane(reply, cert, policy), policy)
  BY <1>1 DEF Tlsa!EnforceDane
<1>6. CASE reply.kind = "answer" /\ records # {}
  <2>1. Tlsa!VerifyDane(reply, cert, policy) = Tlsa!VerifyDaneCert(records, cert, policy)
    <3>1. Tlsa!LookupTlsa(reply) = Tlsa!Found(records)
      BY <1>6 DEF Tlsa!LookupTlsa, Tlsa!MatchesDnssecPattern
    <3>2. Tlsa!Found(records).kind = "Found" /\ Tlsa!Found(records).records = records
      BY DEF Tlsa!Found
    <3> HIDE DEF records
    <3> QED
      BY <3>1, <3>2 DEF Tlsa!VerifyDane
  <2>2. /\ matched => Tlsa!VerifyDaneCert(records, cert, policy) = "Verified"
        /\ ~matched => Tlsa!VerifyDaneCert(records, cert, policy)
                         \in {"InvalidRecord", "FingerprintMismatch"}
    BY <1>1, <1>6 DEF Tlsa!VerifyDaneCert
  <2>3. accepted <=> matched
    BY <1>5, <2>1, <2>2 DEF Tlsa!IsAcceptable
  <2> HIDE DEF records, accepted, matched, named
  <2> QED
    BY <1>4, <1>6, <2>3
<1>7. ASSUME reply.kind = "no records" \/ (reply.kind = "answer" /\ records = {})
      PROVE  /\ accepted <=> policy = "ValidateIfPresent"
             /\ Tlsa!NoneUsable(reply) /\ ~named
  <2>1. Tlsa!VerifyDane(reply, cert, policy) = Tlsa!VerifyDaneCert({}, cert, policy)
    <3>1. Tlsa!LookupTlsa(reply) = Tlsa!NotFound
      BY <1>7 DEF Tlsa!LookupTlsa, Tlsa!MatchesDnssecPattern
    <3>2. Tlsa!NotFound.kind = "NotFound"
      BY DEF Tlsa!NotFound
    <3> QED
      BY <3>1, <3>2 DEF Tlsa!VerifyDane
  <2>2. Tlsa!VerifyDaneCert({}, cert, policy) =
          IF policy = "Required" THEN "NoTlsaRecords" ELSE "NoRecords"
    BY <1>1 DEF Tlsa!VerifyDaneCert
  <2>3. accepted <=> policy = "ValidateIfPresent"
    BY <1>1, <1>5, <2>1, <2>2 DEF Tlsa!IsAcceptable
  <2>4. Tlsa!NoneUsable(reply) /\ ~named
    BY <1>3, <1>7 DEF Tlsa!NoneUsable
  <2> QED
    BY <2>3, <2>4
<1>8. ASSUME reply.kind \notin {"answer", "no records"} PROVE ~accepted /\ ~named
  <2>1. Tlsa!LookupTlsa(reply).kind = "Error"
    BY <1>8 DEF Tlsa!LookupTlsa, Tlsa!Err
  <2> QED
    BY <1>5, <1>8, <2>1 DEF Tlsa!VerifyDane, Tlsa!IsAcceptable
<1> HIDE DEF accepted, named
<1> QED
  BY <1>6, <1>7, <1>8

\* A resolver as its constructors make it (with_preset, with_nameservers,
\* with_config, with_dnssec).
BuiltResolver(resolver) ==
    \/ \E name : resolver = Tlsa!WithPreset(name)
    \/ \E servers : resolver = Tlsa!WithNameservers(servers)
    \/ \E servers, tls, validate :
         resolver = Tlsa!WithConfig([servers |-> servers, tls |-> tls, validate |-> validate])
    \/ resolver = Tlsa!WithDnssec

(***************************************************************************)
(* Whichever constructor made the resolver, the rows of a bogus zone       *)
(* decide nothing: TLSA lookups validate, and their failure is refused.    *)
(***************************************************************************)
THEOREM BogusZonesRefused ==
    ASSUME NEW resolver, BuiltResolver(resolver), NEW zone, NEW cert, NEW policy
    PROVE  Tlsa!BogusNeverAccepted(resolver, zone, cert, policy)
<1>1. resolver.dnssec.validate
  <2>1. ASSUME NEW servers, NEW tls, NEW validate
        PROVE Tlsa!Validating([servers |-> servers, tls |-> tls, validate |-> validate]).validate
    BY DEF Tlsa!Validating
  <2>2. ASSUME NEW name, resolver = Tlsa!WithPreset(name) PROVE resolver.dnssec.validate
    BY <2>1, <2>2 DEF Tlsa!WithPreset, Tlsa!Preset
  <2>3. ASSUME NEW servers, resolver = Tlsa!WithNameservers(servers)
        PROVE  resolver.dnssec.validate
    BY <2>1, <2>3 DEF Tlsa!WithNameservers
  <2>4. ASSUME NEW servers, NEW tls, NEW validate,
               resolver = Tlsa!WithConfig([servers |-> servers, tls |-> tls, validate |-> validate])
        PROVE  resolver.dnssec.validate
    BY <2>1, <2>4 DEF Tlsa!WithConfig
  <2>5. Tlsa!WithDnssec.dnssec.validate
    BY DEF Tlsa!WithDnssec
  <2> QED
    BY <2>2, <2>3, <2>4, <2>5 DEF BuiltResolver
<1>2. ASSUME NEW kind \in {"servfail", "nsec", "dnssec text"}, policy # "Disabled"
      PROVE  Tlsa!EnforceDane("Verified", Tlsa!Failed(kind), cert, policy) = "DaneError"
  <2>1. Tlsa!LookupTlsa(Tlsa!Failed(kind)).kind = "Error"
    BY <1>2 DEF Tlsa!LookupTlsa, Tlsa!Failed, Tlsa!Err, Tlsa!MatchesDnssecPattern
  <2> QED
    BY <1>2, <2>1 DEF Tlsa!EnforceDane, Tlsa!VerifyDane, Tlsa!ShouldVerify, Tlsa!IsAcceptable
<1> QED
  BY <1>1, <1>2 DEF Tlsa!BogusNeverAccepted, Tlsa!TlsaReplies

\* What a TLSA family is asked about.
DaneInputs ==
    /\ Given("tlsa") =>
         /\ input.of[3] \in Tlsa!DanePolicy
         /\ input.of[1].kind = "answer" =>
              \A i \in DOMAIN input.of[1].rows : RowTyped(input.of[1].rows[i])
    /\ Given("zone") => BuiltResolver(input.of[1])

(***************************************************************************)
(* DANE decides as it should for every answer, certificate, policy and     *)
(* resolver of the shapes the code meets.                                  *)
(***************************************************************************)
THEOREM DaneAlwaysDecides == []DaneInputs => []DaneDecides
<1>1. \A r, old, new : Tlsa!RenewalStable(r, old, new)
  BY DEF Tlsa!RenewalStable, Tlsa!MatchesCert
<1>2. DaneInputs => DaneDecides
  BY <1>1, DaneIsSound, BogusZonesRefused DEF DaneInputs, DaneDecides
<1> QED
  BY <1>2, PTL

-----------------------------------------------------------------------------
(* The builders                                                             *)

Fields == {"resolver", "nameservers", "preset", "tlog", "cache", "maxStaleness", "dane",
           "port", "trusted", "ca", "scitt", "keys", "scittCache"}

\* What the types of the builder methods let a call be: a cache policy and a
\* staleness limit are durations, and with_scitt_cache takes a cache.
CallTyped(call) ==
    /\ call.option \in Fields \cup {"caching"}
    /\ call.option = "cache" => call.to \in [default : Nat, hard : Nat]
    /\ call.option = "maxStaleness" => call.to \in Nat
    /\ call.option = "scittCache" => call.to # Absent
CallsTyped(calls) == /\ \E S : calls \in Seq(S)
                     /\ \A i \in 1 .. Len(calls) : CallTyped(calls[i])

OptionsTyped(options) ==
    /\ options = [field \in Fields |-> options[field]]
    /\ options.cache = Absent \/ options.cache \in [default : Nat, hard : Nat]
    /\ options.maxStaleness = Absent \/ options.maxStaleness \in Nat

\* The options after each call.
StepsOf(f, calls, n) ==
    f = [i \in 0 .. n |-> IF i = 0 THEN Config!NoOptions ELSE Config!Call(f[i - 1], calls[i])]
Steps(calls) == CHOOSE f : StepsOf(f, calls, Len(calls))

LEMMA StepsExist ==
    ASSUME NEW calls, NEW n \in Nat PROVE \E f : StepsOf(f, calls, n)
<1> DEFINE missing == {m \in Nat : ~\E f : StepsOf(f, calls, m)}
<1>1. SUFFICES ASSUME missing # {} PROVE FALSE
  OBVIOUS
<1>2. PICK m \in missing : \A k \in missing : m <= k
  BY <1>1, LeastNumber
<1>3. CASE m = 0
  <2>1. StepsOf([i \in 0 .. 0 |-> Config!NoOptions], calls, 0)
    BY DEF StepsOf
  <2> QED
    BY <1>2, <1>3, <2>1
<1>4. CASE m # 0
  <2>1. m - 1 \in Nat /\ m - 1 \notin missing
    BY <1>2, <1>4
  <2>2. PICK f : StepsOf(f, calls, m - 1)
    BY <2>1
  <2> DEFINE g == [i \in 0 .. m |-> IF i = m THEN Config!Call(f[m - 1], calls[m]) ELSE f[i]]
  <2>3. \A i \in 0 .. m - 1 :
          f[i] = IF i = 0 THEN Config!NoOptions ELSE Config!Call(f[i - 1], calls[i])
    BY <2>2 DEF StepsOf
  <2>4. \A i \in 0 .. m :
          g[i] = IF i = 0 THEN Config!NoOptions ELSE Config!Call(g[i - 1], calls[i])
    BY <1>2, <1>4, <2>3
  <2>5. g = [i \in 0 .. m |-> g[i]]
    OBVIOUS
  <2> HIDE DEF g
  <2>6. StepsOf(g, calls, m)
    BY <2>4, <2>5 DEF StepsOf
  <2> QED
    BY <1>2, <2>6
<1> QED
  BY <1>3, <1>4

LEMMA ConfiguredSteps ==
    ASSUME NEW calls, \E S : calls \in Seq(S)
    PROVE  /\ Config!Configured(calls) = Steps(calls)[Len(calls)]
           /\ Steps(calls)[0] = Config!NoOptions
           /\ \A i \in 1 .. Len(calls) :
                Steps(calls)[i] = Config!Call(Steps(calls)[i - 1], calls[i])
<1>1. Config!Configured(calls) = Steps(calls)[Len(calls)]
  BY DEF Config!Configured, Steps, StepsOf
<1>2. Len(calls) \in Nat
  OBVIOUS
<1>3. StepsOf(Steps(calls), calls, Len(calls))
  BY <1>2, StepsExist DEF Steps
<1>4. \A i \in 0 .. Len(calls) :
        Steps(calls)[i] = IF i = 0 THEN Config!NoOptions
                          ELSE Config!Call(Steps(calls)[i - 1], calls[i])
  BY <1>3 DEF StepsOf
<1> QED
  BY <1>1, <1>2, <1>4

\* What a call makes of one field.
Setting(options, call, field) ==
    IF call.option = "caching"
    THEN IF field = "cache" THEN DefaultCache
         ELSE IF field = "scittCache" /\ options.scittCache = Absent THEN "defaults"
         ELSE options[field]
    ELSE IF call.option # field THEN options[field]
    ELSE IF field = "trusted" THEN {Config!Lower(d) : d \in call.to} ELSE call.to

LEMMA CallFields ==
    ASSUME NEW options, OptionsTyped(options), NEW call, CallTyped(call)
    PROVE  LET after == Config!Call(options, call) IN
           /\ OptionsTyped(after)
           /\ \A field \in Fields : after[field] = Setting(options, call, field)
<1> DEFINE after == Config!Call(options, call)
<1>1. options = [field \in Fields |-> options[field]]
  BY DEF OptionsTyped
<1>2. CASE call.option = "caching"
  <2>1. after = [options EXCEPT !.cache = DefaultCache,
                                !.scittCache = IF @ = Absent THEN "defaults" ELSE @]
    BY <1>2 DEF Config!Call, Config!EnableCaching
  <2>2. /\ after = [field \in Fields |-> after[field]]
        /\ after.cache = DefaultCache
        /\ after.scittCache = IF options.scittCache = Absent THEN "defaults" ELSE options.scittCache
        /\ \A field \in Fields \ {"cache", "scittCache"} : after[field] = options[field]
    BY <1>1, <2>1 DEF Fields
  <2> HIDE DEF after
  <2>3. OptionsTyped(after)
    BY <2>2, DefaultCacheAssumption DEF OptionsTyped, Fields
  <2> QED
    BY <1>2, <2>2, <2>3 DEF after, Fields, Setting
<1>3. CASE call.option = "trusted"
  <2>1. after = [options EXCEPT !.trusted = {Config!Lower(d) : d \in call.to}]
    BY <1>3 DEF Config!Call, Config!Trust
  <2>2. /\ after = [field \in Fields |-> after[field]]
        /\ after.trusted = {Config!Lower(d) : d \in call.to}
        /\ \A field \in Fields \ {"trusted"} : after[field] = options[field]
    BY <1>1, <2>1 DEF Fields
  <2> HIDE DEF after
  <2>3. OptionsTyped(after)
    BY <2>2 DEF OptionsTyped, Fields
  <2> QED
    BY <1>3, <2>2, <2>3 DEF after, Setting
<1>4. CASE call.option \notin {"caching", "trusted"}
  <2>1. after = [options EXCEPT ![call.option] = call.to] /\ call.option \in Fields
    BY <1>4 DEF Config!Call, CallTyped
  <2>2. /\ after = [field \in Fields |-> after[field]]
        /\ after[call.option] = call.to
        /\ \A field \in Fields \ {call.option} : after[field] = options[field]
    BY <1>1, <2>1
  <2> HIDE DEF after
  <2>3. OptionsTyped(after)
    BY <2>1, <2>2 DEF OptionsTyped, Fields, CallTyped
  <2> QED
    BY <1>4, <2>1, <2>2, <2>3 DEF after, Setting
<1> QED
  BY <1>2, <1>3, <1>4

LEMMA SameFields ==
    ASSUME NEW o, NEW p, OptionsTyped(o), OptionsTyped(p), \A field \in Fields : o[field] = p[field]
    PROVE  o = p
BY DEF OptionsTyped

\* Calls that set different options commute.
LEMMA CallsSwap ==
    ASSUME NEW o, OptionsTyped(o), NEW a, CallTyped(a), NEW b, CallTyped(b),
           Config!Touches(a) # Config!Touches(b)
    PROVE  Config!Call(Config!Call(o, a), b) = Config!Call(Config!Call(o, b), a)
<1> DEFINE x == Config!Call(o, a)
           y == Config!Call(o, b)
           z == Config!Call(x, b)
           w == Config!Call(y, a)
<1>1. OptionsTyped(x) /\ \A field \in Fields : x[field] = Setting(o, a, field)
  BY CallFields
<1>2. OptionsTyped(y) /\ \A field \in Fields : y[field] = Setting(o, b, field)
  BY CallFields
<1> HIDE DEF x, y
<1>3. OptionsTyped(z) /\ \A field \in Fields : z[field] = Setting(x, b, field)
  BY <1>1, CallFields
<1>4. OptionsTyped(w) /\ \A field \in Fields : w[field] = Setting(y, a, field)
  BY <1>2, CallFields
<1> HIDE DEF z, w
<1>5. /\ x.scittCache = Setting(o, a, "scittCache")
      /\ y.scittCache = Setting(o, b, "scittCache")
  BY <1>1, <1>2 DEF Fields
<1>6. ASSUME NEW field \in Fields PROVE Setting(x, b, field) = Setting(y, a, field)
  <2>1. x[field] = Setting(o, a, field) /\ y[field] = Setting(o, b, field)
    BY <1>1, <1>2
  <2>2. CASE a.option # "caching" /\ b.option # "caching"
    BY <2>1, <2>2 DEF Setting, Config!Touches
  <2>3. CASE a.option = "caching" /\ b.option # "caching"
    BY <1>5, <2>1, <2>3 DEF Setting, Config!Touches, CallTyped
  <2>4. CASE a.option # "caching" /\ b.option = "caching"
    BY <1>5, <2>1, <2>4 DEF Setting, Config!Touches, CallTyped
  <2> QED
    BY <2>2, <2>3, <2>4 DEF Config!Touches
<1>7. z = w
  BY <1>3, <1>4, <1>6, SameFields
<1> QED
  BY <1>7 DEF x, y, z, w

\* What holds at the beginning and is kept by every call holds of all steps.
LEMMA StepsTyped ==
    ASSUME NEW calls, CallsTyped(calls)
    PROVE  \A i \in 0 .. Len(calls) : OptionsTyped(Steps(calls)[i])
<1> DEFINE bad == {i \in Nat : i <= Len(calls) /\ ~OptionsTyped(Steps(calls)[i])}
<1>1. Len(calls) \in Nat
  BY DEF CallsTyped
<1>2. SUFFICES ASSUME bad # {} PROVE FALSE
  BY <1>1
<1>3. PICK m \in bad : \A k \in bad : m <= k
  BY <1>2, LeastNumber
<1>4. m # 0
  <2>1. OptionsTyped(Config!NoOptions)
    BY DEF OptionsTyped, Fields, Config!NoOptions
  <2> QED
    BY <1>3, <2>1, ConfiguredSteps DEF CallsTyped
<1>5. OptionsTyped(Steps(calls)[m - 1]) /\ m \in 1 .. Len(calls)
  BY <1>1, <1>3, <1>4
<1>6. Steps(calls)[m] = Config!Call(Steps(calls)[m - 1], calls[m]) /\ CallTyped(calls[m])
  BY <1>5, ConfiguredSteps DEF CallsTyped
<1>7. OptionsTyped(Steps(calls)[m])
  BY <1>5, <1>6, CallFields
<1> QED
  BY <1>3, <1>7

(***************************************************************************)
(* The order of builder calls that set different options does not matter,  *)
(* for any number of calls: with_caching and with_scitt_cache among them.  *)
(***************************************************************************)
THEOREM BuilderCallsCommute ==
    ASSUME NEW calls, CallsTyped(calls) PROVE Config!CallsCommute(calls)
<1> SUFFICES ASSUME NEW i \in DOMAIN calls, i > 1,
                    Config!Touches(calls[i]) # Config!Touches(calls[i - 1])
             PROVE  Config!Configured([calls EXCEPT ![i] = calls[i - 1], ![i - 1] = calls[i]])
                      = Config!Configured(calls)
  BY DEF Config!CallsCommute
<1> DEFINE swapped == [calls EXCEPT ![i] = calls[i - 1], ![i - 1] = calls[i]]
           f == Steps(calls)
           g == Steps(swapped)
<1>1. PICK S : calls \in Seq(S)
  BY DEF CallsTyped
<1>2. Len(calls) \in Nat /\ i \in 2 .. Len(calls) /\ DOMAIN calls = 1 .. Len(calls)
  BY <1>1
<1>3. /\ swapped \in Seq(S) /\ Len(swapped) = Len(calls)
      /\ swapped[i] = calls[i - 1] /\ swapped[i - 1] = calls[i]
      /\ \A k \in 1 .. Len(calls) : k # i /\ k # i - 1 => swapped[k] = calls[k]
  BY <1>1, <1>2
<1> HIDE DEF swapped
<1>4. /\ Config!Configured(calls) = f[Len(calls)] /\ f[0] = Config!NoOptions
      /\ \A k \in 1 .. Len(calls) : f[k] = Config!Call(f[k - 1], calls[k])
  BY <1>1, ConfiguredSteps
<1>5. /\ Config!Configured(swapped) = g[Len(calls)] /\ g[0] = Config!NoOptions
      /\ \A k \in 1 .. Len(calls) : g[k] = Config!Call(g[k - 1], swapped[k])
  BY <1>3, ConfiguredSteps
<1>6. \A k \in 0 .. Len(calls) : OptionsTyped(f[k])
  BY StepsTyped
<1> HIDE DEF f, g
<1>7. ASSUME NEW k \in 0 .. Len(calls), k < i - 1 PROVE f[k] = g[k]
  <2> DEFINE bad == {m \in Nat : m < i - 1 /\ f[m] # g[m]}
  <2>1. SUFFICES ASSUME bad # {} PROVE FALSE
    BY <1>7
  <2>2. PICK m \in bad : \A j \in bad : m <= j
    BY <2>1, LeastNumber
  <2>3. m \in Nat /\ m < i - 1 /\ f[m] # g[m]
    BY <2>2
  <2>4. m # 0 /\ m \in 1 .. Len(calls) /\ m - 1 \in Nat /\ m - 1 < i - 1 /\ ~(m <= m - 1)
    BY <1>2, <1>4, <1>5, <2>3
  <2>5. f[m - 1] = g[m - 1]
    BY <2>2, <2>4
  <2>6. swapped[m] = calls[m]
    BY <1>2, <1>3, <2>3, <2>4
  <2>7. f[m] = Config!Call(f[m - 1], calls[m]) /\ g[m] = Config!Call(g[m - 1], swapped[m])
    BY <1>4, <1>5, <2>4
  <2> QED
    BY <2>3, <2>5, <2>6, <2>7
<1>8. f[i] = g[i]
  <2> DEFINE o == f[i - 2]
             a == calls[i - 1]
             b == calls[i]
  <2>1. /\ i - 1 \in 1 .. Len(calls) /\ i - 2 \in 0 .. Len(calls) /\ i \in 1 .. Len(calls)
        /\ (i - 1) - 1 = i - 2
    BY <1>2
  <2>2. OptionsTyped(o) /\ CallTyped(a) /\ CallTyped(b)
    BY <1>6, <2>1 DEF CallsTyped
  <2>3. f[i - 1] = Config!Call(o, a) /\ f[i] = Config!Call(f[i - 1], b)
    BY <1>4, <2>1
  <2>4. g[i - 1] = Config!Call(o, b) /\ g[i] = Config!Call(g[i - 1], a)
    BY <1>3, <1>5, <1>7, <2>1
  <2> QED
    BY <2>2, <2>3, <2>4, CallsSwap
<1>9. f[Len(calls)] = g[Len(calls)]
  <2> DEFINE bad == {m \in Nat : i <= m /\ m <= Len(calls) /\ f[m] # g[m]}
  <2>1. SUFFICES ASSUME bad # {} PROVE FALSE
    BY <1>2
  <2>2. PICK m \in bad : \A j \in bad : m <= j
    BY <2>1, LeastNumber
  <2>3. m # i /\ m - 1 \in Nat /\ i <= m - 1 /\ m \in 1 .. Len(calls) /\ f[m - 1] = g[m - 1]
    BY <1>2, <1>8, <2>2
  <2> QED
    BY <1>2, <1>3, <1>4, <1>5, <2>2, <2>3
<1> QED
  BY <1>4, <1>5, <1>9 DEF swapped

\* trusted_domains after k calls are those of the last call that set them.
TrustedAfter(calls, k) ==
    \/ /\ \A i \in 1 .. k : calls[i].option # "trusted"
       /\ Steps(calls)[k].trusted = Absent
    \/ \E i \in 1 .. k :
         /\ calls[i].option = "trusted"
         /\ \A j \in 1 .. k : j > i => calls[j].option # "trusted"
         /\ Steps(calls)[k].trusted = {Config!Lower(d) : d \in calls[i].to}

LEMMA LastCallTrusts ==
    ASSUME NEW calls, CallsTyped(calls)
    PROVE  \A k \in 0 .. Len(calls) : TrustedAfter(calls, k)
<1> DEFINE bad == {k \in Nat : k <= Len(calls) /\ ~TrustedAfter(calls, k)}
<1>1. Len(calls) \in Nat
  BY DEF CallsTyped
<1>2. SUFFICES ASSUME bad # {} PROVE FALSE
  BY <1>1
<1>3. PICK m \in bad : \A k \in bad : m <= k
  BY <1>2, LeastNumber
<1>4. m # 0
  <2>1. Steps(calls)[0].trusted = Absent
    BY ConfiguredSteps DEF CallsTyped, Config!NoOptions
  <2> QED
    BY <1>3, <2>1 DEF TrustedAfter
<1>5. TrustedAfter(calls, m - 1) /\ m \in 1 .. Len(calls) /\ m - 1 \in 0 .. Len(calls)
  BY <1>1, <1>3, <1>4
<1>6. Steps(calls)[m] = Config!Call(Steps(calls)[m - 1], calls[m]) /\ CallTyped(calls[m])
  BY <1>5, ConfiguredSteps DEF CallsTyped
<1>7. Steps(calls)[m].trusted = Setting(Steps(calls)[m - 1], calls[m], "trusted")
  BY <1>5, <1>6, CallFields, StepsTyped DEF Fields
<1>8. CASE calls[m].option = "trusted"
  <2>1. Steps(calls)[m].trusted = {Config!Lower(d) : d \in calls[m].to}
    BY <1>7, <1>8 DEF Setting
  <2> QED
    BY <1>3, <1>5, <1>8, <2>1 DEF TrustedAfter
<1>9. CASE calls[m].option # "trusted"
  <2>1. Steps(calls)[m].trusted = Steps(calls)[m - 1].trusted
    BY <1>7, <1>9 DEF Setting
  <2>2. \A i \in 1 .. m : i = m \/ i \in 1 .. m - 1
    BY <1>5
  <2>3. \A i \in 1 .. m - 1 : i \in 1 .. m
    BY <1>5
  <2>4. TrustedAfter(calls, m)
    BY <1>5, <1>9, <2>1, <2>2, <2>3 DEF TrustedAfter
  <2> QED
    BY <1>3, <2>4
<1> QED
  BY <1>8, <1>9

\* Trusted domains are an allowlist: no domains, or those of the last call.
LEMMA AllowlistIsTrusted ==
    ASSUME NEW calls, CallsTyped(calls)
    PROVE  LET trusted == Config!Configured(calls).trusted IN
           \/ Config!Allowlist(calls) = {} /\ trusted = Absent
           \/ trusted = {Config!Lower(d) : d \in Config!Allowlist(calls)}
<1> DEFINE sets == {i \in DOMAIN calls : calls[i].option = "trusted"}
           last == CHOOSE i \in sets : \A j \in sets : j <= i
<1>1. Len(calls) \in Nat /\ DOMAIN calls = 1 .. Len(calls)
  BY DEF CallsTyped
<1>2. TrustedAfter(calls, Len(calls)) /\ Config!Configured(calls) = Steps(calls)[Len(calls)]
  BY <1>1, LastCallTrusts, ConfiguredSteps DEF CallsTyped
<1>3. Config!Allowlist(calls) = IF sets = {} THEN {} ELSE calls[last].to
  BY DEF Config!Allowlist
<1>4. CASE sets = {}
  BY <1>1, <1>2, <1>3, <1>4 DEF TrustedAfter
<1>5. CASE sets # {}
  <2>1. PICK i \in sets :
          /\ \A j \in sets : j <= i
          /\ Steps(calls)[Len(calls)].trusted = {Config!Lower(d) : d \in calls[i].to}
    BY <1>1, <1>2, <1>5 DEF TrustedAfter
  <2>2. last \in sets /\ \A j \in sets : j <= last
    BY <2>1
  <2>3. last = i
    BY <1>1, <2>1, <2>2
  <2> HIDE DEF last
  <2> QED
    BY <1>2, <1>3, <1>5, <2>1, <2>3
<1> QED
  BY <1>4, <1>5

(***************************************************************************)
(* A verifier that build hands out fetches badges only over https and from *)
(* the domains listed last, requires SCITT if none are, has keys if it     *)
(* verifies SCITT, and keeps a cached badge for as long as it promises to, *)
(* whatever calls configured it (AnsVerifierBuilder::build,                *)
(* validate_badge_configuration).                                          *)
(***************************************************************************)
THEOREM WhatIsBuiltIsSafe ==
    ASSUME NEW calls, CallsTyped(calls), NEW systemDns, NEW url
    PROVE  Config!BuildIsSafe(calls, systemDns, url)
<1> DEFINE options == Config!Configured(calls)
           built   == Config!Build(options, systemDns)
           domains == IF options.trusted = Absent THEN {} ELSE options.trusted
           allowed == Config!Allowlist(calls)
<1>1. OptionsTyped(options)
  BY StepsTyped, ConfiguredSteps DEF CallsTyped
<1>2. \/ allowed = {} /\ options.trusted = Absent
      \/ options.trusted = {Config!Lower(d) : d \in allowed}
  BY AllowlistIsTrusted
<1> HIDE DEF options, allowed
<1> SUFFICES ASSUME Config!IsOk(built)
             PROVE  /\ Config!ValidateBadgeDomain(domains, url) = "none" =>
                         url.scheme = "https" /\ \E d \in allowed : Config!Lower(d) = url.host
                    /\ allowed = {} => built.value.scitt = "RequireScitt"
                    /\ built.value.scitt # Absent => built.value.keys # Absent
                    /\ \A age \in 0 .. Config!OrDefault(options.maxStaleness, 0) :
                         (built.value.scitt # "RequireScitt" /\ options.cache # Absent) =>
                             age <= Config!Residence(options.cache)
  BY DEF Config!BuildIsSafe, options, allowed
<1>3. /\ options.scitt # Absent => options.keys # Absent
      /\ Config!BadgeEnabled(options) => Config!BadgeConfigurationOk(options)
      /\ built.value.scitt = options.scitt
      /\ built.value.keys = options.keys
  BY DEF Config!Build, Config!IsOk, Config!Err, Config!Ok
<1> HIDE DEF built
<1>4. Config!ValidateBadgeDomain(domains, url) = "none" =>
        url.scheme = "https" /\ \E d \in allowed : Config!Lower(d) = url.host
  BY <1>2 DEF Config!ValidateBadgeDomain
<1>5. allowed = {} => built.value.scitt = "RequireScitt"
  BY <1>2, <1>3 DEF Config!BadgeEnabled, Config!BadgeConfigurationOk
<1>6. ASSUME NEW age \in 0 .. Config!OrDefault(options.maxStaleness, 0),
             built.value.scitt # "RequireScitt", options.cache # Absent
      PROVE  age <= Config!Residence(options.cache)
  <2>1. Config!BadgeConfigurationOk(options)
    BY <1>3, <1>6 DEF Config!BadgeEnabled
  <2>2. options.cache \in [default : Nat, hard : Nat]
    BY <1>1, <1>6 DEF OptionsTyped
  <2>3. CASE options.maxStaleness = Absent
    BY <1>6, <2>2, <2>3 DEF Config!OrDefault, Config!Residence
  <2>4. CASE options.maxStaleness # Absent
    <3>1. options.maxStaleness \in Nat /\ Config!Residence(options.cache) \in Nat
      BY <1>1, <2>2, <2>4 DEF OptionsTyped, Config!Residence
    <3>2. Config!Residence(options.cache) >= options.maxStaleness
      BY <1>6, <2>1, <2>4 DEF Config!BadgeConfigurationOk
    <3> QED
      BY <1>6, <2>4, <3>1, <3>2 DEF Config!OrDefault
  <2> QED
    BY <2>3, <2>4
<1> QED
  BY <1>3, <1>4, <1>5, <1>6

(***************************************************************************)
(* Without SCITT, AnsVerifierBuilder::build makes exactly the verifiers    *)
(* that the server's and the client's own builders make, and is refused    *)
(* when they are.                                                          *)
(***************************************************************************)
THEOREM BuildersMakeThePair ==
    ASSUME NEW calls, NEW systemDns PROVE Config!BuildersAgree(calls, systemDns)
<1> DEFINE options == Config!Configured(calls)
<1> HIDE DEF options
<1>1. SUFFICES ASSUME options.scitt = Absent
      PROVE  LET both   == Config!Build(options, systemDns)
                 server == Config!BuildServer(options, systemDns)
                 client == Config!BuildClient(options, systemDns)
             IN  /\ both.error = server.error /\ both.error = client.error
                 /\ Config!IsOk(both) => /\ both.value.server = server.value
                                         /\ both.value.client = client.value
  BY DEF Config!BuildersAgree, options
<1>2. Config!BadgeEnabled(options)
  BY <1>1, AbsentAssumption DEF Config!BadgeEnabled
<1> QED
  BY <1>1, <1>2 DEF Config!Build, Config!BuildServer, Config!BuildClient, Config!IsOk,
                    Config!Err, Config!Ok

\* What an outcome holds: one of the variants, and a badge where the variant has one.
OutcomeTyped(outcome) ==
    /\ outcome.kind \in DOMAIN Config!ErrorOf \cup {"Verified"}
    /\ outcome.kind \in Config!BadgeOutcomes => outcome.badge # Absent

(***************************************************************************)
(* is_success, into_result, into_scitt_result, is_terminal and             *)
(* is_not_ans_agent of an outcome agree with each other.                   *)
(***************************************************************************)
THEOREM AccessorsAgree ==
    ASSUME NEW outcome, OutcomeTyped(outcome) PROVE Config!OutcomesAgree(outcome)
<1>1. Config!ErrorOf[outcome.kind] # "none" \/ outcome.kind = "Verified"
  BY DEF OutcomeTyped, Config!ErrorOf
<1>2. outcome.kind = "Verified" => outcome.badge # Absent
  BY DEF OutcomeTyped, Config!BadgeOutcomes
<1> QED
  BY <1>1, <1>2 DEF Config!OutcomesAgree, Config!IntoScittResult, Config!IntoResult, Config!IsSuccess,
       Config!IsOk, Config!Ok, Config!Err, Config!BadgeOf, Config!BadgeOutcomes,
       Config!IsTerminal, Config!IsNotAnsAgent

(***************************************************************************)
(* The certificate verifiers for rustls accept only what was configured:   *)
(* no server but one with a certificate of the prefetched badge, no client *)
(* but one of the configured CA, or none at all where that is allowed.     *)
(***************************************************************************)
THEOREM HandshakesAcceptOnlyTheConfigured ==
    ASSUME NEW options, NEW required, NEW badge, NEW S, badge.certs \in Seq(S),
           NEW roots, NEW cert, NEW name
    PROVE  Config!HandshakesAreSound(options, required, badge, roots, cert, name)
<1> DEFINE client == Config!ClientCertVerifier(options, required)
           server == Config!ServerCertVerifier(badge, roots)
<1>1. ASSUME Config!IsOk(client)
      PROVE  /\ client.value.required = required
             /\ client.value.roots = {options.ca[i] : i \in DOMAIN options.ca}
             /\ "garbage" \notin Config!Range(options.ca)
  BY <1>1 DEF Config!ClientCertVerifier, Config!CertsOf, Config!IsOk, Config!Err, Config!Ok, Config!Range
<1>2. ASSUME Config!IsOk(server)
      PROVE  server.value.roots = roots /\ server.value.expected \in Config!Range(badge.certs)
  <2>1. badge.certs # <<>> /\ server.value = [roots |-> roots, expected |-> Head(badge.certs)]
    BY <1>2 DEF Config!ServerCertVerifier, Config!IsOk, Config!Err, Config!Ok
  <2>2. 1 \in DOMAIN badge.certs /\ Head(badge.certs) = badge.certs[1]
    BY <2>1
  <2> QED
    BY <2>1, <2>2 DEF Config!Range
<1> HIDE DEF client, server
<1>3. ASSUME Config!IsOk(client), Config!VerifyClientCert(client.value, cert) = "none"
      PROVE  IF cert = Absent THEN ~required
             ELSE /\ cert.timely /\ "client" \in cert.purposes
                  /\ \E i \in DOMAIN options.ca : options.ca[i] = cert.issuer
  BY <1>1, <1>3 DEF Config!VerifyClientCert, Config!WebPki
<1>4. ASSUME Config!IsOk(server), Config!VerifyServerCert(server.value, cert, name) = "none"
      PROVE  cert.fp \in Config!Range(badge.certs) /\ cert.issuer \in roots /\ name \in cert.names
  BY <1>2, <1>4 DEF Config!VerifyServerCert, Config!WebPki
<1> QED
  BY <1>1, <1>3, <1>4 DEF Config!HandshakesAreSound, client, server

\* What applications can write down: typed builder calls, outcomes of one of the
\* variants, and badges whose certificates are a list.
ConfigInputs ==
    /\ Given("build") => CallsTyped(input.of[1])
    /\ Given("outcome") => OutcomeTyped(input.of)
    /\ Given("handshake") => \E S : input.of[3].certs \in Seq(S)

(***************************************************************************)
(* A verifier does what its configuration says, for every sequence of      *)
(* builder calls, every outcome and every handshake.                       *)
(***************************************************************************)
THEOREM ConfigurationAlwaysHonoured == []ConfigInputs => []ConfigurationHonoured
<1>1. ASSUME ConfigInputs, Given("build")
      PROVE  /\ Config!CallsCommute(input.of[1])
             /\ \A systemDns \in BOOLEAN :
                  /\ Config!BuildersAgree(input.of[1], systemDns)
                  /\ \A url \in input.of[2] : Config!BuildIsSafe(input.of[1], systemDns, url)
  BY <1>1, BuilderCallsCommute, BuildersMakeThePair, WhatIsBuiltIsSafe DEF ConfigInputs
<1>2. ASSUME ConfigInputs, Given("outcome") PROVE Config!OutcomesAgree(input.of)
  BY <1>2, AccessorsAgree DEF ConfigInputs
<1>3. ASSUME ConfigInputs, Given("handshake")
      PROVE  Config!HandshakesAreSound(input.of[1], input.of[2], input.of[3], input.of[4],
                                       input.of[5], input.of[6])
  BY <1>3, HandshakesAcceptOnlyTheConfigured DEF ConfigInputs
<1>4. ConfigInputs => ConfigurationHonoured
  BY <1>1, <1>2, <1>3 DEF ConfigurationHonoured
<1> QED
  BY <1>4, PTL

(***************************************************************************)
(* The Merkle tree.  The leaves below a node are a span; the nodes of one  *)
(* level, from the left, are those of spans of one power of two, the last  *)
(* of them cut short by the end of the tree or the same as below it.       *)
(***************************************************************************)

Power(i) == Merkle!PowerOfTwo[i]

\* Powers of two up to the n-th.
PowersTo(f, n) == f = [i \in 0 .. n |-> IF i = 0 THEN 1 ELSE 2 * f[i - 1]]

PowersUpTo(n) == CHOOSE f : PowersTo(f, n)

LEMMA PowersToExist ==
    ASSUME NEW n \in Nat PROVE \E f : PowersTo(f, n)
<1> DEFINE missing == {m \in Nat : ~\E f : PowersTo(f, m)}
<1>1. SUFFICES ASSUME missing # {} PROVE FALSE
  OBVIOUS
<1>2. PICK m \in missing : \A k \in missing : m <= k
  BY <1>1, LeastNumber
<1>3. CASE m = 0
  <2>1. PowersTo([i \in 0 .. 0 |-> 1], 0)
    BY DEF PowersTo
  <2> QED
    BY <1>2, <1>3, <2>1
<1>4. CASE m # 0
  <2>1. m - 1 \in Nat /\ m - 1 \notin missing
    BY <1>2, <1>4
  <2>2. PICK f : PowersTo(f, m - 1)
    BY <2>1
  <2> DEFINE g == [i \in 0 .. m |-> IF i = m THEN 2 * f[m - 1] ELSE f[i]]
  <2>3. \A i \in 0 .. m - 1 : f[i] = IF i = 0 THEN 1 ELSE 2 * f[i - 1]
    BY <2>2 DEF PowersTo
  <2>4. \A i \in 0 .. m : g[i] = IF i = 0 THEN 1 ELSE 2 * g[i - 1]
    BY <1>2, <1>4, <2>3
  <2>5. g = [i \in 0 .. m |-> g[i]]
    OBVIOUS
  <2> HIDE DEF g
  <2>6. PowersTo(g, m)
    BY <2>4, <2>5 DEF PowersTo
  <2> QED
    BY <1>2, <2>6
<1> QED
  BY <1>3, <1>4

LEMMA PowersToAgree ==
    ASSUME NEW m \in Nat, NEW n \in Nat, NEW f, NEW g, PowersTo(f, m), PowersTo(g, n),
           NEW i \in Nat, i <= m, i <= n
    PROVE  f[i] = g[i]
<1> DEFINE bad == {k \in Nat : k <= i /\ f[k] # g[k]}
<1>1. SUFFICES ASSUME bad # {} PROVE FALSE
  OBVIOUS
<1>2. PICK k \in bad : \A j \in bad : k <= j
  BY <1>1, LeastNumber
<1>3. /\ f[k] = IF k = 0 THEN 1 ELSE 2 * f[k - 1]
      /\ g[k] = IF k = 0 THEN 1 ELSE 2 * g[k - 1]
  BY <1>2 DEF PowersTo
<1>4. k # 0 => f[k - 1] = g[k - 1]
  BY <1>2
<1> QED
  BY <1>2, <1>3, <1>4

LEMMA Powers ==
    /\ Power(0) = 1
    /\ \A i \in Nat : Power(i) \in Nat /\ Power(i + 1) = 2 * Power(i) /\ i < Power(i)
<1> DEFINE P(f) == f = [i \in Nat |-> IF i = 0 THEN 1 ELSE 2 * f[i - 1]]
           g == [i \in Nat |-> PowersUpTo(i)[i]]
<1>1. ASSUME NEW i \in Nat PROVE g[i] = IF i = 0 THEN 1 ELSE 2 * g[i - 1]
  <2>1. PowersTo(PowersUpTo(i), i)
    BY PowersToExist DEF PowersUpTo
  <2>2. PowersUpTo(i)[i] = IF i = 0 THEN 1 ELSE 2 * PowersUpTo(i)[i - 1]
    BY <2>1 DEF PowersTo
  <2>3. CASE i = 0
    BY <2>2, <2>3
  <2>4. CASE i # 0
    <3>1. i - 1 \in Nat
      BY <2>4
    <3>2. PowersTo(PowersUpTo(i - 1), i - 1)
      BY <3>1, PowersToExist DEF PowersUpTo
    <3>3. PowersUpTo(i)[i - 1] = PowersUpTo(i - 1)[i - 1]
      BY <2>1, <3>1, <3>2, PowersToAgree
    <3> QED
      BY <2>2, <2>4, <3>1, <3>3
  <2> QED
    BY <2>3, <2>4
<1>2. g = [i \in Nat |-> g[i]]
  OBVIOUS
<1> HIDE DEF g
<1>3. P(g)
  BY <1>1, <1>2
<1>4. P(Merkle!PowerOfTwo)
  BY <1>3 DEF Merkle!PowerOfTwo
<1>5. Power(0) = 1 /\ \A i \in Nat : Power(i + 1) = 2 * Power(i)
  BY <1>4 DEF Power
<1> DEFINE bad == {i \in Nat : ~(Power(i) \in Nat /\ i < Power(i))}
<1>6. ASSUME bad # {} PROVE FALSE
  <2>1. PICK i \in bad : \A j \in bad : i <= j
    BY <1>6, LeastNumber
  <2>2. i # 0
    BY <1>5, <2>1
  <2>3. i - 1 \in Nat /\ i - 1 \notin bad /\ (i - 1) + 1 = i
    BY <2>1, <2>2
  <2> QED
    BY <1>5, <2>1, <2>3
<1> QED
  BY <1>5, <1>6

\* The powers of two grow.
LEMMA PowersGrow ==
    ASSUME NEW i \in Nat, NEW j \in Nat, i < j PROVE 2 * Power(i) <= Power(j)
<1> DEFINE bad == {k \in Nat : i < k /\ ~(2 * Power(i) <= Power(k))}
<1>1. SUFFICES ASSUME bad # {} PROVE FALSE
  OBVIOUS
<1>2. PICK k \in bad : \A m \in bad : k <= m
  BY <1>1, LeastNumber
<1>3. k - 1 \in Nat /\ Power(k) = 2 * Power(k - 1) /\ Power(k - 1) \in Nat /\ Power(i) \in Nat
  BY <1>2, Powers
<1>4. k - 1 = i \/ 2 * Power(i) <= Power(k - 1)
  BY <1>2, <1>3
<1> QED
  BY <1>2, <1>3, <1>4

LEMMA SplitIsPower ==
    ASSUME NEW n \in Nat, NEW i \in Nat, Power(i) < n, n <= 2 * Power(i)
    PROVE  Merkle!Split(n) = Power(i)
<1>1. i \in 0 .. n
  BY Powers
<1>2. \A j \in Nat : Power(j) < n /\ n <= 2 * Power(j) => Power(j) = Power(i)
  <2> SUFFICES ASSUME NEW j \in Nat, Power(j) < n, n <= 2 * Power(j) PROVE Power(j) = Power(i)
    OBVIOUS
  <2>1. j < i => FALSE
    BY PowersGrow, Powers
  <2>2. i < j => FALSE
    BY PowersGrow, Powers
  <2> QED
    BY <2>1, <2>2
<1> DEFINE k == Merkle!Split(n)
<1>3. k \in {Power(j) : j \in 0 .. n} /\ k < n /\ n <= 2 * k
  <2>1. k = CHOOSE m \in {Power(j) : j \in 0 .. n} : m < n /\ n <= 2 * m
    BY DEF Merkle!Split, Power
  <2>2. Power(i) \in {Power(j) : j \in 0 .. n}
    BY <1>1
  <2> HIDE DEF k
  <2> QED
    BY <2>1, <2>2
<1>4. PICK j \in 0 .. n : k = Power(j)
  BY <1>3
<1> HIDE DEF k
<1>5. k = Power(i)
  BY <1>2, <1>3, <1>4
<1> QED
  BY <1>5 DEF k

LEMMA SplitExists ==
    ASSUME NEW n \in Nat, n > 1
    PROVE  \E i \in Nat : Power(i) < n /\ n <= 2 * Power(i)
<1> DEFINE above == {i \in Nat : n <= Power(i)}
<1>1. n \in above
  BY Powers
<1>2. PICK i \in above : \A j \in above : i <= j
  BY <1>1, LeastNumber
<1>3. i # 0
  BY <1>2, Powers
<1>4. i - 1 \in Nat /\ i - 1 \notin above /\ (i - 1) + 1 = i
  BY <1>2, <1>3
<1>5. Power(i) = 2 * Power(i - 1) /\ Power(i - 1) \in Nat
  BY <1>4, Powers
<1> QED
  BY <1>2, <1>4, <1>5

LEMMA SplitInside ==
    ASSUME NEW n \in Nat, n > 1 PROVE Merkle!Split(n) \in 1 .. n - 1
<1>1. PICK i \in Nat : Power(i) < n /\ n <= 2 * Power(i)
  BY SplitExists
<1>2. Merkle!Split(n) = Power(i) /\ Power(i) \in Nat /\ i < Power(i)
  BY <1>1, SplitIsPower, Powers
<1> QED
  BY <1>1, <1>2
-----------------------------------------------------------------------------
\* What a tree over the leaves r[1] .. r[2] - 1 is made of, by its parts in f.
Spans(n) == (0 .. n) \X (0 .. n)
Mid(r) == r[1] + Merkle!Split(r[2] - r[1])
Lower(r) == <<r[1], Mid(r)>>
Upper(r) == <<Mid(r), r[2]>>
TreeOf(f, r) ==
    IF r[2] <= r[1] THEN <<>>
    ELSE IF r[2] = r[1] + 1 THEN Merkle!LeafHash(<<r[1]>>)
    ELSE Merkle!NodeHash(f[Lower(r)], f[Upper(r)])

\* The path of leaf m in that tree.
PathOf(f, m, n, r) ==
    IF r[2] <= r[1] + 1 THEN <<>>
    ELSE IF m < Mid(r) THEN Append(f[Lower(r)], Merkle!Tree(n)[Upper(r)])
    ELSE Append(f[Upper(r)], Merkle!Tree(n)[Lower(r)])

\* The halves of a span are spans, and shorter ones.
LEMMA Halves ==
    ASSUME NEW n \in Nat, NEW r \in Spans(n), r[1] + 1 < r[2]
    PROVE  /\ Mid(r) \in r[1] + 1 .. r[2] - 1
           /\ Lower(r) \in Spans(n) /\ Upper(r) \in Spans(n)
           /\ Lower(r)[1] = r[1] /\ Lower(r)[2] = Mid(r)
           /\ Upper(r)[1] = Mid(r) /\ Upper(r)[2] = r[2]
<1>1. r[1] \in 0 .. n /\ r[2] \in 0 .. n
  BY DEF Spans
<1>2. r[2] - r[1] \in Nat /\ r[2] - r[1] > 1
  BY <1>1
<1>3. Mid(r) \in r[1] + 1 .. r[2] - 1
  BY <1>1, <1>2, SplitInside DEF Mid
<1> QED
  BY <1>1, <1>3 DEF Lower, Upper, Spans

LEMMA TreeOfLocal ==
    ASSUME NEW n \in Nat, NEW r \in Spans(n), NEW f, NEW g,
           \A s \in Spans(n) : s[2] - s[1] < r[2] - r[1] => f[s] = g[s]
    PROVE  TreeOf(f, r) = TreeOf(g, r)
<1>1. r[1] \in 0 .. n /\ r[2] \in 0 .. n
  BY DEF Spans
<1>2. CASE r[1] + 1 < r[2]
  <2>1. Lower(r)[2] - Lower(r)[1] < r[2] - r[1] /\ Upper(r)[2] - Upper(r)[1] < r[2] - r[1]
    BY <1>1, <1>2, Halves
  <2>2. f[Lower(r)] = g[Lower(r)] /\ f[Upper(r)] = g[Upper(r)]
    BY <1>2, <2>1, Halves
  <2> QED
    BY <1>1, <1>2, <2>2 DEF TreeOf
<1>3. CASE r[2] <= r[1] + 1
  BY <1>1, <1>3 DEF TreeOf
<1> QED
  BY <1>1, <1>2, <1>3

LEMMA TreeExists ==
    ASSUME NEW n \in Nat
    PROVE  \E f : f = [r \in Spans(n) |-> TreeOf(f, r)]
<1> DEFINE Upto(f, w) == \A r \in Spans(n) : r[2] - r[1] <= w => f[r] = TreeOf(f, r)
           missing == {w \in Nat : ~\E f : Upto(f, w)}
           next(f) == [r \in Spans(n) |-> TreeOf(f, r)]
<1>0. \A r \in Spans(n) : r[1] \in 0 .. n /\ r[2] \in 0 .. n
  BY DEF Spans
<1>1. ASSUME NEW f, NEW w \in Int, Upto(f, w) PROVE Upto(next(f), w + 1)
  <2> SUFFICES ASSUME NEW r \in Spans(n), r[2] - r[1] <= w + 1
               PROVE  next(f)[r] = TreeOf(next(f), r)
    OBVIOUS
  <2>1. \A s \in Spans(n) : s[2] - s[1] < r[2] - r[1] => f[s] = next(f)[s]
    BY <1>0, <1>1
  <2> HIDE DEF next
  <2>2. TreeOf(f, r) = TreeOf(next(f), r)
    BY <2>1, TreeOfLocal
  <2> QED
    BY <2>2 DEF next
<1>2. Upto([r \in Spans(n) |-> <<>>], 0)
  BY <1>0 DEF TreeOf
<1> HIDE DEF Upto, next
<1>3. missing = {}
  <2> SUFFICES ASSUME missing # {} PROVE FALSE
    OBVIOUS
  <2>1. PICK m \in missing : \A k \in missing : m <= k
    BY LeastNumber
  <2>2. m # 0
    BY <1>2, <2>1
  <2>3. m - 1 \in Nat /\ m - 1 \notin missing /\ (m - 1) + 1 = m
    BY <2>1, <2>2
  <2>4. PICK f : Upto(f, m - 1)
    BY <2>3
  <2> QED
    BY <1>1, <2>1, <2>3, <2>4
<1>4. PICK f : Upto(f, n)
  BY <1>3
<1>5. \A r \in Spans(n) : next(f)[r] = f[r]
  BY <1>0, <1>4 DEF Upto, next
<1>6. \A r \in Spans(n) : next(f)[r] = TreeOf(next(f), r)
  <2> SUFFICES ASSUME NEW r \in Spans(n) PROVE next(f)[r] = TreeOf(next(f), r)
    OBVIOUS
  <2>1. TreeOf(f, r) = TreeOf(next(f), r)
    BY <1>5, TreeOfLocal
  <2> QED
    BY <2>1 DEF next
<1>7. next(f) = [r \in Spans(n) |-> next(f)[r]]
  BY DEF next
<1> QED
  BY <1>6, <1>7

LEMMA TreeNodes ==
    ASSUME NEW n \in Nat
    PROVE  \A r \in Spans(n) : Merkle!Tree(n)[r] = TreeOf(Merkle!Tree(n), r)
<1>1. Merkle!Tree(n) = CHOOSE f : f = [r \in Spans(n) |-> TreeOf(f, r)]
  BY DEF Merkle!Tree, Spans, TreeOf, Lower, Upper, Mid
<1>2. Merkle!Tree(n) = [r \in Spans(n) |-> TreeOf(Merkle!Tree(n), r)]
  BY <1>1, TreeExists
<1> QED
  BY <1>2

LEMMA PathOfLocal ==
    ASSUME NEW n \in Nat, NEW m, NEW r \in Spans(n), NEW f, NEW g,
           \A s \in Spans(n) : s[2] - s[1] < r[2] - r[1] => f[s] = g[s]
    PROVE  PathOf(f, m, n, r) = PathOf(g, m, n, r)
<1>1. r[1] \in 0 .. n /\ r[2] \in 0 .. n
  BY DEF Spans
<1>2. CASE r[1] + 1 < r[2]
  <2>1. Lower(r)[2] - Lower(r)[1] < r[2] - r[1] /\ Upper(r)[2] - Upper(r)[1] < r[2] - r[1]
    BY <1>1, <1>2, Halves
  <2>2. f[Lower(r)] = g[Lower(r)] /\ f[Upper(r)] = g[Upper(r)]
    BY <1>2, <2>1, Halves
  <2> QED
    BY <1>1, <1>2, <2>2 DEF PathOf
<1>3. CASE r[2] <= r[1] + 1
  BY <1>1, <1>3 DEF PathOf
<1> QED
  BY <1>1, <1>2, <1>3

LEMMA PathExists ==
    ASSUME NEW n \in Nat, NEW m
    PROVE  \E f : f = [r \in Spans(n) |-> PathOf(f, m, n, r)]
<1> DEFINE Upto(f, w) == \A r \in Spans(n) : r[2] - r[1] <= w => f[r] = PathOf(f, m, n, r)
           missing == {w \in Nat : ~\E f : Upto(f, w)}
           next(f) == [r \in Spans(n) |-> PathOf(f, m, n, r)]
<1>0. \A r \in Spans(n) : r[1] \in 0 .. n /\ r[2] \in 0 .. n
  BY DEF Spans
<1>1. ASSUME NEW f, NEW w \in Int, Upto(f, w) PROVE Upto(next(f), w + 1)
  <2> SUFFICES ASSUME NEW r \in Spans(n), r[2] - r[1] <= w + 1
               PROVE  next(f)[r] = PathOf(next(f), m, n, r)
    OBVIOUS
  <2>1. \A s \in Spans(n) : s[2] - s[1] < r[2] - r[1] => f[s] = next(f)[s]
    BY <1>0, <1>1
  <2> HIDE DEF next
  <2>2. PathOf(f, m, n, r) = PathOf(next(f), m, n, r)
    BY <2>1, PathOfLocal
  <2> QED
    BY <2>2 DEF next
<1>2. Upto([r \in Spans(n) |-> <<>>], 0)
  BY <1>0 DEF PathOf
<1> HIDE DEF Upto, next
<1>3. missing = {}
  <2> SUFFICES ASSUME missing # {} PROVE FALSE
    OBVIOUS
  <2>1. PICK k \in missing : \A j \in missing : k <= j
    BY LeastNumber
  <2>2. k # 0
    BY <1>2, <2>1
  <2>3. k - 1 \in Nat /\ k - 1 \notin missing /\ (k - 1) + 1 = k
    BY <2>1, <2>2
  <2>4. PICK f : Upto(f, k - 1)
    BY <2>3
  <2> QED
    BY <1>1, <2>1, <2>3, <2>4
<1>4. PICK f : Upto(f, n)
  BY <1>3
<1>5. \A r \in Spans(n) : next(f)[r] = f[r]
  BY <1>0, <1>4 DEF Upto, next
<1>6. \A r \in Spans(n) : next(f)[r] = PathOf(next(f), m, n, r)
  <2> SUFFICES ASSUME NEW r \in Spans(n) PROVE next(f)[r] = PathOf(next(f), m, n, r)
    OBVIOUS
  <2>1. PathOf(f, m, n, r) = PathOf(next(f), m, n, r)
    BY <1>5, PathOfLocal
  <2> QED
    BY <2>1 DEF next
<1>7. next(f) = [r \in Spans(n) |-> next(f)[r]]
  BY DEF next
<1> QED
  BY <1>6, <1>7

\* InclusionPath, with its parts.
Paths(m, n) == CHOOSE f : f = [r \in Spans(n) |-> PathOf(f, m, n, r)]

LEMMA PathNodes ==
    ASSUME NEW n \in Nat, NEW m
    PROVE  /\ Merkle!InclusionPath(m, n) = Paths(m, n)[<<0, n>>]
           /\ \A r \in Spans(n) : Paths(m, n)[r] = PathOf(Paths(m, n), m, n, r)
<1>1. Merkle!InclusionPath(m, n) = Paths(m, n)[<<0, n>>]
  BY DEF Merkle!InclusionPath, Spans, PathOf, Paths, Lower, Upper, Mid
<1>2. Paths(m, n) = [r \in Spans(n) |-> PathOf(Paths(m, n), m, n, r)]
  BY PathExists DEF Paths
<1> QED
  BY <1>1, <1>2
-----------------------------------------------------------------------------
\* Levels: the i-th node of level l is the tree over up to Power(l) leaves.
Span(n, l, i) ==
    <<i * Power(l), IF (i + 1) * Power(l) <= n THEN (i + 1) * Power(l) ELSE n>>
NodeAt(n, l, i) == Merkle!Tree(n)[Span(n, l, i)]

\* q is x div Power(l).
Quotient(x, l, q) == q \in Nat /\ q * Power(l) <= x /\ x < (q + 1) * Power(l)

LEMMA TimesGrows ==
    ASSUME NEW i \in Nat, NEW j \in Nat, NEW p \in Nat, i <= j PROVE i * p <= j * p
<1>1. (j - i) * p \in Nat
  OBVIOUS
<1>2. j * p = i * p + (j - i) * p
  OBVIOUS
<1> QED
  BY <1>1, <1>2

LEMMA QuotientOrder ==
    ASSUME NEW x \in Nat, NEW l \in Nat, NEW q, Quotient(x, l, q), NEW i \in Nat
    PROVE  i <= q <=> i * Power(l) <= x
<1>1. Power(l) \in Nat /\ q \in Nat
  BY Powers DEF Quotient
<1>2. i <= q => i * Power(l) <= x
  BY <1>1, TimesGrows DEF Quotient
<1>3. ASSUME q < i PROVE ~(i * Power(l) <= x)
  <2>1. q + 1 \in Nat /\ q + 1 <= i
    BY <1>1, <1>3
  <2>2. (q + 1) * Power(l) <= i * Power(l)
    BY <1>1, <2>1, TimesGrows
  <2>3. (q + 1) * Power(l) \in Nat /\ i * Power(l) \in Nat
    BY <1>1
  <2> QED
    BY <2>2, <2>3 DEF Quotient
<1> QED
  BY <1>1, <1>2, <1>3

LEMMA QuotientHalves ==
    ASSUME NEW x \in Nat, NEW l \in Nat, NEW q, Quotient(x, l, q)
    PROVE  Quotient(x, l + 1, q \div 2)
<1> DEFINE p == Power(l)
           h == q \div 2
<1>1. p \in Nat /\ Power(l + 1) = 2 * p /\ q \in Nat
  BY Powers DEF Quotient
<1>2. h \in Nat /\ 2 * h <= q /\ q <= 2 * h + 1
  BY <1>1
<1>3. q * p <= x /\ x < (q + 1) * p
  BY DEF Quotient
<1> HIDE DEF p, h
<1>4. (2 * h) * p <= q * p
  BY <1>1, <1>2, TimesGrows
<1>5. (q + 1) * p <= (2 * h + 2) * p
  BY <1>1, <1>2, TimesGrows
<1>6. h * (2 * p) = (2 * h) * p /\ (h + 1) * (2 * p) = (2 * h + 2) * p
  BY <1>1, <1>2
<1>7. (2 * h) * p \in Nat /\ q * p \in Nat /\ (q + 1) * p \in Nat /\ (2 * h + 2) * p \in Nat
  BY <1>1, <1>2
<1> QED
  BY <1>1, <1>2, <1>3, <1>4, <1>5, <1>6, <1>7 DEF Quotient, h

LEMMA QuotientsOrdered ==
    ASSUME NEW x \in Nat, NEW y \in Nat, x <= y, NEW l \in Nat,
           NEW p, Quotient(x, l, p), NEW q, Quotient(y, l, q)
    PROVE  p <= q
<1>1. p \in Nat /\ p * Power(l) <= x
  BY DEF Quotient
<1>2. Power(l) \in Nat /\ p * Power(l) \in Nat
  BY <1>1, Powers
<1>3. p * Power(l) <= y
  BY <1>1, <1>2
<1> QED
  BY <1>1, <1>3, QuotientOrder

\* A node over two nodes of the level below.
LEMMA PairSpan ==
    ASSUME NEW n \in Nat, n > 0, NEW l \in Nat, NEW last, Quotient(n - 1, l, last),
           NEW i \in Nat, 2 * i + 1 <= last
    PROVE  LET r == Span(n, l + 1, i) IN
           /\ r \in Spans(n) /\ r[1] + 1 < r[2] /\ Mid(r) = (2 * i + 1) * Power(l)
           /\ Lower(r) = Span(n, l, 2 * i) /\ Upper(r) = Span(n, l, 2 * i + 1)
<1> DEFINE p == Power(l)
           r == Span(n, l + 1, i)
           a == (2 * i) * p
           b == (2 * i + 1) * p
           c == (2 * i + 2) * p
           hi == IF c <= n THEN c ELSE n
<1>1. p \in Nat /\ Power(l + 1) = 2 * p /\ p > 0
  BY Powers
<1>2. n - 1 \in Nat /\ b <= n - 1
  BY QuotientOrder
<1> HIDE DEF p
<1>3. i * (2 * p) = a /\ (i + 1) * (2 * p) = c /\ b = a + p /\ c = b + p /\ a \in Nat
  BY <1>1
<1>4. r = <<a, hi>>
  BY <1>1, <1>3 DEF Span
<1>5. 2 * i + 1 + 1 = 2 * i + 2
  OBVIOUS
<1>6. Span(n, l, 2 * i) = <<a, b>> /\ Span(n, l, 2 * i + 1) = <<b, hi>>
  BY <1>1, <1>2, <1>3, <1>5 DEF Span, p
<1> HIDE DEF r, a, b, c
<1>7. /\ r \in Spans(n) /\ r[1] = a /\ r[2] = hi
      /\ hi \in Nat /\ hi - a \in Nat /\ p < hi - a /\ hi - a <= 2 * p
  BY <1>1, <1>2, <1>3, <1>4 DEF Spans
<1>8. Merkle!Split(hi - a) = p
  BY <1>7, SplitIsPower DEF p
<1>9. Mid(r) = b
  BY <1>3, <1>7, <1>8 DEF Mid
<1> QED
  BY <1>1, <1>3, <1>6, <1>7, <1>9 DEF Lower, Upper, r, b, p

\* The last node of a level is handed up if it has no partner.
LEMMA PromotedSpan ==
    ASSUME NEW n \in Nat, n > 0, NEW l \in Nat, NEW i \in Nat, Quotient(n - 1, l, 2 * i)
    PROVE  Span(n, l + 1, i) = Span(n, l, 2 * i)
<1> DEFINE p == Power(l)
<1>1. p \in Nat /\ Power(l + 1) = 2 * p /\ p > 0
  BY Powers
<1>2. n - 1 \in Nat /\ (2 * i) * p <= n - 1 /\ n - 1 < (2 * i + 1) * p
  BY DEF Quotient
<1> HIDE DEF p
<1>3. /\ i * (2 * p) = (2 * i) * p
      /\ (i + 1) * (2 * p) = (2 * i + 1) * p + p
      /\ (2 * i + 1) * p \in Nat
  BY <1>1
<1>4. n <= (2 * i + 1) * p
  BY <1>2, <1>3
<1>5. Span(n, l + 1, i) = <<(2 * i) * p, n>>
  BY <1>1, <1>3, <1>4 DEF Span
<1>6. Span(n, l, 2 * i) = <<(2 * i) * p, n>>
  <2> DEFINE a == (2 * i) * p
             b == (2 * i + 1) * p
  <2>1. Span(n, l, 2 * i) = <<a, IF b <= n THEN b ELSE n>>
    BY DEF Span, p
  <2>2. b \in Nat /\ n <= b
    BY <1>3, <1>4
  <2> HIDE DEF a, b
  <2>3. Span(n, l, 2 * i) = <<a, n>>
    BY <2>1, <2>2
  <2> QED
    BY <2>3 DEF a
<1> QED
  BY <1>5, <1>6

LEMMA LeafSpan ==
    ASSUME NEW n \in Nat, NEW i \in Nat, i < n
    PROVE  /\ Span(n, 0, i) = <<i, i + 1>> /\ Span(n, 0, i) \in Spans(n)
           /\ NodeAt(n, 0, i) = Merkle!LeafHash(<<i>>)
<1>0. i * Power(0) = i /\ (i + 1) * Power(0) = i + 1 /\ i + 1 <= n
  <2>1. \A k \in Nat : k * 1 = k
    OBVIOUS
  <2>2. i + 1 \in Nat /\ i + 1 <= n
    OBVIOUS
  <2> QED
    BY <2>1, <2>2, Powers
<1>1. Span(n, 0, i) = <<i, i + 1>>
  BY <1>0 DEF Span
<1>2. <<i, i + 1>> \in Spans(n)
  BY DEF Spans
<1> QED
  BY <1>1, <1>2, TreeNodes DEF TreeOf, NodeAt

\* The nodes of a level, by those of the level below.
LEMMA NodeSteps ==
    ASSUME NEW n \in Nat, n > 0, NEW l \in Nat, NEW last, Quotient(n - 1, l, last), NEW i \in Nat
    PROVE  /\ 2 * i + 1 <= last =>
                NodeAt(n, l + 1, i) = Merkle!NodeHash(NodeAt(n, l, 2 * i), NodeAt(n, l, 2 * i + 1))
           /\ 2 * i = last => NodeAt(n, l + 1, i) = NodeAt(n, l, 2 * i)
<1>1. ASSUME 2 * i + 1 <= last
      PROVE  NodeAt(n, l + 1, i) = Merkle!NodeHash(NodeAt(n, l, 2 * i), NodeAt(n, l, 2 * i + 1))
  <2> DEFINE r == Span(n, l + 1, i)
  <2>1. /\ r \in Spans(n) /\ r[1] + 1 < r[2]
        /\ Lower(r) = Span(n, l, 2 * i) /\ Upper(r) = Span(n, l, 2 * i + 1)
    BY <1>1, PairSpan
  <2> HIDE DEF r
  <2>2. r[1] \in Nat /\ r[2] \in Nat
    BY <2>1 DEF Spans
  <2>3. Merkle!Tree(n)[r] = TreeOf(Merkle!Tree(n), r)
    BY <2>1, TreeNodes
  <2>4. TreeOf(Merkle!Tree(n), r)
          = Merkle!NodeHash(Merkle!Tree(n)[Lower(r)], Merkle!Tree(n)[Upper(r)])
    BY <2>1, <2>2 DEF TreeOf
  <2> QED
    BY <2>1, <2>3, <2>4 DEF NodeAt, r
<1>2. 2 * i = last => NodeAt(n, l + 1, i) = NodeAt(n, l, 2 * i)
  BY PromotedSpan DEF NodeAt
<1> QED
  BY <1>1, <1>2
-----------------------------------------------------------------------------
\* The ancestor of leaf x on level l, and the last node of that level.
At(x, l) == CHOOSE q : Quotient(x, l, q)
Last(n, l) == At(n - 1, l)

LEMMA QuotientUnique ==
    ASSUME NEW x \in Nat, NEW l \in Nat, NEW p, Quotient(x, l, p), NEW q, Quotient(x, l, q)
    PROVE  p = q
<1>1. p \in Nat /\ q \in Nat
  BY DEF Quotient
<1>2. p <= q /\ q <= p
  BY QuotientsOrdered
<1> QED
  BY <1>1, <1>2

LEMMA Ancestors ==
    ASSUME NEW x \in Nat
    PROVE  /\ At(x, 0) = x
           /\ \A l \in Nat : /\ Quotient(x, l, At(x, l)) /\ At(x, l) \in Nat
                             /\ At(x, l + 1) = At(x, l) \div 2
<1>1. Quotient(x, 0, x)
  <2>1. \A k \in Nat : k * 1 = k
    OBVIOUS
  <2>2. x * Power(0) = x /\ (x + 1) * Power(0) = x + 1
    BY <2>1, Powers
  <2> QED
    BY <2>2 DEF Quotient
<1> DEFINE bad == {l \in Nat : ~\E q : Quotient(x, l, q)}
<1>2. ASSUME bad # {} PROVE FALSE
  <2>1. PICK l \in bad : \A k \in bad : l <= k
    BY <1>2, LeastNumber
  <2>2. l # 0
    BY <1>1, <2>1
  <2>3. l - 1 \in Nat /\ l - 1 \notin bad /\ (l - 1) + 1 = l
    BY <2>1, <2>2
  <2>4. PICK q : Quotient(x, l - 1, q)
    BY <2>3
  <2>5. Quotient(x, l, q \div 2)
    BY <2>3, <2>4, QuotientHalves
  <2> QED
    BY <2>1, <2>5
<1>3. \A l \in Nat : Quotient(x, l, At(x, l))
  BY <1>2 DEF At
<1>4. At(x, 0) = x
  BY <1>1, <1>3, QuotientUnique
<1>5. ASSUME NEW l \in Nat PROVE At(x, l + 1) = At(x, l) \div 2
  <2>1. Quotient(x, l + 1, At(x, l) \div 2) /\ Quotient(x, l + 1, At(x, l + 1))
    BY <1>3, QuotientHalves
  <2> QED
    BY <2>1, QuotientUnique
<1> QED
  BY <1>3, <1>4, <1>5 DEF Quotient

\* Where a leaf of the tree is, and where the tree ends.
LEMMA Positions ==
    ASSUME NEW n \in Nat, NEW x \in Nat, x < n
    PROVE  /\ At(x, 0) = x /\ Last(n, 0) = n - 1
           /\ At(x, n) = 0 /\ Last(n, n) = 0
           /\ \A l \in Nat :
                /\ At(x, l) \in Nat /\ Last(n, l) \in Nat /\ At(x, l) <= Last(n, l)
                /\ At(x, l + 1) = At(x, l) \div 2 /\ Last(n, l + 1) = Last(n, l) \div 2
                /\ Quotient(x, l, At(x, l)) /\ Quotient(n - 1, l, Last(n, l))
<1>1. n - 1 \in Nat /\ x <= n - 1
  OBVIOUS
<1>2. \A l \in Nat : At(x, l) <= Last(n, l)
  BY <1>1, Ancestors, QuotientsOrdered DEF Last
<1>3. Power(n) \in Nat /\ n < Power(n)
  BY Powers
<1>4. Quotient(x, n, 0) /\ Quotient(n - 1, n, 0)
  <2>1. 0 * Power(n) = 0 /\ (0 + 1) * Power(n) = Power(n)
    BY <1>3
  <2> QED
    BY <1>1, <1>3, <2>1 DEF Quotient
<1>5. At(x, n) = 0 /\ Last(n, n) = 0
  BY <1>1, <1>4, Ancestors, QuotientUnique DEF Last
<1> QED
  BY <1>1, <1>2, <1>5, Ancestors DEF Last

\* The root.
LEMMA RootIsTop ==
    ASSUME NEW n \in Nat
    PROVE  Span(n, n, 0) = <<0, n>> /\ Merkle!Root(n) = NodeAt(n, n, 0)
<1>1. Power(n) \in Nat /\ n < Power(n)
  BY Powers
<1>2. 0 * Power(n) = 0 /\ (0 + 1) * Power(n) = Power(n)
  BY <1>1
<1>3. Span(n, n, 0) = <<0, n>>
  BY <1>1, <1>2 DEF Span
<1> QED
  BY <1>3 DEF NodeAt, Merkle!Root

LEMMA HashesDiffer ==
    /\ \A b, x, y : Merkle!LeafHash(b) # Merkle!NodeHash(x, y)
    /\ \A b, c : Merkle!LeafHash(b) = Merkle!LeafHash(c) => b = c
    /\ \A x, y, u, v : Merkle!NodeHash(x, y) = Merkle!NodeHash(u, v) => x = u /\ y = v
BY DEF Merkle!LeafHash, Merkle!NodeHash

\* An inner node that is not the last of its level is a pair, of two such nodes.
LEMMA InnerNode ==
    ASSUME NEW n \in Nat, n > 0, NEW l \in Nat, NEW i \in Nat, i < Last(n, l + 1)
    PROVE  /\ 2 * i + 1 < Last(n, l)
           /\ NodeAt(n, l + 1, i) = Merkle!NodeHash(NodeAt(n, l, 2 * i), NodeAt(n, l, 2 * i + 1))
<1>1. /\ Last(n, l) \in Nat /\ Last(n, l + 1) = Last(n, l) \div 2
      /\ Quotient(n - 1, l, Last(n, l))
  BY Positions
<1>2. 2 * i + 1 < Last(n, l)
  BY <1>1
<1> QED
  BY <1>1, <1>2, NodeSteps

\* The last node of a level, if it is an inner one, is a pair on some level.
LEMMA EdgeNode ==
    ASSUME NEW n \in Nat, n > 0, NEW l \in Nat, NEW x, NEW y,
           NodeAt(n, l, Last(n, l)) = Merkle!NodeHash(x, y)
    PROVE  \E k \in Nat :
             /\ k < l /\ Last(n, k) > 0
             /\ x = NodeAt(n, k, Last(n, k) - 1) /\ y = NodeAt(n, k, Last(n, k))
<1> DEFINE found(m) == \E k \in Nat : /\ k < m /\ Last(n, k) > 0
                                      /\ x = NodeAt(n, k, Last(n, k) - 1)
                                      /\ y = NodeAt(n, k, Last(n, k))
           bad == {m \in Nat : NodeAt(n, m, Last(n, m)) = Merkle!NodeHash(x, y) /\ ~found(m)}
<1> SUFFICES found(l)
  OBVIOUS
<1> HIDE DEF found
<1>1. SUFFICES ASSUME bad # {} PROVE FALSE
  OBVIOUS
<1>2. PICK m \in bad : \A k \in bad : m <= k
  BY <1>1, LeastNumber
<1>3. m # 0
  <2>1. Last(n, 0) = n - 1
    BY Positions
  <2>2. n - 1 \in Nat /\ n - 1 < n
    BY n > 0
  <2>3. NodeAt(n, 0, n - 1) = Merkle!LeafHash(<<n - 1>>)
    BY <2>2, LeafSpan
  <2> QED
    BY <1>2, <2>1, <2>3, HashesDiffer
<1> DEFINE k == m - 1
           last == Last(n, k)
           half == last \div 2
<1>4. k \in Nat /\ k + 1 = m /\ k < m
  BY <1>2, <1>3
<1>5. last \in Nat /\ Last(n, m) = half /\ Quotient(n - 1, k, last)
  BY <1>4, Positions
<1>6. half \in Nat /\ (last = 2 * half + 1 \/ last = 2 * half)
  BY <1>5
<1>7. /\ 2 * half + 1 <= last =>
           NodeAt(n, m, half) = Merkle!NodeHash(NodeAt(n, k, 2 * half), NodeAt(n, k, 2 * half + 1))
      /\ 2 * half = last => NodeAt(n, m, half) = NodeAt(n, k, 2 * half)
  BY <1>4, <1>5, <1>6, NodeSteps
<1> HIDE DEF half, k
<1>8. CASE last = 2 * half + 1
  <2>0. NodeAt(n, m, half) = Merkle!NodeHash(x, y) /\ 2 * half + 1 <= last
    BY <1>2, <1>5, <1>6, <1>8
  <2>1. x = NodeAt(n, k, 2 * half) /\ y = NodeAt(n, k, 2 * half + 1)
    BY <1>7, <2>0, HashesDiffer
  <2>2. last - 1 = 2 * half /\ last > 0
    BY <1>6, <1>8
  <2>3. found(m)
    BY <1>4, <1>8, <2>1, <2>2 DEF found
  <2> QED
    BY <1>2, <2>3
<1>9. CASE last = 2 * half
  <2>1. NodeAt(n, k, last) = Merkle!NodeHash(x, y)
    BY <1>2, <1>5, <1>7, <1>9
  <2>2. k \notin bad
    BY <1>2, <1>4
  <2>3. found(k)
    BY <1>4, <2>1, <2>2
  <2>4. found(m)
    BY <1>4, <2>3 DEF found
  <2> QED
    BY <1>2, <2>4
<1> QED
  BY <1>6, <1>8, <1>9
-----------------------------------------------------------------------------
\* The walk, step by step.
IsPath(p) == \E S : p \in Seq(S)
Start(bytes, index, n) ==
    [current |-> Merkle!LeafHash(bytes), index |-> index, remaining |-> n - 1]
WalkTo(f, start, path, k) ==
    f = [i \in 0 .. k |-> IF i = 0 THEN start ELSE Merkle!WalkStep(f[i - 1], path[i])]
Walk(bytes, index, n, path) == CHOOSE f : WalkTo(f, Start(bytes, index, n), path, Len(path))

LEMMA WalkExists ==
    ASSUME NEW start, NEW path, NEW k \in Nat PROVE \E f : WalkTo(f, start, path, k)
<1> DEFINE missing == {m \in Nat : ~\E f : WalkTo(f, start, path, m)}
<1>1. SUFFICES ASSUME missing # {} PROVE FALSE
  OBVIOUS
<1>2. PICK m \in missing : \A j \in missing : m <= j
  BY <1>1, LeastNumber
<1>3. CASE m = 0
  <2>1. WalkTo([i \in 0 .. 0 |-> start], start, path, 0)
    BY DEF WalkTo
  <2> QED
    BY <1>2, <1>3, <2>1
<1>4. CASE m # 0
  <2>1. m - 1 \in Nat /\ m - 1 \notin missing
    BY <1>2, <1>4
  <2>2. PICK f : WalkTo(f, start, path, m - 1)
    BY <2>1
  <2> DEFINE g == [i \in 0 .. m |-> IF i = m THEN Merkle!WalkStep(f[m - 1], path[m]) ELSE f[i]]
  <2>3. \A i \in 0 .. m - 1 : f[i] = IF i = 0 THEN start ELSE Merkle!WalkStep(f[i - 1], path[i])
    BY <2>2 DEF WalkTo
  <2>4. \A i \in 0 .. m : g[i] = IF i = 0 THEN start ELSE Merkle!WalkStep(g[i - 1], path[i])
    BY <1>2, <1>4, <2>3
  <2>5. g = [i \in 0 .. m |-> g[i]]
    OBVIOUS
  <2> HIDE DEF g
  <2>6. WalkTo(g, start, path, m)
    BY <2>4, <2>5 DEF WalkTo
  <2> QED
    BY <1>2, <2>6
<1> QED
  BY <1>3, <1>4

\* The sibling at this position is hashed from the left.
FromLeft(x, n, l) == At(x, l) % 2 = 1 \/ At(x, l) = Last(n, l)

LEMMA WalkStepFields ==
    ASSUME NEW s, NEW sibling
    PROVE  LET next == Merkle!WalkStep(s, sibling) IN
           /\ next.index = s.index \div 2 /\ next.remaining = s.remaining \div 2
           /\ next.current = IF s.index % 2 = 1 \/ s.index = s.remaining
                             THEN Merkle!NodeHash(sibling, s.current)
                             ELSE Merkle!NodeHash(s.current, sibling)
BY DEF Merkle!WalkStep

LEMMA WalkSteps ==
    ASSUME NEW n \in Nat, NEW index \in Nat, index < n, NEW bytes, NEW path, IsPath(path)
    PROVE  LET walk == Walk(bytes, index, n, path) IN
           /\ Merkle!WalkInclusionPath(bytes, index, n, path)
                = IF Len(path) <= MaxHashPathLen /\ At(index, Len(path)) = Last(n, Len(path))
                  THEN walk[Len(path)].current ELSE <<>>
           /\ walk[0].current = Merkle!LeafHash(bytes)
           /\ \A s \in Nat : s < Len(path) =>
                walk[s + 1].current =
                  IF FromLeft(index, n, s) THEN Merkle!NodeHash(path[s + 1], walk[s].current)
                  ELSE Merkle!NodeHash(walk[s].current, path[s + 1])
<1> DEFINE walk == Walk(bytes, index, n, path)
           start == Start(bytes, index, n)
<1>0. Len(path) \in Nat
  BY DEF IsPath
<1>1. WalkTo(walk, start, path, Len(path))
  BY <1>0, WalkExists DEF Walk
<1>2. Merkle!WalkInclusionPath(bytes, index, n, path)
        = IF n # 0 /\ index < n /\ Len(path) <= MaxHashPathLen
             /\ walk[Len(path)].index = walk[Len(path)].remaining
          THEN walk[Len(path)].current ELSE <<>>
  BY DEF Merkle!WalkInclusionPath, Walk, WalkTo, Start
<1> HIDE DEF walk
<1>3. /\ walk[0] = start
      /\ \A s \in Nat : s < Len(path) => walk[s + 1] = Merkle!WalkStep(walk[s], path[s + 1])
  <2>1. \A i \in 0 .. Len(path) :
          walk[i] = IF i = 0 THEN start ELSE Merkle!WalkStep(walk[i - 1], path[i])
    BY <1>1 DEF WalkTo
  <2>2. ASSUME NEW s \in Nat, s < Len(path)
        PROVE  walk[s + 1] = Merkle!WalkStep(walk[s], path[s + 1])
    <3>1. s + 1 \in 0 .. Len(path) /\ s + 1 # 0 /\ (s + 1) - 1 = s
      BY <1>0, <2>2
    <3> QED
      BY <2>1, <3>1
  <2> QED
    BY <1>0, <2>1, <2>2
<1>4. /\ start.current = Merkle!LeafHash(bytes)
      /\ start.index = index /\ start.remaining = n - 1
  BY DEF Start
<1>5. \A s \in Nat : s < Len(path) =>
        /\ walk[s + 1].index = walk[s].index \div 2
        /\ walk[s + 1].remaining = walk[s].remaining \div 2
        /\ walk[s + 1].current =
             IF walk[s].index % 2 = 1 \/ walk[s].index = walk[s].remaining
             THEN Merkle!NodeHash(path[s + 1], walk[s].current)
             ELSE Merkle!NodeHash(walk[s].current, path[s + 1])
  BY <1>3, WalkStepFields
<1> HIDE DEF start
<1> DEFINE Good(s) == walk[s].index = At(index, s) /\ walk[s].remaining = Last(n, s)
           bad == {s \in Nat : s <= Len(path) /\ ~Good(s)}
<1>6. ASSUME bad # {} PROVE FALSE
  <2>1. PICK s \in bad : \A j \in bad : s <= j
    BY <1>6, LeastNumber
  <2>2. s # 0
    BY <1>3, <1>4, <2>1, Positions
  <2>3. s - 1 \in Nat /\ s - 1 < Len(path) /\ (s - 1) + 1 = s /\ Good(s - 1)
    BY <1>0, <2>1, <2>2
  <2>4. walk[s].index = At(index, s - 1) \div 2 /\ walk[s].remaining = Last(n, s - 1) \div 2
    BY <1>5, <2>3
  <2>5. At(index, s) = At(index, s - 1) \div 2 /\ Last(n, s) = Last(n, s - 1) \div 2
    BY <2>3, Positions
  <2> QED
    BY <2>1, <2>4, <2>5
<1>7. \A s \in Nat : s <= Len(path) => Good(s)
  BY <1>6
<1>8. Merkle!WalkInclusionPath(bytes, index, n, path)
        = IF Len(path) <= MaxHashPathLen /\ At(index, Len(path)) = Last(n, Len(path))
          THEN walk[Len(path)].current ELSE <<>>
  BY <1>0, <1>2, <1>7
<1>9. ASSUME NEW s \in Nat, s < Len(path)
      PROVE  walk[s + 1].current =
               IF FromLeft(index, n, s) THEN Merkle!NodeHash(path[s + 1], walk[s].current)
               ELSE Merkle!NodeHash(walk[s].current, path[s + 1])
  BY <1>0, <1>5, <1>7, <1>9 DEF FromLeft
<1> QED
  BY <1>3, <1>4, <1>8, <1>9 DEF walk

\* Once a node is the last of its level, its ancestors are.
LEMMA EdgeStays ==
    ASSUME NEW n \in Nat, NEW x \in Nat, x < n, NEW l \in Nat, At(x, l) = Last(n, l),
           NEW m \in Nat, l <= m
    PROVE  At(x, m) = Last(n, m)
<1> DEFINE bad == {k \in Nat : l <= k /\ At(x, k) # Last(n, k)}
<1>1. SUFFICES ASSUME bad # {} PROVE FALSE
  OBVIOUS
<1>2. PICK k \in bad : \A j \in bad : k <= j
  BY <1>1, LeastNumber
<1>3. k # l
  BY <1>2
<1>4. k - 1 \in Nat /\ l <= k - 1 /\ (k - 1) + 1 = k /\ k - 1 \notin bad
  BY <1>2, <1>3
<1>5. At(x, k) = At(x, k - 1) \div 2 /\ Last(n, k) = Last(n, k - 1) \div 2
  BY <1>4, Positions
<1> QED
  BY <1>2, <1>4, <1>5

-----------------------------------------------------------------------------
\* The path of leaf m, up to level l.
PathTo(m, n, l) == Paths(m, n)[Span(n, l, At(m, l))]
Sibling(m, n, l) ==
    IF At(m, l) % 2 = 1 THEN NodeAt(n, l, At(m, l) - 1) ELSE NodeAt(n, l, At(m, l) + 1)
Promoted(m, n, l) == At(m, l) % 2 = 0 /\ At(m, l) = Last(n, l)

LEMMA PathLevels ==
    ASSUME NEW n \in Nat, NEW m \in Nat, m < n
    PROVE  /\ PathTo(m, n, 0) = <<>>
           /\ Merkle!InclusionPath(m, n) = PathTo(m, n, n)
           /\ \A l \in Nat :
                PathTo(m, n, l + 1) = IF Promoted(m, n, l) THEN PathTo(m, n, l)
                                      ELSE Append(PathTo(m, n, l), Sibling(m, n, l))
<1>1. PathTo(m, n, 0) = <<>>
  <2>1. At(m, 0) = m /\ Span(n, 0, m) = <<m, m + 1>> /\ Span(n, 0, m) \in Spans(n)
    BY LeafSpan, Positions
  <2>2. PathOf(Paths(m, n), m, n, <<m, m + 1>>) = <<>>
    BY DEF PathOf
  <2> QED
    BY <2>1, <2>2, PathNodes DEF PathTo
<1>2. Merkle!InclusionPath(m, n) = PathTo(m, n, n)
  BY PathNodes, Positions, RootIsTop DEF PathTo
<1>3. ASSUME NEW l \in Nat
      PROVE  PathTo(m, n, l + 1) = IF Promoted(m, n, l) THEN PathTo(m, n, l)
                                   ELSE Append(PathTo(m, n, l), Sibling(m, n, l))
  <2> DEFINE a == At(m, l)
             i == At(m, l + 1)
             last == Last(n, l)
             r == Span(n, l + 1, i)
  <2>0. /\ At(m, l) \in Nat /\ Last(n, l) \in Nat /\ At(m, l) <= Last(n, l)
        /\ At(m, l + 1) = At(m, l) \div 2
        /\ Quotient(m, l, At(m, l)) /\ Quotient(n - 1, l, Last(n, l))
    <3>1. At(m, l) \in Nat /\ Last(n, l) \in Nat /\ At(m, l) <= Last(n, l)
      BY Positions
    <3>2. At(m, l + 1) = At(m, l) \div 2
      BY Positions
    <3>3. Quotient(m, l, At(m, l)) /\ Quotient(n - 1, l, Last(n, l))
      BY Positions
    <3> QED
      BY <3>1, <3>2, <3>3
  <2>1. /\ a \in Nat /\ last \in Nat /\ a <= last /\ i = a \div 2
        /\ Quotient(m, l, a) /\ Quotient(n - 1, l, last)
    BY <2>0
  <2> HIDE DEF a, i, last, r
  <2>2. i \in Nat /\ (a = 2 * i \/ a = 2 * i + 1) /\ (a % 2 = 1 <=> a = 2 * i + 1)
        /\ (a % 2 = 0 <=> a = 2 * i)
    BY <2>1
  <2>3. CASE 2 * i + 1 <= last
    <3>1. /\ r \in Spans(n) /\ r[1] + 1 < r[2] /\ Mid(r) = (2 * i + 1) * Power(l)
          /\ Lower(r) = Span(n, l, 2 * i) /\ Upper(r) = Span(n, l, 2 * i + 1)
      BY <2>1, <2>2, <2>3, PairSpan DEF r
    <3>2. r[1] \in Nat /\ r[2] \in Nat
      BY <3>1 DEF Spans
    <3>3. Paths(m, n)[r] = PathOf(Paths(m, n), m, n, r)
      BY <3>1, PathNodes
    <3>4. PathOf(Paths(m, n), m, n, r) =
            IF m < Mid(r) THEN Append(Paths(m, n)[Lower(r)], Merkle!Tree(n)[Upper(r)])
            ELSE Append(Paths(m, n)[Upper(r)], Merkle!Tree(n)[Lower(r)])
      BY <3>1, <3>2 DEF PathOf
    <3>5. 2 * i + 1 <= a <=> (2 * i + 1) * Power(l) <= m
      BY <2>1, <2>2, QuotientOrder
    <3>6. (2 * i + 1) * Power(l) \in Nat
      BY <2>2, Powers
    <3>7. m < Mid(r) <=> a = 2 * i
      BY <2>2, <3>1, <3>5, <3>6
    <3>8. PathTo(m, n, l + 1) =
            IF a = 2 * i THEN Append(Paths(m, n)[Span(n, l, 2 * i)], NodeAt(n, l, 2 * i + 1))
            ELSE Append(Paths(m, n)[Span(n, l, 2 * i + 1)], NodeAt(n, l, 2 * i))
      BY <3>1, <3>3, <3>4, <3>7 DEF PathTo, NodeAt, r, i
    <3>9. ~Promoted(m, n, l)
      BY <2>1, <2>2, <2>3 DEF Promoted, a, last
    <3>10. CASE a = 2 * i
      BY <2>2, <3>8, <3>9, <3>10 DEF PathTo, Sibling, a
    <3>11. CASE a = 2 * i + 1
      <4>1. a - 1 = 2 * i /\ a # 2 * i
        BY <2>2, <3>11
      <4> QED
        BY <2>2, <3>8, <3>9, <3>11, <4>1 DEF PathTo, Sibling, a
    <3> QED
      BY <2>2, <3>10, <3>11
  <2>4. CASE ~(2 * i + 1 <= last)
    <3>1. a = 2 * i /\ last = 2 * i
      BY <2>1, <2>2, <2>4
    <3>2. Span(n, l + 1, i) = Span(n, l, 2 * i)
      BY <2>1, <2>2, <3>1, PromotedSpan
    <3>3. Promoted(m, n, l)
      BY <2>2, <3>1 DEF Promoted, a, last
    <3> QED
      BY <3>1, <3>2, <3>3 DEF PathTo, a, i
  <2> QED
    BY <2>3, <2>4
<1> QED
  BY <1>1, <1>2, <1>3

LEMMA Appended ==
    ASSUME NEW p, IsPath(p), NEW x
    PROVE  /\ IsPath(Append(p, x)) /\ Len(p) \in Nat /\ Len(Append(p, x)) = Len(p) + 1
           /\ Append(p, x)[Len(p) + 1] = x
           /\ \A i \in 1 .. Len(p) : Append(p, x)[i] = p[i]
<1>1. PICK S : p \in Seq(S)
  BY DEF IsPath
<1>2. p \in Seq(S \cup {x}) /\ x \in S \cup {x}
  BY <1>1
<1>3. Append(p, x) \in Seq(S \cup {x})
  BY <1>2
<1> QED
  BY <1>1, <1>2, <1>3 DEF IsPath

LEMMA PathLengths ==
    ASSUME NEW n \in Nat, NEW m \in Nat, m < n
    PROVE  \A l \in Nat : IsPath(PathTo(m, n, l)) /\ Len(PathTo(m, n, l)) \in 0 .. l
<1> DEFINE Good(l) == IsPath(PathTo(m, n, l)) /\ Len(PathTo(m, n, l)) \in 0 .. l
           bad == {l \in Nat : ~Good(l)}
<1>1. SUFFICES ASSUME bad # {} PROVE FALSE
  OBVIOUS
<1>2. PICK l \in bad : \A j \in bad : l <= j
  BY <1>1, LeastNumber
<1>3. l # 0
  <2>1. PathTo(m, n, 0) = <<>>
    BY PathLevels
  <2>2. IsPath(<<>>) /\ Len(<<>>) = 0
    BY DEF IsPath
  <2>3. Good(0)
    BY <2>1, <2>2
  <2> QED
    BY <1>2, <2>3
<1>4. l - 1 \in Nat /\ (l - 1) + 1 = l /\ Good(l - 1)
  BY <1>2, <1>3
<1>5. \/ PathTo(m, n, l) = PathTo(m, n, l - 1)
      \/ PathTo(m, n, l) = Append(PathTo(m, n, l - 1), Sibling(m, n, l - 1))
  <2>1. \A h \in Nat :
          PathTo(m, n, h + 1) = IF Promoted(m, n, h) THEN PathTo(m, n, h)
                                ELSE Append(PathTo(m, n, h), Sibling(m, n, h))
    BY PathLevels
  <2>2. PathTo(m, n, (l - 1) + 1) = IF Promoted(m, n, l - 1) THEN PathTo(m, n, l - 1)
                                    ELSE Append(PathTo(m, n, l - 1), Sibling(m, n, l - 1))
    BY <1>4, <2>1
  <2> QED
    BY <1>4, <2>2
<1>6. Good(l)
  <2>1. CASE PathTo(m, n, l) = PathTo(m, n, l - 1)
    BY <1>4, <2>1
  <2>2. CASE PathTo(m, n, l) = Append(PathTo(m, n, l - 1), Sibling(m, n, l - 1))
    BY <1>4, <2>2, Appended
  <2> QED
    BY <1>5, <2>1, <2>2
<1> QED
  BY <1>2, <1>6

\* A path is extended, never changed, from level to level.
LEMMA PathExtends ==
    ASSUME NEW n \in Nat, NEW m \in Nat, m < n, NEW l \in Nat, NEW k \in Nat, l <= k
    PROVE  /\ Len(PathTo(m, n, l)) <= Len(PathTo(m, n, k))
           /\ \A i \in 1 .. Len(PathTo(m, n, l)) : PathTo(m, n, k)[i] = PathTo(m, n, l)[i]
<1> DEFINE Good(j) == /\ Len(PathTo(m, n, l)) <= Len(PathTo(m, n, j))
                      /\ \A i \in 1 .. Len(PathTo(m, n, l)) :
                           PathTo(m, n, j)[i] = PathTo(m, n, l)[i]
           bad == {j \in Nat : l <= j /\ ~Good(j)}
<1>0. ASSUME NEW j \in Nat PROVE IsPath(PathTo(m, n, j)) /\ Len(PathTo(m, n, j)) \in Nat
  <2>1. IsPath(PathTo(m, n, j)) /\ Len(PathTo(m, n, j)) \in 0 .. j
    BY PathLengths
  <2> QED
    BY <2>1
<1>1. SUFFICES ASSUME bad # {} PROVE FALSE
  OBVIOUS
<1>2. PICK j \in bad : \A h \in bad : j <= h
  BY <1>1, LeastNumber
<1>3. j # l
  BY <1>0, <1>2
<1>4. j - 1 \in Nat /\ (j - 1) + 1 = j /\ Good(j - 1)
  BY <1>2, <1>3
<1>5. \/ PathTo(m, n, j) = PathTo(m, n, j - 1)
      \/ PathTo(m, n, j) = Append(PathTo(m, n, j - 1), Sibling(m, n, j - 1))
  <2>1. \A h \in Nat :
          PathTo(m, n, h + 1) = IF Promoted(m, n, h) THEN PathTo(m, n, h)
                                ELSE Append(PathTo(m, n, h), Sibling(m, n, h))
    BY PathLevels
  <2>2. PathTo(m, n, (j - 1) + 1) = IF Promoted(m, n, j - 1) THEN PathTo(m, n, j - 1)
                                    ELSE Append(PathTo(m, n, j - 1), Sibling(m, n, j - 1))
    BY <1>4, <2>1
  <2> QED
    BY <1>4, <2>2
<1>6. Good(j)
  <2>1. CASE PathTo(m, n, j) = PathTo(m, n, j - 1)
    BY <1>4, <2>1
  <2>2. CASE PathTo(m, n, j) = Append(PathTo(m, n, j - 1), Sibling(m, n, j - 1))
    <3> DEFINE p == PathTo(m, n, j - 1)
               x == Sibling(m, n, j - 1)
               low == PathTo(m, n, l)
    <3>1. IsPath(p) /\ Len(p) \in Nat /\ Len(low) \in Nat
      BY <1>0, <1>4
    <3>2. Len(low) <= Len(p) /\ \A i \in 1 .. Len(low) : p[i] = low[i]
      BY <1>4
    <3> HIDE DEF p, x
    <3>3. Len(Append(p, x)) = Len(p) + 1 /\ \A i \in 1 .. Len(p) : Append(p, x)[i] = p[i]
      BY <3>1, Appended
    <3>4. PathTo(m, n, j) = Append(p, x)
      BY <2>2 DEF p, x
    <3>5. Len(low) <= Len(Append(p, x))
      BY <3>1, <3>2, <3>3
    <3>6. \A i \in 1 .. Len(low) : Append(p, x)[i] = low[i]
      BY <3>1, <3>2, <3>3
    <3> QED
      BY <3>4, <3>5, <3>6
  <2> QED
    BY <1>5, <2>1, <2>2
<1> QED
  BY <1>2, <1>6

LEMMA PathPrefix ==
    ASSUME NEW n \in Nat, NEW m \in Nat, m < n, NEW k \in Nat, k <= n,
           NEW j \in 1 .. Len(PathTo(m, n, k))
    PROVE  PathTo(m, n, n)[j] = PathTo(m, n, k)[j]
<1>1. \A i \in 1 .. Len(PathTo(m, n, k)) : PathTo(m, n, n)[i] = PathTo(m, n, k)[i]
  BY PathExtends
<1> QED
  BY <1>1

\* On the way up, the walk along the path of leaf m is at the ancestors of m.
Climbed(m, n, walk, l) ==
    LET s == Len(PathTo(m, n, l)) IN
    /\ walk[s].current = NodeAt(n, l, At(m, l))
    /\ At(m, l) # Last(n, l) => s = l
    /\ At(m, l) = Last(n, l) => At(m, s) = Last(n, s)

LEMMA WalkClimbs ==
    ASSUME NEW n \in Nat, NEW m \in Nat, m < n
    PROVE  \A l \in 0 .. n :
             Climbed(m, n, Walk(<<m>>, m, n, Merkle!InclusionPath(m, n)), l)
<1> DEFINE path == Merkle!InclusionPath(m, n)
           walk == Walk(<<m>>, m, n, path)
           bad == {l \in Nat : l <= n /\ ~Climbed(m, n, walk, l)}
<1>1. path = PathTo(m, n, n) /\ IsPath(path) /\ Len(path) \in Nat
  <2>1. path = PathTo(m, n, n)
    BY PathLevels
  <2>2. IsPath(PathTo(m, n, n)) /\ Len(PathTo(m, n, n)) \in 0 .. n
    BY PathLengths
  <2> QED
    BY <2>1, <2>2
<1>2. /\ walk[0].current = Merkle!LeafHash(<<m>>)
      /\ \A s \in Nat : s < Len(path) =>
           walk[s + 1].current =
             IF FromLeft(m, n, s) THEN Merkle!NodeHash(path[s + 1], walk[s].current)
             ELSE Merkle!NodeHash(walk[s].current, path[s + 1])
  BY <1>1, WalkSteps
<1> HIDE DEF walk
<1>3. SUFFICES ASSUME bad # {} PROVE FALSE
  BY DEF walk
<1>4. PICK k \in bad : \A j \in bad : k <= j
  BY <1>3, LeastNumber
<1>5. Climbed(m, n, walk, 0)
  <2>1. At(m, 0) = m /\ PathTo(m, n, 0) = <<>> /\ Len(<<>>) = 0
    BY PathLevels, Positions
  <2>2. NodeAt(n, 0, m) = Merkle!LeafHash(<<m>>)
    BY LeafSpan
  <2> QED
    BY <1>2, <2>1, <2>2 DEF Climbed
<1>6. k # 0
  BY <1>4, <1>5
<1> DEFINE l == k - 1
           s == Len(PathTo(m, n, l))
           a == At(m, l)
           last == Last(n, l)
<1>7. l \in Nat /\ l + 1 = k /\ l <= n /\ Climbed(m, n, walk, l)
  BY <1>4, <1>6
<1>8. /\ a \in Nat /\ last \in Nat /\ a <= last
      /\ At(m, k) = a \div 2 /\ Last(n, k) = last \div 2 /\ Quotient(n - 1, l, last)
  <2>1. a \in Nat /\ last \in Nat /\ a <= last
    BY <1>7, Positions
  <2>2. At(m, k) = a \div 2 /\ Last(n, k) = last \div 2
    BY <1>7, Positions
  <2>3. Quotient(n - 1, l, last)
    BY <1>7, Positions
  <2> QED
    BY <2>1, <2>2, <2>3
<1>9. s \in Nat /\ IsPath(PathTo(m, n, l))
  BY <1>7, PathLengths
<1>10. /\ walk[s].current = NodeAt(n, l, a)
       /\ a # last => s = l
       /\ a = last => At(m, s) = Last(n, s)
  BY <1>7 DEF Climbed
<1>11. PathTo(m, n, k) = IF Promoted(m, n, l) THEN PathTo(m, n, l)
                         ELSE Append(PathTo(m, n, l), Sibling(m, n, l))
  <2>1. \A h \in Nat :
          PathTo(m, n, h + 1) = IF Promoted(m, n, h) THEN PathTo(m, n, h)
                                ELSE Append(PathTo(m, n, h), Sibling(m, n, h))
    BY PathLevels
  <2>2. PathTo(m, n, l + 1) = IF Promoted(m, n, l) THEN PathTo(m, n, l)
                              ELSE Append(PathTo(m, n, l), Sibling(m, n, l))
    BY <1>7, <2>1
  <2> QED
    BY <1>7, <2>2
<1> DEFINE i == At(m, k)
<1>12. i \in Nat /\ (a = 2 * i \/ a = 2 * i + 1) /\ (a % 2 = 1 <=> a = 2 * i + 1)
       /\ (a % 2 = 0 <=> a = 2 * i)
  BY <1>8
<1>13. /\ 2 * i + 1 <= last =>
            NodeAt(n, k, i) = Merkle!NodeHash(NodeAt(n, l, 2 * i), NodeAt(n, l, 2 * i + 1))
       /\ 2 * i = last => NodeAt(n, k, i) = NodeAt(n, l, 2 * i)
  <2> HIDE DEF i, l, last
  <2>1. n > 0
    OBVIOUS
  <2>2. /\ 2 * i + 1 <= last =>
             NodeAt(n, l + 1, i) = Merkle!NodeHash(NodeAt(n, l, 2 * i), NodeAt(n, l, 2 * i + 1))
        /\ 2 * i = last => NodeAt(n, l + 1, i) = NodeAt(n, l, 2 * i)
    BY <1>7, <1>8, <1>12, <2>1, NodeSteps
  <2> QED
    BY <1>7, <2>2
<1> HIDE DEF l, i
<1>14. CASE Promoted(m, n, l)
  <2>1. a = 2 * i /\ a = last
    BY <1>12, <1>14 DEF Promoted
  <2>2. i = Last(n, k)
    BY <1>8, <2>1 DEF i
  <2>3. PathTo(m, n, k) = PathTo(m, n, l)
    BY <1>11, <1>14
  <2>4. Climbed(m, n, walk, k)
    BY <1>10, <1>13, <2>1, <2>2, <2>3 DEF Climbed, i
  <2> QED
    BY <1>4, <2>4
<1>15. CASE ~Promoted(m, n, l)
  <2>1. 2 * i + 1 <= last
    BY <1>8, <1>12, <1>15 DEF Promoted
  <2>2. /\ Len(PathTo(m, n, k)) = s + 1
        /\ PathTo(m, n, k)[s + 1] = Sibling(m, n, l)
    BY <1>9, <1>11, <1>15, Appended
  <2>3. s + 1 <= Len(path) /\ path[s + 1] = Sibling(m, n, l)
    <3>1. k \in Nat /\ k <= n
      BY <1>4
    <3>2. Len(PathTo(m, n, k)) <= Len(PathTo(m, n, n))
      BY <3>1, PathExtends
    <3>3. s + 1 \in 1 .. Len(PathTo(m, n, k))
      BY <1>9, <2>2
    <3>4. PathTo(m, n, n)[s + 1] = PathTo(m, n, k)[s + 1]
      BY <3>1, <3>3, PathPrefix
    <3> QED
      BY <1>1, <2>2, <3>2, <3>3, <3>4
  <2>4. FromLeft(m, n, s) <=> a = 2 * i + 1
    <3>1. CASE a = last
      <4>1. a = 2 * i + 1
        BY <1>12, <2>1, <3>1
      <4> QED
        BY <1>10, <3>1, <4>1 DEF FromLeft
    <3>2. CASE a # last
      BY <1>10, <1>12, <3>2 DEF FromLeft
    <3> QED
      BY <3>1, <3>2
  <2>5. Sibling(m, n, l) = IF a = 2 * i + 1 THEN NodeAt(n, l, 2 * i) ELSE NodeAt(n, l, 2 * i + 1)
    <3>1. a = 2 * i + 1 => a - 1 = 2 * i
      BY <1>12
    <3> QED
      BY <1>12, <3>1 DEF Sibling
  <2>6. s < Len(path)
    BY <1>1, <1>9, <2>3
  <2>7. walk[s + 1].current = NodeAt(n, k, i)
    <3>1. CASE a = 2 * i + 1
      BY <1>2, <1>9, <1>10, <1>13, <2>1, <2>3, <2>4, <2>5, <2>6, <3>1
    <3>2. CASE a # 2 * i + 1
      BY <1>2, <1>9, <1>10, <1>12, <1>13, <2>1, <2>3, <2>4, <2>5, <2>6, <3>2
    <3> QED
      BY <3>1, <3>2
  <2>8. i # Last(n, k) => s + 1 = k
    <3>1. a = last => i = Last(n, k)
      BY <1>8 DEF i
    <3> QED
      BY <1>7, <1>10, <3>1
  <2>9. i = Last(n, k) => At(m, s + 1) = Last(n, s + 1)
    <3>1. CASE a = last
      BY <1>9, <1>10, <3>1, EdgeStays
    <3>2. CASE a # last
      BY <1>7, <1>10, <3>2 DEF i
    <3> QED
      BY <3>1, <3>2
  <2>10. Climbed(m, n, walk, k)
    BY <2>2, <2>7, <2>8, <2>9 DEF Climbed, i
  <2> QED
    BY <1>4, <2>10
<1> QED
  BY <1>14, <1>15

-----------------------------------------------------------------------------
\* What any accepted path makes of the tree.
Climbs(walk, bytes, path, m, n) ==
    /\ walk[0].current = Merkle!LeafHash(bytes)
    /\ \A s \in Nat : s < Len(path) =>
         walk[s + 1].current =
           IF FromLeft(m, n, s) THEN Merkle!NodeHash(path[s + 1], walk[s].current)
           ELSE Merkle!NodeHash(walk[s].current, path[s + 1])

\* A node that is not the last of its level is met only on its own level.
OwnLevel(walk, n, s) ==
    \A l, i \in Nat : i < Last(n, l) /\ walk[s].current = NodeAt(n, l, i) => l = s

LEMMA Depth ==
    ASSUME NEW n \in Nat, n > 0, NEW m, NEW bytes, NEW path, Len(path) \in Nat,
           NEW walk, Climbs(walk, bytes, path, m, n)
    PROVE  \A s \in Nat : s <= Len(path) => OwnLevel(walk, n, s)
<1> DEFINE bad == {s \in Nat : s <= Len(path) /\ ~OwnLevel(walk, n, s)}
<1>1. SUFFICES ASSUME bad # {} PROVE FALSE
  OBVIOUS
<1>2. PICK s \in bad : \A j \in bad : s <= j
  BY <1>1, LeastNumber
<1>3. PICK l \in Nat, i \in Nat :
        i < Last(n, l) /\ walk[s].current = NodeAt(n, l, i) /\ l # s
  BY <1>2 DEF OwnLevel
<1>4. ASSUME l # 0
      PROVE  /\ l - 1 \in Nat /\ (l - 1) + 1 = l
             /\ 2 * i + 1 < Last(n, l - 1)
             /\ NodeAt(n, l, i) =
                  Merkle!NodeHash(NodeAt(n, l - 1, 2 * i), NodeAt(n, l - 1, 2 * i + 1))
  <2>1. l - 1 \in Nat /\ (l - 1) + 1 = l
    BY <1>3, <1>4
  <2>2. i < Last(n, (l - 1) + 1)
    BY <1>3, <2>1
  <2> QED
    BY <2>1, <2>2, InnerNode
<1>5. CASE s = 0
  <2>1. l # 0 /\ walk[0].current = Merkle!LeafHash(bytes)
    BY <1>3, <1>5 DEF Climbs
  <2> QED
    BY <1>3, <1>4, <1>5, <2>1, HashesDiffer
<1>6. CASE s # 0
  <2>1. s - 1 \in Nat /\ s - 1 < Len(path) /\ s - 1 <= Len(path) /\ (s - 1) + 1 = s
    BY <1>2, <1>6
  <2>2. OwnLevel(walk, n, s - 1)
    BY <1>2, <2>1
  <2>3. walk[(s - 1) + 1].current =
          IF FromLeft(m, n, s - 1)
          THEN Merkle!NodeHash(path[(s - 1) + 1], walk[s - 1].current)
          ELSE Merkle!NodeHash(walk[s - 1].current, path[(s - 1) + 1])
    BY <2>1 DEF Climbs
  <2>4. l # 0
    <3> SUFFICES ASSUME l = 0 PROVE FALSE
      OBVIOUS
    <3>1. Last(n, 0) = n - 1
      BY Positions
    <3>2. i < n
      BY <1>3, <3>1
    <3>3. NodeAt(n, 0, i) = Merkle!LeafHash(<<i>>)
      BY <3>2, LeafSpan
    <3> QED
      BY <1>3, <2>1, <2>3, <3>3, HashesDiffer
  <2>5. \/ walk[s - 1].current = NodeAt(n, l - 1, 2 * i)
        \/ walk[s - 1].current = NodeAt(n, l - 1, 2 * i + 1)
    BY <1>3, <1>4, <2>1, <2>3, <2>4, HashesDiffer
  <2>6. 2 * i \in Nat /\ 2 * i + 1 \in Nat /\ l - 1 \in Nat /\ Last(n, l - 1) \in Nat
    BY <1>4, <2>4, Positions
  <2>7. 2 * i < Last(n, l - 1) /\ 2 * i + 1 < Last(n, l - 1)
    BY <1>4, <2>4, <2>6
  <2>8. l - 1 = s - 1
    BY <2>2, <2>5, <2>6, <2>7 DEF OwnLevel
  <2> QED
    BY <1>2, <1>3, <2>8
<1> QED
  BY <1>5, <1>6

\* Where a leaf first is the last node of its level: it came there from the left.
LEMMA Fork ==
    ASSUME NEW n \in Nat, NEW m \in Nat, m < n, NEW k \in Nat, k # 0,
           At(m, k) = Last(n, k), At(m, k - 1) # Last(n, k - 1)
    PROVE  /\ At(m, k - 1) % 2 = 0 /\ At(m, k - 1) = Last(n, k - 1) - 1
           /\ ~FromLeft(m, n, k - 1) /\ Last(n, k - 1) > 0
           /\ Sibling(m, n, k - 1) = NodeAt(n, k - 1, Last(n, k - 1))
<1> DEFINE a == At(m, k - 1)
           last == Last(n, k - 1)
<1>1. k - 1 \in Nat /\ (k - 1) + 1 = k
  OBVIOUS
<1>2. a \in Nat /\ last \in Nat /\ a <= last
  BY <1>1, Positions
<1>3. At(m, (k - 1) + 1) = a \div 2 /\ Last(n, (k - 1) + 1) = last \div 2
  BY <1>1, Positions
<1>4. a \div 2 = last \div 2 /\ a # last
  BY <1>1, <1>3
<1> HIDE DEF a, last
<1>5. a % 2 = 0 /\ last = a + 1
  BY <1>2, <1>4
<1>6. a % 2 = 0 /\ a % 2 # 1 /\ a = last - 1 /\ last > 0 /\ a + 1 = last
  BY <1>2, <1>5
<1> QED
  BY <1>4, <1>6 DEF FromLeft, Sibling, a, last

LEMMA LeastEdge ==
    ASSUME NEW n \in Nat, NEW m \in Nat, m < n
    PROVE  \E k \in Nat : /\ At(m, k) = Last(n, k)
                          /\ k # 0 => At(m, k - 1) # Last(n, k - 1)
                          /\ \A j \in Nat : At(m, j) = Last(n, j) <=> k <= j
<1> DEFINE edges == {j \in Nat : At(m, j) = Last(n, j)}
<1>1. n \in edges
  BY Positions
<1>2. PICK k \in edges : \A j \in edges : k <= j
  BY <1>1, LeastNumber
<1>3. \A j \in Nat : At(m, j) = Last(n, j) <=> k <= j
  <2> SUFFICES ASSUME NEW j \in Nat, k <= j PROVE At(m, j) = Last(n, j)
    BY <1>2
  <2> QED
    BY <1>2, EdgeStays
<1>4. ASSUME k # 0 PROVE At(m, k - 1) # Last(n, k - 1)
  <2>1. k - 1 \in Nat /\ ~(k <= k - 1)
    BY <1>2, <1>4
  <2> QED
    BY <1>3, <2>1
<1> QED
  BY <1>2, <1>3, <1>4

\* From there on, the walk is at no last node of a level below.
LEMMA EdgeDepth ==
    ASSUME NEW n \in Nat, NEW m \in Nat, m < n, NEW bytes, NEW path, Len(path) \in Nat,
           NEW walk, Climbs(walk, bytes, path, m, n),
           NEW k \in Nat, k # 0, At(m, k) = Last(n, k), At(m, k - 1) # Last(n, k - 1)
    PROVE  \A e \in Nat : k <= e /\ e <= Len(path) =>
             \A l \in Nat : walk[e].current = NodeAt(n, l, Last(n, l)) => k <= l
<1> DEFINE Good(e) == \A l \in Nat : walk[e].current = NodeAt(n, l, Last(n, l)) => k <= l
           bad == {e \in Nat : k <= e /\ e <= Len(path) /\ ~Good(e)}
<1>0. n > 0
  OBVIOUS
<1>1. SUFFICES ASSUME bad # {} PROVE FALSE
  OBVIOUS
<1>2. PICK e \in bad : \A j \in bad : e <= j
  BY <1>1, LeastNumber
<1>3. PICK l \in Nat : walk[e].current = NodeAt(n, l, Last(n, l)) /\ ~(k <= l)
  BY <1>2
<1>4. e - 1 \in Nat /\ e - 1 < Len(path) /\ (e - 1) + 1 = e /\ e - 1 <= Len(path)
  BY <1>2
<1>5. walk[e].current =
        IF FromLeft(m, n, e - 1) THEN Merkle!NodeHash(path[e], walk[e - 1].current)
        ELSE Merkle!NodeHash(walk[e - 1].current, path[e])
  <2>1. walk[(e - 1) + 1].current =
          IF FromLeft(m, n, e - 1)
          THEN Merkle!NodeHash(path[(e - 1) + 1], walk[e - 1].current)
          ELSE Merkle!NodeHash(walk[e - 1].current, path[(e - 1) + 1])
    BY <1>4 DEF Climbs
  <2> QED
    BY <1>4, <2>1
<1>6. CASE e = k
  <2>1. NodeAt(n, l, Last(n, l)) = Merkle!NodeHash(walk[e - 1].current, path[e])
    BY <1>3, <1>5, <1>6, Fork
  <2>2. PICK h \in Nat : /\ h < l /\ Last(n, h) > 0
                         /\ walk[e - 1].current = NodeAt(n, h, Last(n, h) - 1)
                         /\ path[e] = NodeAt(n, h, Last(n, h))
    BY <1>0, <2>1, EdgeNode
  <2>3. Last(n, h) \in Nat
    BY Positions
  <2>4. Last(n, h) - 1 \in Nat /\ Last(n, h) - 1 < Last(n, h)
    BY <2>2, <2>3
  <2>5. OwnLevel(walk, n, e - 1)
    BY <1>0, <1>4, Depth
  <2>6. h = e - 1
    BY <2>2, <2>4, <2>5 DEF OwnLevel
  <2> QED
    BY <1>2, <1>3, <1>6, <2>2, <2>6
<1>7. CASE e # k
  <2>1. k <= e - 1 /\ Good(e - 1)
    BY <1>2, <1>4, <1>7
  <2>2. At(m, e - 1) = Last(n, e - 1)
    BY <1>4, <2>1, EdgeStays
  <2>3. NodeAt(n, l, Last(n, l)) = Merkle!NodeHash(path[e], walk[e - 1].current)
    BY <1>3, <1>5, <2>2 DEF FromLeft
  <2>4. PICK h \in Nat : /\ h < l /\ Last(n, h) > 0
                         /\ path[e] = NodeAt(n, h, Last(n, h) - 1)
                         /\ walk[e - 1].current = NodeAt(n, h, Last(n, h))
    BY <1>0, <2>3, EdgeNode
  <2>5. k <= h
    BY <2>1, <2>4
  <2> QED
    BY <1>3, <2>4, <2>5
<1> QED
  BY <1>6, <1>7

\* What stands on the path of a leaf.
LEMMA SiblingAt ==
    ASSUME NEW n \in Nat, NEW m \in Nat, m < n,
           NEW s \in Nat, s # 0, s <= Len(PathTo(m, n, n))
    PROVE  \E l \in Nat : /\ s - 1 <= l /\ Len(PathTo(m, n, l)) = s - 1
                          /\ ~Promoted(m, n, l)
                          /\ PathTo(m, n, n)[s] = Sibling(m, n, l)
<1> DEFINE long == {l \in Nat : l <= n /\ s <= Len(PathTo(m, n, l))}
<1>1. n \in long
  OBVIOUS
<1>2. PICK k \in long : \A j \in long : k <= j
  BY <1>1, LeastNumber
<1>3. k # 0
  <2>1. PathTo(m, n, 0) = <<>> /\ Len(<<>>) = 0
    BY PathLevels
  <2> QED
    BY <1>2, <2>1
<1> DEFINE l == k - 1
<1>4. l \in Nat /\ l + 1 = k /\ l <= n /\ l \notin long
  BY <1>2, <1>3
<1> HIDE DEF l
<1>5. IsPath(PathTo(m, n, l)) /\ Len(PathTo(m, n, l)) \in 0 .. l
  BY <1>4, PathLengths
<1>6. PathTo(m, n, k) = IF Promoted(m, n, l) THEN PathTo(m, n, l)
                        ELSE Append(PathTo(m, n, l), Sibling(m, n, l))
  <2>1. \A h \in Nat :
          PathTo(m, n, h + 1) = IF Promoted(m, n, h) THEN PathTo(m, n, h)
                                ELSE Append(PathTo(m, n, h), Sibling(m, n, h))
    BY PathLevels
  <2>2. PathTo(m, n, l + 1) = IF Promoted(m, n, l) THEN PathTo(m, n, l)
                              ELSE Append(PathTo(m, n, l), Sibling(m, n, l))
    BY <1>4, <2>1
  <2> QED
    BY <1>4, <2>2
<1>7. Len(PathTo(m, n, l)) < s
  BY <1>4, <1>5
<1>8. ~Promoted(m, n, l)
  BY <1>2, <1>5, <1>6, <1>7
<1>9. /\ Len(PathTo(m, n, k)) = Len(PathTo(m, n, l)) + 1
      /\ PathTo(m, n, k)[Len(PathTo(m, n, l)) + 1] = Sibling(m, n, l)
  BY <1>5, <1>6, <1>8, Appended
<1>10. s <= Len(PathTo(m, n, k))
  BY <1>2
<1>11. Len(PathTo(m, n, l)) = s - 1 /\ s = Len(PathTo(m, n, l)) + 1
  BY <1>5, <1>7, <1>9, <1>10
<1>12. PathTo(m, n, n)[s] = PathTo(m, n, k)[s]
  <2>1. k \in Nat /\ k <= n
    BY <1>2
  <2>2. s \in 1 .. Len(PathTo(m, n, k))
    BY <1>5, <1>9, <1>11
  <2> QED
    BY <2>1, <2>2, PathPrefix
<1> QED
  BY <1>4, <1>5, <1>8, <1>9, <1>11, <1>12

\* Two walks of one position that end alike agree from the end back to the edge.
LEMMA Aligned ==
    ASSUME NEW n \in Nat, NEW m \in Nat, m < n, NEW k \in Nat, At(m, k) = Last(n, k),
           NEW b, NEW p, NEW w, Len(p) \in Nat, Climbs(w, b, p, m, n),
           NEW c, NEW q, NEW v, Len(q) \in Nat, Climbs(v, c, q, m, n),
           w[Len(p)].current = v[Len(q)].current
    PROVE  \A d \in Nat : k + d <= Len(p) /\ k + d <= Len(q) =>
             w[Len(p) - d].current = v[Len(q) - d].current
<1> DEFINE bad == {d \in Nat : /\ k + d <= Len(p) /\ k + d <= Len(q)
                               /\ w[Len(p) - d].current # v[Len(q) - d].current}
<1>1. SUFFICES ASSUME bad # {} PROVE FALSE
  OBVIOUS
<1>2. PICK d \in bad : \A j \in bad : d <= j
  BY <1>1, LeastNumber
<1>3. d # 0
  <2>1. Len(p) - 0 = Len(p) /\ Len(q) - 0 = Len(q)
    OBVIOUS
  <2> QED
    BY <1>2, <2>1
<1> DEFINE s == Len(p) - d
           t == Len(q) - d
<1>4. /\ s \in Nat /\ s + 1 = Len(p) - (d - 1) /\ s < Len(p) /\ k <= s
      /\ t \in Nat /\ t + 1 = Len(q) - (d - 1) /\ t < Len(q) /\ k <= t
  BY <1>2, <1>3
<1>5. w[s + 1].current = v[t + 1].current
  <2>1. d - 1 \in Nat /\ k + (d - 1) <= Len(p) /\ k + (d - 1) <= Len(q)
    <3>1. d \in Nat /\ k + d <= Len(p) /\ k + d <= Len(q)
      OBVIOUS
    <3> HIDE DEF bad
    <3> QED
      BY <1>3, <3>1
  <2>2. d - 1 \notin bad
    <3>1. ~(d <= d - 1)
      BY <1>2
    <3> HIDE DEF bad
    <3> QED
      BY <1>2, <3>1
  <2>3. w[Len(p) - (d - 1)].current = v[Len(q) - (d - 1)].current
    BY <2>1, <2>2
  <2> QED
    BY <1>4, <2>3
<1> HIDE DEF s, t
<1>6. FromLeft(m, n, s) /\ FromLeft(m, n, t)
  BY <1>4, EdgeStays DEF FromLeft
<1>7. w[s + 1].current = Merkle!NodeHash(p[s + 1], w[s].current)
  BY <1>4, <1>6 DEF Climbs
<1>8. v[t + 1].current = Merkle!NodeHash(q[t + 1], v[t].current)
  BY <1>4, <1>6 DEF Climbs
<1>9. w[s].current = v[t].current
  <2>1. Merkle!NodeHash(p[s + 1], w[s].current) = Merkle!NodeHash(q[t + 1], v[t].current)
    BY <1>5, <1>7, <1>8
  <2> QED
    BY <2>1, HashesDiffer
<1> QED
  BY <1>2, <1>9 DEF s, t

\* And if they are as long as each other, they are the same.
LEMMA Unrolled ==
    ASSUME NEW n, NEW m, NEW b, NEW p, NEW w, Len(p) \in Nat, Climbs(w, b, p, m, n),
           NEW c, NEW q, NEW v, Len(q) = Len(p), Climbs(v, c, q, m, n),
           w[Len(p)].current = v[Len(p)].current
    PROVE  b = c /\ \A i \in 1 .. Len(p) : p[i] = q[i]
<1> DEFINE size == Len(p)
           Same(s) == w[s].current = v[s].current
           bad == {d \in Nat : d <= size /\ ~Same(size - d)}
<1>1. ASSUME NEW s \in Nat, s < size, Same(s + 1)
      PROVE  Same(s) /\ p[s + 1] = q[s + 1]
  <2>1. w[s + 1].current = IF FromLeft(m, n, s) THEN Merkle!NodeHash(p[s + 1], w[s].current)
                           ELSE Merkle!NodeHash(w[s].current, p[s + 1])
    BY <1>1 DEF Climbs
  <2>2. v[s + 1].current = IF FromLeft(m, n, s) THEN Merkle!NodeHash(q[s + 1], v[s].current)
                           ELSE Merkle!NodeHash(v[s].current, q[s + 1])
    BY <1>1 DEF Climbs
  <2>3. CASE FromLeft(m, n, s)
    <3>1. Merkle!NodeHash(p[s + 1], w[s].current) = Merkle!NodeHash(q[s + 1], v[s].current)
      BY <1>1, <2>1, <2>2, <2>3
    <3> QED
      BY <3>1, HashesDiffer
  <2>4. CASE ~FromLeft(m, n, s)
    <3>1. Merkle!NodeHash(w[s].current, p[s + 1]) = Merkle!NodeHash(v[s].current, q[s + 1])
      BY <1>1, <2>1, <2>2, <2>4
    <3> QED
      BY <3>1, HashesDiffer
  <2> QED
    BY <2>3, <2>4
<1>2. ASSUME bad # {} PROVE FALSE
  <2>1. PICK d \in bad : \A j \in bad : d <= j
    BY <1>2, LeastNumber
  <2>2. d # 0
    <3>1. size - 0 = size
      OBVIOUS
    <3> QED
      BY <2>1, <3>1
  <2>3. /\ d - 1 \in Nat /\ d - 1 <= size /\ d - 1 \notin bad
        /\ size - d \in Nat /\ size - d < size /\ (size - d) + 1 = size - (d - 1)
    BY <2>1, <2>2
  <2>4. Same((size - d) + 1)
    BY <2>3
  <2>5. Same(size - d)
    BY <1>1, <2>3, <2>4
  <2> QED
    BY <2>1, <2>5
<1>3. ASSUME NEW s \in Nat, s <= size PROVE Same(s)
  <2>1. size - s \in Nat /\ size - s <= size /\ size - (size - s) = s
    BY <1>3
  <2> QED
    BY <1>2, <2>1
<1>4. b = c
  <2>1. w[0].current = v[0].current
    BY <1>3
  <2>2. w[0].current = Merkle!LeafHash(b) /\ v[0].current = Merkle!LeafHash(c)
    BY DEF Climbs
  <2> QED
    BY <2>1, <2>2, HashesDiffer
<1>5. ASSUME NEW i \in 1 .. size PROVE p[i] = q[i]
  <2>1. i - 1 \in Nat /\ i - 1 < size /\ (i - 1) + 1 = i /\ i <= size
    OBVIOUS
  <2>2. Same((i - 1) + 1)
    BY <1>3, <2>1
  <2>3. p[(i - 1) + 1] = q[(i - 1) + 1]
    BY <1>1, <2>1, <2>2
  <2> QED
    BY <2>1, <2>3
<1> QED
  BY <1>4, <1>5

\* The walk of a position along its own path, up to the root.
LEMMA OwnWalk ==
    ASSUME NEW n \in Nat, NEW m \in Nat, m < n
    PROVE  LET path == Merkle!InclusionPath(m, n)
               walk == Walk(<<m>>, m, n, path)
           IN  /\ path = PathTo(m, n, n) /\ IsPath(path) /\ Len(path) \in Nat
               /\ Climbs(walk, <<m>>, path, m, n)
               /\ At(m, Len(path)) = Last(n, Len(path))
               /\ walk[Len(path)].current = Merkle!Root(n)
<1> DEFINE path == Merkle!InclusionPath(m, n)
           walk == Walk(<<m>>, m, n, path)
<1>1. path = PathTo(m, n, n)
  BY PathLevels
<1>2. IsPath(PathTo(m, n, n)) /\ Len(PathTo(m, n, n)) \in 0 .. n
  BY PathLengths
<1>3. IsPath(path) /\ Len(path) \in Nat
  BY <1>1, <1>2
<1>4. Climbs(walk, <<m>>, path, m, n)
  BY <1>3, WalkSteps DEF Climbs
<1>5. Climbed(m, n, walk, n)
  BY WalkClimbs
<1>6. At(m, n) = 0 /\ Last(n, n) = 0
  BY Positions
<1> HIDE DEF walk, path
<1>7. /\ walk[Len(PathTo(m, n, n))].current = NodeAt(n, n, 0)
      /\ At(m, Len(PathTo(m, n, n))) = Last(n, Len(PathTo(m, n, n)))
  BY <1>5, <1>6 DEF Climbed
<1>8. NodeAt(n, n, 0) = Merkle!Root(n)
  BY RootIsTop
<1> QED
  BY <1>1, <1>3, <1>4, <1>7, <1>8 DEF walk, path

\* No path that leads to the root is shorter than the leaf's own, or longer.
LEMMA NotShorter ==
    ASSUME NEW n \in Nat, NEW m \in Nat, m < n,
           NEW b, NEW p, NEW w, Len(p) \in Nat, Climbs(w, b, p, m, n),
           At(m, Len(p)) = Last(n, Len(p)), w[Len(p)].current = Merkle!Root(n)
    PROVE  Len(Merkle!InclusionPath(m, n)) <= Len(p)
<1> DEFINE q == Merkle!InclusionPath(m, n)
           v == Walk(<<m>>, m, n, q)
<1>1. /\ q = PathTo(m, n, n) /\ Len(q) \in Nat /\ Climbs(v, <<m>>, q, m, n)
      /\ v[Len(q)].current = Merkle!Root(n)
  BY OwnWalk
<1> HIDE DEF q, v
<1>2. PICK k \in Nat : /\ At(m, k) = Last(n, k)
                       /\ k # 0 => At(m, k - 1) # Last(n, k - 1)
                       /\ \A j \in Nat : At(m, j) = Last(n, j) <=> k <= j
  BY LeastEdge
<1>3. SUFFICES ASSUME Len(p) < Len(q) PROVE FALSE
  BY <1>1 DEF q
<1>4. k <= Len(p)
  BY <1>2
<1> DEFINE e == k + (Len(q) - Len(p))
<1>5. e \in Nat /\ k < e /\ e <= Len(q)
  BY <1>1, <1>3, <1>4
<1>6. w[k].current = v[e].current
  <2>1. \A d \in Nat : k + d <= Len(p) /\ k + d <= Len(q) =>
             w[Len(p) - d].current = v[Len(q) - d].current
    BY <1>1, <1>2, Aligned
  <2>2. /\ Len(p) - k \in Nat /\ k + (Len(p) - k) <= Len(p) /\ k + (Len(p) - k) <= Len(q)
        /\ Len(p) - (Len(p) - k) = k /\ Len(q) - (Len(p) - k) = e
    BY <1>1, <1>3, <1>4
  <2>3. w[Len(p) - (Len(p) - k)].current = v[Len(q) - (Len(p) - k)].current
    BY <2>1, <2>2
  <2> QED
    BY <2>2, <2>3
<1> HIDE DEF e
<1>7. /\ e - 1 \in Nat /\ (e - 1) + 1 = e /\ k <= e - 1 /\ e - 1 < Len(q)
      /\ e # 0 /\ e <= Len(q)
  BY <1>1, <1>5
<1>8. v[e].current = Merkle!NodeHash(q[e], v[e - 1].current)
  <2>1. FromLeft(m, n, e - 1)
    BY <1>2, <1>7 DEF FromLeft
  <2>2. v[(e - 1) + 1].current = Merkle!NodeHash(q[(e - 1) + 1], v[e - 1].current)
    BY <1>1, <1>7, <2>1 DEF Climbs
  <2> QED
    BY <1>7, <2>2
<1>9. CASE k = 0
  <2>1. w[0].current = Merkle!LeafHash(b)
    BY DEF Climbs
  <2> QED
    BY <1>6, <1>8, <1>9, <2>1, HashesDiffer
<1>10. CASE k # 0
  <2>1. At(m, k - 1) # Last(n, k - 1)
    BY <1>2, <1>10
  <2>2. ~FromLeft(m, n, k - 1)
    BY <1>2, <1>10, <2>1, Fork
  <2>3. /\ k - 1 \in Nat /\ (k - 1) + 1 = k /\ k - 1 < Len(p) /\ k - 1 <= Len(p)
    BY <1>4, <1>10
  <2>4. w[(k - 1) + 1].current = Merkle!NodeHash(w[k - 1].current, p[(k - 1) + 1])
    BY <2>2, <2>3 DEF Climbs
  <2>5. w[k - 1].current = q[e]
    BY <1>6, <1>8, <2>3, <2>4, HashesDiffer
  <2>6. PICK l \in Nat : /\ e - 1 <= l /\ Len(PathTo(m, n, l)) = e - 1
                         /\ ~Promoted(m, n, l)
                         /\ PathTo(m, n, n)[e] = Sibling(m, n, l)
    <3>1. e \in Nat /\ e # 0 /\ e <= Len(PathTo(m, n, n))
      BY <1>1, <1>5, <1>7
    <3> QED
      BY <3>1, SiblingAt
  <2>7. k <= l /\ At(m, l) = Last(n, l)
    BY <1>2, <1>7, <2>6
  <2>8. At(m, l) \in Nat
    BY Positions
  <2>9. At(m, l) % 2 = 1 /\ At(m, l) - 1 \in Nat /\ At(m, l) - 1 < Last(n, l)
    <3>1. At(m, l) % 2 # 0
      BY <2>6, <2>7 DEF Promoted
    <3> HIDE DEF At
    <3> QED
      BY <2>7, <2>8, <3>1
  <2>10. w[k - 1].current = NodeAt(n, l, At(m, l) - 1)
    BY <1>1, <2>5, <2>6, <2>9 DEF Sibling
  <2>11. OwnLevel(w, n, k - 1)
    <3>1. n > 0
      OBVIOUS
    <3> QED
      BY <2>3, <3>1, Depth
  <2>12. l = k - 1
    BY <2>9, <2>10, <2>11 DEF OwnLevel
  <2> QED
    BY <2>3, <2>7, <2>12
<1> QED
  BY <1>9, <1>10

LEMMA NotLonger ==
    ASSUME NEW n \in Nat, NEW m \in Nat, m < n,
           NEW b, NEW p, NEW w, Len(p) \in Nat, Climbs(w, b, p, m, n),
           w[Len(p)].current = Merkle!Root(n)
    PROVE  Len(p) <= Len(Merkle!InclusionPath(m, n))
<1> DEFINE q == Merkle!InclusionPath(m, n)
           v == Walk(<<m>>, m, n, q)
<1>1. /\ q = PathTo(m, n, n) /\ Len(q) \in Nat /\ Climbs(v, <<m>>, q, m, n)
      /\ At(m, Len(q)) = Last(n, Len(q)) /\ v[Len(q)].current = Merkle!Root(n)
  BY OwnWalk
<1> HIDE DEF q, v
<1>2. PICK k \in Nat : /\ At(m, k) = Last(n, k)
                       /\ k # 0 => At(m, k - 1) # Last(n, k - 1)
                       /\ \A j \in Nat : At(m, j) = Last(n, j) <=> k <= j
  BY LeastEdge
<1>3. SUFFICES ASSUME Len(q) < Len(p) PROVE FALSE
  BY <1>1 DEF q
<1>4. k <= Len(q)
  BY <1>1, <1>2
<1> DEFINE e == k + (Len(p) - Len(q))
<1>5. e \in Nat /\ k < e /\ e <= Len(p)
  BY <1>1, <1>3, <1>4
<1>6. v[k].current = w[e].current
  <2>1. \A d \in Nat : k + d <= Len(q) /\ k + d <= Len(p) =>
             v[Len(q) - d].current = w[Len(p) - d].current
    BY <1>1, <1>2, Aligned
  <2>2. /\ Len(q) - k \in Nat /\ k + (Len(q) - k) <= Len(q) /\ k + (Len(q) - k) <= Len(p)
        /\ Len(q) - (Len(q) - k) = k /\ Len(p) - (Len(q) - k) = e
    BY <1>1, <1>3, <1>4
  <2>3. v[Len(q) - (Len(q) - k)].current = w[Len(p) - (Len(q) - k)].current
    BY <2>1, <2>2
  <2> QED
    BY <2>2, <2>3
<1> HIDE DEF e
<1>7. e - 1 \in Nat /\ (e - 1) + 1 = e /\ k <= e - 1 /\ e - 1 < Len(p) /\ e - 1 <= Len(p)
  BY <1>5
<1>8. w[e].current = Merkle!NodeHash(p[e], w[e - 1].current)
  <2>1. FromLeft(m, n, e - 1)
    BY <1>2, <1>7 DEF FromLeft
  <2>2. w[(e - 1) + 1].current = Merkle!NodeHash(p[(e - 1) + 1], w[e - 1].current)
    BY <1>7, <2>1 DEF Climbs
  <2> QED
    BY <1>7, <2>2
<1>9. CASE k = 0
  <2>1. v[0].current = Merkle!LeafHash(<<m>>)
    BY <1>1 DEF Climbs
  <2> QED
    BY <1>6, <1>8, <1>9, <2>1, HashesDiffer
<1>10. CASE k # 0
  <2>1. At(m, k - 1) # Last(n, k - 1)
    BY <1>2, <1>10
  <2>2. ~FromLeft(m, n, k - 1)
    BY <1>2, <1>10, <2>1, Fork
  <2>3. /\ k - 1 \in Nat /\ (k - 1) + 1 = k /\ k - 1 < Len(q)
    BY <1>1, <1>4, <1>10
  <2>4. v[(k - 1) + 1].current = Merkle!NodeHash(v[k - 1].current, q[(k - 1) + 1])
    BY <1>1, <2>2, <2>3 DEF Climbs
  <2>5. w[e - 1].current = q[k]
    BY <1>6, <1>8, <2>3, <2>4, HashesDiffer
  <2>6. Climbed(m, n, v, k - 1)
    <3>1. k - 1 \in 0 .. n
      <4>1. k <= n
        BY <1>2, Positions
      <4> QED
        BY <2>3, <4>1
    <3> QED
      BY <3>1, WalkClimbs DEF v, q
  <2>7. Len(PathTo(m, n, k - 1)) = k - 1
    BY <2>1, <2>6 DEF Climbed
  <2>8. PathTo(m, n, n)[k] = NodeAt(n, k - 1, Last(n, k - 1))
    <3>1. PathTo(m, n, (k - 1) + 1) = IF Promoted(m, n, k - 1) THEN PathTo(m, n, k - 1)
                                      ELSE Append(PathTo(m, n, k - 1), Sibling(m, n, k - 1))
      <4>1. \A h \in Nat :
              PathTo(m, n, h + 1) = IF Promoted(m, n, h) THEN PathTo(m, n, h)
                                    ELSE Append(PathTo(m, n, h), Sibling(m, n, h))
        BY PathLevels
      <4> QED
        BY <2>3, <4>1
    <3>2. PathTo(m, n, k) = Append(PathTo(m, n, k - 1), Sibling(m, n, k - 1))
      BY <2>1, <2>3, <3>1 DEF Promoted
    <3>3. IsPath(PathTo(m, n, k - 1))
      BY <2>3, PathLengths
    <3>4. /\ Len(PathTo(m, n, k)) = (k - 1) + 1
          /\ PathTo(m, n, k)[(k - 1) + 1] = Sibling(m, n, k - 1)
      BY <2>7, <3>2, <3>3, Appended
    <3>5. k <= n
      BY <1>2, Positions
    <3>6. k \in 1 .. Len(PathTo(m, n, k))
      BY <1>10, <2>3, <3>4
    <3>7. PathTo(m, n, n)[k] = PathTo(m, n, k)[k]
      BY <3>5, <3>6, PathPrefix
    <3>8. Sibling(m, n, k - 1) = NodeAt(n, k - 1, Last(n, k - 1))
      BY <1>2, <1>10, <2>1, Fork
    <3> QED
      BY <2>3, <3>4, <3>7, <3>8
  <2>9. w[e - 1].current = NodeAt(n, k - 1, Last(n, k - 1))
    BY <1>1, <2>5, <2>8
  <2>10. \A j \in Nat : k <= j /\ j <= Len(p) =>
           \A l \in Nat : w[j].current = NodeAt(n, l, Last(n, l)) => k <= l
    BY <1>2, <1>10, <2>1, EdgeDepth
  <2>11. k <= k - 1
    BY <1>7, <2>3, <2>9, <2>10
  <2> QED
    BY <2>3, <2>11
<1> QED
  BY <1>9, <1>10

\* A tree of at least one leaf has a root.
LEMMA RootIsHash ==
    ASSUME NEW n \in Nat, n > 0 PROVE Merkle!Root(n) # <<>>
<1> DEFINE r == <<0, n>>
<1>1. r \in Spans(n) /\ r[1] = 0 /\ r[2] = n
  BY DEF Spans
<1>2. Merkle!Root(n) = TreeOf(Merkle!Tree(n), r)
  BY <1>1, TreeNodes DEF Merkle!Root
<1> HIDE DEF r
<1>3. \/ \E b : Merkle!Root(n) = Merkle!LeafHash(b)
      \/ \E x, y : Merkle!Root(n) = Merkle!NodeHash(x, y)
  BY <1>1, <1>2 DEF TreeOf
<1>4. (\A b : Merkle!LeafHash(b) # <<>>) /\ \A x, y : Merkle!NodeHash(x, y) # <<>>
  BY DEF Merkle!LeafHash, Merkle!NodeHash
<1> QED
  BY <1>3, <1>4

\* A tree of at most 2^l leaves is climbed in l steps.
LEMMA PathFits ==
    ASSUME NEW n \in Nat, NEW m \in Nat, m < n, NEW l \in Nat, n <= Power(l)
    PROVE  Len(Merkle!InclusionPath(m, n)) <= l
<1>1. Merkle!InclusionPath(m, n) = PathTo(m, n, n)
  BY PathLevels
<1>2. \A k \in Nat : Len(PathTo(m, n, k)) \in 0 .. k
  BY PathLengths
<1>3. CASE n <= l
  <2>1. Len(PathTo(m, n, n)) \in 0 .. n
    BY <1>2
  <2> QED
    BY <1>1, <1>3, <2>1
<1>4. CASE l < n
  <2> DEFINE Top(k) == Len(PathTo(m, n, k)) <= l /\ At(m, k) = 0 /\ Last(n, k) = 0
             bad == {k \in Nat : l <= k /\ ~Top(k)}
  <2>1. At(m, l) = 0 /\ Last(n, l) = 0
    <3>1. Power(l) \in Nat /\ 0 * Power(l) = 0 /\ (0 + 1) * Power(l) = Power(l)
      BY Powers
    <3>2. n - 1 \in Nat /\ m < Power(l) /\ n - 1 < Power(l)
      BY <3>1
    <3>3. Quotient(m, l, 0) /\ Quotient(n - 1, l, 0)
      BY <3>1, <3>2 DEF Quotient
    <3> QED
      BY <3>2, <3>3, Ancestors, QuotientUnique DEF Last
  <2>2. ASSUME bad # {} PROVE FALSE
    <3>1. PICK k \in bad : \A j \in bad : k <= j
      BY <2>2, LeastNumber
    <3>2. Top(l)
      <4>1. Len(PathTo(m, n, l)) \in 0 .. l
        BY <1>2
      <4> QED
        BY <2>1, <4>1
    <3>3. k # l
      BY <3>1, <3>2
    <3>4. k - 1 \in Nat /\ (k - 1) + 1 = k /\ l <= k - 1 /\ Top(k - 1)
      BY <3>1, <3>3
    <3>5. At(m, (k - 1) + 1) = At(m, k - 1) \div 2 /\ Last(n, (k - 1) + 1) = Last(n, k - 1) \div 2
      BY <3>4, Positions
    <3>6. At(m, k) = 0 /\ Last(n, k) = 0
      <4>1. At(m, k) = 0 \div 2 /\ Last(n, k) = 0 \div 2
        BY <3>4, <3>5
      <4> QED
        BY <4>1
    <3>7. Promoted(m, n, k - 1)
      <4>1. 0 % 2 = 0
        OBVIOUS
      <4> QED
        BY <3>4, <4>1 DEF Promoted
    <3>8. PathTo(m, n, (k - 1) + 1) = IF Promoted(m, n, k - 1) THEN PathTo(m, n, k - 1)
                                      ELSE Append(PathTo(m, n, k - 1), Sibling(m, n, k - 1))
      BY <3>4, PathLevels
    <3>9. PathTo(m, n, k) = PathTo(m, n, k - 1)
      BY <3>4, <3>7, <3>8
    <3> QED
      BY <3>1, <3>4, <3>6, <3>9
  <2>3. n \notin bad
    BY <2>2
  <2> QED
    BY <1>1, <1>4, <2>3
<1> QED
  BY <1>3, <1>4

\* Whatever walk_inclusion_path takes to the root of a tree is a leaf of it, at its
\* position and along its RFC 9162 path: no shorter or longer path, no other leaf, no
\* inner node passed off as a leaf; for a tree of any size and any siblings.
THEOREM NothingElseProves ==
    ASSUME NEW n \in Nat, n > 0, NEW index \in Nat, NEW bytes, NEW path, IsPath(path),
           Merkle!WalkInclusionPath(bytes, index, n, path) = Merkle!Root(n)
    PROVE  index < n /\ bytes = <<index>> /\ path = Merkle!InclusionPath(index, n)
<1> DEFINE own == Merkle!InclusionPath(index, n)
           w == Walk(bytes, index, n, path)
           v == Walk(<<index>>, index, n, own)
<1>1. Merkle!Root(n) # <<>>
  BY RootIsHash
<1>2. index < n
  <2>1. ~(index < n) => Merkle!WalkInclusionPath(bytes, index, n, path) = <<>>
    BY DEF Merkle!WalkInclusionPath
  <2> QED
    BY <1>1, <2>1
<1>3. Len(path) \in Nat
  BY DEF IsPath
<1>4. Merkle!WalkInclusionPath(bytes, index, n, path)
        = IF Len(path) <= MaxHashPathLen /\ At(index, Len(path)) = Last(n, Len(path))
          THEN w[Len(path)].current ELSE <<>>
  BY <1>2, WalkSteps
<1>5. Climbs(w, bytes, path, index, n)
  BY <1>2, WalkSteps DEF Climbs
<1>6. /\ IsPath(own) /\ Len(own) \in Nat /\ Climbs(v, <<index>>, own, index, n)
      /\ v[Len(own)].current = Merkle!Root(n)
  BY <1>2, OwnWalk
<1> HIDE DEF w, v
<1>7. At(index, Len(path)) = Last(n, Len(path)) /\ w[Len(path)].current = Merkle!Root(n)
  BY <1>1, <1>4
<1>8. Len(own) <= Len(path)
  BY <1>2, <1>3, <1>5, <1>7, NotShorter
<1>9. Len(path) <= Len(own)
  BY <1>2, <1>3, <1>5, <1>7, NotLonger
<1> HIDE DEF own
<1>10. Len(own) = Len(path)
  BY <1>3, <1>6, <1>8, <1>9
<1>11. bytes = <<index>> /\ \A i \in 1 .. Len(path) : path[i] = own[i]
  <2>1. w[Len(path)].current = v[Len(path)].current
    BY <1>6, <1>7, <1>10
  <2> QED
    BY <1>3, <1>5, <1>6, <1>10, <2>1, Unrolled
<1>12. path = own
  <2>1. path = [i \in 1 .. Len(path) |-> path[i]]
    BY DEF IsPath
  <2>2. own = [i \in 1 .. Len(own) |-> own[i]]
    BY <1>6 DEF IsPath
  <2> QED
    BY <1>10, <1>11, <2>1, <2>2
<1> QED
  BY <1>2, <1>11, <1>12 DEF own

\* walk_inclusion_path takes every leaf along its RFC 9162 path to the root, if the tree
\* is one that MAX_HASH_PATH_LEN siblings can climb.
THEOREM EveryLeafProves ==
    ASSUME NEW n \in Nat, NEW index \in Nat, index < n,
           MaxHashPathLen \in Nat, n <= Power(MaxHashPathLen)
    PROVE  Merkle!WalkInclusionPath(<<index>>, index, n, Merkle!InclusionPath(index, n))
             = Merkle!Root(n)
<1> DEFINE own == Merkle!InclusionPath(index, n)
           walk == Walk(<<index>>, index, n, own)
<1>1. /\ IsPath(own) /\ At(index, Len(own)) = Last(n, Len(own))
      /\ walk[Len(own)].current = Merkle!Root(n)
  BY OwnWalk
<1>2. Len(own) <= MaxHashPathLen
  BY PathFits
<1> HIDE DEF own
<1>3. Merkle!WalkInclusionPath(<<index>>, index, n, own)
        = IF Len(own) <= MaxHashPathLen /\ At(index, Len(own)) = Last(n, Len(own))
          THEN walk[Len(own)].current ELSE <<>>
  BY <1>1, WalkSteps
<1> QED
  BY <1>1, <1>2, <1>3 DEF own

\* What a log is asked to prove: a leaf position, in a tree that MAX_HASH_PATH_LEN
\* siblings can climb.
MerkleInputs ==
    Given("walk") =>
        /\ input.of[1] \in 0 .. Merkle!PowerOfTwo[MaxHashPathLen]
        /\ input.of[2] \in Nat /\ input.of[4] \in Nat

(***************************************************************************)
(* A receipt proves exactly what the log contains (walk_inclusion_path),   *)
(* whatever the size of the tree, the leaf, the position and the path.     *)
(***************************************************************************)
THEOREM InclusionAlwaysExact == []MerkleInputs => []InclusionExact
<1>1. ASSUME MerkleInputs, Given("walk")
      PROVE  Merkle!WalkIsExact(input.of[1], input.of[2], input.of[3],
                                UpTo(input.of[4], Merkle!Nodes(input.of[1])))
  <2> DEFINE n == input.of[1]
             index == input.of[2]
             bytes == input.of[3]
             nodes == Merkle!Nodes(n)
             paths == UpTo(input.of[4], nodes)
  <2>1. /\ MaxHashPathLen \in Nat /\ Power(MaxHashPathLen) \in Nat
        /\ n \in Nat /\ n <= Power(MaxHashPathLen) /\ index \in Nat /\ input.of[4] \in Nat
    BY <1>1, HashPathAssumption, Powers DEF MerkleInputs, Power
  <2> HIDE DEF n, index, bytes, nodes
  <2>2. ASSUME NEW path \in paths PROVE IsPath(path)
    <3>1. PICK k \in 0 .. input.of[4] : path \in [1 .. k -> nodes]
      BY DEF UpTo
    <3>2. path \in Seq(nodes)
      BY <2>1, <3>1
    <3> QED
      BY <3>2 DEF IsPath
  <2> HIDE DEF paths
  <2>3. ASSUME index < n
        PROVE  Merkle!WalkInclusionPath(<<index>>, index, n, Merkle!InclusionPath(index, n))
                 = Merkle!Root(n)
    BY <2>1, <2>3, EveryLeafProves
  <2>4. ASSUME n > 0, NEW path \in paths,
               Merkle!WalkInclusionPath(bytes, index, n, path) = Merkle!Root(n)
        PROVE  index < n /\ bytes = <<index>> /\ path = Merkle!InclusionPath(index, n)
    BY <2>1, <2>2, <2>4, NothingElseProves
  <2>5. Merkle!WalkIsExact(n, index, bytes, paths)
    BY <2>3, <2>4 DEF Merkle!WalkIsExact
  <2> QED
    BY <2>5 DEF n, index, bytes, nodes, paths
<1>2. MerkleInputs => InclusionExact
  BY <1>1 DEF InclusionExact
<1> QED
  BY <1>2, PTL

-----------------------------------------------------------------------------
(***************************************************************************)
(* The elements at some positions of a sequence                            *)
(***************************************************************************)
KeptUpTo(f, s, positions, n) ==
    f = [i \in 0 .. n |->
           IF i = 0 THEN <<>>
           ELSE IF i \in positions THEN Append(f[i - 1], s[i])
           ELSE f[i - 1]]

Kept(s, positions) == CHOOSE f : KeptUpTo(f, s, positions, Len(s))

LEMMA KeptExists ==
    ASSUME NEW s, NEW positions, NEW n \in Nat PROVE \E f : KeptUpTo(f, s, positions, n)
<1> DEFINE missing == {m \in Nat : ~\E f : KeptUpTo(f, s, positions, m)}
<1>1. SUFFICES ASSUME missing # {} PROVE FALSE
  OBVIOUS
<1>2. PICK m \in missing : \A j \in missing : m <= j
  BY <1>1, LeastNumber
<1>3. CASE m = 0
  <2>1. KeptUpTo([i \in 0 .. 0 |-> <<>>], s, positions, 0)
    BY DEF KeptUpTo
  <2> QED
    BY <1>2, <1>3, <2>1
<1>4. CASE m # 0
  <2> DEFINE Next(f, i) == IF i \in positions THEN Append(f[i - 1], s[i]) ELSE f[i - 1]
  <2>1. m - 1 \in Nat /\ m - 1 \notin missing
    BY <1>2, <1>4
  <2>2. PICK f : KeptUpTo(f, s, positions, m - 1)
    BY <2>1
  <2> DEFINE g == [i \in 0 .. m |-> IF i = m THEN Next(f, m) ELSE f[i]]
  <2>3. \A i \in 0 .. m - 1 : f[i] = IF i = 0 THEN <<>> ELSE Next(f, i)
    BY <2>2 DEF KeptUpTo
  <2>4. \A i \in 0 .. m : g[i] = IF i = 0 THEN <<>> ELSE Next(g, i)
    <3>1. ASSUME NEW i \in 0 .. m - 1 PROVE g[i] = IF i = 0 THEN <<>> ELSE Next(g, i)
      <4>1. g[i] = f[i] /\ (i # 0 => g[i - 1] = f[i - 1])
        BY <1>2, <3>1
      <4> HIDE DEF g
      <4> QED
        BY <2>3, <4>1
    <3>2. g[m] = Next(g, m)
      <4>1. g[m] = Next(f, m) /\ g[m - 1] = f[m - 1]
        BY <1>2, <1>4
      <4> HIDE DEF g
      <4> QED
        BY <4>1
    <3> HIDE DEF g, Next
    <3> QED
      BY <1>2, <1>4, <3>1, <3>2
  <2>5. g = [i \in 0 .. m |-> g[i]]
    OBVIOUS
  <2> HIDE DEF g
  <2>6. KeptUpTo(g, s, positions, m)
    BY <2>4, <2>5 DEF KeptUpTo
  <2> QED
    BY <1>2, <2>6
<1> QED
  BY <1>3, <1>4

LEMMA KeptSteps ==
    ASSUME NEW s, NEW positions, Len(s) \in Nat
    PROVE  /\ Select(s, positions) = Kept(s, positions)[Len(s)]
           /\ Kept(s, positions)[0] = <<>>
           /\ \A i \in 1 .. Len(s) :
                Kept(s, positions)[i] =
                  IF i \in positions THEN Append(Kept(s, positions)[i - 1], s[i])
                  ELSE Kept(s, positions)[i - 1]
<1>1. KeptUpTo(Kept(s, positions), s, positions, Len(s))
  BY KeptExists DEF Kept
<1>2. Select(s, positions) = Kept(s, positions)[Len(s)]
  BY DEF Select, Kept, KeptUpTo
<1> DEFINE k == Kept(s, positions)
<1>3. k = [i \in 0 .. Len(s) |->
             IF i = 0 THEN <<>>
             ELSE IF i \in positions THEN Append(k[i - 1], s[i]) ELSE k[i - 1]]
  BY <1>1 DEF KeptUpTo
<1> HIDE DEF k
<1>4. k[0] = <<>>
  BY <1>3
<1>5. ASSUME NEW i \in 1 .. Len(s)
      PROVE  k[i] = IF i \in positions THEN Append(k[i - 1], s[i]) ELSE k[i - 1]
  <2> DEFINE Next(j) == IF j \in positions THEN Append(k[j - 1], s[j]) ELSE k[j - 1]
  <2>1. k = [j \in 0 .. Len(s) |-> IF j = 0 THEN <<>> ELSE Next(j)]
    BY <1>3
  <2>2. i \in 0 .. Len(s) /\ i # 0
    OBVIOUS
  <2> HIDE DEF Next
  <2>3. k[i] = Next(i)
    BY <2>1, <2>2
  <2> QED
    BY <2>3 DEF Next
<1> QED
  BY <1>2, <1>4, <1>5 DEF k

\* What is kept of the first i elements: those at the positions, no others.
KeptWell(k, S, s, positions, i) ==
    /\ k \in Seq(S) /\ Len(k) <= i
    /\ \A h \in 1 .. i : h \in positions => \E j \in 1 .. Len(k) : k[j] = s[h]
    /\ \A j \in 1 .. Len(k) : \E h \in 1 .. i : h \in positions /\ k[j] = s[h]
    /\ (1 .. i) \subseteq positions =>
         Len(k) = i /\ \A j \in 1 .. i : k[j] = s[j]

LEMMA KeptOneMore ==
    ASSUME NEW S, NEW s, NEW positions, NEW i \in Nat, NEW k, KeptWell(k, S, s, positions, i),
           s[i + 1] \in S
    PROVE  KeptWell(IF i + 1 \in positions THEN Append(k, s[i + 1]) ELSE k,
                    S, s, positions, i + 1)
<1> DEFINE n == i + 1
           x == s[n]
<1>0. k \in Seq(S) /\ Len(k) \in Nat /\ Len(k) <= i /\ n \in Nat /\ x \in S
  BY DEF KeptWell
<1>1. CASE n \in positions
  <2> DEFINE l == Append(k, x)
  <2>1. /\ l \in Seq(S) /\ Len(l) = Len(k) + 1 /\ l[Len(k) + 1] = x
        /\ \A j \in 1 .. Len(k) : l[j] = k[j]
    BY <1>0
  <2> HIDE DEF l
  <2>2. ASSUME NEW h \in 1 .. n, h \in positions PROVE \E j \in 1 .. Len(l) : l[j] = s[h]
    <3>1. CASE h = n
      BY <1>0, <2>1, <3>1
    <3>2. CASE h # n
      <4>1. h \in 1 .. i
        BY <1>0, <3>2
      <4>2. PICK j \in 1 .. Len(k) : k[j] = s[h]
        BY <2>2, <4>1 DEF KeptWell
      <4> QED
        BY <1>0, <2>1, <4>2
    <3> QED
      BY <3>1, <3>2
  <2>3. ASSUME NEW j \in 1 .. Len(l)
        PROVE  \E h \in 1 .. n : h \in positions /\ l[j] = s[h]
    <3>1. CASE j = Len(k) + 1
      BY <1>0, <1>1, <2>1, <3>1
    <3>2. CASE j # Len(k) + 1
      <4>1. j \in 1 .. Len(k)
        BY <1>0, <2>1, <3>2
      <4>2. PICK h \in 1 .. i : h \in positions /\ k[j] = s[h]
        BY <4>1 DEF KeptWell
      <4> QED
        BY <1>0, <2>1, <4>1, <4>2
    <3> QED
      BY <3>1, <3>2
  <2>4. ASSUME (1 .. n) \subseteq positions
        PROVE  Len(l) = n /\ \A j \in 1 .. n : l[j] = s[j]
    <3>1. (1 .. i) \subseteq positions
      BY <1>0, <2>4
    <3>2. Len(k) = i /\ \A j \in 1 .. i : k[j] = s[j]
      BY <3>1 DEF KeptWell
    <3> QED
      BY <1>0, <2>1, <3>2
  <2>5. Len(l) <= n
    BY <1>0, <2>1
  <2> QED
    BY <1>1, <2>1, <2>2, <2>3, <2>4, <2>5 DEF KeptWell, l
<1>2. CASE n \notin positions
  <2>1. ASSUME NEW h \in 1 .. n, h \in positions PROVE \E j \in 1 .. Len(k) : k[j] = s[h]
    <3>1. h \in 1 .. i
      BY <1>0, <1>2, <2>1
    <3> QED
      BY <2>1, <3>1 DEF KeptWell
  <2>2. ASSUME NEW j \in 1 .. Len(k)
        PROVE  \E h \in 1 .. n : h \in positions /\ k[j] = s[h]
    <3>1. PICK h \in 1 .. i : h \in positions /\ k[j] = s[h]
      BY DEF KeptWell
    <3> QED
      BY <1>0, <3>1
  <2>3. ~((1 .. n) \subseteq positions) /\ Len(k) <= n
    BY <1>0, <1>2
  <2> QED
    BY <1>0, <1>2, <2>1, <2>2, <2>3 DEF KeptWell
<1> QED
  BY <1>1, <1>2

LEMMA Selected ==
    ASSUME NEW S, NEW s \in Seq(S), NEW positions
    PROVE  KeptWell(Select(s, positions), S, s, positions, Len(s))
<1> DEFINE bad == {i \in Nat : i <= Len(s) /\
                     ~KeptWell(Kept(s, positions)[i], S, s, positions, i)}
<1>0. /\ Len(s) \in Nat /\ Select(s, positions) = Kept(s, positions)[Len(s)]
      /\ Kept(s, positions)[0] = <<>>
  BY KeptSteps
<1>1. SUFFICES ASSUME bad # {} PROVE FALSE
  BY <1>0
<1>2. PICK m \in bad : \A j \in bad : m <= j
  BY <1>1, LeastNumber
<1>3. m # 0
  <2>1. KeptWell(<<>>, S, s, positions, 0)
    BY DEF KeptWell
  <2> QED
    BY <1>0, <1>2, <2>1
<1>4. m \in Nat /\ m <= Len(s)
  BY <1>2
<1>5. m - 1 \in Nat /\ m - 1 <= Len(s) /\ (m - 1) + 1 = m /\ ~(m <= m - 1) /\ m \in 1 .. Len(s)
  BY <1>0, <1>3, <1>4
<1> DEFINE k == Kept(s, positions)[m - 1]
<1>6. KeptWell(k, S, s, positions, m - 1)
  BY <1>2, <1>5
<1>7. Kept(s, positions)[m] = IF m \in positions THEN Append(k, s[m]) ELSE k
  BY <1>0, <1>5, KeptSteps
<1>8. s[m] \in S
  BY <1>5
<1> HIDE DEF k
<1>9. KeptWell(IF m \in positions THEN Append(k, s[m]) ELSE k, S, s, positions, m)
  BY <1>5, <1>6, <1>8, KeptOneMore
<1> QED
  BY <1>2, <1>7, <1>9

\* All elements but x.
LEMMA Remaining ==
    ASSUME NEW S, NEW s \in Seq(S), NEW x
    PROVE  /\ Without(s, x) \in Seq(S)
           /\ Range(Without(s, x)) = Range(s) \ {x}
           /\ x \notin Range(s) => Without(s, x) = s
<1> DEFINE positions == {i \in DOMAIN s : s[i] # x}
           w == Without(s, x)
<1>1. KeptWell(w, S, s, positions, Len(s)) /\ Len(s) \in Nat /\ DOMAIN s = 1 .. Len(s)
  BY Selected DEF Without
<1> HIDE DEF w
<1>2. w \in Seq(S) /\ DOMAIN w = 1 .. Len(w)
  BY <1>1 DEF KeptWell
<1>3. ASSUME NEW y \in Range(s), y # x PROVE y \in Range(w)
  <2>1. PICK h \in DOMAIN s : s[h] = y
    BY <1>3 DEF Range
  <2>2. h \in 1 .. Len(s) /\ h \in positions
    BY <1>1, <1>3, <2>1
  <2>3. PICK j \in 1 .. Len(w) : w[j] = s[h]
    BY <1>1, <2>2 DEF KeptWell
  <2> QED
    BY <1>2, <2>1, <2>3 DEF Range
<1>4. ASSUME NEW y \in Range(w) PROVE y \in Range(s) \ {x}
  <2>1. PICK j \in DOMAIN w : w[j] = y
    BY DEF Range
  <2>2. PICK h \in 1 .. Len(s) : h \in positions /\ w[j] = s[h]
    BY <1>1, <1>2, <2>1 DEF KeptWell
  <2> QED
    BY <1>1, <2>1, <2>2 DEF Range
<1>5. ASSUME x \notin Range(s) PROVE w = s
  <2>1. (1 .. Len(s)) \subseteq positions
    BY <1>1, <1>5 DEF Range
  <2>2. Len(w) = Len(s) /\ \A j \in 1 .. Len(s) : w[j] = s[j]
    BY <1>1, <2>1 DEF KeptWell
  <2> QED
    BY <1>1, <1>2, <2>2
<1> QED
  BY <1>2, <1>3, <1>4, <1>5 DEF w

-----------------------------------------------------------------------------
(***************************************************************************)
(* DNS lookups                                                             *)
(***************************************************************************)
IsSequence(s) == \E S : s \in Seq(S)

\* A reply of the resolver; only an answer has rows.
IsReply(reply) ==
    /\ reply.kind \in Tlsa!FailureKinds \cup {"answer"}
    /\ IsSequence(reply.rows)
    /\ reply.kind # "answer" => reply.rows = <<>>

\* The same selection, whichever module asks for it.
LEMMA OneSelection ==
    ASSUME NEW s
    PROVE  /\ \A x : Tlsa!Without(s, x) = Without(s, x) /\ Log!Without(s, x) = Without(s, x)
           /\ \A P : Tlsa!Select(s, P) = Select(s, P)
  BY DEF Tlsa!Without, Tlsa!Select, Log!Without, Log!Select, Without, Select

\* TwoNamesHonest, given the records of both names.
Honest(result, first, second, a, b) ==
    LET silent(reply, records) ==
            reply.kind \in Tlsa!NoRecordsFound \/ (reply.kind = "answer" /\ records = <<>>)
    IN  /\ result.kind = "NotFound" <=> silent(first, a) /\ silent(second, b)
        /\ Tlsa!IsOutage(first) \/ (silent(first, a) /\ Tlsa!IsOutage(second)) =>
             result.kind = "Error" /\ Tlsa!IsUnavailable(result.error)
        /\ result.kind = "Found" /\ ~silent(first, a) => Len(result.records) = Len(a)

\* The second name is asked if the first has nothing.
OneThenOther(first, second, a, b) ==
    IF Tlsa!Queried(first, a).kind # "NotFound" THEN Tlsa!Queried(first, a)
    ELSE Tlsa!Queried(second, b)

LEMMA QueriedKinds ==
    ASSUME NEW r, IsReply(r), NEW a
    PROVE  /\ r.kind = "answer" => Tlsa!Queried(r, a) = Tlsa!FoundOrNot(a)
           /\ r.kind \in Tlsa!NoRecordsFound => Tlsa!Queried(r, a) = Tlsa!NotFound
           /\ Tlsa!IsOutage(r) => /\ Tlsa!Queried(r, a).kind = "Error"
                                  /\ Tlsa!IsUnavailable(Tlsa!Queried(r, a).error)
           /\ \/ r.kind = "answer" \/ r.kind \in Tlsa!NoRecordsFound \/ Tlsa!IsOutage(r)
<1>1. CASE r.kind = "answer"
  <2>1. r.kind \notin Tlsa!NoRecordsFound /\ ~Tlsa!IsOutage(r)
    BY <1>1 DEF Tlsa!NoRecordsFound, Tlsa!IsOutage
  <2>2. Tlsa!Queried(r, a) = Tlsa!FoundOrNot(a)
    BY <1>1 DEF Tlsa!Queried, Tlsa!NoRecordsFound
  <2> QED
    BY <1>1, <2>1, <2>2
<1>2. CASE r.kind \in Tlsa!NoRecordsFound
  <2>1. r.kind # "answer" /\ ~Tlsa!IsOutage(r)
    BY <1>2 DEF Tlsa!NoRecordsFound, Tlsa!IsOutage
  <2>2. Tlsa!Queried(r, a) = Tlsa!NotFound
    BY <1>2 DEF Tlsa!Queried, Tlsa!NoRecordsFound
  <2> QED
    BY <1>2, <2>1, <2>2
<1>3. CASE r.kind # "answer" /\ r.kind \notin Tlsa!NoRecordsFound
  <2>1. Tlsa!Queried(r, a) \in {Tlsa!Err("Timeout"), Tlsa!Err("LookupFailed")}
    BY <1>3 DEF Tlsa!Queried, Tlsa!NoRecordsFound
  <2>2. /\ Tlsa!Queried(r, a).kind = "Error"
        /\ Tlsa!IsUnavailable(Tlsa!Queried(r, a).error)
    BY <2>1 DEF Tlsa!Err, Tlsa!IsUnavailable
  <2>3. Tlsa!IsOutage(r)
    BY <1>3 DEF Tlsa!IsOutage
  <2> QED
    BY <1>3, <2>2, <2>3
<1> QED
  BY <1>1, <1>2, <1>3

LEMMA FoundKinds ==
    ASSUME NEW a
    PROVE  /\ a = <<>> => Tlsa!FoundOrNot(a).kind = "NotFound"
           /\ a # <<>> => Tlsa!FoundOrNot(a).kind = "Found" /\ Tlsa!FoundOrNot(a).records = a
           /\ Tlsa!NotFound.kind = "NotFound"
  BY DEF Tlsa!FoundOrNot, Tlsa!Found, Tlsa!NotFound

LEMMA OneThenOtherHonest ==
    ASSUME NEW first, IsReply(first), NEW second, IsReply(second), NEW a, NEW b
    PROVE  Honest(OneThenOther(first, second, a, b), first, second, a, b)
<1> DEFINE result == OneThenOther(first, second, a, b)
<1>0. ~Tlsa!IsOutage(first) <=> first.kind = "answer" \/ first.kind \in Tlsa!NoRecordsFound
  BY DEF Tlsa!IsOutage
<1>1. CASE Tlsa!IsOutage(first)
  <2>1. result = Tlsa!Queried(first, a) /\ result.kind = "Error"
        /\ Tlsa!IsUnavailable(result.error)
    BY <1>1, QueriedKinds DEF OneThenOther
  <2>2. first.kind # "answer" /\ first.kind \notin Tlsa!NoRecordsFound
    BY <1>1 DEF Tlsa!IsOutage
  <2> QED
    BY <2>1, <2>2 DEF Honest
<1>2. CASE first.kind = "answer" /\ a # <<>>
  <2>1. result.kind = "Found" /\ result.records = a
    BY <1>2, QueriedKinds, FoundKinds DEF OneThenOther
  <2>2. first.kind \notin Tlsa!NoRecordsFound
    BY <1>2 DEF Tlsa!NoRecordsFound
  <2> QED
    BY <1>0, <1>2, <2>1, <2>2 DEF Honest
<1>3. CASE first.kind \in Tlsa!NoRecordsFound \/ (first.kind = "answer" /\ a = <<>>)
  <2>1. result = Tlsa!Queried(second, b)
    <3>1. Tlsa!Queried(first, a).kind = "NotFound"
      BY <1>3, QueriedKinds, FoundKinds
    <3> QED
      BY <3>1 DEF OneThenOther
  <2>2. CASE Tlsa!IsOutage(second)
    <3>1. result.kind = "Error" /\ Tlsa!IsUnavailable(result.error)
      BY <2>1, <2>2, QueriedKinds
    <3>2. second.kind # "answer" /\ second.kind \notin Tlsa!NoRecordsFound
      BY <2>2 DEF Tlsa!IsOutage
    <3> QED
      BY <1>3, <3>1, <3>2 DEF Honest
  <2>3. CASE second.kind = "answer" /\ b # <<>>
    <3>1. result.kind = "Found"
      BY <2>1, <2>3, QueriedKinds, FoundKinds
    <3>2. second.kind \notin Tlsa!NoRecordsFound /\ ~Tlsa!IsOutage(second)
      BY <2>3 DEF Tlsa!NoRecordsFound, Tlsa!IsOutage
    <3> QED
      BY <1>0, <1>3, <2>3, <3>1, <3>2 DEF Honest
  <2>4. CASE second.kind \in Tlsa!NoRecordsFound \/ (second.kind = "answer" /\ b = <<>>)
    <3>1. result.kind = "NotFound"
      BY <2>1, <2>4, QueriedKinds, FoundKinds
    <3>2. ~Tlsa!IsOutage(second)
      BY <2>4 DEF Tlsa!IsOutage
    <3> QED
      BY <1>0, <1>3, <2>4, <3>1, <3>2 DEF Honest
  <2> QED
    BY <2>2, <2>3, <2>4, QueriedKinds
<1> QED
  BY <1>1, <1>2, <1>3, QueriedKinds

\* What the parser accepts is among the records, and they are a sequence.
LEMMA RowsParsed ==
    ASSUME NEW rows, IsSequence(rows)
    PROVE  /\ IsSequence(Tlsa!BadgeRecords(rows)) /\ IsSequence(Tlsa!SvcbRecords(rows))
           /\ IsSequence(Tlsa!Parsed(rows, Tlsa!TxtDiscoveryRecord))
           /\ \A i \in DOMAIN rows : Tlsa!BadgeRecord(rows[i]) # Malformed =>
                \E j \in DOMAIN Tlsa!BadgeRecords(rows) :
                  Tlsa!BadgeRecords(rows)[j] = Tlsa!BadgeRecord(rows[i])
           /\ rows = <<>> => Tlsa!BadgeRecords(rows) = <<>>
<1>0. PICK S : rows \in Seq(S)
  BY DEF IsSequence
<1>1. Len(rows) \in Nat /\ DOMAIN rows = 1 .. Len(rows)
  BY <1>0
<1> DEFINE badge == [i \in DOMAIN rows |-> Tlsa!BadgeRecord(rows[i])]
           svcb == [i \in DOMAIN rows |-> Tlsa!SvcbDiscoveryRecord(rows[i])]
           txt == [i \in DOMAIN rows |-> Tlsa!TxtDiscoveryRecord(rows[i])]
<1>2. /\ Tlsa!BadgeRecords(rows) = Without(badge, Malformed)
      /\ Tlsa!Parsed(rows, Tlsa!SvcbDiscoveryRecord) = Without(svcb, Malformed)
      /\ Tlsa!Parsed(rows, Tlsa!TxtDiscoveryRecord) = Without(txt, Malformed)
  BY OneSelection DEF Tlsa!BadgeRecords, Tlsa!Parsed
<1>3. badge \in Seq(Range(badge)) /\ svcb \in Seq(Range(svcb)) /\ txt \in Seq(Range(txt))
  BY <1>1 DEF Range
<1>4. /\ IsSequence(Without(badge, Malformed)) /\ IsSequence(Without(svcb, Malformed))
      /\ IsSequence(Without(txt, Malformed))
      /\ Range(Without(badge, Malformed)) = Range(badge) \ {Malformed}
  <2> HIDE DEF badge, svcb, txt
  <2> QED
    BY <1>3, Remaining DEF IsSequence
<1>5. IsSequence(Tlsa!SvcbRecords(rows))
  <2>1. IsSequence(<<>>)
    BY DEF IsSequence
  <2> QED
    BY <1>2, <1>4, <2>1 DEF Tlsa!SvcbRecords
<1>6. ASSUME NEW i \in DOMAIN rows, Tlsa!BadgeRecord(rows[i]) # Malformed
      PROVE  \E j \in DOMAIN Tlsa!BadgeRecords(rows) :
               Tlsa!BadgeRecords(rows)[j] = Tlsa!BadgeRecord(rows[i])
  <2>1. Tlsa!BadgeRecord(rows[i]) \in Range(badge) \ {Malformed}
    BY <1>6 DEF Range
  <2>2. Tlsa!BadgeRecord(rows[i]) \in Range(Tlsa!BadgeRecords(rows))
    BY <1>2, <1>4, <2>1
  <2> QED
    BY <2>2 DEF Range
<1>7. ASSUME rows = <<>> PROVE Tlsa!BadgeRecords(rows) = <<>>
  <2>1. badge = <<>> /\ Malformed \notin Range(badge)
    BY <1>7 DEF Range
  <2>2. Without(badge, Malformed) = badge
    <3> HIDE DEF badge
    <3> QED
      BY <1>3, <2>1, Remaining
  <2> QED
    BY <1>2, <2>1, <2>2
<1> QED
  BY <1>2, <1>4, <1>5, <1>6, <1>7

\* The badge lookup tells an outage from absence and mixes no two names
\* (lookup_badge).
THEOREM BadgeLookupsAreHonest ==
    ASSUME NEW first, NEW second, IsReply(first), IsReply(second)
    PROVE  Tlsa!LookupsAreHonest(first, second)
<1> DEFINE a == Tlsa!BadgeRecords(first.rows)
           b == Tlsa!BadgeRecords(second.rows)
           badges == Tlsa!LookupBadge(first, second)
<1>1. badges = OneThenOther(first, second, a, b)
  BY DEF Tlsa!LookupBadge, Tlsa!QueryBadgeTxt, OneThenOther
<1>2. Tlsa!TwoNamesHonest(badges, first, second, Tlsa!BadgeRecords, Tlsa!BadgeRecords)
  <2>1. Honest(badges, first, second, a, b)
    BY <1>1, OneThenOtherHonest
  <2> QED
    BY <2>1 DEF Honest, Tlsa!TwoNamesHonest, Tlsa!IsSilent
<1>3. ASSUME NEW reply \in {first, second}, NEW i \in DOMAIN reply.rows, badges.kind # "Error",
             reply = first \/ Tlsa!IsSilent(first, Tlsa!BadgeRecords),
             Tlsa!BadgeRecord(reply.rows[i]) # Malformed
      PROVE  \E j \in DOMAIN badges.records : badges.records[j] = Tlsa!BadgeRecord(reply.rows[i])
  <2> DEFINE records == Tlsa!BadgeRecords(reply.rows)
  <2>1. IsReply(reply) /\ IsSequence(reply.rows)
    BY <1>3 DEF IsReply
  <2>2. PICK j \in DOMAIN records : records[j] = Tlsa!BadgeRecord(reply.rows[i])
    BY <1>3, <2>1, RowsParsed
  <2>3. reply.kind = "answer" /\ records # <<>>
    BY <1>3, <2>1, <2>2, RowsParsed DEF IsReply
  <2>4. /\ Tlsa!Queried(reply, records).kind = "Found"
        /\ Tlsa!Queried(reply, records).records = records
    BY <2>1, <2>3, QueriedKinds, FoundKinds
  <2>5. badges = Tlsa!Queried(reply, records)
    <3>1. CASE reply = first
      BY <1>1, <2>4, <3>1 DEF OneThenOther
    <3>2. CASE reply # first
      <4>1. first.kind \in Tlsa!NoRecordsFound \/ (first.kind = "answer" /\ a = <<>>)
        BY <1>3, <3>2 DEF Tlsa!IsSilent
      <4>2. Tlsa!Queried(first, a).kind = "NotFound"
        BY <4>1, QueriedKinds, FoundKinds
      <4> QED
        BY <1>1, <1>3, <3>2, <4>2 DEF OneThenOther
    <3> QED
      BY <3>1, <3>2
  <2> QED
    BY <2>2, <2>4, <2>5
<1> QED
  BY <1>2, <1>3 DEF Tlsa!LookupsAreHonest

\* And so does the discovery lookup (lookup_discovery).
THEOREM DiscoveryLookupsAreHonest ==
    ASSUME NEW svcb, NEW txt, IsReply(svcb), IsReply(txt)
    PROVE  Tlsa!DiscoveryIsHonest(svcb, txt)
<1> DEFINE a == Tlsa!SvcbRecords(svcb.rows)
           b == Tlsa!Parsed(txt.rows, Tlsa!TxtDiscoveryRecord)
           plain == OneThenOther(svcb, txt, a, b)
           result == Tlsa!LookupDiscovery(svcb, txt)
<1>1. Honest(plain, svcb, txt, a, b)
  BY OneThenOtherHonest
<1>2. ASSUME NEW id, NEW reply, IsReply(reply), NEW records, IsSequence(records)
      PROVE  LET named == Tlsa!ProfileId(id, Tlsa!Queried(reply, records))
                 query == Tlsa!Queried(reply, records)
             IN  /\ named.kind = query.kind /\ named.error = query.error
                 /\ query.kind = "Found" => Len(named.records) = Len(query.records)
  <2> DEFINE query == Tlsa!Queried(reply, records)
  <2>1. \/ query = Tlsa!Found(records) \/ query = Tlsa!NotFound
        \/ query = Tlsa!Err("Timeout") \/ query = Tlsa!Err("LookupFailed")
    BY DEF Tlsa!Queried, Tlsa!FoundOrNot
  <2>2. query = [kind |-> query.kind, error |-> query.error, records |-> query.records]
        /\ IsSequence(query.records)
    <3>1. IsSequence(<<>>)
      BY DEF IsSequence
    <3> QED
      BY <1>2, <2>1, <3>1 DEF Tlsa!Found, Tlsa!NotFound, Tlsa!Err
  <2> HIDE DEF query
  <2> DEFINE s == query.records
             named == [i \in DOMAIN s |-> [profile |-> id, token |-> s[i].protocolToken]]
  <2>3. Tlsa!ProfileId(id, query) = [kind |-> query.kind, error |-> query.error, records |-> named]
    BY <2>2 DEF Tlsa!ProfileId
  <2>4. Len(named) = Len(s)
    <3>1. PICK S : s \in Seq(S)
      BY <2>2 DEF IsSequence
    <3>2. Len(s) \in Nat /\ DOMAIN s = 1 .. Len(s)
      BY <3>1
    <3> HIDE DEF s
    <3> QED
      BY <3>2
  <2> QED
    BY <2>3, <2>4 DEF query
<1>3. /\ result.kind = plain.kind /\ result.error = plain.error
      /\ plain.kind = "Found" => Len(result.records) = Len(plain.records)
  <2>1. IsSequence(a) /\ IsSequence(b)
    BY RowsParsed DEF IsReply
  <2> HIDE DEF a, b
  <2>2. result = IF Tlsa!Queried(svcb, a).kind # "NotFound"
                 THEN Tlsa!ProfileId("ANS_DNSAID", Tlsa!Queried(svcb, a))
                 ELSE Tlsa!ProfileId("ANS_TXT", Tlsa!Queried(txt, b))
    BY DEF Tlsa!LookupDiscovery, Tlsa!LookupSvcbDiscovery, Tlsa!LookupTxtDiscovery, a, b
  <2> HIDE DEF result
  <2> QED
    BY <1>2, <2>1, <2>2 DEF OneThenOther
<1>4. Honest(result, svcb, txt, a, b)
  <2> HIDE DEF result, plain
  <2> QED
    BY <1>1, <1>3 DEF Honest
<1> QED
  BY <1>4 DEF Tlsa!DiscoveryIsHonest, Tlsa!TwoNamesHonest, Tlsa!IsSilent, Honest

\* Records of a lookup: each names a version or none.
AreRecords(records) ==
    /\ IsSequence(records) /\ records # <<>> /\ Absent \notin Nat
    /\ \A i \in DOMAIN records : records[i].version \in Nat \cup {Absent}

\* Among records of which all name a version, one names the newest.
LEMMA NewestExists ==
    ASSUME NEW records, AreRecords(records), \A i \in DOMAIN records : records[i].version # Absent
    PROVE  \E i \in DOMAIN records :
             \A j \in DOMAIN records : records[j].version <= records[i].version
<1> DEFINE size == Len(records)
           version(i) == records[i].version
           Newest(i, n) == \A j \in 1 .. n : version(j) <= version(i)
           bad == {n \in Nat : n # 0 /\ n <= size /\ ~\E i \in 1 .. n : Newest(i, n)}
<1>1. size \in Nat /\ size # 0 /\ DOMAIN records = 1 .. size
  BY DEF AreRecords, IsSequence
<1>2. \A i \in 1 .. size : version(i) \in Nat
  BY <1>1 DEF AreRecords
<1> HIDE DEF size, version
<1>3. bad = {}
  <2> SUFFICES ASSUME bad # {} PROVE FALSE
    OBVIOUS
  <2>1. PICK n \in bad : \A m \in bad : n <= m
    BY LeastNumber
  <2>2. n \in Nat /\ n # 0 /\ n <= size /\ n \in 1 .. size /\ n - 1 \in Nat /\ ~(n <= n - 1)
    BY <1>1, <2>1
  <2>3. CASE n = 1
    <3>1. Newest(1, 1)
      BY <1>2, <2>2, <2>3
    <3> QED
      BY <2>1, <2>3, <3>1
  <2>4. CASE n # 1
    <3>0. n - 1 \notin bad
      <4> HIDE DEF bad
      <4> QED
        BY <2>1, <2>2
    <3>1. n - 1 # 0 /\ n - 1 <= size /\ \E i \in 1 .. n - 1 : Newest(i, n - 1)
      <4> HIDE DEF Newest
      <4> QED
        BY <1>1, <2>2, <2>4, <3>0
    <3>2. PICK i \in 1 .. n - 1 : Newest(i, n - 1)
      BY <2>2, <3>1
    <3>3. /\ i \in 1 .. n /\ version(i) \in Nat /\ version(n) \in Nat
          /\ \A j \in 1 .. n : j \in 1 .. n - 1 \/ j = n
          /\ \A j \in 1 .. n - 1 : version(j) \in Nat
      BY <1>1, <1>2, <2>2
    <3>4. CASE version(n) <= version(i)
      <4>1. Newest(i, n)
        BY <3>2, <3>3, <3>4
      <4> QED
        BY <2>1, <3>3, <4>1
    <3>5. CASE version(i) <= version(n)
      <4>1. Newest(n, n)
        BY <3>2, <3>3, <3>5
      <4> QED
        BY <2>1, <2>2, <4>1
    <3> QED
      BY <3>3, <3>4, <3>5
  <2> QED
    BY <2>3, <2>4
<1>4. PICK i \in 1 .. size : Newest(i, size)
  <2> HIDE DEF Newest
  <2> QED
    BY <1>1, <1>3
<1> QED
  BY <1>1, <1>4 DEF version

\* The positions that the sort may put first.
Firsts(records) ==
    {i \in DOMAIN records : ~\E j \in DOMAIN records : Tlsa!Precedes(records[j], records[i])}

Distinct(records) ==
    \A i, j \in DOMAIN records : records[i].version = records[j].version => i = j

\* With a version for each record there is one first record, the preferred one.
LEMMA OneIsFirst ==
    ASSUME NEW records, AreRecords(records), Distinct(records)
    PROVE  \E i \in DOMAIN records :
             /\ Firsts(records) = {i} /\ Tlsa!FindPreferredBadge(records) = records[i]
             /\ (\A j \in DOMAIN records : records[j].version # Absent) =>
                  \A j \in DOMAIN records : records[j].version <= records[i].version
<1> DEFINE dom == DOMAIN records
<1>1. dom \in SUBSET Nat
  BY DEF AreRecords, IsSequence
<1>2. ASSUME NEW i \in dom, Firsts(records) = {i}
      PROVE  Tlsa!FindPreferredBadge(records) = records[i]
  <2> DEFINE firsts == Firsts(records)
             chosen == CHOOSE k \in firsts : \A j \in firsts : k <= j
  <2>1. i \in Nat
    BY <1>1
  <2>2. chosen = i
    BY <1>2, <2>1
  <2> QED
    BY <2>2 DEF Tlsa!FindPreferredBadge, Firsts
<1>3. ASSUME NEW i \in dom, records[i].version = Absent PROVE Firsts(records) = {i}
  <2>1. ASSUME NEW j \in dom PROVE ~Tlsa!Precedes(records[j], records[i])
    BY <1>3 DEF Tlsa!Precedes
  <2>2. ASSUME NEW k \in dom, k # i PROVE Tlsa!Precedes(records[i], records[k])
    BY <1>3, <2>2 DEF Tlsa!Precedes, Distinct
  <2> QED
    BY <2>1, <2>2 DEF Firsts
<1>4. ASSUME \A j \in dom : records[j].version # Absent,
             NEW i \in dom, \A j \in dom : records[j].version <= records[i].version
      PROVE  Firsts(records) = {i}
  <2>0. \A j \in dom : records[j].version \in Nat
    BY <1>4 DEF AreRecords
  <2>1. ASSUME NEW j \in dom PROVE ~Tlsa!Precedes(records[j], records[i])
    BY <1>4, <2>0 DEF Tlsa!Precedes
  <2>2. ASSUME NEW k \in dom, k # i PROVE Tlsa!Precedes(records[i], records[k])
    <3>1. records[k].version # records[i].version
      BY <2>2 DEF Distinct
    <3>2. records[k].version < records[i].version
      BY <1>4, <2>0, <3>1
    <3> QED
      BY <1>4, <3>2 DEF Tlsa!Precedes
  <2> QED
    BY <2>1, <2>2 DEF Firsts
<1>5. CASE \E i \in dom : records[i].version = Absent
  BY <1>2, <1>3, <1>5
<1>6. CASE \A i \in dom : records[i].version # Absent
  BY <1>2, <1>4, <1>6, NewestExists
<1> QED
  BY <1>5, <1>6

\* The preferred badge does not depend on the order of the rows, and is the newest
\* one (find_preferred_badge).
THEOREM PreferenceIgnoresOrder ==
    ASSUME NEW records, AreRecords(records) PROVE Tlsa!ChoiceIgnoresOrder(records)
<1> SUFFICES ASSUME Distinct(records)
             PROVE  /\ Tlsa!FindPreferredBadge(records)
                         = Tlsa!FindPreferredBadge(Tlsa!Reversed(records))
                    /\ (\A i \in DOMAIN records : records[i].version # Absent) =>
                         \A i \in DOMAIN records :
                           Tlsa!FindPreferredBadge(records).version >= records[i].version
  BY DEF Tlsa!ChoiceIgnoresOrder, Distinct
<1> DEFINE size == Len(records)
           back == Tlsa!Reversed(records)
           turn(i) == size + 1 - i
<1>1. size \in Nat /\ size # 0 /\ DOMAIN records = 1 .. size
  BY DEF AreRecords, IsSequence
<1>2. /\ DOMAIN back = 1 .. size /\ \A i \in 1 .. size : back[i] = records[turn(i)]
      /\ \A i \in 1 .. size : turn(i) \in 1 .. size /\ turn(turn(i)) = i
      /\ \A i, j \in 1 .. size : turn(i) = turn(j) => i = j
  BY <1>1 DEF Tlsa!Reversed
<1>3. AreRecords(back)
  <2>1. PICK S : records \in Seq(S)
    BY DEF AreRecords, IsSequence
  <2>2. back \in Seq(S)
    BY <1>1, <1>2, <2>1 DEF Tlsa!Reversed
  <2>3. back # <<>>
    BY <1>1, <1>2
  <2>4. \A i \in DOMAIN back : back[i].version \in Nat \cup {Absent}
    BY <1>1, <1>2 DEF AreRecords
  <2> HIDE DEF back
  <2> QED
    BY <2>2, <2>3, <2>4 DEF AreRecords, IsSequence
<1> HIDE DEF back, turn
<1>4. Distinct(back)
  BY <1>1, <1>2 DEF Distinct
<1>5. PICK i \in DOMAIN records :
        /\ Firsts(records) = {i} /\ Tlsa!FindPreferredBadge(records) = records[i]
        /\ (\A j \in DOMAIN records : records[j].version # Absent) =>
             \A j \in DOMAIN records : records[j].version <= records[i].version
  BY OneIsFirst
<1>6. PICK k \in DOMAIN back :
        Firsts(back) = {k} /\ Tlsa!FindPreferredBadge(back) = back[k]
  BY <1>3, <1>4, OneIsFirst
<1>7. turn(k) \in Firsts(records)
  <2>1. ASSUME NEW j \in DOMAIN records PROVE ~Tlsa!Precedes(records[j], records[turn(k)])
    <3>1. back[turn(j)] = records[j] /\ turn(j) \in DOMAIN back /\ back[k] = records[turn(k)]
      BY <1>1, <1>2
    <3>2. ~Tlsa!Precedes(back[turn(j)], back[k])
      BY <1>6, <3>1 DEF Firsts
    <3> QED
      BY <3>1, <3>2
  <2>2. turn(k) \in DOMAIN records
    BY <1>1, <1>2
  <2> QED
    BY <2>1, <2>2 DEF Firsts
<1>8. back[k] = records[i]
  BY <1>1, <1>2, <1>5, <1>7
<1>9. ASSUME \A j \in DOMAIN records : records[j].version # Absent, NEW j \in DOMAIN records
      PROVE  Tlsa!FindPreferredBadge(records).version >= records[j].version
  <2>1. records[j].version \in Nat /\ records[i].version \in Nat
    BY <1>9 DEF AreRecords
  <2>2. records[j].version <= records[i].version
    BY <1>5, <1>9
  <2> QED
    BY <1>5, <2>1, <2>2
<1> QED
  BY <1>5, <1>6, <1>8, <1>9 DEF back

-----------------------------------------------------------------------------
(***************************************************************************)
(* The clients of the log                                                  *)
(***************************************************************************)
\* A reply of a server that serves badges.
IsAnswer(r) ==
    r = NoReply \/ (r.status \in Nat /\ r.body.kind \in {"cut", "malformed", "whole"})
IsUrl(u) == \E scheme, host, path : u = [scheme |-> scheme, host |-> host, path |-> path]

(***************************************************************************)
(* A badge is the full answer of its own server, and an error is an outage *)
(* exactly if that server gave no determinate answer.                      *)
(***************************************************************************)
THEOREM BadgesComeFromTheirHost ==
    ASSUME NEW trusted, Absent \notin trusted, NEW client, NEW web,
           NEW url \in DOMAIN web, IsAnswer(web[url])
    PROVE  Log!BadgesAreHonest(trusted, client, url, web)
<1> DEFINE reply == web[url]
           fetched == Log!Fetch(client, url, web)
           got == Log!ObtainBadge(trusted, client, url, web)
           asked == url.scheme = "https" /\ url.host \in trusted /\ Log!HeadersOk(client)
           unknown == /\ Log!Succeeds(reply) /\ reply.body.kind = "whole"
                      /\ reply.body.value.status = "UNKNOWN"
<1>1. Log!Only(url.host, web)[url] = reply
  BY DEF Log!Only
<1>2. got = Log!ObtainBadge(trusted, client, url, Log!Only(url.host, web))
  <2>1. Log!SendStrict(url, Log!Only(url.host, web)) = Log!SendStrict(url, web)
    BY <1>1 DEF Log!SendStrict
  <2>2. Log!Fetch(client, url, Log!Only(url.host, web)) = fetched
    BY <2>1 DEF Log!Fetch
  <2> QED
    BY <2>2 DEF Log!ObtainBadge
<1>3. CASE ~(url.scheme = "https" /\ url.host \in trusted)
  <2>1. got \in {Log!Err("InvalidUrl"), Log!Err("UntrustedDomain")}
    BY <1>3 DEF Log!ObtainBadge, Log!ValidateBadgeDomain
  <2>2. ~Log!IsOk(got) /\ ~Log!IsUnavailable(got.error)
    BY <2>1 DEF Log!IsOk, Log!IsUnavailable, Log!Err
  <2> QED
    BY <1>2, <1>3, <2>2 DEF Log!BadgesAreHonest
<1>4. CASE url.scheme = "https" /\ url.host \in trusted
  <2>1. got = Log!RequireKnownBadgeStatus(fetched)
    BY <1>4 DEF Log!ObtainBadge, Log!ValidateBadgeDomain
  <2>2. Log!SendStrict(url, web) = reply
    BY <1>4 DEF Log!SendStrict
  <2>3. /\ ~Log!HeadersOk(client) => fetched = Log!Err("InvalidHeader")
        /\ asked /\ reply = NoReply => fetched = Log!Err("HttpError")
    BY <2>2 DEF Log!Fetch
  <2>4. ASSUME asked, reply # NoReply
        PROVE  /\ Log!IsOk(fetched) <=> Log!Succeeds(reply) /\ reply.body.kind = "whole"
               /\ Log!IsOk(fetched) => fetched = Log!Ok(reply.body.value)
               /\ Log!IsUnavailable(fetched.error) <=> Log!IsOutageReply(reply)
    <3>1. reply.status \in Nat /\ reply.body.kind \in {"cut", "malformed", "whole"}
      BY <2>4 DEF IsAnswer
    <3>2. /\ reply.status = 404 => fetched = Log!Err("NotFound")
          /\ reply.status >= 500 \/ reply.status = 429 => fetched = Log!Err("ServiceUnavailable")
      BY <2>2, <2>4, <3>1 DEF Log!Fetch
    <3>3. /\ /\ reply.status # 404 /\ ~(reply.status >= 500 \/ reply.status = 429)
             /\ reply.status \notin 200 .. 299
             => fetched = Log!Err("InvalidResponse")
      BY <2>2, <2>4, <3>1 DEF Log!Fetch
    <3>4. ASSUME reply.status \in 200 .. 299
          PROVE  /\ reply.body.kind = "cut" => fetched = Log!Err("HttpError")
                 /\ reply.body.kind = "malformed" => fetched = Log!Err("InvalidResponse")
                 /\ reply.body.kind = "whole" => fetched = Log!Ok(reply.body.value)
      <4>1. reply.status # 404 /\ ~(reply.status >= 500) /\ reply.status # 429
        BY <3>4
      <4> QED
        BY <2>2, <2>4, <3>4, <4>1 DEF Log!Fetch
    <3>5. CASE reply.status \in 200 .. 299
      <4>1. Log!Succeeds(reply) /\ ~(reply.status >= 500) /\ reply.status # 429
        BY <2>4, <3>5 DEF Log!Succeeds
      <4>2. Log!IsOutageReply(reply) <=> reply.body.kind = "cut"
        BY <2>4, <4>1 DEF Log!IsOutageReply
      <4> QED
        BY <3>1, <3>4, <3>5, <4>1, <4>2
        DEF Log!IsOk, Log!IsUnavailable, Log!Err, Log!Ok
    <3>6. CASE reply.status \notin 200 .. 299
      <4>1. ~Log!Succeeds(reply)
        BY <3>6 DEF Log!Succeeds
      <4>2. Log!IsOutageReply(reply) <=> reply.status >= 500 \/ reply.status = 429
        BY <2>4, <4>1 DEF Log!IsOutageReply
      <4>3. fetched \in {Log!Err("NotFound"), Log!Err("ServiceUnavailable"),
                         Log!Err("InvalidResponse")}
        BY <3>2, <3>3, <3>6
      <4>4. fetched = Log!Err("ServiceUnavailable") <=> Log!IsOutageReply(reply)
        <5>1. CASE reply.status >= 500 \/ reply.status = 429
          BY <3>2, <4>2, <5>1
        <5>2. CASE reply.status = 404
          <6>1. ~(reply.status >= 500 \/ reply.status = 429)
            BY <5>2
          <6> QED
            BY <3>2, <4>2, <5>2, <6>1 DEF Log!Err
        <5>3. CASE reply.status # 404 /\ ~(reply.status >= 500 \/ reply.status = 429)
          BY <3>3, <3>6, <4>2, <5>3 DEF Log!Err
        <5> QED
          BY <5>1, <5>2, <5>3
      <4> QED
        BY <4>1, <4>3, <4>4 DEF Log!IsOk, Log!IsUnavailable, Log!Err
    <3> QED
      BY <3>5, <3>6
  <2>5. /\ Log!IsOk(got) => Log!IsOk(fetched) /\ got = fetched /\ fetched.value.status # "UNKNOWN"
        /\ ~Log!IsOk(got) => \/ got = fetched
                             \/ Log!IsOk(fetched) /\ fetched.value.status = "UNKNOWN"
        /\ Log!IsUnavailable(got.error) <=>
             \/ Log!IsUnavailable(fetched.error)
             \/ Log!IsOk(fetched) /\ fetched.value.status = "UNKNOWN"
    BY <2>1 DEF Log!RequireKnownBadgeStatus, Log!IsOk, Log!IsUnavailable, Log!Err
  <2>6. CASE ~Log!HeadersOk(client)
    <3>1. ~Log!IsOk(fetched) /\ ~Log!IsUnavailable(fetched.error)
      BY <2>3, <2>6 DEF Log!IsOk, Log!IsUnavailable, Log!Err
    <3> QED
      BY <1>2, <2>5, <2>6, <3>1 DEF Log!BadgesAreHonest
  <2>7. CASE asked /\ reply = NoReply
    <3>1. ~Log!IsOk(fetched) /\ Log!IsUnavailable(fetched.error)
      BY <2>3, <2>7 DEF Log!IsOk, Log!IsUnavailable, Log!Err
    <3>2. Log!IsOutageReply(reply)
      BY <2>7 DEF Log!IsOutageReply
    <3> QED
      BY <1>2, <2>5, <2>7, <3>1, <3>2 DEF Log!BadgesAreHonest
  <2>8. CASE asked /\ reply # NoReply
    <3>1. Log!IsOk(fetched) =>
            fetched.value = reply.body.value
      BY <2>4, <2>8 DEF Log!Ok
    <3>2. Log!IsOk(fetched) /\ fetched.value.status = "UNKNOWN" <=> unknown
      BY <2>4, <2>8, <3>1
    <3>3. Log!IsOk(got) => /\ asked /\ Log!Succeeds(reply) /\ ~unknown
                           /\ reply.body.kind = "whole" /\ reply.body.value = got.value
      BY <2>4, <2>5, <2>8, <3>1, <3>2
    <3>4. Log!IsUnavailable(got.error) <=> asked /\ (Log!IsOutageReply(reply) \/ unknown)
      BY <2>4, <2>5, <2>8, <3>2
    <3> QED
      BY <1>2, <3>3, <3>4 DEF Log!BadgesAreHonest
  <2> QED
    BY <1>4, <2>6, <2>7, <2>8
<1> QED
  BY <1>3, <1>4

\* The URLs that FetchBadgeById and FetchAudit ask.
AgentPaths(agent) == {<<"v1", "agents", agent>>, <<"v1", "agents", agent, "audit">>}

(***************************************************************************)
(* Requests by agent id ask the configured log only.                       *)
(***************************************************************************)
THEOREM LookupsAskTheLog ==
    ASSUME NEW client, NEW agent, NEW web,
           client.base # Absent =>
             /\ IsUrl(client.base)
             /\ \A path \in AgentPaths(agent) : Log!Join(client.base, path) \in DOMAIN web
    PROVE  Log!LookupsStayHome(client, agent, web)
<1>1. CASE client.base = Absent
  <2>1. \A w : /\ Log!FetchBadgeById(client, agent, w) = Log!Err("InvalidUrl")
               /\ Log!FetchAudit(client, agent, w) = Log!Err("InvalidUrl")
    BY <1>1 DEF Log!FetchBadgeById, Log!FetchAudit
  <2>2. ~Log!IsUnavailable(Log!Err("InvalidUrl").error)
    BY DEF Log!IsUnavailable, Log!Err
  <2> QED
    BY <2>1, <2>2 DEF Log!LookupsStayHome
<1>2. CASE client.base # Absent
  <2> DEFINE own == Log!Only(client.base.host, web)
  <2>1. ASSUME NEW path \in AgentPaths(agent)
        PROVE  Log!Fetch(client, Log!Join(client.base, path), own)
                 = Log!Fetch(client, Log!Join(client.base, path), web)
    <3>1. PICK scheme, host, segments :
            client.base = [scheme |-> scheme, host |-> host, path |-> segments]
      BY <1>2 DEF IsUrl
    <3>2. Log!Join(client.base, path).host = client.base.host
      BY <3>1 DEF Log!Join
    <3>3. own[Log!Join(client.base, path)] = web[Log!Join(client.base, path)]
      BY <1>2, <3>2 DEF Log!Only
    <3>4. Log!SendStrict(Log!Join(client.base, path), own)
            = Log!SendStrict(Log!Join(client.base, path), web)
      BY <3>3 DEF Log!SendStrict
    <3> QED
      BY <3>4 DEF Log!Fetch
  <2>2. /\ Log!FetchBadgeById(client, agent, own) = Log!FetchBadgeById(client, agent, web)
        /\ Log!FetchAudit(client, agent, own) = Log!FetchAudit(client, agent, web)
    BY <1>2, <2>1 DEF Log!FetchBadgeById, Log!FetchAudit, AgentPaths
  <2> QED
    BY <1>2, <2>2 DEF Log!LookupsStayHome
<1> QED
  BY <1>1, <1>2

(***************************************************************************)
(* A SCITT fetch reports a terminal agent only for a 410, and lets the     *)
(* badge decide only if the artifact was not delivered.                    *)
(***************************************************************************)
THEOREM ScittErrorsAreHonest ==
    ASSUME NEW client, NEW agent, NEW web
    PROVE  Log!ScittErrorsHonest(client, agent, web)
<1>1. ASSUME NEW url
      PROVE  Log!ScittErrorHonest(client, Log!GetBytes(client, url, web),
                                  Log!SendFollowing(url, web))
  <2> DEFINE reply == Log!SendFollowing(url, web)
             got == Log!GetBytes(client, url, web)
  <2> HIDE DEF reply
  <2>0. Log!SendFollowing(url, web) = reply
    BY DEF reply
  <2>1. CASE ~Log!HeadersOk(client)
    <3>1. got = Log!Err("InvalidUrl")
      BY <2>1 DEF Log!GetBytes
    <3> QED
      BY <2>0, <2>1, <3>1 DEF Log!ScittErrorHonest, Log!IsTerminalStatus, Log!Err, Log!IsOk,
                        Log!ShouldFallbackToBadge
  <2>2. CASE Log!HeadersOk(client) /\ reply = NoReply
    <3>1. got = Log!Err("HttpError")
      BY <2>0, <2>2 DEF Log!GetBytes
    <3>2. ~Log!Succeeds(reply)
      BY <2>2 DEF Log!Succeeds
    <3> QED
      BY <2>0, <2>2, <3>1, <3>2 DEF Log!ScittErrorHonest, Log!IsTerminalStatus, Log!Err, Log!IsOk
  <2>3. CASE Log!HeadersOk(client) /\ reply # NoReply
    <3>1. /\ reply.status = 404 => got = Log!Err("NotFound")
          /\ reply.status = 410 => got = Log!Err("AgentTerminal")
          /\ reply.status = 501 => got = Log!Err("NotSupported")
      BY <2>0, <2>3 DEF Log!GetBytes
    <3>2. reply.status \notin {404, 410, 501} /\ reply.status \notin 200 .. 299 =>
            got = Log!Err("UnexpectedHttpStatus")
      BY <2>0, <2>3 DEF Log!GetBytes
    <3>3. reply.status \in 200 .. 299 =>
            got = IF reply.body.kind = "cut" THEN Log!Err("HttpError")
                  ELSE IF reply.body.kind = "oversized" THEN Log!Err("OversizedInput")
                  ELSE Log!Ok(reply.body.value)
      <4>1. reply.status \in 200 .. 299 => reply.status \notin {404, 410, 501}
        OBVIOUS
      <4> QED
        BY <2>0, <2>3, <4>1 DEF Log!GetBytes
    <3>4. CASE reply.status \in 200 .. 299
      <4>1. reply.status # 410 /\ Log!Succeeds(reply)
        BY <2>3, <3>4 DEF Log!Succeeds
      <4> QED
        BY <2>0, <2>3, <3>3, <3>4, <4>1
        DEF Log!ScittErrorHonest, Log!IsTerminalStatus, Log!ShouldFallbackToBadge, Log!Err,
            Log!Ok, Log!IsOk
    <3>5. CASE reply.status \notin 200 .. 299
      <4>1. ~Log!Succeeds(reply)
        BY <3>5 DEF Log!Succeeds
      <4>2. Log!IsTerminalStatus(got.error) <=> reply.status = 410
        BY <3>1, <3>2, <3>5 DEF Log!IsTerminalStatus, Log!Err
      <4>3. ~Log!IsOk(got)
        BY <3>1, <3>2, <3>5 DEF Log!IsOk, Log!Err
      <4>4. Log!ShouldFallbackToBadge(got.error) => ~Log!IsTerminalStatus(got.error)
        BY DEF Log!IsTerminalStatus, Log!ShouldFallbackToBadge
      <4> QED
        BY <2>0, <2>3, <4>1, <4>2, <4>3, <4>4 DEF Log!ScittErrorHonest
    <3> QED
      BY <3>4, <3>5
  <2> QED
    BY <2>1, <2>2, <2>3
<1> QED
  BY <1>1 DEF Log!ScittErrorsHonest, Log!FetchReceipt, Log!FetchStatusToken

(***************************************************************************)
(* The error that is kept of several                                       *)
(***************************************************************************)
RecordedUpTo(f, errors, n) ==
    f = [i \in 0 .. n |->
           IF i = 0 THEN "none" ELSE Log!RecordTlogError(f[i - 1], errors[i])]

LEMMA RecordedExists ==
    ASSUME NEW errors, NEW n \in Nat PROVE \E f : RecordedUpTo(f, errors, n)
<1> DEFINE missing == {m \in Nat : ~\E f : RecordedUpTo(f, errors, m)}
<1>1. SUFFICES ASSUME missing # {} PROVE FALSE
  OBVIOUS
<1>2. PICK m \in missing : \A j \in missing : m <= j
  BY <1>1, LeastNumber
<1>3. CASE m = 0
  <2>1. RecordedUpTo([i \in 0 .. 0 |-> "none"], errors, 0)
    BY DEF RecordedUpTo
  <2> QED
    BY <1>2, <1>3, <2>1
<1>4. CASE m # 0
  <2> DEFINE Next(f, i) == Log!RecordTlogError(f[i - 1], errors[i])
  <2>1. m - 1 \in Nat /\ m - 1 \notin missing
    BY <1>2, <1>4
  <2>2. PICK f : RecordedUpTo(f, errors, m - 1)
    BY <2>1
  <2> DEFINE g == [i \in 0 .. m |-> IF i = m THEN Next(f, m) ELSE f[i]]
  <2>3. \A i \in 0 .. m - 1 : f[i] = IF i = 0 THEN "none" ELSE Next(f, i)
    BY <2>2 DEF RecordedUpTo
  <2>4. \A i \in 0 .. m : g[i] = IF i = 0 THEN "none" ELSE Next(g, i)
    <3>1. ASSUME NEW i \in 0 .. m - 1 PROVE g[i] = IF i = 0 THEN "none" ELSE Next(g, i)
      <4>1. g[i] = f[i] /\ (i # 0 => g[i - 1] = f[i - 1])
        BY <1>2, <3>1
      <4> HIDE DEF g
      <4> QED
        BY <2>3, <4>1
    <3>2. g[m] = Next(g, m)
      <4>1. g[m] = Next(f, m) /\ g[m - 1] = f[m - 1]
        BY <1>2, <1>4
      <4> HIDE DEF g
      <4> QED
        BY <4>1
    <3> HIDE DEF g, Next
    <3> QED
      BY <1>2, <1>4, <3>1, <3>2
  <2>5. g = [i \in 0 .. m |-> g[i]]
    OBVIOUS
  <2> HIDE DEF g
  <2>6. RecordedUpTo(g, errors, m)
    BY <2>4, <2>5 DEF RecordedUpTo
  <2> QED
    BY <1>2, <2>6
<1> QED
  BY <1>3, <1>4

\* What is kept of the first i errors.
RecordedWell(kept, errors, i) ==
    /\ \E j \in 1 .. i : kept = errors[j]
    /\ Log!IsUnavailable(kept) <=> \A j \in 1 .. i : Log!IsUnavailable(errors[j])

(***************************************************************************)
(* Of several failed requests an outage is reported only if every one was  *)
(* an outage.                                                              *)
(***************************************************************************)
THEOREM AdverseErrorsSurvive ==
    ASSUME NEW errors, IsSequence(errors), errors # <<>>,
           \A i \in DOMAIN errors : errors[i] # "none"
    PROVE  Log!AdverseSurvives(errors)
<1> DEFINE kept == CHOOSE f : RecordedUpTo(f, errors, Len(errors))
<1>1. Len(errors) \in Nat /\ Len(errors) # 0 /\ DOMAIN errors = 1 .. Len(errors)
  BY DEF IsSequence
<1>2. RecordedUpTo(kept, errors, Len(errors))
  BY <1>1, RecordedExists
<1>3. Log!Recorded(errors) = kept[Len(errors)]
  BY DEF Log!Recorded, RecordedUpTo
<1> HIDE DEF kept
<1>4. /\ kept[0] = "none"
      /\ \A i \in 1 .. Len(errors) : kept[i] = Log!RecordTlogError(kept[i - 1], errors[i])
  <2>1. kept = [i \in 0 .. Len(errors) |->
                  IF i = 0 THEN "none" ELSE Log!RecordTlogError(kept[i - 1], errors[i])]
    BY <1>2 DEF RecordedUpTo
  <2> DEFINE Next(i) == Log!RecordTlogError(kept[i - 1], errors[i])
  <2>2. kept = [i \in 0 .. Len(errors) |-> IF i = 0 THEN "none" ELSE Next(i)]
    BY <2>1
  <2> HIDE DEF Next
  <2>3. kept[0] = "none" /\ \A i \in 1 .. Len(errors) : kept[i] = Next(i)
    <3>1. kept[0] = "none"
      BY <1>1, <2>2
    <3>2. ASSUME NEW i \in 1 .. Len(errors) PROVE kept[i] = Next(i)
      <4>1. i \in 0 .. Len(errors) /\ i # 0
        BY <1>1
      <4> QED
        BY <2>2, <4>1
    <3> QED
      BY <3>1, <3>2
  <2> QED
    BY <2>3 DEF Next
<1> DEFINE bad == {i \in Nat : i # 0 /\ i <= Len(errors) /\ ~RecordedWell(kept[i], errors, i)}
<1>5. bad = {}
  <2>1. SUFFICES ASSUME bad # {} PROVE FALSE
    OBVIOUS
  <2>2. PICK m \in bad : \A j \in bad : m <= j
    BY <2>1, LeastNumber
  <2>3. m \in 1 .. Len(errors) /\ errors[m] # "none" /\ m \in Nat
    BY <1>1, <2>2
  <2>4. CASE m = 1
    <3>1. kept[m] = Log!RecordTlogError("none", errors[1])
      BY <1>4, <2>3, <2>4
    <3>2. kept[m] = errors[1]
      BY <3>1 DEF Log!RecordTlogError
    <3>3. RecordedWell(kept[m], errors, m)
      BY <2>4, <3>2 DEF RecordedWell
    <3> QED
      BY <2>2, <3>3
  <2>5. CASE m # 1
    <3>1. /\ m - 1 \in Nat /\ m - 1 # 0 /\ m - 1 <= Len(errors) /\ ~(m <= m - 1)
          /\ 1 .. m = (1 .. (m - 1)) \cup {m}
      BY <1>1, <2>3, <2>5
    <3>2. RecordedWell(kept[m - 1], errors, m - 1)
      BY <2>2, <3>1
    <3> DEFINE previous == kept[m - 1]
    <3>3. kept[m] = Log!RecordTlogError(previous, errors[m])
      BY <1>4, <2>3
    <3>4. PICK j \in 1 .. m - 1 : previous = errors[j]
      BY <3>2 DEF RecordedWell
    <3>5. previous # "none" /\ j \in 1 .. m /\ m \in 1 .. m
      BY <1>1, <2>3, <3>1, <3>4
    <3>6. Log!IsUnavailable(previous) <=>
            \A h \in 1 .. m - 1 : Log!IsUnavailable(errors[h])
      BY <3>2 DEF RecordedWell
    <3> HIDE DEF previous
    <3>7. kept[m] = IF Log!IsUnavailable(errors[m]) /\ ~Log!IsUnavailable(previous)
                    THEN previous ELSE errors[m]
      BY <3>3, <3>5 DEF Log!RecordTlogError
    <3>8. \E h \in 1 .. m : kept[m] = errors[h]
      BY <3>4, <3>5, <3>7
    <3>9. Log!IsUnavailable(kept[m]) <=> Log!IsUnavailable(errors[m]) /\ Log!IsUnavailable(previous)
      BY <3>7
    <3>10. (\A h \in 1 .. m : Log!IsUnavailable(errors[h])) <=>
             Log!IsUnavailable(errors[m]) /\ \A h \in 1 .. m - 1 : Log!IsUnavailable(errors[h])
      BY <3>1
    <3> QED
      BY <2>2, <3>6, <3>8, <3>9, <3>10 DEF RecordedWell
  <2> QED
    BY <2>4, <2>5
<1>6. RecordedWell(kept[Len(errors)], errors, Len(errors))
  BY <1>1, <1>5
<1>7. /\ Log!Range(errors) = {errors[j] : j \in 1 .. Len(errors)}
  BY <1>1 DEF Log!Range
<1> QED
  BY <1>3, <1>6, <1>7 DEF Log!AdverseSurvives, RecordedWell

(***************************************************************************)
(* Redirects                                                               *)
(***************************************************************************)
\* Where a redirect may lead with so many redirects left.
Reached(f, web, left) ==
    [u \in DOMAIN web |->
       IF web[u] = NoReply \/ web[u].location = Absent THEN web[u]
       ELSE IF left = 0 THEN NoReply ELSE f[left - 1][web[u].location]]

FollowedUpTo(f, web, n) == f = [left \in 0 .. n |-> Reached(f, web, left)]

LEMMA FollowedExists ==
    ASSUME NEW web, NEW n \in Nat PROVE \E f : FollowedUpTo(f, web, n)
<1> DEFINE missing == {m \in Nat : ~\E f : FollowedUpTo(f, web, m)}
<1>1. SUFFICES ASSUME missing # {} PROVE FALSE
  OBVIOUS
<1>2. PICK m \in missing : \A j \in missing : m <= j
  BY <1>1, LeastNumber
<1>3. ASSUME NEW f, NEW g, NEW left \in Nat, left # 0 => f[left - 1] = g[left - 1]
      PROVE  Reached(f, web, left) = Reached(g, web, left)
  BY <1>3 DEF Reached
<1>4. \E f : \A left \in 0 .. m : left # m => f[left] = Reached(f, web, left)
  <2>1. CASE m = 0
    <3>1. \A left \in 0 .. m : left = m
      BY <2>1
    <3> QED
      BY <3>1
  <2>2. CASE m # 0
    <3>1. m - 1 \in Nat /\ m - 1 \notin missing
      BY <1>2, <2>2
    <3>2. PICK f : FollowedUpTo(f, web, m - 1)
      BY <3>1
    <3>3. \A left \in 0 .. m - 1 : f[left] = Reached(f, web, left)
      BY <3>2 DEF FollowedUpTo
    <3>4. \A left \in 0 .. m : left # m => left \in 0 .. m - 1
      BY <1>2
    <3> QED
      BY <3>3, <3>4
  <2> QED
    BY <2>1, <2>2
<1>5. PICK f : \A left \in 0 .. m : left # m => f[left] = Reached(f, web, left)
  BY <1>4
<1> DEFINE g == [left \in 0 .. m |-> IF left = m THEN Reached(f, web, m) ELSE f[left]]
<1>6. \A left \in 0 .. m : g[left] = IF left = m THEN Reached(f, web, m) ELSE f[left]
  OBVIOUS
<1>7. g = [left \in 0 .. m |-> g[left]]
  OBVIOUS
<1> HIDE DEF g
<1>8. ASSUME NEW left \in 0 .. m PROVE g[left] = Reached(g, web, left)
  <2>1. left \in Nat /\ (left # 0 => left - 1 \in 0 .. m /\ left - 1 # m)
    BY <1>2
  <2>2. left # 0 => f[left - 1] = g[left - 1]
    BY <1>6, <2>1
  <2>3. Reached(f, web, left) = Reached(g, web, left)
    BY <1>3, <2>1, <2>2
  <2>4. g[left] = Reached(f, web, left)
    <3>1. CASE left = m
      BY <1>6, <3>1
    <3>2. CASE left # m
      BY <1>5, <1>6, <3>2
    <3> QED
      BY <3>1, <3>2
  <2> QED
    BY <2>3, <2>4
<1>9. FollowedUpTo(g, web, m)
  BY <1>7, <1>8 DEF FollowedUpTo
<1> QED
  BY <1>2, <1>9

\* Every redirect leads to a URL of the web.
IsWeb(web) ==
    \A u \in DOMAIN web : \/ web[u] = NoReply
                          \/ web[u].location \in DOMAIN web \cup {Absent}

\* Following redirects ends at a reply of the web, or at none.
LEMMA FollowedToTheEnd ==
    ASSUME NEW web, IsWeb(web), NEW url \in DOMAIN web
    PROVE  \/ Log!SendFollowing(url, web) = NoReply
           \/ \E u \in DOMAIN web : Log!SendFollowing(url, web) = web[u]
<1> DEFINE f == CHOOSE g : FollowedUpTo(g, web, MaxRedirects)
           good(r) == r = NoReply \/ \E u \in DOMAIN web : r = web[u]
<1>1. FollowedUpTo(f, web, MaxRedirects)
  BY RedirectAssumption, FollowedExists
<1>2. Log!SendFollowing(url, web) = f[MaxRedirects][url]
  BY DEF Log!SendFollowing, FollowedUpTo, Reached
<1> HIDE DEF f
<1>3. \A left \in 0 .. MaxRedirects : f[left] = Reached(f, web, left)
  BY <1>1 DEF FollowedUpTo
<1> DEFINE bad == {n \in Nat : n <= MaxRedirects /\ \E u \in DOMAIN web : ~good(f[n][u])}
<1> HIDE DEF good
<1>4. bad = {}
  <2>1. SUFFICES ASSUME bad # {} PROVE FALSE
    OBVIOUS
  <2>2. PICK m \in bad : \A j \in bad : m <= j
    BY <2>1, LeastNumber
  <2>3. PICK u \in DOMAIN web : ~good(f[m][u])
    BY <2>2
  <2>4. f[m] = Reached(f, web, m)
    BY <1>3, <2>2, RedirectAssumption
  <2>5. good(web[u]) /\ good(NoReply)
    BY DEF good
  <2>6. web[u] # NoReply /\ web[u].location # Absent /\ m # 0
    BY <2>3, <2>4, <2>5 DEF Reached
  <2>7. f[m][u] = f[m - 1][web[u].location]
    BY <2>4, <2>6 DEF Reached
  <2>8. web[u].location \in DOMAIN web
    BY <2>6 DEF IsWeb
  <2>9. m - 1 \in Nat /\ m - 1 <= MaxRedirects /\ ~(m <= m - 1)
    BY <2>2, <2>6, RedirectAssumption
  <2>10. m - 1 \notin bad
    BY <2>2, <2>9
  <2> QED
    BY <2>3, <2>7, <2>8, <2>9, <2>10
<1>5. MaxRedirects \notin bad
  BY <1>4
<1>6. good(f[MaxRedirects][url])
  BY <1>5, RedirectAssumption
<1> QED
  BY <1>2, <1>6 DEF good

\* A body that arrives is a sequence of lines.
ServesLines(web) ==
    \A u \in DOMAIN web :
       Log!Succeeds(web[u]) /\ web[u].body.kind # "cut" => IsSequence(web[u].body.value)

(***************************************************************************)
(* Root keys arrive complete or not at all, and never none.                *)
(***************************************************************************)
THEOREM RootKeysArriveWhole ==
    ASSUME NEW client, NEW web, IsWeb(web), ServesLines(web),
           Log!Join(client.base, <<"root-keys">>) \in DOMAIN web
    PROVE  Log!RootKeysHonest(client, web)
<1> DEFINE url == Log!Join(client.base, <<"root-keys">>)
           final == Log!SendFollowing(url, web)
           keys == Log!Without(final.body.value, "")
           got == Log!FetchRootKeys(client, web)
<1>1. \/ final = NoReply
      \/ \E u \in DOMAIN web : final = web[u]
  BY FollowedToTheEnd
<1>2. got = IF ~Log!HeadersOk(client) THEN Log!Err("InvalidUrl")
            ELSE IF final = NoReply THEN Log!Err("HttpError")
            ELSE IF final.status = 501 THEN Log!Err("NotSupported")
            ELSE IF final.status \notin 200 .. 299 THEN Log!Err("UnexpectedHttpStatus")
            ELSE IF final.body.kind = "cut" THEN Log!Err("HttpError")
            ELSE IF keys = <<>> THEN Log!Err("InvalidKeyFormat")
            ELSE Log!Ok(keys)
  BY DEF Log!FetchRootKeys
<1> HIDE DEF final, got, keys
<1>3. ~Log!IsTerminalStatus(got.error)
  BY <1>2 DEF Log!IsTerminalStatus, Log!Err, Log!Ok
<1>4. ASSUME Log!IsOk(got)
      PROVE  /\ got.value = keys /\ keys # <<>>
             /\ Log!Succeeds(final) /\ final.body.kind # "cut"
  BY <1>2, <1>4 DEF Log!IsOk, Log!Err, Log!Ok, Log!Succeeds
<1>5. ASSUME Log!IsOk(got)
      PROVE  "" \notin Log!Range(got.value)
             /\ Log!Range(got.value) = Log!Range(final.body.value) \ {""}
  <2>1. final # NoReply
    BY <1>4, <1>5 DEF Log!Succeeds
  <2>2. PICK u \in DOMAIN web : final = web[u]
    BY <1>1, <2>1
  <2>3. PICK S : final.body.value \in Seq(S)
    BY <1>4, <1>5, <2>2 DEF ServesLines, IsSequence
  <2>4. keys = Without(final.body.value, "")
    BY OneSelection DEF keys
  <2>5. Range(keys) = Range(final.body.value) \ {""}
    BY <2>3, <2>4, Remaining
  <2>6. Log!Range(keys) = Range(keys) /\ Log!Range(final.body.value) = Range(final.body.value)
    BY DEF Log!Range, Range
  <2> QED
    BY <1>4, <1>5, <2>5, <2>6
<1> QED
  BY <1>3, <1>4, <1>5 DEF Log!RootKeysHonest, final, got

LEMMA FrontOfAppend ==
    ASSUME NEW S, NEW s \in Seq(S), NEW x PROVE Log!Front(Append(s, x)) = s
<1> DEFINE longer == Append(s, x)
<1>1. s \in Seq(S \cup {x}) /\ x \in S \cup {x} /\ Len(s) \in Nat
  OBVIOUS
<1>2. /\ longer \in Seq(S \cup {x}) /\ Len(longer) = Len(s) + 1 /\ (Len(s) + 1) - 1 = Len(s)
      /\ \A i \in 1 .. Len(s) : longer[i] = s[i]
  BY <1>1
<1> HIDE DEF longer
<1>3. 1 \in 1 .. Len(s) + 1 /\ Len(s) \in (1 - 1) .. Len(longer)
  BY <1>1, <1>2
<1>4. /\ SubSeq(longer, 1, Len(s)) \in Seq(S \cup {x}) /\ Len(SubSeq(longer, 1, Len(s))) = Len(s)
      /\ \A i \in 1 .. Len(s) : SubSeq(longer, 1, Len(s))[i] = longer[i]
  <2>1. /\ SubSeq(longer, 1, Len(s)) \in Seq(S \cup {x})
        /\ Len(SubSeq(longer, 1, Len(s))) = Len(s) - 1 + 1
        /\ \A i \in 1 .. Len(s) - 1 + 1 : SubSeq(longer, 1, Len(s))[i] = longer[1 + i - 1]
    BY <1>1, <1>2, <1>3, SubSeqProperties
  <2> QED
    BY <1>1, <2>1
<1>5. SubSeq(longer, 1, Len(s)) = s
  BY <1>1, <1>2, <1>4
<1> QED
  BY <1>2, <1>5 DEF Log!Front, longer

(***************************************************************************)
(* The base of the SCITT client keeps the path of the configured URL.      *)
(***************************************************************************)
THEOREM BasesAreKept ==
    ASSUME NEW S, NEW segments \in Seq(S), segments # <<>>, NEW scheme, NEW host, NEW path
    PROVE  Log!BaseIsKept([scheme |-> scheme, host |-> host, path |-> segments], path)
<1> DEFINE url == [scheme |-> scheme, host |-> host, path |-> segments]
           bare == IF Log!Last(segments) = "" THEN Log!Front(segments) ELSE segments
<1>1. ASSUME NEW p PROVE [url EXCEPT !.path = p] = [scheme |-> scheme, host |-> host, path |-> p]
  OBVIOUS
<1>2. ASSUME NEW p, Log!Front(p) = bare, Log!ScittBase(url) = [url EXCEPT !.path = p]
      PROVE  Log!Join(Log!ScittBase(url), path) = [url EXCEPT !.path = bare \o path]
  <2>1. Log!ScittBase(url).path = p
    BY <1>1, <1>2
  <2>2. [Log!ScittBase(url) EXCEPT !.path = bare \o path] = [url EXCEPT !.path = bare \o path]
    BY <1>2
  <2> QED
    BY <1>2, <2>1, <2>2 DEF Log!Join
<1>3. CASE Log!Last(segments) = ""
  <2>1. Log!ScittBase(url) = url /\ Log!Front(segments) = bare
    BY <1>3 DEF Log!ScittBase
  <2>2. url = [url EXCEPT !.path = segments]
    BY <1>1
  <2> QED
    BY <1>2, <2>1, <2>2 DEF Log!BaseIsKept
<1>4. CASE Log!Last(segments) # ""
  <2>1. Log!Front(Append(segments, "")) = segments
    BY FrontOfAppend
  <2>2. Log!ScittBase(url) = [url EXCEPT !.path = Append(segments, "")]
    BY <1>4 DEF Log!ScittBase
  <2>3. bare = segments
    BY <1>4
  <2> QED
    BY <1>2, <2>1, <2>2, <2>3 DEF Log!BaseIsKept
<1> QED
  BY <1>3, <1>4

\* What the families about DNS and the log are asked about: what the resolver and
\* the servers may answer.
AnswerInputs ==
    /\ Given("badge") \/ Given("discovery") => IsReply(input.of[1]) /\ IsReply(input.of[2])
    /\ Given("records") => AreRecords(input.of)
    /\ Given("log") =>
         /\ Absent \notin input.of[1]
         /\ input.of[4] \in DOMAIN input.of[5] /\ IsAnswer(input.of[5][input.of[4]])
         /\ input.of[2].base # Absent =>
              /\ IsUrl(input.of[2].base)
              /\ \A path \in AgentPaths(input.of[3]) :
                   Log!Join(input.of[2].base, path) \in DOMAIN input.of[5]
    /\ Given("errors") =>
         /\ IsSequence(input.of) /\ input.of # <<>>
         /\ \A i \in DOMAIN input.of : input.of[i] # "none"
    /\ Given("artifacts") =>
         /\ IsWeb(input.of[4]) /\ ServesLines(input.of[4])
         /\ Log!Join(input.of[2].base, <<"root-keys">>) \in DOMAIN input.of[4]
         /\ \E scheme, host, path :
              /\ IsSequence(path) /\ path # <<>>
              /\ input.of[1] = [scheme |-> scheme, host |-> host, path |-> path]

(***************************************************************************)
(* DNS and the log are quoted truthfully, whatever they answer.            *)
(***************************************************************************)
THEOREM AnswersAlwaysHonest == []AnswerInputs => []AnswersHonest
<1>1. AnswerInputs /\ Given("log") =>
        /\ Log!BadgesAreHonest(input.of[1], input.of[2], input.of[4], input.of[5])
        /\ Log!LookupsStayHome(input.of[2], input.of[3], input.of[5])
  BY BadgesComeFromTheirHost, LookupsAskTheLog DEF AnswerInputs
<1>2. AnswerInputs /\ Given("artifacts") =>
        /\ Log!ScittErrorsHonest(input.of[2], input.of[3], input.of[4])
        /\ Log!RootKeysHonest(input.of[2], input.of[4])
        /\ Log!BaseIsKept(input.of[1], <<"root-keys">>)
  <2>1. SUFFICES ASSUME AnswerInputs, Given("artifacts")
                 PROVE  /\ Log!ScittErrorsHonest(input.of[2], input.of[3], input.of[4])
                        /\ Log!RootKeysHonest(input.of[2], input.of[4])
                        /\ Log!BaseIsKept(input.of[1], <<"root-keys">>)
    OBVIOUS
  <2>2. PICK scheme, host, path :
          /\ IsSequence(path) /\ path # <<>>
          /\ input.of[1] = [scheme |-> scheme, host |-> host, path |-> path]
    BY <2>1 DEF AnswerInputs
  <2>3. Log!BaseIsKept(input.of[1], <<"root-keys">>)
    BY <2>2, BasesAreKept DEF IsSequence
  <2>4. Log!RootKeysHonest(input.of[2], input.of[4])
    BY <2>1, RootKeysArriveWhole DEF AnswerInputs
  <2> QED
    BY <2>3, <2>4, ScittErrorsAreHonest
<1>3. AnswerInputs => AnswersHonest
  BY <1>1, <1>2, BadgeLookupsAreHonest, DiscoveryLookupsAreHonest, PreferenceIgnoresOrder,
     AdverseErrorsSurvive
  DEF AnswerInputs, AnswersHonest
<1> QED
  BY <1>3, PTL

-----------------------------------------------------------------------------
(***************************************************************************)
(* Names                                                                   *)
(***************************************************************************)
IsLabel(l) ==
    \E text, upper, octets, fault, number :
       l = [text |-> text, upper |-> upper, octets |-> octets, fault |-> fault,
            number |-> number]
IsName(name) == IsSequence(name) /\ \A i \in DOMAIN name : IsLabel(name[i])

\* What Fqdn::new makes of a name.
IsHost(host) ==
    /\ IsName(host) /\ host # <<>>
    /\ \A i \in DOMAIN host : Ans!LabelOk(host[i]) /\ Ans!LowerLabel(host[i]) = host[i]

LEMMA LoweredLabel ==
    ASSUME NEW l, IsLabel(l)
    PROVE  /\ IsLabel(Ans!LowerLabel(l)) /\ Ans!LowerLabel(Ans!LowerLabel(l)) = Ans!LowerLabel(l)
           /\ Ans!LabelOk(Ans!LowerLabel(l)) <=> Ans!LabelOk(l)
           /\ Ans!LowerLabel(l).text = l.text /\ Ans!LowerLabel(l).number = l.number
<1>0. PICK no : \A k : Ans!LowerLabel(k) = [k EXCEPT !.upper = no]
  BY Zenon DEF Ans!LowerLabel
<1>1. PICK text, upper, octets, fault, number :
        l = [text |-> text, upper |-> upper, octets |-> octets, fault |-> fault,
             number |-> number]
  BY DEF IsLabel
<1> DEFINE low == Ans!LowerLabel(l)
<1>2. low = [text |-> text, upper |-> no, octets |-> octets, fault |-> fault,
             number |-> number]
  BY <1>0, <1>1
<1> HIDE DEF low
<1>3. Ans!LowerLabel(low) = low
  BY <1>0, <1>2
<1>4. IsLabel(low)
  BY <1>2 DEF IsLabel
<1>5. Ans!LabelOk(low) <=> Ans!LabelOk(l)
  BY <1>1, <1>2 DEF Ans!LabelOk
<1>6. low.text = l.text /\ low.number = l.number
  BY <1>1, <1>2
<1> QED
  BY <1>3, <1>4, <1>5, <1>6 DEF low

LEMMA GreatestNumber ==
    ASSUME NEW n \in Nat, NEW S \in SUBSET (1 .. n), S # {}
    PROVE  \E i \in S : \A j \in S : i >= j
<1> DEFINE gaps == {g \in Nat : \E i \in S : g = n - i}
<1>1. gaps \in SUBSET Nat /\ gaps # {}
  <2>1. PICK i \in S : TRUE
    OBVIOUS
  <2>2. n - i \in gaps
    BY <2>1
  <2> QED
    BY <2>2
<1>2. PICK g \in gaps : \A h \in gaps : g <= h
  BY <1>1, LeastNumber
<1>3. PICK i \in S : g = n - i
  BY <1>2
<1>4. ASSUME NEW j \in S PROVE i >= j
  <2>1. n - j \in gaps
    OBVIOUS
  <2>2. n - i <= n - j
    BY <1>2, <1>3, <2>1
  <2> QED
    BY <2>2
<1> QED
  BY <1>4

\* Trimming keeps a part of the name, and all of a host.
LEMMA TrimmedNames ==
    ASSUME NEW name, IsName(name)
    PROVE  /\ IsName(Ans!Trimmed(name))
           /\ IsHost(name) => Ans!Trimmed(name) = name
<1> DEFINE ends == {i \in DOMAIN name : name[i].fault # "empty"}
<1>1. PICK S : name \in Seq(S)
  BY DEF IsName, IsSequence
<1>2. Len(name) \in Nat /\ DOMAIN name = 1 .. Len(name) /\ ends \in SUBSET (1 .. Len(name))
  BY <1>1
<1>3. Ans!Trimmed(name) = IF ends = {} THEN <<>> ELSE SubSeq(name, 1, Ans!Max(ends))
  BY DEF Ans!Trimmed
<1> HIDE DEF ends
<1>4. CASE ends = {}
  <2>1. IsName(<<>>)
    BY DEF IsName, IsSequence
  <2>2. ~IsHost(name)
    <3>1. SUFFICES ASSUME IsHost(name) PROVE FALSE
      OBVIOUS
    <3>2. Len(name) \in DOMAIN name
      BY <1>1, <1>2, <3>1 DEF IsHost
    <3>3. name[Len(name)].fault = "none"
      BY <3>1, <3>2 DEF IsHost, Ans!LabelOk
    <3> QED
      BY <1>4, <3>2, <3>3 DEF ends
  <2> QED
    BY <1>3, <1>4, <2>1, <2>2
<1>5. CASE ends # {}
  <2>1. \E i \in ends : \A j \in ends : i >= j
    BY <1>2, <1>5, GreatestNumber
  <2>2. Ans!Max(ends) \in ends /\ \A j \in ends : Ans!Max(ends) >= j
    BY <2>1 DEF Ans!Max
  <2> DEFINE m == Ans!Max(ends)
  <2> HIDE DEF m
  <2>3. m \in 1 .. Len(name) /\ m \in Nat /\ \A i \in 1 .. m : name[i] \in S
    <3>1. m \in 1 .. Len(name)
      BY <1>2, <2>2 DEF m
    <3>2. m \in Nat /\ \A i \in 1 .. m : i \in 1 .. Len(name)
      BY <1>2, <3>1
    <3>3. \A i \in 1 .. Len(name) : name[i] \in S
      BY <1>1
    <3> QED
      BY <3>1, <3>2, <3>3
  <2>4. /\ SubSeq(name, 1, m) \in Seq(S) /\ Len(SubSeq(name, 1, m)) = m
        /\ \A i \in 1 .. m : SubSeq(name, 1, m)[i] = name[i]
    <3>1. /\ SubSeq(name, 1, m) \in Seq(S)
          /\ Len(SubSeq(name, 1, m)) = m - 1 + 1
          /\ \A i \in 1 .. m - 1 + 1 : SubSeq(name, 1, m)[i] = name[1 + i - 1]
      BY <2>3, SubSeqProperties
    <3> QED
      BY <2>3, <3>1
  <2>5. IsName(SubSeq(name, 1, m))
    <3>1. DOMAIN SubSeq(name, 1, m) = 1 .. m
      BY <2>4
    <3>2. \A i \in 1 .. m : IsLabel(name[i])
      BY <1>2, <2>3 DEF IsName
    <3> QED
      BY <2>4, <3>1, <3>2 DEF IsName, IsSequence
  <2>6. ASSUME IsHost(name) PROVE SubSeq(name, 1, m) = name
    <3>1. Len(name) \in DOMAIN name
      BY <1>1, <1>2, <2>6 DEF IsHost
    <3>2. name[Len(name)].fault = "none"
      BY <2>6, <3>1 DEF IsHost, Ans!LabelOk
    <3>3. Len(name) \in ends
      BY <3>1, <3>2 DEF ends
    <3>4. m = Len(name)
      BY <1>2, <2>2, <2>3, <3>3 DEF m
    <3> QED
      BY <1>1, <1>2, <2>4, <3>4
  <2> QED
    BY <1>3, <1>5, <2>5, <2>6 DEF m
<1> QED
  BY <1>4, <1>5

\* Lower case changes no host and makes a host of labels that are in order.
LEMMA LoweredNames ==
    ASSUME NEW name, IsName(name)
    PROVE  /\ IsName(Ans!LowerName(name)) /\ Len(Ans!LowerName(name)) = Len(name)
           /\ name # <<>> /\ (\A i \in DOMAIN name : Ans!LabelOk(name[i])) =>
                IsHost(Ans!LowerName(name))
           /\ IsHost(name) => Ans!LowerName(name) = name
<1> DEFINE low == Ans!LowerName(name)
<1>1. PICK S : name \in Seq(S)
  BY DEF IsName, IsSequence
<1>2. Len(name) \in Nat /\ DOMAIN name = 1 .. Len(name)
  BY <1>1
<1>3. low = [i \in 1 .. Len(name) |-> Ans!LowerLabel(name[i])]
  BY <1>2 DEF Ans!LowerName
<1>4. \A i \in 1 .. Len(name) : /\ low[i] = Ans!LowerLabel(name[i]) /\ IsLabel(low[i])
                                /\ Ans!LowerLabel(low[i]) = low[i]
                                /\ Ans!LabelOk(low[i]) <=> Ans!LabelOk(name[i])
  BY <1>2, <1>3, LoweredLabel DEF IsName
<1>5. low \in Seq({low[i] : i \in 1 .. Len(name)}) /\ Len(low) = Len(name)
  BY <1>2, <1>3
<1>6. DOMAIN low = 1 .. Len(name) /\ (name # <<>> => low # <<>>)
  BY <1>1, <1>2, <1>5
<1>7. IsHost(name) => low = name
  <2>1. SUFFICES ASSUME IsHost(name) PROVE low = name
    OBVIOUS
  <2>2. \A i \in 1 .. Len(name) : low[i] = name[i]
    BY <1>2, <1>4, <2>1 DEF IsHost
  <2> QED
    BY <1>1, <1>2, <1>3, <2>2
<1> HIDE DEF low
<1>8. IsName(low)
  BY <1>4, <1>5, <1>6 DEF IsName, IsSequence
<1>9. name # <<>> /\ (\A i \in DOMAIN name : Ans!LabelOk(name[i])) => IsHost(low)
  BY <1>2, <1>4, <1>6, <1>8 DEF IsHost
<1> QED
  BY <1>5, <1>7, <1>8, <1>9 DEF low

\* Fqdn::new makes hosts, and leaves a host as it is.
LEMMA FqdnMakesHosts ==
    ASSUME NEW name, IsName(name)
    PROVE  /\ Ans!Fqdn(name) # Malformed => IsHost(Ans!Fqdn(name))
           /\ IsHost(name) => Ans!Fqdn(name) = name
<1> DEFINE domain == Ans!Trimmed(name)
<1>1. IsName(domain) /\ (IsHost(name) => domain = name)
  BY TrimmedNames
<1>2. Ans!Fqdn(name) =
        IF domain = <<>> \/ \E i \in DOMAIN domain : ~Ans!LabelOk(domain[i]) THEN Malformed
        ELSE Ans!LowerName(domain)
  BY DEF Ans!Fqdn
<1> HIDE DEF domain
<1>3. Ans!Fqdn(name) # Malformed => IsHost(Ans!Fqdn(name))
  BY <1>1, <1>2, LoweredNames
<1>4. IsHost(name) => Ans!Fqdn(name) = name
  <2>1. SUFFICES ASSUME IsHost(name) PROVE Ans!Fqdn(name) = name
    OBVIOUS
  <2>2. domain = name /\ name # <<>> /\ \A i \in DOMAIN name : Ans!LabelOk(name[i])
    BY <1>1, <2>1 DEF IsHost
  <2>3. Ans!LowerName(name) = name
    BY <2>1, LoweredNames
  <2> QED
    BY <1>2, <2>2, <2>3
<1> QED
  BY <1>3, <1>4

\* The parts of a concatenation.
LEMMA JoinedParts ==
    ASSUME NEW p, NEW s, IsSequence(p), IsSequence(s)
    PROVE  /\ IsSequence(p \o s) /\ Len(p \o s) = Len(p) + Len(s)
           /\ Len(p) \in Nat /\ Len(s) \in Nat
           /\ \A i \in 1 .. Len(p) : (p \o s)[i] = p[i]
           /\ \A i \in 1 .. Len(s) : (p \o s)[Len(p) + i] = s[i]
<1>1. PICK A : p \in Seq(A)
  BY DEF IsSequence
<1>2. PICK B : s \in Seq(B)
  BY DEF IsSequence
<1> DEFINE S == A \cup B
<1>3. p \in Seq(S) /\ s \in Seq(S)
  BY <1>1, <1>2
<1> HIDE DEF S
<1>4. p \o s \in Seq(S) /\ Len(p \o s) = Len(p) + Len(s)
  BY <1>3
<1>5. \A i \in 1 .. Len(p) : (p \o s)[i] = p[i]
  BY <1>3
<1>6. \A i \in 1 .. Len(s) : (p \o s)[Len(p) + i] = s[i]
  BY <1>3
<1>7. Len(p) \in Nat /\ Len(s) \in Nat
  BY <1>3
<1> QED
  BY <1>4, <1>5, <1>6, <1>7 DEF IsSequence

\* Sequences are the same that have the same elements.
LEMMA SameElements ==
    ASSUME NEW s, NEW t, IsSequence(s), IsSequence(t), Len(s) = Len(t),
           \A i \in 1 .. Len(s) : s[i] = t[i]
    PROVE  s = t
<1>1. PICK A : s \in Seq(A)
  BY DEF IsSequence
<1>2. PICK B : t \in Seq(B)
  BY DEF IsSequence
<1>3. s \in Seq(A \cup B) /\ t \in Seq(A \cup B)
  BY <1>1, <1>2
<1> QED
  BY <1>3

\* What follows two prefixes of the same length is the same if the whole is.
LEMMA SameParts ==
    ASSUME NEW p, NEW q, NEW s, NEW t, IsSequence(p), IsSequence(q), IsSequence(s),
           IsSequence(t), Len(p) = Len(q)
    PROVE  p \o s = q \o t => p = q /\ s = t
<1> DEFINE whole == p \o s
           same == q \o t
<1>1. /\ Len(whole) = Len(p) + Len(s) /\ Len(p) \in Nat /\ Len(s) \in Nat
      /\ \A i \in 1 .. Len(p) : whole[i] = p[i]
      /\ \A i \in 1 .. Len(s) : whole[Len(p) + i] = s[i]
  BY JoinedParts
<1>2. /\ Len(same) = Len(q) + Len(t) /\ Len(t) \in Nat
      /\ \A i \in 1 .. Len(q) : same[i] = q[i]
      /\ \A i \in 1 .. Len(t) : same[Len(q) + i] = t[i]
  BY JoinedParts
<1> HIDE DEF whole, same
<1> SUFFICES ASSUME whole = same PROVE p = q /\ s = t
  BY DEF whole, same
<1>3. Len(s) = Len(t)
  BY <1>1, <1>2
<1>4. \A i \in 1 .. Len(p) : p[i] = q[i]
  BY <1>1, <1>2
<1>5. \A i \in 1 .. Len(s) : s[i] = t[i]
  BY <1>1, <1>2, <1>3
<1> QED
  BY <1>3, <1>4, <1>5, SameElements

LEMMA PrintedNumbers == ASSUME NEW n PROVE Ans!Digits(n).number = n /\ IsLabel(Ans!Digits(n))
<1>1. PICK no, text, octets :
        Ans!Digits(n) = [text |-> text, upper |-> no, octets |-> octets, fault |-> "none",
                         number |-> n]
  BY Zenon DEF Ans!Digits
<1>2. IsLabel(Ans!Digits(n))
  BY <1>1 DEF IsLabel
<1>3. Ans!Digits(n).number = n
  BY <1>1
<1> QED
  BY <1>2, <1>3

\* Three numbers of a version and a host: what an ANS name has.
IsVersion(version) == version = [i \in 1 .. 3 |-> version[i]]
IsAnsName(name) ==
    /\ name = [version |-> name.version, host |-> name.host]
    /\ IsVersion(name.version) /\ IsHost(name.host)

\* A name prints as its three numbers and its host, and no other name prints so.
LEMMA PrintedNames ==
    ASSUME NEW name, IsAnsName(name)
    PROVE  LET uri == Ans!AnsUri(name)
           IN  /\ uri.scheme = "ans" /\ uri.v /\ IsName(uri.labels) /\ Len(uri.labels) > 3
               /\ \A i \in 1 .. 3 : uri.labels[i] = Ans!Digits(name.version[i])
               /\ SubSeq(uri.labels, 4, Len(uri.labels)) = name.host
               /\ \A other : IsAnsName(other) /\ Ans!AnsUri(other) = uri => other = name
<1> DEFINE digits(version) == [i \in 1 .. 3 |-> Ans!Digits(version[i])]
           labels == digits(name.version) \o name.host
           uri == Ans!AnsUri(name)
<1>1. ASSUME NEW n PROVE /\ Ans!AnsUri(n).scheme = "ans"
                         /\ Ans!AnsUri(n).v
                         /\ Ans!AnsUri(n).labels = digits(n.version) \o n.host
  <2>1. Ans!AnsUri(n) = [scheme |-> "ans", v |-> TRUE, labels |-> digits(n.version) \o n.host]
    BY Zenon DEF Ans!AnsUri
  <2>2. PICK yes : yes = TRUE /\ Ans!AnsUri(n) =
          [scheme |-> "ans", v |-> yes, labels |-> digits(n.version) \o n.host]
    BY <2>1, Zenon
  <2> HIDE DEF digits
  <2>3. Ans!AnsUri(n).v = yes
    BY <2>2
  <2>4. Ans!AnsUri(n).v
    BY <2>2, <2>3, Zenon
  <2> DEFINE labelsOf == digits(n.version) \o n.host
  <2> HIDE DEF labelsOf
  <2>5. Ans!AnsUri(n) = [scheme |-> "ans", v |-> yes, labels |-> labelsOf]
    BY <2>2, Zenon DEF labelsOf
  <2>6. Ans!AnsUri(n).scheme = "ans" /\ Ans!AnsUri(n).labels = labelsOf
    BY <2>5
  <2> QED
    BY <2>4, <2>6 DEF labelsOf
<1>2. ASSUME NEW version
      PROVE  /\ IsSequence(digits(version)) /\ Len(digits(version)) = 3
             /\ \A i \in 1 .. 3 : digits(version)[i] = Ans!Digits(version[i])
  <2>1. digits(version) \in Seq({Ans!Digits(version[i]) : i \in 1 .. 3})
    OBVIOUS
  <2>2. Len(digits(version)) = 3
    BY <2>1
  <2>3. \A i \in 1 .. 3 : digits(version)[i] = Ans!Digits(version[i])
    OBVIOUS
  <2> HIDE DEF digits
  <2> QED
    BY <2>1, <2>2, <2>3 DEF IsSequence
<1> HIDE DEF digits
<1>3. IsSequence(name.host) /\ Len(name.host) \in Nat /\ Len(name.host) # 0
  BY DEF IsAnsName, IsHost, IsName, IsSequence
<1>4. /\ IsSequence(labels) /\ Len(labels) = 3 + Len(name.host)
      /\ \A i \in 1 .. 3 : labels[i] = Ans!Digits(name.version[i])
      /\ \A i \in 1 .. Len(name.host) : labels[3 + i] = name.host[i]
  <2>1. /\ IsSequence(labels) /\ Len(labels) = Len(digits(name.version)) + Len(name.host)
        /\ \A i \in 1 .. Len(digits(name.version)) : labels[i] = digits(name.version)[i]
        /\ \A i \in 1 .. Len(name.host) :
             labels[Len(digits(name.version)) + i] = name.host[i]
    BY <1>2, <1>3, JoinedParts
  <2> QED
    BY <1>2, <2>1
<1> HIDE DEF labels
<1>5. IsName(labels)
  <2>1. ASSUME NEW i \in DOMAIN labels PROVE IsLabel(labels[i])
    <3>1. i \in 1 .. 3 + Len(name.host)
      BY <1>4 DEF IsSequence
    <3>2. CASE i \in 1 .. 3
      BY <1>4, <3>2, PrintedNumbers
    <3>3. CASE i \notin 1 .. 3
      <4>1. i - 3 \in 1 .. Len(name.host) /\ 3 + (i - 3) = i
        BY <1>3, <3>1, <3>3
      <4>2. labels[i] = name.host[i - 3]
        BY <1>4, <4>1
      <4>3. i - 3 \in DOMAIN name.host
        BY <1>3, <4>1 DEF IsSequence
      <4> QED
        BY <4>2, <4>3 DEF IsAnsName, IsHost, IsName
    <3> QED
      BY <3>2, <3>3
  <2> QED
    BY <1>4, <2>1 DEF IsName
<1>6. SubSeq(labels, 4, Len(labels)) = name.host
  <2>1. PICK S : labels \in Seq(S)
    BY <1>4 DEF IsSequence
  <2>2. \A i \in 4 .. Len(labels) : labels[i] \in S
    BY <2>1
  <2>3. Len(labels) \in Int /\ 4 <= Len(labels) /\ Len(labels) - 4 + 1 = Len(name.host)
    BY <1>3, <1>4
  <2>4. /\ SubSeq(labels, 4, Len(labels)) \in Seq(S)
        /\ Len(SubSeq(labels, 4, Len(labels))) = Len(name.host)
        /\ \A i \in 1 .. Len(name.host) : SubSeq(labels, 4, Len(labels))[i] = labels[4 + i - 1]
    BY <2>2, <2>3, SubSeqProperties
  <2>5. \A i \in 1 .. Len(name.host) : SubSeq(labels, 4, Len(labels))[i] = name.host[i]
    <3>1. ASSUME NEW i \in 1 .. Len(name.host)
          PROVE  SubSeq(labels, 4, Len(labels))[i] = name.host[i]
      <4>1. 4 + i - 1 = 3 + i
        OBVIOUS
      <4> QED
        BY <1>4, <2>4, <4>1
    <3> QED
      BY <3>1
  <2> QED
    BY <1>3, <2>4, <2>5 DEF IsSequence
<1>7. ASSUME NEW other, IsAnsName(other), Ans!AnsUri(other) = uri PROVE other = name
  <2>1. digits(other.version) \o other.host = digits(name.version) \o name.host
    BY <1>1, <1>7
  <2>2. IsSequence(other.host)
    BY <1>7 DEF IsAnsName, IsHost, IsName
  <2>3. digits(other.version) = digits(name.version) /\ other.host = name.host
    <3> DEFINE p == digits(other.version)
               q == digits(name.version)
    <3>1. /\ IsSequence(p) /\ IsSequence(q) /\ Len(p) = Len(q)
          /\ p \o other.host = q \o name.host
      BY <1>2, <2>1
    <3> HIDE DEF p, q
    <3>2. p = q /\ other.host = name.host
      BY <1>3, <2>2, <3>1, SameParts
    <3> QED
      BY <3>2 DEF p, q
  <2>4. \A i \in 1 .. 3 : other.version[i] = name.version[i]
    BY <1>2, <2>3, PrintedNumbers
  <2>5. other.version = name.version
    BY <1>7, <2>4 DEF IsAnsName, IsVersion
  <2> QED
    BY <1>7, <2>3, <2>5 DEF IsAnsName
<1>8. uri.labels = labels
  BY <1>1 DEF labels
<1> HIDE DEF uri
<1>9. uri.scheme = "ans" /\ uri.v
  <2>1. uri.v
    BY <1>1, Zenon DEF uri
  <2> QED
    BY <1>1, <2>1 DEF uri
<1>10. Len(uri.labels) > 3 /\ IsName(uri.labels)
  BY <1>3, <1>4, <1>5, <1>8
<1>11. /\ \A i \in 1 .. 3 : uri.labels[i] = Ans!Digits(name.version[i])
       /\ SubSeq(uri.labels, 4, Len(uri.labels)) = name.host
  BY <1>4, <1>6, <1>8
<1> QED
  BY <1>7, <1>9, <1>10, <1>11 DEF uri

\* The head and the rest of the labels of a URI.
LEMMA PartsOfUris ==
    ASSUME NEW labels, IsName(labels), Len(labels) >= 4
    PROVE  /\ Len(SubSeq(labels, 1, 3)) = 3 /\ DOMAIN SubSeq(labels, 1, 3) = 1 .. 3
           /\ \A i \in 1 .. 3 : SubSeq(labels, 1, 3)[i] = labels[i]
           /\ IsName(SubSeq(labels, 4, Len(labels)))
<1>1. PICK S : labels \in Seq(S)
  BY DEF IsName, IsSequence
<1>2. Len(labels) \in Nat /\ DOMAIN labels = 1 .. Len(labels)
      /\ \A i \in 1 .. Len(labels) : labels[i] \in S
  BY <1>1
<1>3. /\ SubSeq(labels, 1, 3) \in Seq(S) /\ Len(SubSeq(labels, 1, 3)) = 3
      /\ \A i \in 1 .. 3 : SubSeq(labels, 1, 3)[i] = labels[i]
  <2>1. /\ SubSeq(labels, 1, 3) \in Seq(S)
        /\ Len(SubSeq(labels, 1, 3)) = 3 - 1 + 1
        /\ \A i \in 1 .. 3 - 1 + 1 : SubSeq(labels, 1, 3)[i] = labels[1 + i - 1]
    BY <1>2, SubSeqProperties
  <2> QED
    BY <2>1
<1> DEFINE rest == SubSeq(labels, 4, Len(labels))
<1>4. /\ rest \in Seq(S) /\ Len(rest) = Len(labels) - 4 + 1
      /\ \A i \in 1 .. Len(labels) - 4 + 1 : rest[i] = labels[4 + i - 1]
  BY <1>2, SubSeqProperties
<1> HIDE DEF rest
<1>5. IsName(rest)
  <2>1. ASSUME NEW i \in DOMAIN rest PROVE IsLabel(rest[i])
    <3>1. i \in 1 .. Len(labels) - 4 + 1 /\ 4 + i - 1 \in 1 .. Len(labels)
      BY <1>2, <1>4
    <3> QED
      BY <1>2, <1>4, <3>1 DEF IsName
  <2> QED
    BY <1>4, <2>1 DEF IsName, IsSequence
<1>6. DOMAIN SubSeq(labels, 1, 3) = 1 .. 3
  BY <1>3
<1> QED
  BY <1>3, <1>5, <1>6 DEF rest

\* The nulls of Rust's Option and Result are none of its values.
IsProperName(name) ==
    /\ IsAnsName(name) /\ name # Malformed /\ name.version # Malformed /\ name.host # Malformed
    /\ \A i \in 1 .. 3 : name.version[i] # Absent

LEMMA ReadAsPrinted ==
    ASSUME NEW name, IsProperName(name) PROVE Ans!AnsName(Ans!AnsUri(name)) = name
<1> DEFINE uri == Ans!AnsUri(name)
           first == SubSeq(uri.labels, 1, 3)
           rest == SubSeq(uri.labels, 4, Len(uri.labels))
<1>0. IsAnsName(name)
  BY DEF IsProperName
<1>1. /\ uri.scheme = "ans" /\ uri.v /\ IsName(uri.labels) /\ Len(uri.labels) > 3
      /\ \A i \in 1 .. 3 : uri.labels[i] = Ans!Digits(name.version[i])
      /\ rest = name.host
  BY <1>0, PrintedNames
<1>2. Len(uri.labels) \in Nat /\ Len(uri.labels) >= 4 /\ ~(Len(uri.labels) < 4)
  BY <1>1 DEF IsName, IsSequence
<1>3. /\ Len(first) = 3 /\ DOMAIN first = 1 .. 3
      /\ \A i \in 1 .. 3 : first[i] = uri.labels[i]
  BY <1>1, <1>2, PartsOfUris
<1>4. Ans!AnsName(uri) =
        IF uri.scheme # "ans" \/ ~uri.v \/ Len(uri.labels) < 4 THEN Malformed
        ELSE IF Ans!Version(first) = Malformed \/ Ans!Fqdn(rest) = Malformed THEN Malformed
             ELSE [version |-> Ans!Version(first), host |-> Ans!Fqdn(rest)]
  BY DEF Ans!AnsName
<1> HIDE DEF uri, first, rest
<1>5. \A i \in 1 .. 3 : first[i].number = name.version[i]
  BY <1>1, <1>3, PrintedNumbers
<1>6. Ans!Version(first) = name.version
  <2>1. Len(first) = 3 /\ \A i \in DOMAIN first : first[i].number # Absent
    BY <1>3, <1>5 DEF IsProperName
  <2>2. Ans!Version(first) = [i \in 1 .. 3 |-> first[i].number]
    BY <2>1 DEF Ans!Version
  <2>3. Ans!Version(first) = [i \in 1 .. 3 |-> name.version[i]]
    BY <1>5, <2>2
  <2> QED
    BY <1>0, <2>3 DEF IsAnsName, IsVersion
<1>7. Ans!Fqdn(rest) = name.host
  BY <1>0, <1>1, FqdnMakesHosts DEF IsAnsName, IsHost
<1>8. Ans!AnsName(uri) = [version |-> name.version, host |-> name.host]
  <2>1. ~(uri.scheme # "ans" \/ ~uri.v \/ Len(uri.labels) < 4)
    BY <1>1, <1>2
  <2> QED
    BY <1>4, <1>6, <1>7, <2>1 DEF IsProperName
<1> QED
  BY <1>0, <1>8 DEF IsAnsName, uri

(***************************************************************************)
(* Whatever spelling a URI has, its name prints in one way, which reads as *)
(* the same name.                                                          *)
(***************************************************************************)
THEOREM NamesHaveOneForm ==
    ASSUME NEW uri, IsName(uri.labels) PROVE Ans!NamesPrintOnce(uri)
<1> DEFINE name == Ans!AnsName(uri)
           first == SubSeq(uri.labels, 1, 3)
           rest == SubSeq(uri.labels, 4, Len(uri.labels))
<1> SUFFICES ASSUME name # Malformed
             PROVE  Ans!AnsName(Ans!AnsUri(name)) = name /\ Ans!Fqdn(name.host) = name.host
  BY DEF Ans!NamesPrintOnce
<1>1. name = IF uri.scheme # "ans" \/ ~uri.v \/ Len(uri.labels) < 4 THEN Malformed
             ELSE IF Ans!Version(first) = Malformed \/ Ans!Fqdn(rest) = Malformed
                  THEN Malformed
             ELSE [version |-> Ans!Version(first), host |-> Ans!Fqdn(rest)]
  BY DEF Ans!AnsName
<1>2. Len(uri.labels) \in Nat
  BY DEF IsName, IsSequence
<1> HIDE DEF name
<1>3. /\ Len(uri.labels) >= 4
      /\ Ans!Version(first) # Malformed /\ Ans!Fqdn(rest) # Malformed
      /\ name = [version |-> Ans!Version(first), host |-> Ans!Fqdn(rest)]
  BY <1>1, <1>2
<1>4. /\ Len(first) = 3 /\ DOMAIN first = 1 .. 3 /\ IsName(rest)
  BY <1>3, PartsOfUris
<1> HIDE DEF first, rest
<1>5. /\ Ans!Version(first) = [i \in 1 .. 3 |-> first[i].number]
      /\ \A i \in 1 .. 3 : first[i].number # Absent
  BY <1>3, <1>4 DEF Ans!Version
<1>6. IsHost(Ans!Fqdn(rest))
  BY <1>3, <1>4, FqdnMakesHosts
<1>7. IsProperName(name)
  <2>1. name.version = [i \in 1 .. 3 |-> first[i].number] /\ name.host = Ans!Fqdn(rest)
    BY <1>3, <1>5
  <2>2. IsVersion(name.version) /\ \A i \in 1 .. 3 : name.version[i] # Absent
    BY <1>5, <2>1 DEF IsVersion
  <2> QED
    BY <1>3, <1>6, <2>1, <2>2 DEF IsProperName, IsAnsName
<1>8. Ans!Fqdn(name.host) = name.host
  BY <1>7, FqdnMakesHosts DEF IsProperName, IsAnsName, IsHost
<1> QED
  BY <1>7, <1>8, ReadAsPrinted

(***************************************************************************)
(* Labels of certificate types are one only if they differ in case alone.  *)
(***************************************************************************)
THEOREM LabelsKeepApart ==
    ASSUME NEW a, NEW b, IsLabel(a), IsLabel(b) PROVE Ans!LabelsStayApart(a, b)
<1>1. ASSUME NEW l, IsLabel(l)
      PROVE  /\ Ans!CertType(l) \in {l, Ans!LowerLabel(l)}
             /\ Ans!CertType(Ans!CertType(l)) = Ans!CertType(l)
             /\ Ans!LowerLabel(Ans!CertType(l)) = Ans!LowerLabel(l)
  <2>1. /\ Ans!LowerLabel(Ans!LowerLabel(l)) = Ans!LowerLabel(l)
        /\ Ans!LowerLabel(l).text = l.text
    BY <1>1, LoweredLabel
  <2> QED
    BY <2>1 DEF Ans!CertType
<1>2. ASSUME Ans!CertType(a) = Ans!CertType(b) PROVE Ans!EqIgnoreCase(<<a>>, <<b>>)
  <2>1. Ans!LowerLabel(a) = Ans!LowerLabel(b)
    BY <1>1, <1>2
  <2>2. ASSUME NEW l PROVE Ans!LowerName(<<l>>) = [i \in {1} |-> Ans!LowerLabel(l)]
    <3>1. DOMAIN <<l>> = {1} /\ <<l>>[1] = l
      OBVIOUS
    <3> QED
      BY <3>1 DEF Ans!LowerName
  <2> QED
    BY <2>1, <2>2 DEF Ans!EqIgnoreCase
<1> QED
  BY <1>1, <1>2 DEF Ans!LabelsStayApart

LEMMA PrefixText == ASSUME NEW text PROVE Ans!Prefix(text).text = text
<1>1. PICK no, octets :
        Ans!Prefix(text) = [text |-> text, upper |-> no, octets |-> octets, fault |-> "char",
                            number |-> Absent]
  BY Zenon DEF Ans!Prefix
<1> QED
  BY <1>1

LEMMA FiveElements ==
    ASSUME NEW a, NEW b, NEW c, NEW d, NEW e, a # b, c \notin {a, b}, d \notin {a, b, c},
           e \notin {a, b, c, d}
    PROVE  Cardinality({a, b, c, d, e}) = 5
<1>1. IsFiniteSet({a}) /\ Cardinality({a}) = 1
  BY FS_Singleton
<1>2. IsFiniteSet({a, b}) /\ Cardinality({a, b}) = 2
  <2>1. {a, b} = {a} \cup {b} /\ b \notin {a}
    OBVIOUS
  <2> QED
    BY <1>1, <2>1, FS_AddElement
<1>3. IsFiniteSet({a, b, c}) /\ Cardinality({a, b, c}) = 3
  <2>1. {a, b, c} = {a, b} \cup {c}
    OBVIOUS
  <2> QED
    BY <1>2, <2>1, FS_AddElement
<1>4. IsFiniteSet({a, b, c, d}) /\ Cardinality({a, b, c, d}) = 4
  <2>1. {a, b, c, d} = {a, b, c} \cup {d}
    OBVIOUS
  <2> QED
    BY <1>3, <2>1, FS_AddElement
<1>5. {a, b, c, d, e} = {a, b, c, d} \cup {e}
  OBVIOUS
<1> QED
  BY <1>4, <1>5, FS_AddElement

(***************************************************************************)
(* No two of the records that are looked up have the same owner and type.   *)
(***************************************************************************)
THEOREM LookupsNeverMeet ==
    ASSUME NEW a, NEW b, IsName(a), IsName(b) PROVE Ans!LookupsAreApart(a, b)
<1> DEFINE tlsa == <<Ans!Prefix("_443"), Ans!Prefix("_tcp")>>
           txt(p) == <<Ans!Prefix(p)>>
           Texts == {"_ans", "_ans-badge", "_ra-badge"}
<1>1. /\ IsSequence(tlsa) /\ Len(tlsa) = 2
      /\ \A p : IsSequence(txt(p)) /\ Len(txt(p)) = 1
  <2>1. tlsa \in Seq({Ans!Prefix("_443"), Ans!Prefix("_tcp")}) /\ Len(tlsa) = 2
    OBVIOUS
  <2>2. \A p : txt(p) \in Seq({Ans!Prefix(p)}) /\ Len(txt(p)) = 1
    OBVIOUS
  <2> QED
    BY <2>1, <2>2 DEF IsSequence
<1>2. \A p, q : txt(p) = txt(q) => p = q
  <2>1. \A p : txt(p)[1] = Ans!Prefix(p)
    OBVIOUS
  <2> HIDE DEF txt
  <2> QED
    BY <2>1, PrefixText
<1>3. ASSUME NEW host
      PROVE  Ans!LookupNames(host) = {<<"SVCB", host>>, <<"TLSA", tlsa \o host>>}
                                     \cup {<<"TXT", txt(p) \o host>> : p \in Texts}
  BY DEF Ans!LookupNames
<1> HIDE DEF tlsa, txt
<1>4. ASSUME NEW host, IsSequence(host) PROVE Cardinality(Ans!LookupNames(host)) = 5
  <2> DEFINE name(p) == <<"TXT", txt(p) \o host>>
  <2>1. ASSUME NEW p, NEW q, txt(p) \o host = txt(q) \o host PROVE p = q
    <3>1. IsSequence(txt(p)) /\ IsSequence(txt(q)) /\ Len(txt(p)) = Len(txt(q))
      BY <1>1
    <3>2. txt(p) = txt(q)
      BY <1>4, <2>1, <3>1, SameParts
    <3> QED
      BY <1>2, <3>2
  <2>2. \A p, q : name(p) = name(q) => p = q
    BY <2>1
  <2>3. \A p : name(p) # <<"SVCB", host>> /\ name(p) # <<"TLSA", tlsa \o host>>
    OBVIOUS
  <2>4. <<"SVCB", host>> # <<"TLSA", tlsa \o host>>
    OBVIOUS
  <2>5. Ans!LookupNames(host) = {<<"SVCB", host>>, <<"TLSA", tlsa \o host>>}
                                \cup {name(p) : p \in Texts}
    BY <1>3
  <2> HIDE DEF name
  <2>6. Ans!LookupNames(host) = {<<"SVCB", host>>, <<"TLSA", tlsa \o host>>,
                                 name("_ans"), name("_ans-badge"), name("_ra-badge")}
    BY <2>5
  <2>7. /\ name("_ans-badge") # name("_ans") /\ name("_ra-badge") # name("_ans")
        /\ name("_ra-badge") # name("_ans-badge")
    BY <2>2
  <2> DEFINE svcb == <<"SVCB", host>>
             dane == <<"TLSA", tlsa \o host>>
  <2>8. dane # svcb
    BY <2>4
  <2>9. \A p : name(p) \notin {svcb, dane}
    BY <2>3
  <2> HIDE DEF svcb, dane
  <2>10. Cardinality({svcb, dane, name("_ans"), name("_ans-badge"), name("_ra-badge")}) = 5
    BY <2>7, <2>8, <2>9, FiveElements
  <2> QED
    BY <2>6, <2>10 DEF svcb, dane
<1>5. ASSUME NEW one, NEW two, IsSequence(one), IsSequence(two), NEW x,
             x \in Ans!LookupNames(one), x \in Ans!LookupNames(two)
      PROVE  one = two
  <2>1. CASE x = <<"SVCB", one>>
    <3>1. x = <<"SVCB", two>>
      BY <1>3, <1>5, <2>1
    <3> QED
      BY <2>1, <3>1
  <2>2. CASE x = <<"TLSA", tlsa \o one>>
    <3>1. x = <<"TLSA", tlsa \o two>>
      BY <1>3, <1>5, <2>2
    <3> DEFINE first == tlsa \o one
               second == tlsa \o two
    <3>2. <<"TLSA", first>> = <<"TLSA", second>>
      BY <2>2, <3>1
    <3> HIDE DEF first, second
    <3>3. first = second
      BY <3>2
    <3>4. tlsa \o one = tlsa \o two
      BY <3>3 DEF first, second
    <3> QED
      BY <1>1, <1>5, <3>4, SameParts
  <2>3. CASE \E p \in Texts : x = <<"TXT", txt(p) \o one>>
    <3>1. PICK p \in Texts : x = <<"TXT", txt(p) \o one>>
      BY <2>3
    <3>2. PICK q \in Texts : x = <<"TXT", txt(q) \o two>>
      BY <1>3, <1>5, <3>1
    <3>3. txt(p) \o one = txt(q) \o two
      BY <3>1, <3>2
    <3>4. Len(txt(p)) = Len(txt(q)) /\ IsSequence(txt(p)) /\ IsSequence(txt(q))
      BY <1>1
    <3> QED
      BY <1>5, <3>3, <3>4, SameParts
  <2> QED
    BY <1>3, <1>5, <2>1, <2>2, <2>3
<1>6. /\ Ans!Fqdn(a) # Malformed => IsSequence(Ans!Fqdn(a))
      /\ Ans!Fqdn(b) # Malformed => IsSequence(Ans!Fqdn(b))
  BY FqdnMakesHosts DEF IsHost, IsName
<1> DEFINE one == Ans!Fqdn(a)
           two == Ans!Fqdn(b)
<1> HIDE DEF one, two
<1>7. one # Malformed /\ two # Malformed =>
        /\ Cardinality(Ans!LookupNames(one)) = 5
        /\ one # two => Ans!LookupNames(one) \cap Ans!LookupNames(two) = {}
  <2>1. SUFFICES ASSUME one # Malformed, two # Malformed
                 PROVE  /\ Cardinality(Ans!LookupNames(one)) = 5
                        /\ one # two => Ans!LookupNames(one) \cap Ans!LookupNames(two) = {}
    OBVIOUS
  <2>2. IsSequence(one) /\ IsSequence(two)
    BY <1>6, <2>1 DEF one, two
  <2> QED
    BY <1>4, <1>5, <2>2
<1>8. Ans!Fqdn(a) # Malformed /\ Ans!Fqdn(b) # Malformed =>
        /\ Cardinality(Ans!LookupNames(Ans!Fqdn(a))) = 5
        /\ Ans!Fqdn(a) # Ans!Fqdn(b) =>
             Ans!LookupNames(Ans!Fqdn(a)) \cap Ans!LookupNames(Ans!Fqdn(b)) = {}
  BY <1>7 DEF one, two
<1>9. \A S : Ans!Cardinality(S) = Cardinality(S)
  BY DEF Ans!Cardinality, Cardinality
<1> QED
  BY <1>8, <1>9 DEF Ans!LookupsAreApart

\* Names that a badge or a certificate has: Rust's None and Err are none of them.
IsNamed(fqdn, version) ==
    /\ IsName(fqdn) /\ version \in [1 .. 3 -> Nat] /\ Absent \notin Nat
    /\ version # Malformed /\ Ans!Fqdn(fqdn) # Absent
    /\ [version |-> version, host |-> Ans!Fqdn(fqdn)] \notin {Absent, Malformed}

LEMMA NamedWell ==
    ASSUME NEW fqdn, NEW version, IsNamed(fqdn, version), Ans!Fqdn(fqdn) # Malformed
    PROVE  LET name == [version |-> version, host |-> Ans!Fqdn(fqdn)]
           IN  IsHost(Ans!Fqdn(fqdn)) /\ IsProperName(name) /\ IsAnsName(name)
<1> DEFINE host == Ans!Fqdn(fqdn)
           name == [version |-> version, host |-> host]
<1>1. IsHost(host)
  BY FqdnMakesHosts DEF IsNamed
<1>2. /\ version \in [1 .. 3 -> Nat] /\ Absent \notin Nat /\ version # Malformed
      /\ name # Malformed /\ host # Malformed
  BY DEF IsNamed
<1> HIDE DEF host
<1>3. IsVersion(version) /\ \A i \in 1 .. 3 : version[i] # Absent
  BY <1>2 DEF IsVersion
<1>4. name.version = version /\ name.host = host
  OBVIOUS
<1> HIDE DEF name
<1>5. name = [version |-> name.version, host |-> name.host]
  BY <1>4 DEF name
<1>6. IsAnsName(name)
  BY <1>1, <1>3, <1>4, <1>5 DEF IsAnsName
<1>7. IsProperName(name)
  BY <1>2, <1>3, <1>4, <1>6 DEF IsProperName
<1> QED
  BY <1>1, <1>6, <1>7 DEF name, host

LEMMA HostsAreLowered ==
    ASSUME NEW a, NEW b, IsHost(a), IsHost(b) PROVE Ans!EqIgnoreCase(a, b) <=> a = b
  BY LoweredNames DEF IsHost, Ans!EqIgnoreCase

\* A certificate has the name of its only URI.
LEMMA OnlyUri ==
    ASSUME NEW cert, NEW uri
    PROVE  /\ cert.uris = <<>> => Ans!CertAnsName(cert) = Absent
           /\ cert.uris = <<uri>> /\ Ans!AnsName(uri) # Malformed =>
                Ans!CertAnsName(cert) = Ans!AnsName(uri)
<1> DEFINE names == [i \in DOMAIN cert.uris |-> Ans!AnsName(cert.uris[i])]
           kept == Without(names, Malformed)
<1>1. Ans!CertAnsName(cert) = IF kept = <<>> THEN Absent ELSE Head(kept)
  <2>1. Ans!Without(names, Malformed) = kept
    BY DEF Ans!Without, Ans!Select, Without, Select
  <2> QED
    BY <2>1 DEF Ans!CertAnsName
<1>2. CASE cert.uris = <<>>
  <2>1. names \in Seq({}) /\ names = <<>>
    BY <1>2
  <2> HIDE DEF names
  <2>2. Range(names) = {}
    BY <2>1 DEF Range
  <2>3. kept = names
    BY <2>1, <2>2, Remaining
  <2> QED
    BY <1>1, <1>2, <2>1, <2>3
<1>3. CASE cert.uris = <<uri>> /\ Ans!AnsName(uri) # Malformed
  <2>1. DOMAIN cert.uris = 1 .. 1 /\ \A i \in 1 .. 1 : cert.uris[i] = uri
    BY <1>3
  <2>2. names = [i \in 1 .. 1 |-> Ans!AnsName(uri)]
    BY <2>1
  <2> HIDE DEF names
  <2>3. names \in Seq({Ans!AnsName(uri)}) /\ Len(names) = 1 /\ names[1] = Ans!AnsName(uri)
    BY <2>2
  <2>4. Malformed \notin Range(names)
    BY <1>3, <2>2 DEF Range
  <2>5. kept = names
    BY <2>3, <2>4, Remaining
  <2>6. names # <<>> /\ Head(names) = Ans!AnsName(uri)
    BY <2>3
  <2> QED
    BY <1>1, <1>3, <2>5, <2>6
<1> QED
  BY <1>2, <1>3

\* The key that is made is one that the authority takes.
LEMMA FreshKeys ==
    Ans!FreshKey.readable /\ Ans!FreshKey.pkcs8 /\ Ans!FreshKey.algorithm = "RSA"
<1>1. PICK yes :
        yes = TRUE /\ Ans!FreshKey = [key |-> "fresh", readable |-> yes, algorithm |-> "RSA",
                                      pkcs8 |-> yes]
  BY Zenon DEF Ans!FreshKey
<1>2. Ans!FreshKey.readable = yes /\ Ans!FreshKey.pkcs8 = yes
  BY <1>1
<1>3. Ans!FreshKey.readable /\ Ans!FreshKey.pkcs8
  BY <1>1, <1>2, Zenon
<1>4. \E no : Ans!FreshKey = [key |-> "fresh", readable |-> no, algorithm |-> "RSA",
                              pkcs8 |-> no]
  BY Zenon DEF Ans!FreshKey
<1>5. Ans!FreshKey.algorithm = "RSA"
  BY <1>4
<1> QED
  BY <1>3, <1>5

LEMMA LoadedKeys ==
    ASSUME NEW pem, Ans!KeyFault(pem) = "none"
    PROVE  /\ Ans!KeyFault(Ans!Loaded(pem)) = "none"
           /\ Ans!Loaded(Ans!Loaded(pem)) = Ans!Loaded(pem)
           /\ Ans!Loaded(pem).pkcs8 /\ Ans!Loaded(pem).algorithm \in Ans!AcceptedAlgorithms
<1>1. CASE pem = Absent
  <2>1. Ans!Loaded(pem) = Ans!FreshKey /\ Ans!Loaded(Ans!FreshKey) = Ans!FreshKey
    BY <1>1 DEF Ans!Loaded
  <2>2. Ans!FreshKey.algorithm \in Ans!AcceptedAlgorithms
    BY FreshKeys DEF Ans!AcceptedAlgorithms
  <2>3. Ans!KeyFault(Ans!FreshKey) = "none"
    BY <2>2, FreshKeys DEF Ans!KeyFault
  <2> QED
    BY <2>1, <2>2, <2>3, FreshKeys
<1>2. CASE pem # Absent
  <2>1. Ans!Loaded(pem) = pem
    BY <1>2 DEF Ans!Loaded
  <2>2. pem.pkcs8 /\ pem.algorithm \in Ans!AcceptedAlgorithms
    BY <1>2 DEF Ans!KeyFault
  <2> QED
    BY <2>1, <2>2
<1> QED
  BY <1>1, <1>2

\* What is asked for, when a request could be built.
LEMMA BuiltRequests ==
    ASSUME NEW fqdn, NEW version, NEW kind, NEW pem, IsNamed(fqdn, version),
           Ans!BuildRequest(fqdn, version, kind, pem).error = "none"
    PROVE  LET host  == Ans!Fqdn(fqdn)
               name  == [version |-> version, host |-> host]
               built == Ans!BuildRequest(fqdn, version, kind, pem)
           IN  /\ host # Malformed /\ Len(host) \in Nat /\ Len(host) > 1
               /\ Ans!HostFault(fqdn) = "none" /\ Ans!KeyFault(pem) = "none"
               /\ built.csr = Ans!BuildCsr(Ans!Loaded(pem).key, host,
                                           [dns  |-> <<host>>,
                                            uris |-> IF kind = "identity" THEN <<Ans!AnsUri(name)>>
                                                     ELSE <<>>], kind)
               /\ built.pem = Ans!Loaded(pem)
<1> DEFINE host == Ans!Fqdn(fqdn)
           name == [version |-> version, host |-> host]
           sans == Ans!BuildSans(host, version, kind)
           csr == Ans!BuildCsr(Ans!Loaded(pem).key, host, sans, kind)
           built == Ans!BuildRequest(fqdn, version, kind, pem)
<1>1. built = IF Ans!HostFault(fqdn) # "none" THEN [error |-> Ans!HostFault(fqdn)]
              ELSE IF Ans!KeyFault(pem) # "none" THEN [error |-> Ans!KeyFault(pem)]
              ELSE [error |-> "none", csr |-> csr, pem |-> Ans!Loaded(pem)]
  BY DEF Ans!BuildRequest
<1> HIDE DEF built, csr
<1>2. Ans!HostFault(fqdn) = "none" /\ Ans!KeyFault(pem) = "none"
  <2>1. built.error = "none"
    BY DEF built
  <2> QED
    BY <1>1, <2>1
<1>3. built.csr = csr /\ built.pem = Ans!Loaded(pem)
  BY <1>1, <1>2
<1>4. host # Malformed /\ ~(Len(host) < 2)
  BY <1>2 DEF Ans!HostFault
<1>5. IsHost(host) /\ IsProperName(name)
  BY <1>4, NamedWell
<1>6. Len(host) \in Nat /\ Len(host) > 1
  <2>1. Len(host) \in Nat
    BY <1>5 DEF IsHost, IsName, IsSequence
  <2> QED
    BY <1>4, <2>1
<1>7. Ans!AnsName(Ans!AnsUri(name)) = name
  BY <1>5, ReadAsPrinted
<1>8. sans = [dns |-> <<host>>,
              uris |-> IF kind = "identity" THEN <<Ans!AnsUri(name)>> ELSE <<>>]
  <2>1. sans = [dns  |-> <<host>>,
                uris |-> IF kind = "identity" THEN <<Ans!AnsUri(Ans!AnsName(Ans!AnsUri(name)))>>
                         ELSE <<>>]
    BY DEF Ans!BuildSans
  <2> QED
    BY <1>7, <2>1
<1> HIDE DEF host, name, sans
<1>9. csr = Ans!BuildCsr(Ans!Loaded(pem).key, host,
                         [dns |-> <<host>>,
                          uris |-> IF kind = "identity" THEN <<Ans!AnsUri(name)>> ELSE <<>>],
                         kind)
  BY <1>8, Zenon DEF csr
<1> QED
  BY <1>2, <1>3, <1>4, <1>6, <1>9 DEF built, name, host

LEMMA FieldsOfCsr ==
    ASSUME NEW key, NEW host, NEW uris, NEW kind, NEW csr,
           csr = Ans!BuildCsr(key, host, [dns |-> <<host>>, uris |-> uris], kind)
    PROVE  /\ csr.uris = uris /\ csr.dns = <<host>> /\ csr.key = key
           /\ csr.cn = IF kind = "identity" THEN host ELSE Absent
           /\ "ServerAuth" \in csr.usage <=> kind # "identity"
<1> DEFINE sans == [dns |-> <<host>>, uris |-> uris]
<1>1. csr = [cn    |-> IF kind = "identity" THEN host ELSE Absent,
             dns   |-> sans.dns,
             uris  |-> sans.uris,
             usage |-> IF kind = "identity" THEN {"ClientAuth", "DigitalSignature"}
                       ELSE {"ServerAuth", "DigitalSignature", "KeyEncipherment"},
             key   |-> key]
  BY DEF Ans!BuildCsr
<1>2. sans.dns = <<host>> /\ sans.uris = uris
  OBVIOUS
<1> HIDE DEF sans
<1>3. /\ csr.uris = uris /\ csr.dns = <<host>> /\ csr.key = key
      /\ csr.cn = IF kind = "identity" THEN host ELSE Absent
  BY <1>1, <1>2
<1>4. "ServerAuth" \in csr.usage <=> kind # "identity"
  BY <1>1
<1> QED
  BY <1>3, <1>4

(***************************************************************************)
(* A request binds its version and its host, and has a key that is taken.   *)
(***************************************************************************)
THEOREM RequestsAreTaken ==
    ASSUME NEW fqdn, NEW version, NEW kind, NEW pem, IsNamed(fqdn, version)
    PROVE  Ans!RequestsAreAcceptable(fqdn, version, kind, pem)
<1> DEFINE host == Ans!Fqdn(fqdn)
           name == [version |-> version, host |-> host]
           uris == IF kind = "identity" THEN <<Ans!AnsUri(name)>> ELSE <<>>
           built == Ans!BuildRequest(fqdn, version, kind, pem)
<1> HIDE DEF built
<1>1. SUFFICES ASSUME built.error = "none"
               PROVE  /\ (built.csr.uris # <<>>) <=> (kind = "identity")
                      /\ \A i \in DOMAIN built.csr.uris :
                           Ans!AnsName(built.csr.uris[i]) =
                             [version |-> version, host |-> Head(built.csr.dns)]
                      /\ Len(Head(built.csr.dns)) > 1
                      /\ built.pem.pkcs8 /\ built.pem.algorithm \in Ans!AcceptedAlgorithms
  BY DEF Ans!RequestsAreAcceptable, built
<1>2. /\ host # Malformed /\ Len(host) > 1 /\ Ans!KeyFault(pem) = "none"
      /\ built.csr = Ans!BuildCsr(Ans!Loaded(pem).key, host,
                                  [dns |-> <<host>>, uris |-> uris], kind)
      /\ built.pem = Ans!Loaded(pem)
  BY <1>1, BuiltRequests DEF built
<1>3. IsProperName(name)
  BY <1>2, NamedWell
<1>4. Ans!AnsName(Ans!AnsUri(name)) = name
  BY <1>3, ReadAsPrinted
<1>5. uris # <<>> <=> kind = "identity"
  OBVIOUS
<1>6. \A i \in DOMAIN uris : Ans!AnsName(uris[i]) = name
  <2>1. CASE kind = "identity"
    BY <1>4, <2>1
  <2>2. CASE kind # "identity"
    BY <2>2
  <2> QED
    BY <2>1, <2>2
<1> HIDE DEF host, uris
<1>7. built.csr.uris = uris /\ built.csr.dns = <<host>>
  BY <1>2, FieldsOfCsr
<1>8. Head(built.csr.dns) = host
  BY <1>7
<1> QED
  BY <1>2, <1>5, <1>6, <1>7, <1>8, LoadedKeys

(***************************************************************************)
(* A renewal with the key that came back asks for the same key, and for the *)
(* same certificate but for the version.                                   *)
(***************************************************************************)
THEOREM RenewalsKeepTheirKey ==
    ASSUME NEW fqdn, NEW version, NEW next, NEW kind \in {"server", "identity"}, NEW pem,
           IsNamed(fqdn, version), IsNamed(fqdn, next)
    PROVE  Ans!RenewalKeepsKey(fqdn, version, next, kind, pem)
<1> DEFINE host == Ans!Fqdn(fqdn)
           key == Ans!Loaded(pem)
           name(v) == [version |-> v, host |-> host]
           uris(v) == IF kind = "identity" THEN <<Ans!AnsUri(name(v))>> ELSE <<>>
           first == Ans!BuildRequest(fqdn, version, kind, pem)
           second == Ans!BuildRequest(fqdn, next, kind, first.pem)
<1> HIDE DEF first, second
<1>1. SUFFICES ASSUME first.error = "none"
               PROVE  /\ second.error = "none" /\ second.csr.key = first.csr.key
                      /\ second.csr = first.csr <=> kind = "server" \/ next = version
  BY DEF Ans!RenewalKeepsKey, first, second
<1>2. /\ host # Malformed /\ Ans!HostFault(fqdn) = "none" /\ Ans!KeyFault(pem) = "none"
      /\ first.csr = Ans!BuildCsr(key.key, host,
                                  [dns |-> <<host>>, uris |-> uris(version)], kind)
      /\ first.pem = key
  BY <1>1, BuiltRequests DEF first
<1>3. Ans!KeyFault(key) = "none" /\ Ans!Loaded(key) = key
  BY <1>2, LoadedKeys
<1>4. second = Ans!BuildRequest(fqdn, next, kind, key)
  BY <1>2 DEF second
<1> HIDE DEF key
<1>5. second.error = "none"
  BY <1>2, <1>3, <1>4 DEF Ans!BuildRequest
<1>6. second.csr = Ans!BuildCsr(key.key, host,
                                [dns |-> <<host>>, uris |-> uris(next)], kind)
  BY <1>3, <1>4, <1>5, BuiltRequests
<1>7. IsAnsName(name(version)) /\ IsAnsName(name(next))
  BY <1>2, NamedWell
<1>8. uris(next) = uris(version) <=> kind = "server" \/ next = version
  <2>1. kind = "server" => uris(next) = uris(version)
    OBVIOUS
  <2>2. ASSUME kind = "identity", uris(next) = uris(version) PROVE next = version
    <3>1. Ans!AnsUri(name(next)) = Ans!AnsUri(name(version))
      BY <2>2
    <3>2. name(next) = name(version)
      BY <1>7, <3>1, PrintedNames
    <3> QED
      BY <3>2
  <2> QED
    BY <2>1, <2>2
<1> HIDE DEF host, uris
<1>9. /\ first.csr.uris = uris(version) /\ first.csr.key = key.key
      /\ second.csr.uris = uris(next) /\ second.csr.key = key.key
  BY <1>2, <1>6, FieldsOfCsr
<1>10. uris(next) = uris(version) => second.csr = first.csr
  BY <1>2, <1>6
<1> QED
  BY <1>5, <1>8, <1>9, <1>10

\* What a certificate of a role is, once it was issued.
LEMMA IssuedFields ==
    ASSUME NEW key, NEW host, NEW uris, NEW kind, NEW fp, NEW cert, host # Absent,
           cert = Ans!Issued(Ans!BuildCsr(key, host, [dns |-> <<host>>, uris |-> uris], kind), fp)
    PROVE  Ans!CertHost(cert) = host /\ cert.uris = uris /\ cert.fp = fp
<1> DEFINE csr == Ans!BuildCsr(key, host, [dns |-> <<host>>, uris |-> uris], kind)
<1>1. /\ csr.uris = uris /\ csr.dns = <<host>>
      /\ csr.cn = IF kind = "identity" THEN host ELSE Absent
      /\ "ServerAuth" \in csr.usage <=> kind # "identity"
  BY FieldsOfCsr
<1>2. cert = Ans!Issued(csr, fp)
  OBVIOUS
<1> HIDE DEF csr
<1>3. cert = [cn |-> csr.cn, dns |-> IF "ServerAuth" \in csr.usage THEN csr.dns ELSE <<>>,
              uris |-> csr.uris, fp |-> fp]
  BY <1>2 DEF Ans!Issued
<1>4. cert.uris = uris /\ cert.fp = fp /\ cert.cn = csr.cn
      /\ cert.dns = IF kind = "identity" THEN <<>> ELSE <<host>>
  BY <1>1, <1>3
<1>5. <<host>> # <<>> /\ Head(<<host>>) = host
  OBVIOUS
<1>6. Ans!CertHost(cert) = host
  BY <1>1, <1>4, <1>5 DEF Ans!CertHost
<1> QED
  BY <1>4, <1>6

LEMMA FingerprintsAreTheirOwn ==
    ASSUME NEW fp PROVE Ans!FingerprintMatches(fp, Ans!FingerprintOf(fp))
<1>1. PICK yes : yes = TRUE /\ Ans!FingerprintOf(fp) =
        [prefix |-> "SHA256:", hex |-> yes, octets |-> 32, bytes |-> fp]
  BY Zenon DEF Ans!FingerprintOf
<1>2. Ans!FingerprintOf(fp).hex = yes
  BY <1>1
<1>3. Ans!FingerprintOf(fp).hex
  BY <1>1, <1>2, Zenon
<1>4. \E no : Ans!FingerprintOf(fp) = [prefix |-> "SHA256:", hex |-> no, octets |-> 32,
                                      bytes |-> fp]
  BY Zenon DEF Ans!FingerprintOf
<1>5. /\ Ans!FingerprintOf(fp).prefix = "SHA256:" /\ Ans!FingerprintOf(fp).octets = 32
      /\ Ans!FingerprintOf(fp).bytes = fp
  BY <1>4
<1> HIDE DEF Ans!FingerprintOf
<1>6. Ans!ParsedFingerprint(Ans!FingerprintOf(fp)) = fp
  BY <1>3, <1>5 DEF Ans!ParsedFingerprint
<1> QED
  BY <1>6 DEF Ans!FingerprintMatches

\* The badge of one certificate lists it for its role, and nothing for the other.
LEMMA BadgeLists ==
    ASSUME NEW host, NEW version, NEW role \in {"server", "identity"}, NEW fp, NEW cert,
           cert.fp = fp, NEW badge, badge = Ans!BadgeOf(host, version, role, fp)
    PROVE  /\ Ans!Listed(cert, Ans!ServerFingerprints(badge)) <=> role = "server"
           /\ Ans!Listed(cert, Ans!IdentityFingerprints(badge)) <=> role = "identity"
           /\ Ans!IsValidForConnection(badge.status) /\ badge.host = host
           /\ badge.ansName = Ans!AnsUri([version |-> version, host |-> host])
<1> DEFINE listed(for) == IF role = for THEN <<Ans!FingerprintOf(fp)>> ELSE <<>>
           uri == Ans!AnsUri([version |-> version, host |-> host])
<1>1. badge = [status |-> "ACTIVE", schema |-> "V2", host |-> host, ansName |-> uri,
               serverCerts |-> listed("server"), identityCerts |-> listed("identity"),
               serverCert |-> Absent, identityCert |-> Absent]
  BY DEF Ans!BadgeOf
<1>2. ASSUME NEW for PROVE Ans!Listed(cert, listed(for)) <=> role = for
  <2>1. CASE role = for
    <3>1. 1 \in DOMAIN listed(for) /\ listed(for)[1] = Ans!FingerprintOf(fp)
      BY <2>1
    <3> QED
      BY <2>1, <3>1, FingerprintsAreTheirOwn DEF Ans!Listed
  <2>2. CASE role # for
    <3>1. DOMAIN listed(for) = {}
      BY <2>2
    <3> HIDE DEF listed
    <3> QED
      BY <2>2, <3>1 DEF Ans!Listed
  <2> QED
    BY <2>1, <2>2
<1> HIDE DEF listed, uri
<1>3. /\ badge.status = "ACTIVE" /\ badge.schema = "V2" /\ badge.host = host
      /\ badge.ansName = uri /\ badge.serverCerts = listed("server")
      /\ badge.identityCerts = listed("identity")
  BY <1>1
<1>4. /\ Ans!ServerFingerprints(badge) = listed("server")
      /\ Ans!IdentityFingerprints(badge) = listed("identity")
  BY <1>3 DEF Ans!ServerFingerprints, Ans!IdentityFingerprints, Ans!CertFingerprints
<1>5. Ans!IsValidForConnection(badge.status)
  BY <1>3 DEF Ans!IsValidForConnection
<1> QED
  BY <1>2, <1>3, <1>4, <1>5 DEF uri

\* The verdicts are conjunctions of what verifiers ask.
LEMMA VerdictsAsk ==
    ASSUME NEW badge, NEW cert, NEW dialed
    PROVE  /\ Ans!ClientVerdict(badge, cert) = "Verified" <=>
                /\ Ans!ClientCertError(cert) = "none"
                /\ Ans!IsValidForConnection(badge.status)
                /\ Ans!Listed(cert, Ans!IdentityFingerprints(badge))
                /\ Ans!HostIs(cert, badge.host)
                /\ Ans!AnsUri(Ans!CertAnsName(cert)) = badge.ansName
           /\ Ans!ServerVerdict(badge, cert, dialed) = "Verified" <=>
                /\ Ans!IsValidForConnection(badge.status)
                /\ Ans!Listed(cert, Ans!ServerFingerprints(badge))
                /\ Ans!EqIgnoreCase(badge.host, dialed) /\ Ans!HostIs(cert, dialed)
<1>1. Ans!ClientCertError(cert) # "Verified"
  BY DEF Ans!ClientCertError
<1>2. Ans!ClientVerdict(badge, cert) = "Verified" <=>
        /\ Ans!ClientCertError(cert) = "none"
        /\ Ans!IsValidForConnection(badge.status)
        /\ Ans!Listed(cert, Ans!IdentityFingerprints(badge))
        /\ Ans!HostIs(cert, badge.host)
        /\ Ans!AnsUri(Ans!CertAnsName(cert)) = badge.ansName
  BY <1>1 DEF Ans!ClientVerdict
<1>3. Ans!ServerVerdict(badge, cert, dialed) = "Verified" <=>
        /\ Ans!IsValidForConnection(badge.status)
        /\ Ans!Listed(cert, Ans!ServerFingerprints(badge))
        /\ Ans!EqIgnoreCase(badge.host, dialed) /\ Ans!HostIs(cert, dialed)
  BY DEF Ans!ServerVerdict
<1> QED
  BY <1>2, <1>3

(***************************************************************************)
(* What a request yields is accepted in its role, against the badge of its  *)
(* own name alone.                                                         *)
(***************************************************************************)
THEOREM CertificatesFitTheirBadge ==
    ASSUME NEW fqdn, NEW version, NEW kind \in {"server", "identity"}, NEW others,
           IsNamed(fqdn, version), \A o \in others : IsName(o)
    PROVE  Ans!CertificateFitsBadge(fqdn, version, kind, others)
<1> DEFINE host == Ans!Fqdn(fqdn)
           name == [version |-> version, host |-> host]
           uris == IF kind = "identity" THEN <<Ans!AnsUri(name)>> ELSE <<>>
           built == Ans!BuildRequest(fqdn, version, kind, Absent)
           cert == Ans!Issued(built.csr, "fp")
           badge(other, v, role) == Ans!BadgeOf(other, v, role, "fp")
<1> HIDE DEF built, cert, badge
<1>1. SUFFICES ASSUME built.error = "none",
                      NEW other \in {Ans!Fqdn(o) : o \in others} \ {Malformed},
                      NEW v \in {version, <<9, 9, 9>>}
               PROVE  /\ Ans!ClientVerdict(badge(other, v, "identity"), cert) = "Verified"
                           <=> kind = "identity" /\ other = host /\ v = version
                      /\ Ans!ServerVerdict(badge(other, v, "server"), cert, host) = "Verified"
                           <=> other = host
                      /\ Ans!ClientVerdict(badge(other, v, "server"), cert) # "Verified"
                      /\ Ans!ServerVerdict(badge(other, v, "identity"), cert, host) # "Verified"
  BY DEF Ans!CertificateFitsBadge, built, cert, badge
<1>2. /\ host # Malformed /\ host # Absent /\ name # Absent
      /\ built.csr = Ans!BuildCsr(Ans!Loaded(Absent).key, host,
                                  [dns |-> <<host>>, uris |-> uris], kind)
  <2>1. host # Absent /\ name # Absent
    BY DEF IsNamed
  <2>2. /\ host # Malformed
        /\ built.csr = Ans!BuildCsr(Ans!Loaded(Absent).key, host,
                                    [dns |-> <<host>>, uris |-> uris], kind)
    BY <1>1, BuiltRequests DEF built
  <2> QED
    BY <2>1, <2>2
<1>3. IsHost(host) /\ IsProperName(name) /\ IsAnsName(name)
  BY <1>2, NamedWell
<1>4. /\ Ans!AnsName(Ans!AnsUri(name)) = name /\ name # Malformed
      /\ Ans!Fqdn(host) = host
  BY <1>3, ReadAsPrinted, FqdnMakesHosts DEF IsProperName, IsHost
<1>5. IsHost(other)
  BY <1>1, FqdnMakesHosts
<1>6. Ans!EqIgnoreCase(other, host) <=> other = host
  BY <1>3, <1>5, HostsAreLowered
<1>7. Ans!EqIgnoreCase(host, other) <=> other = host
  BY <1>3, <1>5, HostsAreLowered
<1>8. Ans!EqIgnoreCase(host, host)
  BY <1>3, HostsAreLowered
<1>9. Ans!AnsUri(name) = Ans!AnsUri([version |-> v, host |-> other])
        <=> other = host /\ v = version
  <2>1. <<9, 9, 9>> \in [1 .. 3 -> Nat]
    OBVIOUS
  <2>2. v \in [1 .. 3 -> Nat]
    BY <1>1, <2>1 DEF IsNamed
  <2> DEFINE second == [version |-> v, host |-> other]
  <2>3. IsAnsName(second)
    <3>1. second.version = v /\ second.host = other
      OBVIOUS
    <3>2. IsVersion(v)
      BY <2>2 DEF IsVersion
    <3> QED
      BY <1>5, <3>1, <3>2 DEF IsAnsName
  <2>4. Ans!AnsUri(second) = Ans!AnsUri(name) => second = name
    BY <1>3, <2>3, PrintedNames
  <2>5. second = name <=> other = host /\ v = version
    OBVIOUS
  <2> HIDE DEF name, second
  <2>6. Ans!AnsUri(second) = Ans!AnsUri(name) <=> other = host /\ v = version
    BY <2>4, <2>5
  <2> QED
    BY <2>6 DEF second
<1>10. Ans!CertHost(cert) = host /\ cert.uris = uris /\ cert.fp = "fp"
  <2> HIDE DEF uris
  <2> QED
    BY <1>2, IssuedFields DEF cert
<1>11. /\ Ans!HostIs(cert, other) <=> other = host
       /\ Ans!HostIs(cert, host)
  BY <1>2, <1>7, <1>8, <1>10 DEF Ans!HostIs
<1>12. Ans!CertAnsName(cert) = IF kind = "identity" THEN name ELSE Absent
  <2>1. CASE kind = "identity"
    <3>1. cert.uris = <<Ans!AnsUri(name)>>
      BY <1>10, <2>1
    <3> QED
      BY <1>4, <2>1, <3>1, OnlyUri
  <2>2. CASE kind # "identity"
    <3>1. cert.uris = <<>>
      BY <1>10, <2>2
    <3> QED
      BY <2>2, <3>1, OnlyUri
  <2> QED
    BY <2>1, <2>2
<1> HIDE DEF host, name, uris
<1>13. Ans!ClientCertError(cert) = "none" <=> kind = "identity"
  BY <1>2, <1>4, <1>10, <1>12 DEF Ans!ClientCertError
<1>14. ASSUME NEW role \in {"server", "identity"}
       PROVE  /\ Ans!Listed(cert, Ans!ServerFingerprints(badge(other, v, role)))
                   <=> role = "server"
              /\ Ans!Listed(cert, Ans!IdentityFingerprints(badge(other, v, role)))
                   <=> role = "identity"
              /\ Ans!IsValidForConnection(badge(other, v, role).status)
              /\ badge(other, v, role).host = other
              /\ badge(other, v, role).ansName = Ans!AnsUri([version |-> v, host |-> other])
  BY <1>10, BadgeLists DEF badge
<1>15. Ans!ClientVerdict(badge(other, v, "identity"), cert) = "Verified"
         <=> kind = "identity" /\ other = host /\ v = version
  <2>1. Ans!ClientVerdict(badge(other, v, "identity"), cert) = "Verified" <=>
          /\ kind = "identity" /\ other = host
          /\ Ans!AnsUri(Ans!CertAnsName(cert)) = Ans!AnsUri([version |-> v, host |-> other])
    BY <1>11, <1>13, <1>14, VerdictsAsk
  <2> QED
    BY <1>9, <1>12, <2>1
<1>16. Ans!ServerVerdict(badge(other, v, "server"), cert, host) = "Verified" <=> other = host
  BY <1>6, <1>11, <1>14, VerdictsAsk
<1>17. Ans!ClientVerdict(badge(other, v, "server"), cert) # "Verified"
  <2>1. ~Ans!Listed(cert, Ans!IdentityFingerprints(badge(other, v, "server")))
    BY <1>14
  <2> QED
    BY <2>1, VerdictsAsk
<1>18. Ans!ServerVerdict(badge(other, v, "identity"), cert, host) # "Verified"
  <2>1. ~Ans!Listed(cert, Ans!ServerFingerprints(badge(other, v, "identity")))
    BY <1>14
  <2> QED
    BY <2>1, VerdictsAsk
<1> QED
  BY <1>15, <1>16, <1>17, <1>18

LEMMA EventLabels ==
    ASSUME NEW label
    PROVE  /\ Ans!EventType(label).label = label
           /\ Ans!EventType(label).known <=> label \in Ans!EventTypes
<1>1. PICK yes, no :
        /\ yes = TRUE /\ no = FALSE
        /\ Ans!EventType(label) = IF label \in Ans!EventTypes THEN [known |-> yes, label |-> label]
                                  ELSE [known |-> no, label |-> label]
  BY Zenon DEF Ans!EventType
<1>2. Ans!EventType(label) = IF label \in Ans!EventTypes THEN [known |-> yes, label |-> label]
                             ELSE [known |-> no, label |-> label]
  BY <1>1, Zenon
<1>3. /\ Ans!EventType(label).label = label
      /\ label \in Ans!EventTypes => Ans!EventType(label).known = yes
      /\ label \notin Ans!EventTypes => Ans!EventType(label).known = no
  BY <1>2
<1>4. Ans!EventType(label).known <=> label \in Ans!EventTypes
  BY <1>1, <1>3, Zenon
<1> QED
  BY <1>3, <1>4

\* JSON that serde looks at: a function of fields, the optional ones among them.
IsJson(json) ==
    /\ json = [f \in DOMAIN json |-> json[f]]
    /\ Ans!RequiredFields \cup {"serverCerts", "identityCerts"} \subseteq DOMAIN json

(***************************************************************************)
(* A badge that is written again reads the same.                           *)
(***************************************************************************)
THEOREM BadgesReadAlike == ASSUME NEW json, IsJson(json) PROVE Ans!BadgesReadTwice(json)
<1> DEFINE badge == Ans!Badge(json)
           again == [badge EXCEPT !.eventType = @.label]
           Read(j) == [j EXCEPT !.eventType = Ans!EventType(j.eventType),
                                !.serverCerts = Ans!OrElse(j.serverCerts, <<>>),
                                !.identityCerts = Ans!OrElse(j.identityCerts, <<>>)]
<1>1. \A j : Ans!Badge(j) =
         IF j.status \notin Ans!Statuses \/ \E f \in Ans!RequiredFields : j[f] = Absent
         THEN Malformed ELSE Read(j)
  BY DEF Ans!Badge
<1> HIDE DEF badge, Read
<1>2. SUFFICES ASSUME badge # Malformed
               PROVE  /\ Ans!Badge(again) = badge
                      /\ badge.eventType.known <=> json.eventType \in Ans!EventTypes
  BY DEF Ans!BadgesReadTwice, badge
<1>3. /\ json.status \in Ans!Statuses /\ \A f \in Ans!RequiredFields : json[f] # Absent
      /\ badge = Read(json)
  BY <1>1, <1>2 DEF badge
<1> DEFINE event == Ans!EventType(json.eventType)
           servers == Ans!OrElse(json.serverCerts, <<>>)
           identities == Ans!OrElse(json.identityCerts, <<>>)
<1>4. {"status", "eventType", "serverCerts", "identityCerts"} \subseteq DOMAIN json
  BY DEF IsJson, Ans!RequiredFields
<1>5. event.label = json.eventType /\ (event.known <=> json.eventType \in Ans!EventTypes)
  BY EventLabels
<1>6. Ans!OrElse(servers, <<>>) = servers /\ Ans!OrElse(identities, <<>>) = identities
  BY DEF Ans!OrElse
<1>7. /\ Read(json) = [json EXCEPT !.eventType = event, !.serverCerts = servers,
                                   !.identityCerts = identities]
  BY DEF Read
<1> HIDE DEF event, servers, identities, again
<1>8. /\ DOMAIN badge = DOMAIN json /\ badge = [f \in DOMAIN json |-> badge[f]]
      /\ badge.eventType = event /\ badge.serverCerts = servers
      /\ badge.identityCerts = identities
      /\ \A f \in DOMAIN json \ {"eventType", "serverCerts", "identityCerts"} :
           badge[f] = json[f]
  BY <1>3, <1>4, <1>7
<1>9. /\ DOMAIN again = DOMAIN json /\ again = [f \in DOMAIN json |-> again[f]]
      /\ again.eventType = json.eventType
      /\ \A f \in DOMAIN json \ {"eventType"} : again[f] = badge[f]
  <2>1. again = [badge EXCEPT !.eventType = json.eventType]
    BY <1>5, <1>8 DEF again
  <2> QED
    BY <1>4, <1>8, <2>1
<1>10. \A f \in DOMAIN json \ {"serverCerts", "identityCerts"} : again[f] = json[f]
  BY <1>8, <1>9
<1>11. Ans!Badge(again) = Read(again)
  <2>1. again.status \in Ans!Statuses
    BY <1>3, <1>4, <1>10
  <2>2. Ans!RequiredFields \subseteq DOMAIN json \ {"serverCerts", "identityCerts"}
    BY DEF IsJson, Ans!RequiredFields
  <2>3. \A f \in Ans!RequiredFields : again[f] # Absent
    BY <1>3, <1>10, <2>2
  <2> QED
    BY <1>1, <2>1, <2>3
<1>12. Read(again) = badge
  <2>1. again.serverCerts = servers /\ again.identityCerts = identities
    BY <1>4, <1>8, <1>9
  <2>2. Read(again) = [again EXCEPT !.eventType = event, !.serverCerts = servers,
                                    !.identityCerts = identities]
    BY <1>6, <1>9, <2>1 DEF Read, event
  <2>3. /\ DOMAIN Read(again) = DOMAIN json
        /\ Read(again) = [f \in DOMAIN json |-> Read(again)[f]]
        /\ Read(again).eventType = event /\ Read(again).serverCerts = servers
        /\ Read(again).identityCerts = identities
        /\ \A f \in DOMAIN json \ {"eventType", "serverCerts", "identityCerts"} :
             Read(again)[f] = again[f]
    BY <1>4, <1>9, <2>2
  <2>4. \A f \in DOMAIN json : Read(again)[f] = badge[f]
    BY <1>8, <1>9, <2>3
  <2> QED
    BY <1>8, <2>3, <2>4
<1>13. badge.eventType.known <=> json.eventType \in Ans!EventTypes
  BY <1>5, <1>8
<1> QED
  BY <1>11, <1>12, <1>13

(***************************************************************************)
(* A badge accepts a certificate in the role that it lists it for.         *)
(***************************************************************************)
THEOREM RolesNeverMix ==
    ASSUME NEW badge, NEW cert, NEW dialed PROVE Ans!RolesAreApart(badge, cert, dialed)
<1> DEFINE accepted(verdict, certs, legacy) ==
             verdict = "Verified" =>
                /\ ~Ans!ShouldReject(badge.status) /\ badge.status # "UNKNOWN"
                /\ \/ badge.schema \in {"V1", "V2"} /\ Ans!Listed(cert, certs)
                   \/ badge.schema = "V1" /\ legacy # Absent /\ Ans!Listed(cert, <<legacy>>)
<1>1. Ans!IsValidForConnection(badge.status) =>
        ~Ans!ShouldReject(badge.status) /\ badge.status # "UNKNOWN"
  BY DEF Ans!IsValidForConnection, Ans!ShouldReject
<1>2. ~Ans!Listed(cert, <<>>)
  BY DEF Ans!Listed
<1>3. ASSUME NEW certs, NEW legacy,
             Ans!Listed(cert, Ans!CertFingerprints(badge.schema, certs, legacy))
      PROVE  \/ badge.schema \in {"V1", "V2"} /\ Ans!Listed(cert, certs)
             \/ badge.schema = "V1" /\ legacy # Absent /\ Ans!Listed(cert, <<legacy>>)
  BY <1>2, <1>3 DEF Ans!CertFingerprints
<1>4. accepted(Ans!ServerVerdict(badge, cert, dialed), badge.serverCerts, badge.serverCert)
  <2>1. Ans!ServerVerdict(badge, cert, dialed) = "Verified" =>
          /\ Ans!IsValidForConnection(badge.status)
          /\ Ans!Listed(cert, Ans!ServerFingerprints(badge))
    BY VerdictsAsk
  <2> QED
    BY <1>1, <1>3, <2>1 DEF Ans!ServerFingerprints
<1>5. accepted(Ans!ClientVerdict(badge, cert), badge.identityCerts, badge.identityCert)
  <2>1. Ans!ClientVerdict(badge, cert) = "Verified" =>
          /\ Ans!IsValidForConnection(badge.status)
          /\ Ans!Listed(cert, Ans!IdentityFingerprints(badge))
    BY VerdictsAsk
  <2> QED
    BY <1>1, <1>3, <2>1 DEF Ans!IdentityFingerprints
<1> QED
  BY <1>4, <1>5 DEF Ans!RolesAreApart

\* What the questions about names are asked of.
IdentityInputs ==
    /\ Given("name") => IsName(input.of.labels)
    /\ Given("labels") => IsLabel(input.of[1]) /\ IsLabel(input.of[2])
    /\ Given("lookups") => IsName(input.of[1]) /\ IsName(input.of[2])
    /\ Given("request") =>
         /\ IsNamed(input.of[1], input.of[2]) /\ IsNamed(input.of[1], input.of[3])
         /\ input.of[4] \in {"server", "identity"}
         /\ \A other \in input.of[6] : IsName(other)
    /\ Given("badge of") => IsJson(input.of[1])

(***************************************************************************)
(* Names agree wherever they are written, whatever they are.               *)
(***************************************************************************)
THEOREM IdentityAlwaysAgrees == []IdentityInputs => []IdentityAgrees
<1>1. IdentityInputs /\ Given("request") =>
        /\ Ans!RequestsAreAcceptable(input.of[1], input.of[2], input.of[4], input.of[5])
        /\ Ans!RenewalKeepsKey(input.of[1], input.of[2], input.of[3], input.of[4], input.of[5])
        /\ Ans!CertificateFitsBadge(input.of[1], input.of[2], input.of[4], input.of[6])
  <2>1. SUFFICES ASSUME IdentityInputs, Given("request")
                 PROVE  /\ Ans!RequestsAreAcceptable(input.of[1], input.of[2], input.of[4],
                                                     input.of[5])
                        /\ Ans!RenewalKeepsKey(input.of[1], input.of[2], input.of[3],
                                               input.of[4], input.of[5])
                        /\ Ans!CertificateFitsBadge(input.of[1], input.of[2], input.of[4],
                                                    input.of[6])
    OBVIOUS
  <2>2. /\ IsNamed(input.of[1], input.of[2]) /\ IsNamed(input.of[1], input.of[3])
        /\ input.of[4] \in {"server", "identity"}
        /\ \A other \in input.of[6] : IsName(other)
    BY <2>1 DEF IdentityInputs
  <2> QED
    BY <2>2, RequestsAreTaken, RenewalsKeepTheirKey, CertificatesFitTheirBadge
<1>2. IdentityInputs /\ Given("name") => Ans!NamesPrintOnce(input.of)
  BY NamesHaveOneForm DEF IdentityInputs
<1>3. IdentityInputs /\ Given("labels") => Ans!LabelsStayApart(input.of[1], input.of[2])
  BY LabelsKeepApart DEF IdentityInputs
<1>4. IdentityInputs /\ Given("lookups") => Ans!LookupsAreApart(input.of[1], input.of[2])
  BY LookupsNeverMeet DEF IdentityInputs
<1>5. IdentityInputs /\ Given("badge of") => Ans!BadgesReadTwice(input.of[1])
  BY BadgesReadAlike DEF IdentityInputs
<1>6. \A badge, cert, dialed : Ans!RolesAreApart(badge, cert, dialed)
  BY RolesNeverMix
<1>7. IdentityInputs => IdentityAgrees
  BY <1>1, <1>2, <1>3, <1>4, <1>5, <1>6 DEF IdentityAgrees
<1> QED
  BY <1>7, PTL

-----------------------------------------------------------------------------
(***************************************************************************)
(* The registration client                                                 *)
(***************************************************************************)
LEMMA ErrorsByStatus ==
    /\ \A s : RA!ErrorFor(s) \in RA!ResponseErrors
    /\ \A s, t : RA!ErrorFor(s) = RA!ErrorFor(t) /\ RA!ErrorFor(s) # "ServerError" => s = t
<1>1. ASSUME NEW s PROVE RA!ErrorFor(s) \in RA!ResponseErrors
  BY DEF RA!ErrorFor, RA!ResponseErrors
<1>2. ASSUME NEW s
      PROVE  /\ RA!ErrorFor(s) = "Unauthorized" => s = 401
             /\ RA!ErrorFor(s) = "Forbidden" => s = 403
             /\ RA!ErrorFor(s) = "NotFound" => s = 404
             /\ RA!ErrorFor(s) = "Conflict" => s = 409
             /\ RA!ErrorFor(s) = "InvalidRequest" => s = 400
             /\ RA!ErrorFor(s) = "UnprocessableEntity" => s = 422
             /\ RA!ErrorFor(s) = "RateLimited" => s = 429
  BY DEF RA!ErrorFor
<1> QED
  BY <1>1, <1>2 DEF RA!ResponseErrors

\* What becomes of a reply, by its kind.
LEMMA SentReplies ==
    ASSUME NEW reply, NEW shape
    PROVE  LET result == RA!Send(reply, shape)
               arrived == reply # NoReply /\ reply.body.kind # "cut"
           IN  /\ ~arrived => result.error = "Http"
               /\ arrived /\ reply.status \notin 200 .. 299 =>
                    result.error = RA!ErrorFor(reply.status) /\ result.status = reply.status
               /\ arrived /\ reply.status \in 200 .. 299 => result.error \in {"Json", "none"}
<1> DEFINE failed == RA!FromResponse(reply.status, reply.body)
           value == RA!Decode(shape, reply.body.value)
<1>1. RA!Send(reply, shape) =
        IF reply = NoReply \/ (reply # NoReply /\ reply.body.kind = "cut")
        THEN [error |-> "Http"]
        ELSE IF reply.status \notin 200 .. 299 THEN failed
        ELSE IF reply.body.kind # "json" \/ value = Malformed THEN [error |-> "Json"]
        ELSE [error |-> "none", value |-> value]
  BY DEF RA!Send
<1>2. failed.error = RA!ErrorFor(reply.status) /\ failed.status = reply.status
  BY DEF RA!FromResponse
<1> HIDE DEF failed, value
<1> QED
  BY <1>1, <1>2

(***************************************************************************)
(* An error of the server keeps its status, and no other error has one.     *)
(***************************************************************************)
THEOREM ErrorsKeepTheirStatus ==
    ASSUME NEW reply, NEW other, NEW shape, reply # NoReply => reply.status # Absent,
           other # NoReply => other.status # Absent
    PROVE  RA!ErrorsKeepStatus(reply, other, shape)
<1> DEFINE result(r) == RA!Send(r, shape)
           adverse(r) == r # NoReply /\ r.status \notin 200 .. 299 /\ r.body.kind # "cut"
<1>1. ASSUME NEW r, r # NoReply => r.status # Absent
      PROVE  /\ result(r).error = "none" => r.status \in 200 .. 299
             /\ RA!StatusCode(result(r)) # Absent <=> adverse(r)
             /\ adverse(r) => /\ RA!StatusCode(result(r)) = r.status
                              /\ result(r).error = RA!ErrorFor(r.status)
  <2> DEFINE sent == result(r)
  <2>1. /\ ~(r # NoReply /\ r.body.kind # "cut") => sent.error = "Http"
        /\ adverse(r) => sent.error = RA!ErrorFor(r.status) /\ sent.status = r.status
        /\ r # NoReply /\ r.body.kind # "cut" /\ r.status \in 200 .. 299 =>
             sent.error \in {"Json", "none"}
    BY SentReplies
  <2> HIDE DEF sent, result
  <2>2. CASE adverse(r)
    <3>1. sent.error \in RA!ResponseErrors /\ sent.status # Absent
      BY <1>1, <2>1, <2>2, ErrorsByStatus
    <3>2. sent.error # "none"
      BY <3>1 DEF RA!ResponseErrors
    <3> QED
      BY <2>1, <2>2, <3>1, <3>2 DEF RA!StatusCode, sent
  <2>3. CASE ~adverse(r)
    <3>1. sent.error \in {"Http", "Json", "none"}
          /\ (sent.error = "none" => r.status \in 200 .. 299)
      BY <2>1, <2>3
    <3>2. RA!StatusCode(sent) = Absent
      BY <3>1 DEF RA!StatusCode, RA!ResponseErrors
    <3> QED
      BY <2>3, <3>1, <3>2 DEF sent
  <2> QED
    BY <2>2, <2>3
<1> HIDE DEF result
<1>2. ASSUME adverse(reply), adverse(other), result(reply).error = result(other).error,
             result(reply).error # "ServerError"
      PROVE  reply.status = other.status
  BY <1>1, <1>2, ErrorsByStatus
<1>3. /\ result(reply).error = "none" => reply.status \in 200 .. 299
      /\ RA!StatusCode(result(reply)) # Absent <=> adverse(reply)
      /\ RA!StatusCode(result(reply)) # Absent =>
           RA!StatusCode(result(reply)) = reply.status
      /\ (/\ RA!StatusCode(result(reply)) # Absent /\ RA!StatusCode(result(other)) # Absent
          /\ result(reply).error = result(other).error
          /\ result(reply).error # "ServerError")
           => reply.status = other.status
  BY <1>1, <1>2
<1> QED
  BY <1>3 DEF RA!ErrorsKeepStatus, result

\* A URL has four parts; the rest of a builder's options may be anything.
IsOptions(opts) ==
    /\ opts.version \in {"V1", "V2"}
    /\ opts.baseUrl \in {Absent, Malformed} \/
         \E scheme, host, path, query :
            opts.baseUrl = [scheme |-> scheme, host |-> host, path |-> path, query |-> query]

LEMMA BuiltClients ==
    ASSUME NEW opts, IsOptions(opts), RA!BuildClient(opts).error = "none"
    PROVE  LET client == RA!BuildClient(opts)
           IN  /\ opts.allowInsecure \/ client.base.scheme = "https"
               /\ client.version = opts.version
               /\ \A path : RA!UrlOf(client, path) =
                             [scheme |-> client.base.scheme, host |-> client.base.host,
                              path |-> RA!Resolved(path), query |-> {}]
<1> DEFINE client == RA!BuildClient(opts)
           base == IF opts.baseUrl = Absent THEN RA!DefaultUrl ELSE opts.baseUrl
<1>1. client = IF base = Malformed THEN [error |-> "InvalidUrl"]
               ELSE IF ~opts.allowInsecure /\ base.scheme # "https"
                    THEN [error |-> "Configuration"]
               ELSE IF \E i \in DOMAIN opts.headers : ~opts.headers[i].valid
                    THEN [error |-> "Configuration"]
               ELSE [error |-> "none", base |-> base, auth |-> opts.auth,
                     extra |-> RA!Effective(opts.headers), version |-> opts.version]
  BY DEF RA!BuildClient
<1>2. base # Malformed => \E scheme, host, path, query :
         base = [scheme |-> scheme, host |-> host, path |-> path, query |-> query]
  BY DEF IsOptions, RA!DefaultUrl
<1>3. client.error = "none"
  OBVIOUS
<1> HIDE DEF client, base
<1>4. /\ base # Malformed /\ (opts.allowInsecure \/ base.scheme = "https")
      /\ client.base = base /\ client.version = opts.version
  BY <1>1, <1>3
<1>5. ASSUME NEW path
      PROVE  RA!UrlOf(client, path) = [scheme |-> client.base.scheme, host |-> client.base.host,
                                       path |-> RA!Resolved(path), query |-> {}]
  <2>1. PICK scheme, host, own, query :
          base = [scheme |-> scheme, host |-> host, path |-> own, query |-> query]
    BY <1>2, <1>4
  <2>2. RA!UrlOf(client, path) = [base EXCEPT !.path = RA!Resolved(path), !.query = {}]
    BY <1>4 DEF RA!UrlOf
  <2>3. client.base.scheme = scheme /\ client.base.host = host
    BY <1>4, <2>1
  <2> QED
    BY <2>1, <2>2, <2>3
<1> QED
  BY <1>4, <1>5 DEF client

\* What a request is, with a body or with a query.
LEMMA Requested ==
    ASSUME NEW client, NEW method, NEW path, NEW body
    PROVE  LET request == RA!Request(client, method, path, body)
           IN  /\ request.error = "none" /\ request.method = method
               /\ request.url = RA!UrlOf(client, path) /\ request.body = body
<1> DEFINE built == RA!BuildRequest(client, method, path)
           request == RA!Request(client, method, path, body)
<1>1. PICK headers : request = [built EXCEPT !.headers = headers, !.body = body]
  BY DEF RA!Request
<1>2. PICK first, none : built = [error |-> "none", method |-> method,
                                  url |-> RA!UrlOf(client, path), headers |-> first,
                                  body |-> none]
  BY DEF RA!BuildRequest
<1> HIDE DEF built, request
<1>3. request = [error |-> "none", method |-> method, url |-> RA!UrlOf(client, path),
                 headers |-> headers, body |-> body]
  BY <1>1, <1>2
<1>4. /\ request.error = "none" /\ request.method = method
      /\ request.url = RA!UrlOf(client, path) /\ request.body = body
  BY <1>3
<1> QED
  BY <1>4 DEF request

LEMMA Queried ==
    ASSUME NEW client, NEW path, NEW query, NEW scheme, NEW host,
           NEW there,
           RA!UrlOf(client, path) = [scheme |-> scheme, host |-> host, path |-> there, query |-> {}]
    PROVE  LET request == RA!WithQuery(RA!BuildRequest(client, "GET", path), query)
           IN  /\ request.method = "GET" /\ request.url.path = there
               /\ request.url.host = host /\ request.url.scheme = scheme
<1> DEFINE built == RA!BuildRequest(client, "GET", path)
           request == RA!WithQuery(built, query)
<1>1. PICK kept : request = [built EXCEPT !.url.query = kept]
  BY DEF RA!WithQuery
<1>2. \E headers, none : built = [error |-> "none", method |-> "GET",
                                  url |-> RA!UrlOf(client, path), headers |-> headers,
                                  body |-> none]
  BY DEF RA!BuildRequest
<1> HIDE DEF built, request
<1>3. request.method = "GET" /\ request.url = [RA!UrlOf(client, path) EXCEPT !.query = kept]
  BY <1>1, <1>2
<1>4. request.url = [scheme |-> scheme, host |-> host, path |-> there, query |-> kept]
  BY <1>3
<1> QED
  BY <1>3, <1>4 DEF request, built

\* Without dot segments a path is where its URL leads.
Undotted(path) == \A i \in DOMAIN path : path[i] \notin RA!DotSegments

LEMMA UndottedPaths ==
    ASSUME NEW path, Undotted(path) PROVE RA!Resolved(path) = path
BY DEF Undotted, RA!Resolved

(***************************************************************************)
(* No registration drops the record families that it was asked for.        *)
(***************************************************************************)
THEOREM ProfilesAreNotDropped ==
    ASSUME NEW opts, NEW profiles, IsOptions(opts) PROVE RA!ProfilesAreHonoured(opts, profiles)
<1> DEFINE client == RA!BuildClient(opts)
           registration == [agentHost |-> "host", discoveryProfiles |-> profiles]
           sent == RA!RegisterAgent(client, registration)
           body == RA!RegistrationBody(registration)
<1> HIDE DEF client
<1>1. SUFFICES ASSUME client.error = "none"
               PROVE  IF sent.error # "none" THEN client.version = "V1" /\ profiles # <<>>
                      ELSE /\ profiles # <<>> => sent.body.discoveryProfiles = profiles
                           /\ profiles # <<>> => sent.url.path = <<"v2", "ans", "agents">>
  BY DEF RA!ProfilesAreHonoured, client
<1>2. /\ client.version \in {"V1", "V2"}
      /\ \A path : RA!UrlOf(client, path) = [scheme |-> client.base.scheme,
                                             host |-> client.base.host,
                                             path |-> RA!Resolved(path), query |-> {}]
  BY <1>1, BuiltClients DEF client, IsOptions
<1>3. registration.discoveryProfiles = profiles
  OBVIOUS
<1> HIDE DEF registration, sent, body
<1>4. sent = IF client.version # "V2" /\ profiles # <<>> THEN [error |-> "Configuration"]
             ELSE RA!Request(client, "POST", RA!RegisterPath(client.version), body)
  BY <1>3 DEF RA!RegisterAgent, sent, body
<1>5. CASE client.version # "V2" /\ profiles # <<>>
  <2>1. sent.error = "Configuration"
    BY <1>4, <1>5
  <2> QED
    BY <1>2, <1>5, <2>1
<1>6. CASE client.version = "V2" \/ profiles = <<>>
  <2>1. sent.error = "none" /\ sent.body = body
        /\ sent.url = RA!UrlOf(client, RA!RegisterPath(client.version))
    BY <1>4, <1>6, Requested
  <2>2. ASSUME profiles # <<>>
        PROVE  /\ body.discoveryProfiles = profiles
               /\ RA!RegisterPath(client.version) = <<"v2", "ans", "agents">>
    BY <1>3, <1>6, <2>2 DEF body, RA!RegistrationBody, RA!RegisterPath
  <2>3. ASSUME NEW path PROVE RA!UrlOf(client, path).path = RA!Resolved(path)
    BY <1>2
  <2>4. sent.url.path = RA!Resolved(RA!RegisterPath(client.version))
    BY <2>1, <2>3
  <2>5. Undotted(RA!RegisterPath(client.version))
    BY <1>2 DEF Undotted, RA!RegisterPath, RA!DotSegments
  <2>6. sent.url.path = RA!RegisterPath(client.version)
    BY <2>4, <2>5, UndottedPaths
  <2> QED
    BY <2>1, <2>2, <2>6
<1> QED
  BY <1>5, <1>6

CallNames ==
    {"register", "get", "resolve", "acme", "dns", "serverCerts", "identities", "serverCsr",
     "identityCsr", "csrStatus", "revoke", "search", "events"}

\* How many segments come before an agent's id.
Before(version) == IF version = "V1" THEN 2 ELSE 3
Lane(version) == IF version = "V1" THEN "v1" ELSE "v2"

\* A path of an agent: the collection, the id as one segment, and what is asked of it.
AgentPathIs(path, version, id, suffix) ==
    LET k == Before(version)
    IN  /\ IsSequence(path) /\ Len(path) = k + 1 + Len(suffix) /\ Len(suffix) \in Nat
        /\ path[1] = Lane(version) /\ \A i \in 1 .. k : path[i] \notin RA!DotSegments
        /\ RA!Encode(id) = <<path[k + 1]>>
        /\ \A i \in 1 .. Len(suffix) : path[k + 1 + i] = suffix[i]

LEMMA PathsOfAgents ==
    ASSUME NEW version, version = "V1" \/ version = "V2",
           NEW id, IsSequence(id), NEW suffix, IsSequence(suffix),
           NEW path, path = RA!AgentPath(version, id, suffix)
    PROVE  AgentPathIs(path, version, id, suffix)
<1> DEFINE k == Before(version)
           c == RA!AgentsCollectionPath(version)
           e == RA!Encode(id)
           whole == (c \o e) \o suffix
<1>1. /\ IsSequence(c) /\ Len(c) = k /\ k \in {2, 3} /\ c[1] = Lane(version)
      /\ \A i \in 1 .. k : c[i] \notin RA!DotSegments
  <2>1. CASE version = "V1"
    <3>1. c = <<"v1", "agents">> /\ k = 2
      BY <2>1 DEF RA!AgentsCollectionPath, Before
    <3>2. /\ <<"v1", "agents">> \in Seq({"v1", "agents"}) /\ Len(<<"v1", "agents">>) = 2
          /\ <<"v1", "agents">>[1] = "v1"
          /\ \A i \in 1 .. 2 : <<"v1", "agents">>[i] \notin RA!DotSegments
      BY DEF RA!DotSegments
    <3>3. /\ IsSequence(c) /\ Len(c) = 2 /\ c[1] = "v1"
          /\ \A i \in 1 .. 2 : c[i] \notin RA!DotSegments
      BY <3>1, <3>2 DEF IsSequence
    <3> HIDE DEF c, k
    <3> QED
      BY <2>1, <3>1, <3>3 DEF Lane
  <2>2. CASE version = "V2"
    <3>1. c = <<"v2", "ans", "agents">> /\ k = 3
      BY <2>2 DEF RA!AgentsCollectionPath, Before
    <3>2. /\ <<"v2", "ans", "agents">> \in Seq({"v2", "ans", "agents"})
          /\ Len(<<"v2", "ans", "agents">>) = 3 /\ <<"v2", "ans", "agents">>[1] = "v2"
          /\ \A i \in 1 .. 3 : <<"v2", "ans", "agents">>[i] \notin RA!DotSegments
      BY DEF RA!DotSegments
    <3>3. /\ IsSequence(c) /\ Len(c) = 3 /\ c[1] = "v2"
          /\ \A i \in 1 .. 3 : c[i] \notin RA!DotSegments
      BY <3>1, <3>2 DEF IsSequence
    <3> HIDE DEF c, k
    <3> QED
      BY <2>2, <3>1, <3>3 DEF Lane
  <2> QED
    BY <2>1, <2>2
<1>2. IsSequence(e) /\ Len(e) = 1 /\ e = <<e[1]>>
  <2>1. PICK S : id \in Seq(S)
    BY DEF IsSequence
  <2>2. Len(id) = 1 => id = <<id[1]>>
    BY <2>1
  <2>3. \E x : e = <<x>>
    BY <2>2 DEF RA!Encode
  <2>4. PICK x : e = <<x>>
    BY <2>3
  <2>5. <<x>> \in Seq({x}) /\ Len(<<x>>) = 1 /\ <<x>>[1] = x
    OBVIOUS
  <2> QED
    BY <2>4, <2>5 DEF IsSequence
<1> HIDE DEF c, e, k
<1>3. /\ IsSequence(c \o e) /\ Len(c \o e) = k + 1
      /\ (c \o e)[1] = c[1] /\ (c \o e)[k + 1] = e[1]
      /\ \A i \in 1 .. k : (c \o e)[i] = c[i]
  <2>1. /\ IsSequence(c \o e) /\ Len(c \o e) = Len(c) + Len(e)
        /\ \A i \in 1 .. Len(c) : (c \o e)[i] = c[i]
        /\ \A i \in 1 .. Len(e) : (c \o e)[Len(c) + i] = e[i]
    <3>1. IsSequence(c) /\ IsSequence(e)
      BY <1>1, <1>2
    <3> HIDE DEF whole
    <3> QED
      BY <3>1, JoinedParts
  <2>2. 1 \in 1 .. Len(c) /\ 1 \in 1 .. Len(e)
    BY <1>1, <1>2
  <2> QED
    BY <1>1, <1>2, <2>1, <2>2
<1> DEFINE head == c \o e
<1> HIDE DEF head
<1>4. /\ IsSequence(whole) /\ Len(whole) = k + 1 + Len(suffix) /\ Len(suffix) \in Nat
      /\ whole[1] = c[1] /\ whole[k + 1] = e[1] /\ \A i \in 1 .. k : whole[i] = c[i]
      /\ \A i \in 1 .. Len(suffix) : whole[k + 1 + i] = suffix[i]
  <2>1. /\ IsSequence(head \o suffix) /\ Len(head \o suffix) = Len(head) + Len(suffix)
        /\ Len(suffix) \in Nat
        /\ \A i \in 1 .. Len(head) : (head \o suffix)[i] = head[i]
        /\ \A i \in 1 .. Len(suffix) : (head \o suffix)[Len(head) + i] = suffix[i]
    BY <1>3, JoinedParts DEF head
  <2>2. /\ Len(head) = k + 1 /\ head[1] = c[1] /\ head[k + 1] = e[1]
        /\ \A i \in 1 .. k : head[i] = c[i]
    BY <1>3 DEF head
  <2>3. 1 \in 1 .. k + 1 /\ k + 1 \in 1 .. k + 1 /\ \A i \in 1 .. k : i \in 1 .. k + 1
    BY <1>1
  <2>4. whole = head \o suffix
    BY DEF head
  <2> HIDE DEF whole
  <2> QED
    BY <2>1, <2>2, <2>3, <2>4
<1>5. path = whole
  BY DEF RA!AgentPath, c, e
<1> HIDE DEF whole
<1> QED
  <2>1. /\ IsSequence(path) /\ Len(path) = k + 1 + Len(suffix) /\ Len(suffix) \in Nat
        /\ path[1] = Lane(version) /\ e = <<path[k + 1]>>
        /\ \A i \in 1 .. k : path[i] \notin RA!DotSegments
        /\ \A i \in 1 .. Len(suffix) : path[k + 1 + i] = suffix[i]
    BY <1>1, <1>2, <1>4, <1>5
  <2> QED
    BY <2>1 DEF AgentPathIs, k, e

\* The client that was built, as far as requests depend on it.
IsClient(client) ==
    /\ client.version \in {"V1", "V2"}
    /\ \A path : RA!UrlOf(client, path) = [scheme |-> client.base.scheme,
                                           host |-> client.base.host,
                                           path |-> RA!Resolved(path), query |-> {}]

GoesTo(client, call, method, path) ==
    /\ call.method = method /\ call.url.path = RA!Resolved(path)
    /\ call.url.host = client.base.host /\ call.url.scheme = client.base.scheme

LEMMA RequestsGo ==
    ASSUME NEW client, IsClient(client)
    PROVE  /\ \A method, path, body :
                GoesTo(client, RA!Request(client, method, path, body), method, path)
           /\ \A path, query :
                GoesTo(client, RA!WithQuery(RA!BuildRequest(client, "GET", path), query),
                       "GET", path)
<1>1. ASSUME NEW method, NEW path, NEW body
      PROVE  GoesTo(client, RA!Request(client, method, path, body), method, path)
  <2> DEFINE call == RA!Request(client, method, path, body)
  <2>1. call.method = method /\ call.url = RA!UrlOf(client, path)
    BY Requested
  <2> HIDE DEF call
  <2>2. call.url = [scheme |-> client.base.scheme, host |-> client.base.host,
                    path |-> RA!Resolved(path), query |-> {}]
    BY <2>1 DEF IsClient
  <2>3. /\ call.url.path = RA!Resolved(path)
        /\ call.url.host = client.base.host /\ call.url.scheme = client.base.scheme
    BY <2>2
  <2>4. GoesTo(client, call, method, path)
    BY <2>1, <2>3 DEF GoesTo
  <2> QED
    BY <2>4 DEF call
<1>2. ASSUME NEW path, NEW query
      PROVE  GoesTo(client, RA!WithQuery(RA!BuildRequest(client, "GET", path), query),
                    "GET", path)
  <2>1. RA!UrlOf(client, path) = [scheme |-> client.base.scheme, host |-> client.base.host,
                                  path |-> RA!Resolved(path), query |-> {}]
    BY DEF IsClient
  <2> QED
    BY <2>1, Queried DEF GoesTo
<1> QED
  BY <1>1, <1>2

CsrSuffix(id) == <<"csrs">> \o RA!Encode(id) \o <<"status">>

LEMMA CsrSuffixes ==
    ASSUME NEW id, NEW t, RA!Encode(id) = <<t>>
    PROVE  /\ IsSequence(CsrSuffix(id)) /\ Len(CsrSuffix(id)) = 3
           /\ CsrSuffix(id)[1] = "csrs" /\ CsrSuffix(id)[2] = t /\ CsrSuffix(id)[3] = "status"
<1> DEFINE x == <<"csrs">>
           e == <<t>>
           y == <<"status">>
           xe == x \o e
<1>1. /\ x \in Seq({"csrs"}) /\ Len(x) = 1 /\ x[1] = "csrs"
      /\ e \in Seq({t}) /\ Len(e) = 1 /\ e[1] = t
      /\ y \in Seq({"status"}) /\ Len(y) = 1 /\ y[1] = "status"
  OBVIOUS
<1>2. CsrSuffix(id) = xe \o y
  BY DEF CsrSuffix
<1> HIDE DEF x, e, y
<1>3. IsSequence(x) /\ IsSequence(e) /\ IsSequence(y)
  BY <1>1 DEF IsSequence
<1>4. /\ IsSequence(x \o e) /\ Len(x \o e) = Len(x) + Len(e)
      /\ \A i \in 1 .. Len(x) : (x \o e)[i] = x[i]
      /\ \A i \in 1 .. Len(e) : (x \o e)[Len(x) + i] = e[i]
  BY <1>3, JoinedParts
<1>5. IsSequence(xe) /\ Len(xe) = 2 /\ xe[1] = "csrs" /\ xe[2] = t
  <2>1. 1 \in 1 .. Len(x) /\ 1 \in 1 .. Len(e) /\ Len(x) + 1 = 2 /\ Len(x) + Len(e) = 2
    BY <1>1
  <2> QED
    BY <1>1, <1>4, <2>1
<1> HIDE DEF xe
<1>6. /\ IsSequence(xe \o y) /\ Len(xe \o y) = Len(xe) + Len(y)
      /\ \A i \in 1 .. Len(xe) : (xe \o y)[i] = xe[i]
      /\ \A i \in 1 .. Len(y) : (xe \o y)[Len(xe) + i] = y[i]
  <2>1. IsSequence(xe) /\ IsSequence(y)
    BY <1>3, <1>5
  <2> QED
    BY <2>1, JoinedParts
<1>7. /\ 1 \in 1 .. Len(xe) /\ 2 \in 1 .. Len(xe) /\ 1 \in 1 .. Len(y)
      /\ Len(xe) + 1 = 3 /\ Len(xe) + Len(y) = 3
  BY <1>1, <1>5
<1> QED
  BY <1>1, <1>2, <1>5, <1>6, <1>7

\* Where each call goes.
LEMMA CallsGo ==
    ASSUME NEW client, NEW id, IsClient(client)
    PROVE  LET calls == RA!Calls(client, id)
               To(c, method, path) == GoesTo(client, calls[c], method, path)
               Path(suffix) == RA!AgentPath(client.version, id, suffix)
           IN  /\ To("register", "POST", RA!RegisterPath(client.version))
               /\ To("get", "GET", Path(<<>>))
               /\ To("resolve", "POST", <<"v1", "agents", "resolution">>)
               /\ To("acme", "POST", Path(<<"verify-acme">>))
               /\ To("dns", "POST", Path(<<"verify-dns">>))
               /\ To("serverCerts", "GET", Path(<<"certificates", "server">>))
               /\ To("identities", "GET", Path(<<"certificates", "identity">>))
               /\ To("serverCsr", "POST", Path(<<"certificates", "server">>))
               /\ To("identityCsr", "POST", Path(<<"certificates", "identity">>))
               /\ To("csrStatus", "GET", Path(CsrSuffix(id)))
               /\ To("revoke", "POST", Path(<<"revoke">>))
               /\ To("search", "GET", <<"v1", "agents">>)
               /\ To("events", "GET", <<"v1", "agents", "events">>)
               /\ DOMAIN calls = CallNames
<1> DEFINE calls == RA!Calls(client, id)
           Path(suffix) == RA!AgentPath(client.version, id, suffix)
           criteria == [name |-> Absent, host |-> Absent, version |-> Absent, protocol |-> Absent]
<1>1. calls = [register    |-> RA!Request(client, "POST", RA!RegisterPath(client.version),
                                          "registration"),
               get         |-> RA!GetAgent(client, id),
               resolve     |-> RA!ResolveAgent(client, "host", "*"),
               acme        |-> RA!VerifyAcme(client, id),
               dns         |-> RA!VerifyDns(client, id),
               serverCerts |-> RA!GetServerCertificates(client, id),
               identities  |-> RA!GetIdentityCertificates(client, id),
               serverCsr   |-> RA!SubmitServerCsr(client, id, "csr"),
               identityCsr |-> RA!SubmitIdentityCsr(client, id, "csr"),
               csrStatus   |-> RA!GetCsrStatus(client, id, id),
               revoke      |-> RA!RevokeAgent(client, id, "SUPERSEDED", Absent),
               search      |-> RA!SearchAgents(client, criteria, Absent, Absent),
               events      |-> RA!GetEvents(client, Absent, Absent, Absent)]
  BY Zenon DEF RA!Calls
<1> HIDE DEF calls, Path, criteria
<1>2. DOMAIN calls = CallNames
  BY <1>1 DEF CallNames
<1>3. GoesTo(client, calls["register"], "POST", RA!RegisterPath(client.version))
  BY <1>1, RequestsGo
<1>4. GoesTo(client, calls["get"], "GET", Path(<<>>))
  BY <1>1, RequestsGo DEF RA!GetAgent, Path
<1>5. GoesTo(client, calls["resolve"], "POST", <<"v1", "agents", "resolution">>)
  BY <1>1, RequestsGo DEF RA!ResolveAgent
<1>6. GoesTo(client, calls["acme"], "POST", Path(<<"verify-acme">>))
  BY <1>1, RequestsGo DEF RA!VerifyAcme, Path
<1>7. GoesTo(client, calls["dns"], "POST", Path(<<"verify-dns">>))
  BY <1>1, RequestsGo DEF RA!VerifyDns, Path
<1>8. GoesTo(client, calls["serverCerts"], "GET", Path(<<"certificates", "server">>))
  BY <1>1, RequestsGo DEF RA!GetServerCertificates, Path
<1>9. GoesTo(client, calls["identities"], "GET", Path(<<"certificates", "identity">>))
  BY <1>1, RequestsGo DEF RA!GetIdentityCertificates, Path
<1>10. GoesTo(client, calls["serverCsr"], "POST", Path(<<"certificates", "server">>))
  BY <1>1, RequestsGo DEF RA!SubmitServerCsr, Path
<1>11. GoesTo(client, calls["identityCsr"], "POST", Path(<<"certificates", "identity">>))
  BY <1>1, RequestsGo DEF RA!SubmitIdentityCsr, Path
<1>12. GoesTo(client, calls["csrStatus"], "GET", Path(CsrSuffix(id)))
  <2>1. calls["csrStatus"] = RA!GetCsrStatus(client, id, id)
    BY <1>1
  <2>2. RA!GetCsrStatus(client, id, id) = RA!Request(client, "GET", Path(CsrSuffix(id)), Absent)
    BY DEF RA!GetCsrStatus, Path, CsrSuffix
  <2> QED
    BY <2>1, <2>2, RequestsGo
<1>13. GoesTo(client, calls["revoke"], "POST", Path(<<"revoke">>))
  BY <1>1, RequestsGo DEF RA!RevokeAgent, Path
<1>14. GoesTo(client, calls["search"], "GET", <<"v1", "agents">>)
  <2>1. calls["search"] = RA!SearchAgents(client, criteria, Absent, Absent)
    BY <1>1
  <2>2. PICK query : RA!SearchAgents(client, criteria, Absent, Absent) =
          RA!WithQuery(RA!BuildRequest(client, "GET", <<"v1", "agents">>), query)
    BY DEF RA!SearchAgents
  <2> QED
    BY <2>1, <2>2, RequestsGo
<1>15. GoesTo(client, calls["events"], "GET", <<"v1", "agents", "events">>)
  <2>1. calls["events"] = RA!GetEvents(client, Absent, Absent, Absent)
    BY <1>1
  <2>2. PICK query : RA!GetEvents(client, Absent, Absent, Absent) =
          RA!WithQuery(RA!BuildRequest(client, "GET", <<"v1", "agents", "events">>), query)
    BY DEF RA!GetEvents
  <2> QED
    BY <2>1, <2>2, RequestsGo
<1> QED
  BY <1>2, <1>3, <1>4, <1>5, <1>6, <1>7, <1>8, <1>9, <1>10, <1>11, <1>12, <1>13, <1>14, <1>15
  DEF calls, Path

\* Every call leaves on the base URL's host and scheme.
LEMMA CallsGoHome ==
    ASSUME NEW client, NEW id, IsClient(client), NEW c \in CallNames
    PROVE  LET call == RA!Calls(client, id)[c]
           IN  call.url.host = client.base.host /\ call.url.scheme = client.base.scheme
<1> DEFINE calls == RA!Calls(client, id)
           To(d, method, path) == GoesTo(client, calls[d], method, path)
           Path(suffix) == RA!AgentPath(client.version, id, suffix)
<1>1. /\ To("register", "POST", RA!RegisterPath(client.version))
      /\ To("get", "GET", Path(<<>>))
      /\ To("resolve", "POST", <<"v1", "agents", "resolution">>)
      /\ To("acme", "POST", Path(<<"verify-acme">>))
      /\ To("dns", "POST", Path(<<"verify-dns">>))
      /\ To("serverCerts", "GET", Path(<<"certificates", "server">>))
      /\ To("identities", "GET", Path(<<"certificates", "identity">>))
      /\ To("serverCsr", "POST", Path(<<"certificates", "server">>))
      /\ To("identityCsr", "POST", Path(<<"certificates", "identity">>))
      /\ To("csrStatus", "GET", Path(CsrSuffix(id)))
      /\ To("revoke", "POST", Path(<<"revoke">>))
      /\ To("search", "GET", <<"v1", "agents">>)
      /\ To("events", "GET", <<"v1", "agents", "events">>)
  BY CallsGo
<1>2. ASSUME NEW d, NEW method, NEW path, To(d, method, path)
      PROVE  calls[d].url.host = client.base.host /\ calls[d].url.scheme = client.base.scheme
  BY <1>2 DEF GoesTo
<1> HIDE DEF calls, To, Path
<1>3. calls[c].url.host = client.base.host /\ calls[c].url.scheme = client.base.scheme
  BY <1>1, <1>2 DEF CallNames
<1> QED
  BY <1>3 DEF calls

\* Calls that name no agent do not depend on one.
LEMMA UnaddressedCalls ==
    ASSUME NEW client, NEW id, NEW other, NEW c \in RA!Unaddressed
    PROVE  RA!Calls(client, id)[c] = RA!Calls(client, other)[c]
<1> DEFINE criteria == [name |-> Absent, host |-> Absent, version |-> Absent, protocol |-> Absent]
           register == RA!Request(client, "POST", RA!RegisterPath(client.version), "registration")
           search == RA!SearchAgents(client, criteria, Absent, Absent)
<1>1. ASSUME NEW i
      PROVE  /\ RA!Calls(client, i)["register"] = register
             /\ RA!Calls(client, i)["resolve"] = RA!ResolveAgent(client, "host", "*")
             /\ RA!Calls(client, i)["search"] = search
             /\ RA!Calls(client, i)["events"] = RA!GetEvents(client, Absent, Absent, Absent)
  BY DEF RA!Calls
<1> HIDE DEF register, search
<1> QED
  BY <1>1 DEF RA!Unaddressed

\* What tells the calls apart: their method, and the length and some segments of
\* their path, the first and those that follow an agent's id.
Marked(c, version, method, path) ==
    LET k == Before(version)
        first == Lane(version)
        Agent(m, n) == method = m /\ Len(path) = k + 1 + n /\ path[1] = first
    IN  /\ c = "register" => /\ method = "POST" /\ Len(path) = 3 /\ path[1] = first
                             /\ version = "V1" => path[3] = "register"
        /\ c = "get" => Agent("GET", 0)
        /\ c = "resolve" => /\ method = "POST" /\ Len(path) = 3 /\ path[1] = "v1"
                             /\ path[3] = "resolution"
        /\ c = "acme" => Agent("POST", 1) /\ path[k + 2] = "verify-acme"
        /\ c = "dns" => Agent("POST", 1) /\ path[k + 2] = "verify-dns"
        /\ c = "serverCerts" => Agent("GET", 2) /\ path[k + 3] = "server"
        /\ c = "identities" => Agent("GET", 2) /\ path[k + 3] = "identity"
        /\ c = "serverCsr" => Agent("POST", 2) /\ path[k + 3] = "server"
        /\ c = "identityCsr" => Agent("POST", 2) /\ path[k + 3] = "identity"
        /\ c = "csrStatus" => Agent("GET", 3)
        /\ c = "revoke" => Agent("POST", 1) /\ path[k + 2] = "revoke"
        /\ c = "search" => method = "GET" /\ Len(path) = 2 /\ path[1] = "v1"
        /\ c = "events" => /\ method = "GET" /\ Len(path) = 3 /\ path[1] = "v1"
                           /\ path[3] = "events"

LEMMA MarksOfCalls ==
    ASSUME NEW client, NEW id, IsClient(client), IsSequence(id), NEW c \in CallNames,
           c \notin RA!Unaddressed => RA!Encode(id)[1] \notin RA!DotSegments
    PROVE  LET call == RA!Calls(client, id)[c]
           IN  /\ Marked(c, client.version, call.method, call.url.path)
               /\ c \notin RA!Unaddressed =>
                    RA!Encode(id) = <<call.url.path[Before(client.version) + 1]>>
<1> DEFINE version == client.version
           k == Before(version)
           first == Lane(version)
           call == RA!Calls(client, id)[c]
           path == call.url.path
           To(d, method, p) == GoesTo(client, RA!Calls(client, id)[d], method, p)
           Path(suffix) == RA!AgentPath(version, id, suffix)
<1>1. version \in {"V1", "V2"} /\ k \in {2, 3}
  BY DEF IsClient, Before
<1>2. /\ To("register", "POST", RA!RegisterPath(version))
      /\ To("get", "GET", Path(<<>>))
      /\ To("resolve", "POST", <<"v1", "agents", "resolution">>)
      /\ To("acme", "POST", Path(<<"verify-acme">>))
      /\ To("dns", "POST", Path(<<"verify-dns">>))
      /\ To("serverCerts", "GET", Path(<<"certificates", "server">>))
      /\ To("identities", "GET", Path(<<"certificates", "identity">>))
      /\ To("serverCsr", "POST", Path(<<"certificates", "server">>))
      /\ To("identityCsr", "POST", Path(<<"certificates", "identity">>))
      /\ To("csrStatus", "GET", Path(CsrSuffix(id)))
      /\ To("revoke", "POST", Path(<<"revoke">>))
      /\ To("search", "GET", <<"v1", "agents">>)
      /\ To("events", "GET", <<"v1", "agents", "events">>)
  BY CallsGo
<1>3. ASSUME NEW suffix, IsSequence(suffix)
      PROVE  /\ Len(Path(suffix)) = k + 1 + Len(suffix) /\ Path(suffix)[1] = first
             /\ RA!Encode(id) = <<Path(suffix)[k + 1]>>
             /\ \A i \in 1 .. Len(suffix) : Path(suffix)[k + 1 + i] = suffix[i]
             /\ Undotted(suffix) /\ RA!Encode(id)[1] \notin RA!DotSegments =>
                  Undotted(Path(suffix))
  <2>1. (version = "V1" \/ version = "V2") /\ IsSequence(id) /\ IsSequence(suffix)
    BY <1>1, <1>3
  <2> DEFINE p == Path(suffix)
  <2>2. p = RA!AgentPath(version, id, suffix)
    OBVIOUS
  <2> HIDE DEF p, version, call, path, To, Path
  <2>3. AgentPathIs(p, version, id, suffix)
    BY <2>1, <2>2, PathsOfAgents
  <2>4. /\ Len(p) = Before(version) + 1 + Len(suffix) /\ p[1] = Lane(version)
        /\ RA!Encode(id) = <<p[Before(version) + 1]>>
        /\ \A i \in 1 .. Len(suffix) : p[Before(version) + 1 + i] = suffix[i]
    BY <2>3 DEF AgentPathIs
  <2>5. ASSUME Undotted(suffix), RA!Encode(id)[1] \notin RA!DotSegments PROVE Undotted(p)
    <3> DEFINE n == Before(version)
    <3>1. n \in Nat
      BY <1>1 DEF Before
    <3> HIDE DEF n
    <3>2. /\ IsSequence(p) /\ Len(p) = n + 1 + Len(suffix) /\ Len(suffix) \in Nat
          /\ \A i \in 1 .. n : p[i] \notin RA!DotSegments
          /\ RA!Encode(id) = <<p[n + 1]>>
          /\ \A i \in 1 .. Len(suffix) : p[n + 1 + i] = suffix[i]
      BY <2>3 DEF AgentPathIs, n
    <3>3. DOMAIN p = 1 .. Len(p) /\ DOMAIN suffix = 1 .. Len(suffix)
      BY <2>1, <3>2 DEF IsSequence
    <3>4. p[n + 1] \notin RA!DotSegments
      BY <2>5, <3>2
    <3>5. ASSUME NEW i \in 1 .. Len(suffix) PROVE p[n + 1 + i] \notin RA!DotSegments
      BY <2>5, <3>2, <3>3 DEF Undotted
    <3>6. ASSUME NEW i \in 1 .. Len(p) PROVE p[i] \notin RA!DotSegments
      <4>1. CASE i > n + 1
        <5>1. i - (n + 1) \in 1 .. Len(suffix) /\ n + 1 + (i - (n + 1)) = i
          BY <3>1, <3>2, <4>1
        <5> QED
          BY <3>5, <5>1
      <4>2. CASE i \in 1 .. n
        BY <3>2, <4>2
      <4>3. i > n + 1 \/ i \in 1 .. n \/ i = n + 1
        BY <3>1, <3>2
      <4> QED
        BY <3>4, <4>1, <4>2, <4>3
    <3> QED
      BY <3>3, <3>6 DEF Undotted
  <2> QED
    BY <2>4, <2>5 DEF p
<1> HIDE DEF Path, k
<1>4. ASSUME NEW word
      PROVE  /\ Len(Path(<<word>>)) = k + 1 + 1 /\ Path(<<word>>)[1] = first
             /\ RA!Encode(id) = <<Path(<<word>>)[k + 1]>> /\ Path(<<word>>)[k + 2] = word
  <2> DEFINE suffix == <<word>>
  <2>1. suffix \in Seq({word}) /\ Len(suffix) = 1 /\ suffix[1] = word
    OBVIOUS
  <2> HIDE DEF suffix
  <2>2. /\ Len(Path(suffix)) = k + 1 + Len(suffix) /\ Path(suffix)[1] = first
        /\ RA!Encode(id) = <<Path(suffix)[k + 1]>>
        /\ \A i \in 1 .. Len(suffix) : Path(suffix)[k + 1 + i] = suffix[i]
    BY <1>3, <2>1 DEF IsSequence
  <2>3. k + 1 + 1 = k + 2 /\ 1 \in 1 .. 1
    BY <1>1
  <2>4. Path(suffix)[k + 2] = word
    BY <2>1, <2>2, <2>3
  <2> QED
    BY <2>1, <2>2, <2>4 DEF suffix
<1>5. ASSUME NEW one, NEW word
      PROVE  LET p == Path(<<one, word>>)
             IN  /\ Len(p) = k + 1 + 2 /\ p[1] = first
                 /\ RA!Encode(id) = <<p[k + 1]>> /\ p[k + 3] = word
  <2> DEFINE suffix == <<one, word>>
  <2>1. suffix \in Seq({one, word}) /\ Len(suffix) = 2 /\ suffix[2] = word
    OBVIOUS
  <2> HIDE DEF suffix
  <2>2. /\ Len(Path(suffix)) = k + 1 + Len(suffix) /\ Path(suffix)[1] = first
        /\ RA!Encode(id) = <<Path(suffix)[k + 1]>>
        /\ \A i \in 1 .. Len(suffix) : Path(suffix)[k + 1 + i] = suffix[i]
    BY <1>3, <2>1 DEF IsSequence
  <2>3. k + 1 + 2 = k + 3 /\ 2 \in 1 .. 2
    BY <1>1
  <2>4. Path(suffix)[k + 3] = word
    BY <2>1, <2>2, <2>3
  <2> QED
    BY <2>1, <2>2, <2>4 DEF suffix
<1>6. /\ Len(Path(<<>>)) = k + 1 + 0 /\ Path(<<>>)[1] = first
      /\ RA!Encode(id) = <<Path(<<>>)[k + 1]>>
  <2>1. IsSequence(<<>>) /\ Len(<<>>) = 0
    BY DEF IsSequence
  <2> QED
    BY <1>3, <2>1
<1>7. /\ Len(Path(CsrSuffix(id))) = k + 1 + 3 /\ Path(CsrSuffix(id))[1] = first
      /\ RA!Encode(id) = <<Path(CsrSuffix(id))[k + 1]>>
  <2>1. IsSequence(CsrSuffix(id)) /\ Len(CsrSuffix(id)) = 3
    BY <1>6, CsrSuffixes
  <2> QED
    BY <1>3, <2>1
\* No call but one about an agent with a dot segment for an id leads elsewhere.
<1>7a. /\ Undotted(RA!RegisterPath(version)) /\ Undotted(<<"v1", "agents", "resolution">>)
       /\ Undotted(<<"v1", "agents">>) /\ Undotted(<<"v1", "agents", "events">>)
  BY <1>1 DEF Undotted, RA!DotSegments, RA!RegisterPath
<1>7b. ASSUME c \notin RA!Unaddressed
       PROVE  /\ Undotted(Path(<<>>)) /\ Undotted(Path(CsrSuffix(id)))
              /\ Undotted(Path(<<"verify-acme">>)) /\ Undotted(Path(<<"verify-dns">>))
              /\ Undotted(Path(<<"revoke">>))
              /\ Undotted(Path(<<"certificates", "server">>))
              /\ Undotted(Path(<<"certificates", "identity">>))
  <2>1. ASSUME NEW suffix, IsSequence(suffix), Undotted(suffix) PROVE Undotted(Path(suffix))
    BY <1>3, <1>7b, <2>1
  <2>2. /\ IsSequence(<<"verify-acme">>) /\ IsSequence(<<"verify-dns">>)
        /\ IsSequence(<<"revoke">>) /\ IsSequence(<<"certificates", "server">>)
        /\ IsSequence(<<"certificates", "identity">>) /\ IsSequence(<<>>)
    <3>1. ASSUME NEW w PROVE IsSequence(<<w>>)
      <4>1. <<w>> \in Seq({w})
        OBVIOUS
      <4> QED
        BY <4>1 DEF IsSequence
    <3>2. ASSUME NEW v, NEW w PROVE IsSequence(<<v, w>>)
      <4>1. <<v, w>> \in Seq({v, w})
        OBVIOUS
      <4> QED
        BY <4>1 DEF IsSequence
    <3>3. IsSequence(<<>>)
      BY DEF IsSequence
    <3> QED
      BY <3>1, <3>2, <3>3
  <2>3. /\ Undotted(<<"verify-acme">>) /\ Undotted(<<"verify-dns">>) /\ Undotted(<<"revoke">>)
        /\ Undotted(<<"certificates", "server">>) /\ Undotted(<<"certificates", "identity">>)
        /\ Undotted(<<>>)
    BY DEF Undotted, RA!DotSegments
  <2>4. IsSequence(CsrSuffix(id)) /\ Undotted(CsrSuffix(id))
    <3>1. PICK t : RA!Encode(id) = <<t>>
      BY <1>6
    <3>2. t \notin RA!DotSegments
      BY <1>7b, <3>1
    <3>3. /\ IsSequence(CsrSuffix(id)) /\ Len(CsrSuffix(id)) = 3
          /\ CsrSuffix(id)[1] = "csrs" /\ CsrSuffix(id)[2] = t /\ CsrSuffix(id)[3] = "status"
      BY <3>1, CsrSuffixes
    <3>4. DOMAIN CsrSuffix(id) = 1 .. 3
      BY <3>3 DEF IsSequence
    <3>5. \A i \in 1 .. 3 : CsrSuffix(id)[i] \notin RA!DotSegments
      BY <3>2, <3>3 DEF RA!DotSegments
    <3> QED
      BY <3>3, <3>4, <3>5 DEF Undotted
  <2> QED
    BY <2>1, <2>2, <2>3, <2>4
<1>8. ASSUME NEW d \in CallNames, NEW method, NEW p, To(d, method, p), Undotted(p), c = d
      PROVE  call.method = method /\ path = p
  BY <1>8, UndottedPaths DEF GoesTo
<1> DEFINE Addressed == RA!Encode(id) = <<path[k + 1]>>
           Done == /\ Marked(c, version, call.method, path)
                   /\ c \notin RA!Unaddressed => Addressed
<1> HIDE DEF call, path, To
<1>9. ASSUME c = "register" PROVE Done
  <2>1. call.method = "POST" /\ path = RA!RegisterPath(version)
    BY <1>2, <1>7a, <1>8, <1>9 DEF CallNames
  <2>2. Len(path) = 3 /\ path[1] = first /\ (version = "V1" => path[3] = "register")
    BY <1>1, <2>1 DEF RA!RegisterPath, Lane
  <2>3. Marked(c, version, call.method, path)
    BY <1>9, <2>1, <2>2 DEF Marked
  <2>4. c \in RA!Unaddressed
    BY <1>9 DEF RA!Unaddressed
  <2> QED
    BY <2>1, <2>3, <2>4
<1>10. ASSUME c = "get" PROVE Done
  <2>1. call.method = "GET" /\ path = Path(<<>>)
    BY <1>2, <1>7b, <1>8, <1>10 DEF CallNames, RA!Unaddressed
  <2>2. Marked(c, version, call.method, path)
    BY <1>6, <1>10, <2>1 DEF Marked, k
  <2>3. Addressed
    BY <1>6, <2>1
  <2> QED
    BY <2>1, <2>2, <2>3
<1>11. ASSUME c = "resolve" PROVE Done
  <2>1. call.method = "POST" /\ path = <<"v1", "agents", "resolution">>
    BY <1>2, <1>7a, <1>8, <1>11 DEF CallNames
  <2>2. Len(path) = 3 /\ path[1] = "v1" /\ path[3] = "resolution"
    BY <2>1
  <2>3. Marked(c, version, call.method, path)
    BY <1>11, <2>1, <2>2 DEF Marked
  <2>4. c \in RA!Unaddressed
    BY <1>11 DEF RA!Unaddressed
  <2> QED
    BY <2>1, <2>3, <2>4
<1>12. ASSUME c = "acme" PROVE Done
  <2>1. call.method = "POST" /\ path = Path(<<"verify-acme">>)
    BY <1>2, <1>7b, <1>8, <1>12 DEF CallNames, RA!Unaddressed
  <2>2. Marked(c, version, call.method, path)
    BY <1>4, <1>12, <2>1 DEF Marked, k
  <2>3. Addressed
    BY <1>4, <2>1
  <2> QED
    BY <2>1, <2>2, <2>3
<1>13. ASSUME c = "dns" PROVE Done
  <2>1. call.method = "POST" /\ path = Path(<<"verify-dns">>)
    BY <1>2, <1>7b, <1>8, <1>13 DEF CallNames, RA!Unaddressed
  <2>2. Marked(c, version, call.method, path)
    BY <1>4, <1>13, <2>1 DEF Marked, k
  <2>3. Addressed
    BY <1>4, <2>1
  <2> QED
    BY <2>1, <2>2, <2>3
<1>14. ASSUME c = "serverCerts" PROVE Done
  <2>1. call.method = "GET" /\ path = Path(<<"certificates", "server">>)
    BY <1>2, <1>7b, <1>8, <1>14 DEF CallNames, RA!Unaddressed
  <2>2. Marked(c, version, call.method, path)
    BY <1>5, <1>14, <2>1 DEF Marked, k
  <2>3. Addressed
    BY <1>5, <2>1
  <2> QED
    BY <2>1, <2>2, <2>3
<1>15. ASSUME c = "identities" PROVE Done
  <2>1. call.method = "GET" /\ path = Path(<<"certificates", "identity">>)
    BY <1>2, <1>7b, <1>8, <1>15 DEF CallNames, RA!Unaddressed
  <2>2. Marked(c, version, call.method, path)
    BY <1>5, <1>15, <2>1 DEF Marked, k
  <2>3. Addressed
    BY <1>5, <2>1
  <2> QED
    BY <2>1, <2>2, <2>3
<1>16. ASSUME c = "serverCsr" PROVE Done
  <2>1. call.method = "POST" /\ path = Path(<<"certificates", "server">>)
    BY <1>2, <1>7b, <1>8, <1>16 DEF CallNames, RA!Unaddressed
  <2>2. Marked(c, version, call.method, path)
    BY <1>5, <1>16, <2>1 DEF Marked, k
  <2>3. Addressed
    BY <1>5, <2>1
  <2> QED
    BY <2>1, <2>2, <2>3
<1>17. ASSUME c = "identityCsr" PROVE Done
  <2>1. call.method = "POST" /\ path = Path(<<"certificates", "identity">>)
    BY <1>2, <1>7b, <1>8, <1>17 DEF CallNames, RA!Unaddressed
  <2>2. Marked(c, version, call.method, path)
    BY <1>5, <1>17, <2>1 DEF Marked, k
  <2>3. Addressed
    BY <1>5, <2>1
  <2> QED
    BY <2>1, <2>2, <2>3
<1>18. ASSUME c = "csrStatus" PROVE Done
  <2>1. call.method = "GET" /\ path = Path(CsrSuffix(id))
    BY <1>2, <1>7b, <1>8, <1>18 DEF CallNames, RA!Unaddressed
  <2>2. Marked(c, version, call.method, path)
    BY <1>7, <1>18, <2>1 DEF Marked, k
  <2>3. Addressed
    BY <1>7, <2>1
  <2> QED
    BY <2>1, <2>2, <2>3
<1>19. ASSUME c = "revoke" PROVE Done
  <2>1. call.method = "POST" /\ path = Path(<<"revoke">>)
    BY <1>2, <1>7b, <1>8, <1>19 DEF CallNames, RA!Unaddressed
  <2>2. Marked(c, version, call.method, path)
    BY <1>4, <1>19, <2>1 DEF Marked, k
  <2>3. Addressed
    BY <1>4, <2>1
  <2> QED
    BY <2>1, <2>2, <2>3
<1>20. ASSUME c = "search" PROVE Done
  <2>1. call.method = "GET" /\ path = <<"v1", "agents">>
    BY <1>2, <1>7a, <1>8, <1>20 DEF CallNames
  <2>2. Len(path) = 2 /\ path[1] = "v1"
    BY <2>1
  <2>3. Marked(c, version, call.method, path)
    BY <1>20, <2>1, <2>2 DEF Marked
  <2>4. c \in RA!Unaddressed
    BY <1>20 DEF RA!Unaddressed
  <2> QED
    BY <2>1, <2>3, <2>4
<1>21. ASSUME c = "events" PROVE Done
  <2>1. call.method = "GET" /\ path = <<"v1", "agents", "events">>
    BY <1>2, <1>7a, <1>8, <1>21 DEF CallNames
  <2>2. Len(path) = 3 /\ path[1] = "v1" /\ path[3] = "events"
    BY <2>1
  <2>3. Marked(c, version, call.method, path)
    BY <1>21, <2>1, <2>2 DEF Marked
  <2>4. c \in RA!Unaddressed
    BY <1>21 DEF RA!Unaddressed
  <2> QED
    BY <2>1, <2>3, <2>4
<1> HIDE DEF Done
<1>22. Done
  BY <1>9, <1>10, <1>11, <1>12, <1>13, <1>14, <1>15, <1>16, <1>17, <1>18, <1>19, <1>20, <1>21
  DEF CallNames
<1> QED
  BY <1>22 DEF Done, Addressed, k, call, path

\* A method and a path are those of one call.
LEMMA OneCallEach ==
    ASSUME NEW version, version = "V1" \/ version = "V2", NEW method, NEW path,
           NEW c \in CallNames, NEW d \in CallNames,
           Marked(c, version, method, path), Marked(d, version, method, path),
           version = "V1" => {c, d} # {"get", "events"}
    PROVE  c = d
<1> DEFINE n == Len(path)
           one == path[1]
           third == path[3]
           fourth == path[4]
           fifth == path[5]
           sixth == path[6]
<1>1. ASSUME version = "V1", NEW e, Marked(e, version, method, path)
      PROVE  /\ e = "register" => /\ method = "POST" /\ n = 3 /\ third = "register"
             /\ e = "get" => method = "GET" /\ n = 3
             /\ e = "resolve" => method = "POST" /\ n = 3 /\ third = "resolution"
             /\ e = "acme" => method = "POST" /\ n = 4 /\ fourth = "verify-acme"
             /\ e = "dns" => method = "POST" /\ n = 4 /\ fourth = "verify-dns"
             /\ e = "serverCerts" => method = "GET" /\ n = 5 /\ fifth = "server"
             /\ e = "identities" => method = "GET" /\ n = 5 /\ fifth = "identity"
             /\ e = "serverCsr" => method = "POST" /\ n = 5 /\ fifth = "server"
             /\ e = "identityCsr" => method = "POST" /\ n = 5 /\ fifth = "identity"
             /\ e = "csrStatus" => method = "GET" /\ n = 6
             /\ e = "revoke" => method = "POST" /\ n = 4 /\ fourth = "revoke"
             /\ e = "search" => method = "GET" /\ n = 2
             /\ e = "events" => method = "GET" /\ n = 3 /\ third = "events"
  <2> DEFINE k == Before(version)
  <2>1. k = 2 /\ Lane(version) = "v1" /\ version = "V1"
    BY <1>1 DEF Before, Lane
  <2>2. /\ k + 1 + 0 = 3 /\ k + 1 + 1 = 4 /\ k + 1 + 2 = 5 /\ k + 1 + 3 = 6
        /\ k + 2 = 4 /\ k + 3 = 5
    BY <2>1
  <2>3. Marked(e, version, method, path)
    BY <1>1
  <2> HIDE DEF k
  <2>4. /\ e = "register" => /\ method = "POST" /\ n = 3 /\ one = Lane(version)
                             /\ version = "V1" => third = "register"
        /\ e = "get" => method = "GET" /\ n = k + 1 + 0
        /\ e = "resolve" => method = "POST" /\ n = 3 /\ one = "v1" /\ third = "resolution"
        /\ e = "acme" => method = "POST" /\ n = k + 1 + 1 /\ path[k + 2] = "verify-acme"
        /\ e = "dns" => method = "POST" /\ n = k + 1 + 1 /\ path[k + 2] = "verify-dns"
        /\ e = "serverCerts" => method = "GET" /\ n = k + 1 + 2 /\ path[k + 3] = "server"
        /\ e = "identities" => method = "GET" /\ n = k + 1 + 2 /\ path[k + 3] = "identity"
        /\ e = "serverCsr" => method = "POST" /\ n = k + 1 + 2 /\ path[k + 3] = "server"
        /\ e = "identityCsr" => method = "POST" /\ n = k + 1 + 2 /\ path[k + 3] = "identity"
        /\ e = "csrStatus" => method = "GET" /\ n = k + 1 + 3
        /\ e = "revoke" => method = "POST" /\ n = k + 1 + 1 /\ path[k + 2] = "revoke"
        /\ e = "search" => method = "GET" /\ n = 2
        /\ e = "events" => method = "GET" /\ n = 3 /\ third = "events"
    BY Zenon, <2>3 DEF Marked, k
  <2>5. path[k + 2] = path[4] /\ path[k + 3] = path[5]
    BY <2>2
  <2> HIDE DEF n, one, third
  <2>6. e = "register" => /\ method = "POST" /\ n = 3 /\ third = "register"
    BY <2>1, <2>2, <2>4, <2>5
  <2>7. e = "get" => method = "GET" /\ n = 3
    BY <2>1, <2>2, <2>4, <2>5
  <2>8. e = "resolve" => method = "POST" /\ n = 3 /\ third = "resolution"
    BY <2>1, <2>2, <2>4, <2>5
  <2>9. e = "acme" => method = "POST" /\ n = 4 /\ fourth = "verify-acme"
    BY <2>1, <2>2, <2>4, <2>5
  <2>10. e = "dns" => method = "POST" /\ n = 4 /\ fourth = "verify-dns"
    BY <2>1, <2>2, <2>4, <2>5
  <2>11. e = "serverCerts" => method = "GET" /\ n = 5 /\ fifth = "server"
    BY <2>1, <2>2, <2>4, <2>5
  <2>12. e = "identities" => method = "GET" /\ n = 5 /\ fifth = "identity"
    BY <2>1, <2>2, <2>4, <2>5
  <2>13. e = "serverCsr" => method = "POST" /\ n = 5 /\ fifth = "server"
    BY <2>1, <2>2, <2>4, <2>5
  <2>14. e = "identityCsr" => method = "POST" /\ n = 5 /\ fifth = "identity"
    BY <2>1, <2>2, <2>4, <2>5
  <2>15. e = "csrStatus" => method = "GET" /\ n = 6
    BY <2>1, <2>2, <2>4, <2>5
  <2>16. e = "revoke" => method = "POST" /\ n = 4 /\ fourth = "revoke"
    BY <2>1, <2>2, <2>4, <2>5
  <2>17. e = "search" => method = "GET" /\ n = 2
    BY <2>1, <2>2, <2>4, <2>5
  <2>18. e = "events" => method = "GET" /\ n = 3 /\ third = "events"
    BY <2>1, <2>2, <2>4, <2>5
  <2> QED
    BY <2>6, <2>7, <2>8, <2>9, <2>10, <2>11, <2>12, <2>13, <2>14, <2>15, <2>16, <2>17, <2>18
<1>2. ASSUME version = "V2", NEW e, Marked(e, version, method, path)
      PROVE  /\ e = "register" => /\ method = "POST" /\ n = 3 /\ one = "v2"
             /\ e = "get" => method = "GET" /\ n = 4
             /\ e = "resolve" => method = "POST" /\ n = 3 /\ one = "v1"
             /\ e = "acme" => method = "POST" /\ n = 5 /\ fifth = "verify-acme"
             /\ e = "dns" => method = "POST" /\ n = 5 /\ fifth = "verify-dns"
             /\ e = "serverCerts" => method = "GET" /\ n = 6 /\ sixth = "server"
             /\ e = "identities" => method = "GET" /\ n = 6 /\ sixth = "identity"
             /\ e = "serverCsr" => method = "POST" /\ n = 6 /\ sixth = "server"
             /\ e = "identityCsr" => method = "POST" /\ n = 6 /\ sixth = "identity"
             /\ e = "csrStatus" => method = "GET" /\ n = 7
             /\ e = "revoke" => method = "POST" /\ n = 5 /\ fifth = "revoke"
             /\ e = "search" => method = "GET" /\ n = 2
             /\ e = "events" => method = "GET" /\ n = 3
  <2> DEFINE k == Before(version)
  <2>1. k = 3 /\ Lane(version) = "v2" /\ version = "V2"
    BY <1>2 DEF Before, Lane
  <2>2. /\ k + 1 + 0 = 4 /\ k + 1 + 1 = 5 /\ k + 1 + 2 = 6 /\ k + 1 + 3 = 7
        /\ k + 2 = 5 /\ k + 3 = 6
    BY <2>1
  <2>3. Marked(e, version, method, path)
    BY <1>2
  <2> HIDE DEF k
  <2>4. /\ e = "register" => /\ method = "POST" /\ n = 3 /\ one = Lane(version)
                             /\ version = "V1" => third = "register"
        /\ e = "get" => method = "GET" /\ n = k + 1 + 0
        /\ e = "resolve" => method = "POST" /\ n = 3 /\ one = "v1" /\ third = "resolution"
        /\ e = "acme" => method = "POST" /\ n = k + 1 + 1 /\ path[k + 2] = "verify-acme"
        /\ e = "dns" => method = "POST" /\ n = k + 1 + 1 /\ path[k + 2] = "verify-dns"
        /\ e = "serverCerts" => method = "GET" /\ n = k + 1 + 2 /\ path[k + 3] = "server"
        /\ e = "identities" => method = "GET" /\ n = k + 1 + 2 /\ path[k + 3] = "identity"
        /\ e = "serverCsr" => method = "POST" /\ n = k + 1 + 2 /\ path[k + 3] = "server"
        /\ e = "identityCsr" => method = "POST" /\ n = k + 1 + 2 /\ path[k + 3] = "identity"
        /\ e = "csrStatus" => method = "GET" /\ n = k + 1 + 3
        /\ e = "revoke" => method = "POST" /\ n = k + 1 + 1 /\ path[k + 2] = "revoke"
        /\ e = "search" => method = "GET" /\ n = 2
        /\ e = "events" => method = "GET" /\ n = 3 /\ third = "events"
    BY Zenon, <2>3 DEF Marked, k
  <2>5. path[k + 2] = path[5] /\ path[k + 3] = path[6]
    BY <2>2
  <2> HIDE DEF n, one, third
  <2>6. e = "register" => /\ method = "POST" /\ n = 3 /\ one = "v2"
    BY <2>1, <2>2, <2>4, <2>5
  <2>7. e = "get" => method = "GET" /\ n = 4
    BY <2>1, <2>2, <2>4, <2>5
  <2>8. e = "resolve" => method = "POST" /\ n = 3 /\ one = "v1"
    BY <2>1, <2>2, <2>4, <2>5
  <2>9. e = "acme" => method = "POST" /\ n = 5 /\ fifth = "verify-acme"
    BY <2>1, <2>2, <2>4, <2>5
  <2>10. e = "dns" => method = "POST" /\ n = 5 /\ fifth = "verify-dns"
    BY <2>1, <2>2, <2>4, <2>5
  <2>11. e = "serverCerts" => method = "GET" /\ n = 6 /\ sixth = "server"
    BY <2>1, <2>2, <2>4, <2>5
  <2>12. e = "identities" => method = "GET" /\ n = 6 /\ sixth = "identity"
    BY <2>1, <2>2, <2>4, <2>5
  <2>13. e = "serverCsr" => method = "POST" /\ n = 6 /\ sixth = "server"
    BY <2>1, <2>2, <2>4, <2>5
  <2>14. e = "identityCsr" => method = "POST" /\ n = 6 /\ sixth = "identity"
    BY <2>1, <2>2, <2>4, <2>5
  <2>15. e = "csrStatus" => method = "GET" /\ n = 7
    BY <2>1, <2>2, <2>4, <2>5
  <2>16. e = "revoke" => method = "POST" /\ n = 5 /\ fifth = "revoke"
    BY <2>1, <2>2, <2>4, <2>5
  <2>17. e = "search" => method = "GET" /\ n = 2
    BY <2>1, <2>2, <2>4, <2>5
  <2>18. e = "events" => method = "GET" /\ n = 3
    BY <2>1, <2>2, <2>4, <2>5
  <2> QED
    BY <2>6, <2>7, <2>8, <2>9, <2>10, <2>11, <2>12, <2>13, <2>14, <2>15, <2>16, <2>17, <2>18
<1> HIDE DEF n, one, third, fourth, fifth, sixth
<1>3. ASSUME version = "V1" PROVE c = d
  <2>1. ~(c = "get" /\ d = "events") /\ ~(c = "events" /\ d = "get")
    BY <1>3
  <2> QED
    BY <1>1, <1>3, <2>1 DEF CallNames
<1>4. ASSUME version = "V2" PROVE c = d
  BY <1>2, <1>4 DEF CallNames
<1> QED
  BY <1>3, <1>4

\* The caller's agents have ids, which urlencoding keeps apart.
IsAgentIds(ids) ==
    /\ \A id \in ids : IsSequence(id)
    /\ \A a, b \in ids : RA!Encode(a) = RA!Encode(b) => a = b

\* Whatever the ids, requests go to the host and scheme of the base URL, which is https
\* unless the caller allowed another.  But for ids that are dot segments, the calls with
\* a V2 twin follow the version, and no two calls, or two ids of one call, share a method
\* and a path, except an agent called "events" and the V1 lane's feed (AnsClient's
\* operations).
THEOREM CallsStayApart ==
    ASSUME NEW opts, IsOptions(opts), NEW ids, IsAgentIds(ids)
    PROVE  RA!RequestsStayApart(opts, ids)
<1> DEFINE client == RA!BuildClient(opts)
           asked == RA!Asked(client, ids)
           Sent(c, id) == RA!Routed(client, c, id)
           Feed(c, d) == client.version = "V1" /\ {c, d} = {"get", "events"}
           Lost(c, id) == c \notin RA!Unaddressed /\ RA!Encode(id)[1] \in RA!DotSegments
<1> SUFFICES ASSUME client.error = "none"
             PROVE  /\ opts.allowInsecure \/ client.base.scheme = "https"
                    /\ \A a \in asked :
                         /\ a.url.host = client.base.host /\ a.url.scheme = client.base.scheme
                         /\ ~RA!Strays(a) =>
                              (Head(a.url.path) = "v2" <=>
                                 /\ client.version = "V2"
                                 /\ a.call \notin {"resolve", "search", "events"})
                    /\ \A a, b \in asked :
                         a.method = b.method /\ a.url.path = b.url.path =>
                           a = b \/ RA!Strays(a) \/ RA!Strays(b) \/ Feed(a.call, b.call)
  BY DEF RA!RequestsStayApart
<1>1. opts.allowInsecure \/ client.base.scheme = "https"
  BY BuiltClients
<1>2. /\ client.version = opts.version
      /\ \A path : RA!UrlOf(client, path) =
                     [scheme |-> client.base.scheme, host |-> client.base.host,
                      path |-> RA!Resolved(path), query |-> {}]
  BY BuiltClients
<1> HIDE DEF client
<1>3. IsClient(client) /\ (client.version = "V1" \/ client.version = "V2")
  BY <1>2 DEF IsClient, IsOptions
<1>4. DOMAIN RA!Calls(client, <<"">>) = CallNames
  BY <1>3, CallsGo
<1>5. \A a \in asked : \E c \in CallNames, id \in ids : a = Sent(c, id)
  BY <1>4 DEF RA!Asked
<1> HIDE DEF asked
<1>6. ASSUME NEW c \in CallNames, NEW id \in ids, ~Lost(c, id)
      PROVE  LET call == RA!Calls(client, id)[c]
             IN  /\ Marked(c, client.version, call.method, call.url.path)
                 /\ c \notin RA!Unaddressed =>
                      RA!Encode(id) = <<call.url.path[Before(client.version) + 1]>>
  <2>1. IsSequence(id)
    BY DEF IsAgentIds
  <2>2. c \notin RA!Unaddressed => RA!Encode(id)[1] \notin RA!DotSegments
    BY <1>6
  <2> QED
    BY <1>3, <2>1, <2>2, MarksOfCalls
<1>7. ASSUME NEW c \in CallNames, NEW id \in ids
      PROVE  LET a == Sent(c, id)
             IN  /\ a.url.host = client.base.host /\ a.url.scheme = client.base.scheme
                 /\ RA!Strays(a) <=> Lost(c, id)
                 /\ a.call = c
                 /\ ~Lost(c, id) =>
                      (Head(a.url.path) = "v2" <=>
                         client.version = "V2" /\ c \notin {"resolve", "search", "events"})
  <2> DEFINE call == RA!Calls(client, id)[c]
             path == call.url.path
  <2>1. call.url.host = client.base.host /\ call.url.scheme = client.base.scheme
    BY <1>3, CallsGoHome
  <2>2. /\ Sent(c, id).url = call.url /\ Sent(c, id).call = c
        /\ c \notin RA!Unaddressed => Sent(c, id).id = id
    BY DEF RA!Routed
  <2>3. RA!Strays(Sent(c, id)) <=> Lost(c, id)
    BY <2>2 DEF RA!Strays
  <2>4. ASSUME ~Lost(c, id) PROVE Marked(c, client.version, call.method, path)
    BY <1>6, <2>4
  <2> HIDE DEF Sent, call, path, Lost
  <2>5. Head(path) = path[1]
    OBVIOUS
  <2>6. ASSUME ~Lost(c, id)
        PROVE  path[1] = "v2" <=>
                 client.version = "V2" /\ c \notin {"resolve", "search", "events"}
    <3>1. path[1] = IF c \in {"resolve", "search", "events"} THEN "v1" ELSE Lane(client.version)
      BY <2>4, <2>6 DEF Marked, CallNames
    <3> QED
      BY <1>3, <3>1 DEF Lane
  <2> QED
    BY <2>1, <2>2, <2>3, <2>5, <2>6 DEF path
<1>8. ASSUME NEW c \in CallNames, NEW id \in ids, NEW d \in CallNames, NEW other \in ids,
             ~Lost(c, id), ~Lost(d, other), ~Feed(c, d),
             Sent(c, id).method = Sent(d, other).method,
             Sent(c, id).url.path = Sent(d, other).url.path
      PROVE  Sent(c, id) = Sent(d, other)
  <2> DEFINE one == RA!Calls(client, id)[c]
             two == RA!Calls(client, other)[d]
             path == one.url.path
             version == client.version
             k == Before(version)
  <2>1. one.method = two.method /\ path = two.url.path
    BY <1>8 DEF RA!Routed
  <2>2. /\ Marked(c, version, one.method, path)
        /\ c \notin RA!Unaddressed => RA!Encode(id) = <<path[k + 1]>>
    BY <1>6, <1>8
  <2>3. /\ Marked(d, version, two.method, two.url.path)
        /\ d \notin RA!Unaddressed => RA!Encode(other) = <<two.url.path[k + 1]>>
    BY <1>6, <1>8
  <2>4. /\ Marked(d, version, one.method, path)
        /\ d \notin RA!Unaddressed => RA!Encode(other) = <<path[k + 1]>>
    BY <2>1, <2>3
  <2>5. version = "V1" => {c, d} # {"get", "events"}
    BY <1>8
  <2> HIDE DEF one, two, path, Sent, Lost, Feed
  <2>6. c = d
    BY <1>3, <2>2, <2>4, <2>5, OneCallEach
  <2>7. CASE c \in RA!Unaddressed
    <3>1. RA!Calls(client, id)[c] = RA!Calls(client, other)[c]
      BY <2>7, UnaddressedCalls
    <3> QED
      BY <2>6, <2>7, <3>1 DEF Sent, RA!Routed
  <2>8. CASE c \notin RA!Unaddressed
    <3>1. RA!Encode(id) = RA!Encode(other)
      BY <2>2, <2>4, <2>6, <2>8
    <3>2. id = other
      BY <3>1 DEF IsAgentIds
    <3> QED
      BY <2>6, <3>2
  <2> QED
    BY <2>7, <2>8
<1> HIDE DEF Sent, Lost, Feed
<1>9. \A a \in asked :
        /\ a.url.host = client.base.host /\ a.url.scheme = client.base.scheme
        /\ ~RA!Strays(a) =>
             (Head(a.url.path) = "v2" <=>
                client.version = "V2" /\ a.call \notin {"resolve", "search", "events"})
  BY <1>5, <1>7
<1>10. ASSUME NEW a \in asked, NEW b \in asked,
              a.method = b.method, a.url.path = b.url.path
       PROVE  a = b \/ RA!Strays(a) \/ RA!Strays(b) \/ Feed(a.call, b.call)
  <2>1. PICK c \in CallNames, id \in ids : a = Sent(c, id)
    BY <1>5
  <2>2. PICK d \in CallNames, other \in ids : b = Sent(d, other)
    BY <1>5
  <2>3. /\ a.call = c /\ b.call = d
        /\ RA!Strays(a) <=> Lost(c, id)
        /\ RA!Strays(b) <=> Lost(d, other)
    BY <1>7, <2>1, <2>2
  <2>4. CASE ~Lost(c, id) /\ ~Lost(d, other) /\ ~Feed(c, d)
    BY <1>8, <1>10, <2>1, <2>2, <2>4
  <2> QED
    BY <2>3, <2>4
<1> QED
  BY <1>1, <1>9, <1>10

-----------------------------------------------------------------------------
(* Reading JSON                                                             *)

\* No list, and no label, is one of the marks for what is not there.
Marks == {Absent, Null, Malformed}
MarksStandApart ==
    /\ Absent # Null /\ Absent # Malformed /\ Null # Malformed
    /\ \A s : IsSequence(s) => s \notin Marks

\* The labels of a field: each has a canonical spelling, which is its own.
IsLabels(labels) ==
    \A l \in DOMAIN labels : /\ labels[l] \in DOMAIN labels /\ labels[l] \notin Marks
                             /\ labels[labels[l]] = labels[l]

\* A rule takes a missing or a null field for something that it reads as the same
\* thing again: every rule of the models does.
IsRule(rule) ==
    /\ IsLabels(rule.labels)
    /\ \A v \in {rule.missing, rule.null} :
         \/ v = Malformed
         \/ v = Absent /\ rule.missing = Absent
         \/ v = Null /\ rule.null = Null
         \/ v = <<>> /\ rule.list
         \/ v \notin Marks /\ ~rule.list /\ rule.labels = RA!AnyLabel

\* What is in a field that the rule says is a list.
Fits(rule, value) == rule.list => value \in Marks \/ IsSequence(value)

LEMMA ItemsReadTwice ==
    ASSUME NEW rule, IsRule(rule), NEW value, RA!ReadItem(rule, value) # Malformed
    PROVE  LET item == RA!ReadItem(rule, value)
           IN  /\ RA!ReadItem(rule, item) = item
               /\ value \notin Marks => item \notin Marks
<1> DEFINE item == RA!ReadItem(rule, value)
<1>1. CASE rule.labels = RA!AnyLabel
  <2>1. item = value
    BY <1>1 DEF RA!ReadItem
  <2> QED
    BY <2>1
<1>2. CASE rule.labels # RA!AnyLabel
  <2>1. value # Malformed /\ value \in DOMAIN rule.labels /\ item = rule.labels[value]
    BY <1>2 DEF RA!ReadItem
  <2>2. /\ item \in DOMAIN rule.labels /\ item \notin Marks /\ rule.labels[item] = item
    BY <2>1 DEF IsRule, IsLabels
  <2> HIDE DEF item
  <2>3. RA!ReadItem(rule, item) = item
    BY <1>2, <2>2 DEF RA!ReadItem, Marks
  <2> QED
    BY <2>2, <2>3 DEF item
<1> QED
  BY <1>1, <1>2

LEMMA ListsReadTwice ==
    ASSUME NEW rule, IsRule(rule), NEW values, IsSequence(values), MarksStandApart,
           RA!ReadList(rule, values) # Malformed
    PROVE  LET items == RA!ReadList(rule, values)
           IN  IsSequence(items) /\ RA!ReadList(rule, items) = items
<1> DEFINE items == [i \in DOMAIN values |-> RA!ReadItem(rule, values[i])]
<1>1. /\ RA!ReadList(rule, values) = items
      /\ \A i \in DOMAIN items : items[i] # Malformed
  BY DEF RA!ReadList
<1>2. DOMAIN values = 1 .. Len(values) /\ Len(values) \in Nat
  BY DEF IsSequence
<1>3. DOMAIN items = 1 .. Len(values)
  BY <1>2
<1>4. IsSequence(items)
  <2> DEFINE T == {items[i] : i \in 1 .. Len(values)}
  <2>1. items = [i \in 1 .. Len(values) |-> items[i]]
    BY <1>2
  <2>2. \A i \in 1 .. Len(values) : items[i] \in T
    OBVIOUS
  <2> HIDE DEF items, T
  <2>3. items \in Seq(T)
    BY <1>2, <2>1, <2>2
  <2> QED
    BY <2>3 DEF IsSequence
<1>5. \A i \in DOMAIN items : RA!ReadItem(rule, items[i]) = items[i]
  BY <1>1, ItemsReadTwice
<1>6. items = [i \in DOMAIN items |-> items[i]]
  OBVIOUS
<1> HIDE DEF items
<1> DEFINE again == [i \in DOMAIN items |-> RA!ReadItem(rule, items[i])]
<1>7. again = items
  BY <1>5, <1>6
<1>8. ~\E i \in DOMAIN again : again[i] = Malformed
  BY <1>1, <1>7
<1>9. RA!ReadList(rule, items) = again
  BY <1>8 DEF RA!ReadList
<1> QED
  BY <1>1, <1>4, <1>7, <1>9

LEMMA EmptyListReads ==
    ASSUME NEW rule, rule.list, MarksStandApart
    PROVE  RA!ReadField(rule, <<>>) = <<>> /\ <<>> \notin Marks
<1>1. IsSequence(<<>>)
  BY DEF IsSequence
<1>2. <<>> \notin Marks
  BY <1>1 DEF MarksStandApart
<1>3. RA!ReadList(rule, <<>>) = <<>>
  <2> DEFINE items == [i \in DOMAIN <<>> |-> RA!ReadItem(rule, <<>>[i])]
  <2>1. DOMAIN <<>> = {} /\ items = <<>>
    OBVIOUS
  <2>2. ~\E i \in DOMAIN items : items[i] = Malformed
    BY <2>1
  <2>3. RA!ReadList(rule, <<>>) = items
    BY <2>2 DEF RA!ReadList
  <2> QED
    BY <2>1, <2>3
<1> QED
  BY <1>2, <1>3 DEF RA!ReadField, Marks

LEMMA FieldsReadTwice ==
    ASSUME NEW rule, IsRule(rule), NEW value, Fits(rule, value), MarksStandApart,
           RA!ReadField(rule, value) # Malformed
    PROVE  RA!ReadField(rule, RA!ReadField(rule, value)) = RA!ReadField(rule, value)
<1> DEFINE read == RA!ReadField(rule, value)
<1>1. ASSUME read \in {rule.missing, rule.null} PROVE RA!ReadField(rule, read) = read
  <2> HIDE DEF read
  <2>1. \/ read = Malformed
        \/ read = Absent /\ rule.missing = Absent
        \/ read = Null /\ rule.null = Null
        \/ read = <<>> /\ rule.list
        \/ read \notin Marks /\ ~rule.list /\ rule.labels = RA!AnyLabel
    BY <1>1 DEF IsRule
  <2>2. CASE read = Malformed
    BY <2>2 DEF read
  <2>3. CASE read = Absent /\ rule.missing = Absent
    BY <2>3 DEF RA!ReadField
  <2>4. CASE read = Null /\ rule.null = Null
    BY <2>4 DEF RA!ReadField, MarksStandApart
  <2>5. CASE read = <<>> /\ rule.list
    BY <2>5, EmptyListReads
  <2>6. CASE read \notin Marks /\ ~rule.list /\ rule.labels = RA!AnyLabel
    BY <2>6 DEF RA!ReadField, RA!ReadItem, Marks
  <2> QED
    BY <2>1, <2>2, <2>3, <2>4, <2>5, <2>6
<1>2. CASE value = Absent
  BY <1>1, <1>2 DEF RA!ReadField
<1>3. CASE value # Absent /\ value = Null
  BY <1>1, <1>3 DEF RA!ReadField
<1>4. CASE value \notin {Absent, Null} /\ value # Malformed /\ rule.list
  <2>1. read = RA!ReadList(rule, value)
    BY <1>4 DEF RA!ReadField
  <2>2. IsSequence(value)
    BY <1>4 DEF Fits, Marks
  <2>3. IsSequence(read) /\ RA!ReadList(rule, read) = read
    BY <2>1, <2>2, ListsReadTwice
  <2> HIDE DEF read
  <2>4. read \notin Marks
    BY <2>3 DEF MarksStandApart
  <2>5. RA!ReadField(rule, read) = read
    BY <1>4, <2>3, <2>4 DEF RA!ReadField, Marks
  <2> QED
    BY <2>5 DEF read
<1>5. CASE value \notin {Absent, Null} /\ ~(value # Malformed /\ rule.list)
  <2>1. read = RA!ReadItem(rule, value)
    BY <1>5 DEF RA!ReadField
  <2>2. value # Malformed
    BY <2>1 DEF RA!ReadItem
  <2>3. value \notin Marks
    BY <1>5, <2>2 DEF Marks
  <2>4. RA!ReadItem(rule, read) = read /\ read \notin Marks
    BY <2>1, <2>3, ItemsReadTwice
  <2> HIDE DEF read
  <2>5. RA!ReadField(rule, read) = read
    BY <1>5, <2>2, <2>4 DEF RA!ReadField, Marks
  <2> QED
    BY <2>5 DEF read
<1> QED
  BY <1>2, <1>3, <1>4, <1>5

\* An object whose lists are lists.
IsObject(shape, json) ==
    \A f \in DOMAIN shape : f \in DOMAIN json => Fits(shape[f], json[f])

LEMMA ObjectsReadTwice ==
    ASSUME NEW shape, \A f \in DOMAIN shape : IsRule(shape[f]), MarksStandApart,
           NEW json, IsObject(shape, json), RA!Decode(shape, json) # Malformed
    PROVE  RA!Decode(shape, RA!Decode(shape, json)) = RA!Decode(shape, json)
<1> DEFINE Field(f) == IF f \in DOMAIN json THEN json[f] ELSE Absent
           value == [f \in DOMAIN shape |-> RA!ReadField(shape[f], Field(f))]
<1>1. /\ RA!Decode(shape, json) = value
      /\ \A f \in DOMAIN shape : value[f] # Malformed
  BY DEF RA!Decode
<1>2. ASSUME NEW f \in DOMAIN shape PROVE RA!ReadField(shape[f], value[f]) = value[f]
  <2>1. Fits(shape[f], Field(f))
    BY DEF IsObject, Fits, Marks
  <2>2. value[f] = RA!ReadField(shape[f], Field(f)) /\ value[f] # Malformed
    BY <1>1
  <2> HIDE DEF value, Field
  <2> QED
    BY <2>1, <2>2, FieldsReadTwice
<1>3. DOMAIN value = DOMAIN shape /\ value = [f \in DOMAIN shape |-> value[f]]
  OBVIOUS
<1> HIDE DEF value
<1> DEFINE again == [f \in DOMAIN shape |->
                       RA!ReadField(shape[f], IF f \in DOMAIN value THEN value[f] ELSE Absent)]
<1>4. again = value
  BY <1>2, <1>3
<1>5. ~\E f \in DOMAIN shape : again[f] = Malformed
  BY <1>1, <1>4
<1>6. RA!Decode(shape, value) = again
  BY <1>5 DEF RA!Decode
<1> QED
  BY <1>1, <1>4, <1>6

LEMMA NullableListFields ==
    ASSUME NEW rule, rule = RA!NullableList
    PROVE  rule.missing = <<>> /\ rule.null = <<>> /\ rule.list
<1>1. PICK yes : yes = TRUE /\ rule = [missing |-> <<>>, null |-> <<>>, list |-> yes,
                                       labels |-> RA!AnyLabel]
  BY Zenon DEF RA!NullableList, RA!Rule
<1>2. rule.missing = <<>> /\ rule.null = <<>> /\ rule.list = yes
  BY <1>1
<1>3. rule.list
  BY Zenon, <1>1, <1>2
<1> QED
  BY <1>2, <1>3

\* A list that a Go server leaves nil, or out, reads as an empty one where the field
\* allows for it, and what was read once reads as itself: a label has one spelling
\* (null_as_default, the serde attributes of models.rs).
THEOREM SpellingsAlwaysAgree ==
    ASSUME NEW shape, \A f \in DOMAIN shape : IsRule(shape[f]), MarksStandApart,
           NEW json, json = [f \in DOMAIN json |-> json[f]], IsObject(shape, json),
           NEW field \in DOMAIN shape, field \in DOMAIN json
    PROVE  RA!SpellingsAgree(shape, json, field)
<1> DEFINE With(value) == RA!Decode(shape, [json EXCEPT ![field] = value])
<1>1. ASSUME shape[field] = RA!NullableList
      PROVE  With(Null) = With(<<>>) /\ With(Absent) = With(<<>>)
  <2> DEFINE rule == shape[field]
             Put(value) == [json EXCEPT ![field] = value]
             Read(value) == [f \in DOMAIN shape |->
                               RA!ReadField(shape[f], IF f \in DOMAIN Put(value)
                                                      THEN Put(value)[f] ELSE Absent)]
  <2>1. rule.missing = <<>> /\ rule.null = <<>> /\ rule.list
    BY <1>1, NullableListFields
  <2>2. RA!ReadField(rule, <<>>) = <<>>
    BY <2>1, EmptyListReads
  <2>3. RA!ReadField(rule, Null) = <<>> /\ RA!ReadField(rule, Absent) = <<>>
    BY <2>1 DEF RA!ReadField, MarksStandApart
  <2>4. ASSUME NEW value, RA!ReadField(rule, value) = <<>> PROVE Read(value) = Read(<<>>)
    <3>1. ASSUME NEW f \in DOMAIN shape PROVE Read(value)[f] = Read(<<>>)[f]
      <4>1. CASE f = field
        BY <2>2, <2>4, <4>1
      <4>2. CASE f # field
        BY <4>2
      <4> QED
        BY <4>1, <4>2
    <3> QED
      BY <3>1
  <2>5. ASSUME NEW value
        PROVE  With(value) = IF \E f \in DOMAIN shape : Read(value)[f] = Malformed
                             THEN Malformed ELSE Read(value)
    BY DEF RA!Decode
  <2>6. Read(Null) = Read(<<>>) /\ Read(Absent) = Read(<<>>)
    BY <2>3, <2>4
  <2> HIDE DEF Read, With
  <2> QED
    BY <2>5, <2>6
<1>2. ASSUME With(json[field]) # Malformed
      PROVE  RA!Decode(shape, With(json[field])) = With(json[field])
  <2>1. [json EXCEPT ![field] = json[field]] = json
    OBVIOUS
  <2>2. With(json[field]) = RA!Decode(shape, json)
    BY <2>1
  <2> HIDE DEF With
  <2> QED
    BY <1>2, <2>2, ObjectsReadTwice
<1> QED
  BY <1>1, <1>2 DEF RA!SpellingsAgree

LEMMA SuffixWhen ==
    ASSUME NEW S, NEW s \in Seq(S), NEW t \in Seq(S), Len(s) <= Len(t)
    PROVE  RA!IsSuffix(s, t) <=> \A i \in 1 .. Len(s) : t[Len(t) - Len(s) + i] = s[i]
<1> DEFINE r == RA!Reverse(s)
           u == RA!Reverse(t)
           m == Len(s)
           n == Len(t)
<1>1. m \in Nat /\ n \in Nat /\ m <= n
  OBVIOUS
<1>2. /\ r \in Seq(S) /\ Len(r) = m /\ \A i \in 1 .. m : r[i] = s[m - i + 1]
  <2>1. r = [i \in 1 .. m |-> s[m - i + 1]]
    BY DEF RA!Reverse
  <2>2. \A i \in 1 .. m : m - i + 1 \in 1 .. m
    BY <1>1
  <2>3. \A i \in 1 .. m : s[m - i + 1] \in S
    BY <2>2
  <2> HIDE DEF r
  <2> QED
    BY <1>1, <2>1, <2>3
<1>3. /\ u \in Seq(S) /\ Len(u) = n /\ \A i \in 1 .. n : u[i] = t[n - i + 1]
  <2>1. u = [i \in 1 .. n |-> t[n - i + 1]]
    BY DEF RA!Reverse
  <2>2. \A i \in 1 .. n : n - i + 1 \in 1 .. n
    BY <1>1
  <2>3. \A i \in 1 .. n : t[n - i + 1] \in S
    BY <2>2
  <2> HIDE DEF u
  <2> QED
    BY <1>1, <2>1, <2>3
<1>4. RA!IsSuffix(s, t) <=> SubSeq(r, 1, m) = SubSeq(u, 1, m)
  <2>1. RA!IsSuffix(s, t) <=> Len(r) <= Len(u) /\ SubSeq(r, 1, Len(r)) = SubSeq(u, 1, Len(r))
    BY DEF RA!IsSuffix, RA!IsPrefix
  <2> HIDE DEF r, u
  <2> QED
    BY <1>1, <1>2, <1>3, <2>1
<1> HIDE DEF r, u
<1>5. SubSeq(r, 1, m) = [i \in 1 .. m |-> r[i]]
  BY <1>1, <1>2
<1>6. SubSeq(u, 1, m) = [i \in 1 .. m |-> u[i]]
  BY <1>1, <1>3
<1>7. RA!IsSuffix(s, t) <=> \A i \in 1 .. m : r[i] = u[i]
  <2>1. ASSUME SubSeq(r, 1, m) = SubSeq(u, 1, m) PROVE \A i \in 1 .. m : r[i] = u[i]
    BY <1>5, <1>6, <2>1
  <2>2. ASSUME \A i \in 1 .. m : r[i] = u[i] PROVE SubSeq(r, 1, m) = SubSeq(u, 1, m)
    BY <1>5, <1>6, <2>2
  <2> QED
    BY <1>4, <2>1, <2>2
<1> HIDE DEF m, n
<1>8. ASSUME \A i \in 1 .. m : r[i] = u[i], NEW i \in 1 .. m PROVE t[n - m + i] = s[i]
  <2> DEFINE j == m - i + 1
  <2>1. j \in 1 .. m /\ j \in 1 .. n /\ m - j + 1 = i /\ n - j + 1 = n - m + i
    BY <1>1
  <2> HIDE DEF j
  <2>2. r[j] = s[i]
    BY <1>2, <2>1
  <2>3. u[j] = t[n - m + i]
    BY <1>3, <2>1
  <2>4. r[j] = u[j]
    BY <1>8, <2>1
  <2> QED
    BY <2>2, <2>3, <2>4
<1>9. ASSUME \A i \in 1 .. m : t[n - m + i] = s[i], NEW i \in 1 .. m PROVE r[i] = u[i]
  <2> DEFINE j == m - i + 1
  <2>1. j \in 1 .. m /\ i \in 1 .. n /\ n - i + 1 = n - m + j
    BY <1>1
  <2>2. r[i] = s[j]
    BY <1>2
  <2> HIDE DEF j
  <2>3. u[i] = t[n - m + j]
    BY <1>3, <2>1
  <2>4. t[n - m + j] = s[j]
    BY <1>9, <2>1
  <2> QED
    BY <2>2, <2>3, <2>4
<1>10. RA!IsSuffix(s, t) <=> \A i \in 1 .. m : t[n - m + i] = s[i]
  BY <1>7, <1>8, <1>9
<1> QED
  BY <1>10 DEF m, n

LEMMA SequencesTogether ==
    ASSUME NEW s, IsSequence(s), NEW t, IsSequence(t)
    PROVE  \E S : s \in Seq(S) /\ t \in Seq(S)
<1>1. PICK S : s \in Seq(S)
  BY DEF IsSequence
<1>2. PICK T : t \in Seq(T)
  BY DEF IsSequence
<1>3. s \in Seq(S \cup T) /\ t \in Seq(S \cup T)
  BY <1>1, <1>2
<1> QED
  BY <1>3

LEMMA EndsWith ==
    ASSUME NEW p, IsSequence(p), NEW s, IsSequence(s)
    PROVE  RA!IsSuffix(s, p \o s)
<1> DEFINE t == p \o s
<1>1. /\ IsSequence(t) /\ Len(t) = Len(p) + Len(s) /\ Len(p) \in Nat /\ Len(s) \in Nat
      /\ \A i \in 1 .. Len(s) : t[Len(p) + i] = s[i]
  BY JoinedParts
<1> HIDE DEF t
<1>2. Len(s) <= Len(t) /\ Len(t) - Len(s) = Len(p)
  BY <1>1
<1>3. PICK S : s \in Seq(S) /\ t \in Seq(S)
  BY <1>1, SequencesTogether
<1>4. \A i \in 1 .. Len(s) : t[Len(t) - Len(s) + i] = s[i]
  BY <1>1, <1>2
<1>5. RA!IsSuffix(s, t)
  BY <1>2, <1>3, <1>4, SuffixWhen
<1> QED
  BY <1>5 DEF t

LEMMA EndsWithOne ==
    ASSUME NEW t, IsSequence(t), Len(t) >= 1, NEW x
    PROVE  RA!IsSuffix(<<x>>, t) <=> t[Len(t)] = x
<1> DEFINE s == <<x>>
<1>1. s \in Seq({x}) /\ Len(s) = 1 /\ s[1] = x
  OBVIOUS
<1> HIDE DEF s
<1>2. PICK S : s \in Seq(S) /\ t \in Seq(S)
  BY <1>1, SequencesTogether DEF IsSequence
<1>3. Len(t) \in Nat
  BY <1>2
<1>4. RA!IsSuffix(s, t) <=> \A i \in 1 .. 1 : t[Len(t) - 1 + i] = s[i]
  <2>1. Len(s) <= Len(t)
    BY <1>1
  <2>2. RA!IsSuffix(s, t) <=> \A i \in 1 .. Len(s) : t[Len(t) - Len(s) + i] = s[i]
    BY <1>2, <2>1, SuffixWhen
  <2> QED
    BY <1>1, <2>2
<1>5. 1 .. 1 = {1} /\ Len(t) - 1 + 1 = Len(t)
  BY <1>3
<1>6. RA!IsSuffix(s, t) <=> t[Len(t)] = x
  BY <1>1, <1>4, <1>5
<1> QED
  BY <1>6 DEF s

\* The first self link of a reply names the agents of the client's lane or one agent
\* there, and that one if the reply has an id of its own.
LinksToAgent(version, pending) ==
    RA!SelfLinks(pending) # <<>> =>
        \E pre, tail :
          /\ IsSequence(pre)
          /\ RA!Segments(RA!SelfLinks(pending)[1])
               = (pre \o RA!AgentsCollectionPath(version)) \o tail
          /\ \/ tail = <<>> /\ pending.agentId = Absent
             \/ \E x : x # Absent /\ tail = <<x>> /\ pending.agentId \in {Absent, x}

\* The id of a registration, named or only linked to, gives the next call the path that
\* the link names, and there is none where the link names no agent (get_agent_id).
THEOREM RegistrationsLeadToAgents ==
    ASSUME NEW client, client.version \in {"V1", "V2"}, NEW pending,
           LinksToAgent(client.version, pending)
    PROVE  RA!IdLeadsToAgent(client, pending)
<1> DEFINE version == client.version
           id == RA!GetAgentId(pending)
           self == RA!SelfLinks(pending)
           segments == RA!Segments(self[1])
           path == RA!AgentPath(version, <<id>>, <<>>)
           c == RA!AgentsCollectionPath(version)
<1> SUFFICES ASSUME self # <<>>
             PROVE  /\ id = Absent <=> /\ pending.agentId = Absent
                                       /\ RA!IsSuffix(<<"agents">>, segments)
                    /\ id # Absent => RA!IsSuffix(path, segments)
  BY DEF RA!IdLeadsToAgent
<1>1. IsSequence(c) /\ Len(c) \in Nat /\ Len(c) > 0 /\ c[Len(c)] = "agents"
  <2>1. CASE version = "V1"
    <3>1. c = <<"v1", "agents">>
      BY <2>1 DEF RA!AgentsCollectionPath
    <3>2. <<"v1", "agents">> \in Seq({"v1", "agents"})
      OBVIOUS
    <3>3. Len(<<"v1", "agents">>) = 2 /\ <<"v1", "agents">>[2] = "agents"
      OBVIOUS
    <3>4. c \in Seq({"v1", "agents"}) /\ Len(c) = 2 /\ c[2] = "agents"
      BY <3>1, <3>2, <3>3
    <3> HIDE DEF c
    <3> QED
      BY <3>4 DEF IsSequence
  <2>2. CASE version = "V2"
    <3>1. c = <<"v2", "ans", "agents">>
      BY <2>2 DEF RA!AgentsCollectionPath
    <3>2. <<"v2", "ans", "agents">> \in Seq({"v2", "ans", "agents"})
      OBVIOUS
    <3>3. Len(<<"v2", "ans", "agents">>) = 3 /\ <<"v2", "ans", "agents">>[3] = "agents"
      OBVIOUS
    <3>4. c \in Seq({"v2", "ans", "agents"}) /\ Len(c) = 3 /\ c[3] = "agents"
      BY <3>1, <3>2, <3>3
    <3> HIDE DEF c
    <3> QED
      BY <3>4 DEF IsSequence
  <2> QED
    BY <2>1, <2>2
<1>2. PICK pre, tail :
          /\ IsSequence(pre)
          /\ segments = (pre \o c) \o tail
          /\ \/ tail = <<>> /\ pending.agentId = Absent
             \/ \E x : x # Absent /\ tail = <<x>> /\ pending.agentId \in {Absent, x}
  BY DEF LinksToAgent
<1>3. id = IF pending.agentId # Absent THEN pending.agentId
           ELSE IF segments = <<>> \/ segments[Len(segments)] = "agents" THEN Absent
           ELSE segments[Len(segments)]
  BY DEF RA!GetAgentId, RA!Last
<1>4. path = (c \o <<id>>) \o <<>>
  <2>1. RA!Encode(<<id>>) = <<id>>
    BY DEF RA!Encode
  <2> HIDE DEF id
  <2> QED
    BY <2>1 DEF RA!AgentPath
<1> DEFINE base == pre \o c
<1>5. /\ IsSequence(base) /\ Len(base) \in Nat /\ Len(base) > 0
      /\ base[Len(base)] = "agents"
  <2>1. /\ IsSequence(base) /\ Len(base) = Len(pre) + Len(c) /\ Len(pre) \in Nat
        /\ \A i \in 1 .. Len(c) : base[Len(pre) + i] = c[i]
    BY <1>1, <1>2, JoinedParts
  <2> HIDE DEF base, c
  <2>2. Len(c) \in 1 .. Len(c)
    BY <1>1
  <2>3. base[Len(pre) + Len(c)] = c[Len(c)]
    BY <2>1, <2>2
  <2> QED
    BY <1>1, <2>1, <2>3
<1> HIDE DEF id, self, segments, path
<1>6. CASE tail = <<>> /\ pending.agentId = Absent
  <2>1. segments = base
    <3>1. base \o <<>> = base
      <4> HIDE DEF base
      <4>1. PICK S : base \in Seq(S)
        BY <1>5 DEF IsSequence
      <4> QED
        BY <4>1
    <3> QED
      BY <1>2, <1>6, <3>1
  <2> HIDE DEF base
  <2>2. segments[Len(segments)] = "agents" /\ IsSequence(segments) /\ Len(segments) >= 1
    BY <1>5, <2>1
  <2>3. id = Absent
    BY <1>3, <1>6, <2>2
  <2>4. RA!IsSuffix(<<"agents">>, segments)
    BY <2>2, EndsWithOne
  <2> QED
    BY <1>6, <2>3, <2>4
<1>7. ASSUME NEW x, x # Absent, tail = <<x>>, pending.agentId \in {Absent, x}
      PROVE  /\ id = Absent <=> /\ pending.agentId = Absent
                                /\ RA!IsSuffix(<<"agents">>, segments)
             /\ id # Absent => RA!IsSuffix(path, segments)
  <2> DEFINE last == <<x>>
  <2>1. IsSequence(last) /\ Len(last) = 1 /\ last[1] = x
    <3>1. <<x>> \in Seq({x}) /\ Len(<<x>>) = 1 /\ <<x>>[1] = x
      OBVIOUS
    <3> QED
      BY <3>1 DEF IsSequence
  <2>2. segments = base \o last
    BY <1>2, <1>7
  <2> HIDE DEF last
  <2>3. /\ IsSequence(segments) /\ Len(segments) = Len(base) + 1
        /\ segments[Len(base) + 1] = x
    <3>1. /\ IsSequence(base \o last) /\ Len(base \o last) = Len(base) + Len(last)
          /\ \A i \in 1 .. Len(last) : (base \o last)[Len(base) + i] = last[i]
      <4>1. IsSequence(base) /\ IsSequence(last)
        BY <1>5, <2>1
      <4> HIDE DEF base
      <4>2. IsSequence(base \o last) /\ Len(base \o last) = Len(base) + Len(last)
        BY <4>1, JoinedParts
      <4>3. \A i \in 1 .. Len(last) : (base \o last)[Len(base) + i] = last[i]
        BY <4>1, JoinedParts
      <4> QED
        BY <4>2, <4>3
    <3>2. 1 \in 1 .. Len(last)
      BY <2>1
    <3> HIDE DEF base
    <3> QED
      BY <2>1, <2>2, <3>1, <3>2
  <2>4. segments[Len(segments)] = x /\ Len(segments) >= 1
    BY <1>5, <2>3
  <2>5. segments # <<>>
    BY <2>4
  <2>6. RA!IsSuffix(<<"agents">>, segments) <=> x = "agents"
    BY <2>3, <2>4, EndsWithOne
  <2>7. id = IF pending.agentId # Absent THEN x ELSE IF x = "agents" THEN Absent ELSE x
    BY <1>3, <1>7, <2>4, <2>5
  <2>8. id = Absent <=> pending.agentId = Absent /\ x = "agents"
    BY <1>7, <2>7
  <2>9. ASSUME id # Absent PROVE RA!IsSuffix(path, segments)
    <3>1. id = x
      BY <1>7, <2>7, <2>9
    <3> DEFINE tailed == c \o last
    <3>2. IsSequence(tailed)
      <4> HIDE DEF c
      <4> QED
        BY <1>1, <2>1, JoinedParts
    <3>3. path = tailed
      <4>1. path = (c \o last) \o <<>>
        BY <1>4, <3>1 DEF last
      <4>2. PICK S : tailed \in Seq(S)
        BY <3>2 DEF IsSequence
      <4> HIDE DEF tailed
      <4>3. tailed \o <<>> = tailed
        BY <4>2
      <4> QED
        BY <4>1, <4>3 DEF tailed
    <3>4. segments = pre \o tailed
      <4>1. PICK S : pre \in Seq(S) /\ c \in Seq(S)
        BY <1>1, <1>2, SequencesTogether
      <4>2. PICK T : last \in Seq(T)
        BY <2>1 DEF IsSequence
      <4> HIDE DEF c
      <4>3. pre \in Seq(S \cup T) /\ c \in Seq(S \cup T) /\ last \in Seq(S \cup T)
        BY <4>1, <4>2
      <4>4. (pre \o c) \o last = pre \o (c \o last)
        BY <4>3
      <4> QED
        BY <2>2, <4>4
    <3>5. RA!IsSuffix(tailed, pre \o tailed)
      <4> HIDE DEF tailed
      <4> QED
        BY <1>2, <3>2, EndsWith
    <3> QED
      BY <3>3, <3>4, <3>5
  <2> QED
    BY <2>6, <2>8, <2>9
<1> QED
  BY <1>2, <1>6, <1>7

-----------------------------------------------------------------------------
(* The feed of events                                                       *)

\* No function, and so no record or sequence, is Malformed or NoReply, and no number
\* is one of the marks.
AnswersStandApart ==
    /\ \A f : f = [x \in DOMAIN f |-> f[x]] => f # Malformed /\ f # NoReply
    /\ \A n \in Nat : n \notin Marks

LEMMA PlainRules ==
    /\ RA!Required.missing = Malformed /\ RA!Required.null = Malformed
    /\ ~RA!Required.list /\ RA!Required.labels = RA!AnyLabel
    /\ RA!Optional.missing = Absent /\ ~RA!Optional.list /\ RA!Optional.labels = RA!AnyLabel
    /\ RA!List.list /\ RA!List.labels = RA!AnyLabel
<1>1. ASSUME NEW rule, rule = RA!Required
      PROVE  /\ rule.missing = Malformed /\ rule.null = Malformed
             /\ ~rule.list /\ rule.labels = RA!AnyLabel
  <2>1. PICK no : no = FALSE /\ rule = [missing |-> Malformed, null |-> Malformed,
                                        list |-> no, labels |-> RA!AnyLabel]
    BY Zenon, <1>1 DEF RA!Required, RA!Rule
  <2>2. /\ rule.missing = Malformed /\ rule.null = Malformed
        /\ rule.list = no /\ rule.labels = RA!AnyLabel
    BY <2>1
  <2>3. ~rule.list
    BY Zenon, <2>1, <2>2
  <2> QED
    BY <2>2, <2>3
<1>2. ASSUME NEW rule, rule = RA!Optional
      PROVE  rule.missing = Absent /\ ~rule.list /\ rule.labels = RA!AnyLabel
  <2>1. PICK no : no = FALSE /\ rule = [missing |-> Absent, null |-> Absent,
                                        list |-> no, labels |-> RA!AnyLabel]
    BY Zenon, <1>2 DEF RA!Optional, RA!Rule
  <2>2. rule.missing = Absent /\ rule.list = no /\ rule.labels = RA!AnyLabel
    BY <2>1
  <2>3. ~rule.list
    BY Zenon, <2>1, <2>2
  <2> QED
    BY <2>2, <2>3
<1>3. ASSUME NEW rule, rule = RA!List
      PROVE  rule.list /\ rule.labels = RA!AnyLabel
  <2>1. PICK yes : yes = TRUE /\ rule = [missing |-> Malformed, null |-> Malformed,
                                         list |-> yes, labels |-> RA!AnyLabel]
    BY Zenon, <1>3 DEF RA!List, RA!Rule
  <2>2. rule.list = yes /\ rule.labels = RA!AnyLabel
    BY <2>1
  <2>3. rule.list
    BY Zenon, <2>1, <2>2
  <2> QED
    BY <2>2, <2>3
<1> QED
  BY <1>1, <1>2, <1>3

\* An event that was read has the id that the feed gave it.
LEMMA EventsKeepTheirId ==
    ASSUME NEW event, RA!Decode(RA!EventItem, event) # Malformed
    PROVE  RA!Decode(RA!EventItem, event).logId = event.logId
<1> DEFINE shape == RA!EventItem
           Field(f) == IF f \in DOMAIN event THEN event[f] ELSE Absent
           value == [f \in DOMAIN shape |-> RA!ReadField(shape[f], Field(f))]
<1>1. /\ RA!Decode(shape, event) = value
      /\ \A f \in DOMAIN shape : value[f] # Malformed
  BY DEF RA!Decode
<1>2. "logId" \in DOMAIN shape /\ shape["logId"] = RA!Required
  BY DEF RA!EventItem
<1> HIDE DEF shape
<1>3. value["logId"] = RA!ReadField(RA!Required, Field("logId"))
  BY <1>2
<1>4. value["logId"] # Malformed
  BY <1>1, <1>2
<1> HIDE DEF value
<1>5. Field("logId") \notin {Absent, Null, Malformed}
  BY <1>3, <1>4, PlainRules DEF RA!ReadField, RA!ReadItem
<1>6. RA!ReadField(RA!Required, Field("logId")) = Field("logId")
  <2> HIDE DEF Field
  <2> QED
    BY <1>5, PlainRules DEF RA!ReadField, RA!ReadItem
<1>7. Field("logId") = event["logId"]
  BY <1>5
<1> HIDE DEF Field
<1>8. value["logId"] = event["logId"]
  BY <1>3, <1>6, <1>7
<1> QED
  BY <1>1, <1>8 DEF shape

\* A page comes through, or it has an event that does not read.
LEMMA PagesRead ==
    ASSUME NEW items, IsSequence(items), NEW last, MarksStandApart, AnswersStandApart,
           last \in Nat \/ last = Absent
    PROVE  LET reply == [status |-> 200, body |-> [kind |-> "json", value |->
                            [items |-> items, lastLogId |-> last]]]
               page == RA!Send(reply, RA!EventPageResponse)
           IN  /\ (\E i \in DOMAIN items : items[i] = Malformed) => page.error = "Json"
               /\ (\A i \in DOMAIN items : items[i] # Malformed) =>
                    /\ page.error = "none" /\ page.value.items = items
                    /\ page.value.lastLogId = last
<1> DEFINE json == [items |-> items, lastLogId |-> last]
           reply == [status |-> 200, body |-> [kind |-> "json", value |-> json]]
           shape == RA!EventPageResponse
           decoded == RA!Decode(shape, json)
           Field(f) == IF f \in DOMAIN json THEN json[f] ELSE Absent
           value == [f \in DOMAIN shape |-> RA!ReadField(shape[f], Field(f))]
<1>1. RA!Send(reply, shape) = IF decoded = Malformed THEN [error |-> "Json"]
                              ELSE [error |-> "none", value |-> decoded]
  <2>1. reply # NoReply
    <3>1. reply = [x \in DOMAIN reply |-> reply[x]]
      BY Zenon
    <3> QED
      BY <3>1 DEF AnswersStandApart
  <2>2. reply.status = 200 /\ reply.body.kind = "json" /\ reply.body.value = json
    OBVIOUS
  <2> HIDE DEF reply, json
  <2>3. 200 \in 200 .. 299
    OBVIOUS
  <2> QED
    BY <2>1, <2>2, <2>3 DEF RA!Send
<1>2. decoded = IF \E f \in DOMAIN shape : value[f] = Malformed THEN Malformed ELSE value
  BY DEF RA!Decode
<1>3. /\ DOMAIN shape = {"items", "lastLogId"}
      /\ shape["items"] = RA!List /\ shape["lastLogId"] = RA!Optional
  BY DEF RA!EventPageResponse
<1>4. Field("items") = items /\ Field("lastLogId") = last
  OBVIOUS
<1> HIDE DEF shape, Field, json, decoded
<1>5. /\ value["items"] = RA!ReadField(RA!List, items)
      /\ value["lastLogId"] = RA!ReadField(RA!Optional, last)
  BY <1>3, <1>4
<1>6. value # Malformed
  <2>1. value = [x \in DOMAIN value |-> value[x]]
    BY Zenon
  <2> QED
    BY <2>1 DEF AnswersStandApart
<1> HIDE DEF value
<1>7. value["lastLogId"] = last /\ last # Malformed
  <2>1. CASE last = Absent
    BY <1>5, <2>1, PlainRules DEF RA!ReadField, MarksStandApart
  <2>2. CASE last \in Nat
    <3>1. last \notin {Absent, Null, Malformed}
      BY <2>2 DEF AnswersStandApart, Marks
    <3> QED
      BY <1>5, <3>1, PlainRules DEF RA!ReadField, RA!ReadItem
  <2> QED
    BY <2>1, <2>2
<1>8. value["items"] = IF \E i \in DOMAIN items : items[i] = Malformed THEN Malformed ELSE items
  <2> DEFINE list == [i \in DOMAIN items |-> RA!ReadItem(RA!List, items[i])]
  <2>1. items \notin {Absent, Null, Malformed}
    BY DEF MarksStandApart, Marks
  <2>2. RA!ReadField(RA!List, items) = RA!ReadList(RA!List, items)
    BY <2>1, PlainRules DEF RA!ReadField
  <2>3. list = items
    <3>1. \A i \in DOMAIN items : RA!ReadItem(RA!List, items[i]) = items[i]
      BY PlainRules DEF RA!ReadItem
    <3>2. list = [i \in DOMAIN items |-> items[i]]
      BY <3>1
    <3>3. items = [i \in DOMAIN items |-> items[i]]
      <4>1. PICK S : items \in Seq(S)
        BY DEF IsSequence
      <4> QED
        BY <4>1
    <3> QED
      BY <3>2, <3>3
  <2>4. RA!ReadList(RA!List, items) =
          IF \E i \in DOMAIN list : list[i] = Malformed THEN Malformed ELSE list
    BY DEF RA!ReadList
  <2> HIDE DEF list
  <2> QED
    BY <1>5, <2>2, <2>3, <2>4
<1>9. items # Malformed
  BY DEF MarksStandApart, Marks
<1>10. ASSUME \E i \in DOMAIN items : items[i] = Malformed
       PROVE  RA!Send(reply, shape).error = "Json"
  <2>1. decoded = Malformed
    BY <1>2, <1>3, <1>8, <1>10
  <2> HIDE DEF reply
  <2> QED
    BY <1>1, <2>1
<1>11. ASSUME \A i \in DOMAIN items : items[i] # Malformed
       PROVE  /\ RA!Send(reply, shape).error = "none"
              /\ RA!Send(reply, shape).value.items = items
              /\ RA!Send(reply, shape).value.lastLogId = last
  <2>1. decoded = value /\ value["items"] = items
    BY <1>2, <1>3, <1>7, <1>8, <1>9, <1>11
  <2> HIDE DEF reply
  <2>2. RA!Send(reply, shape) = [error |-> "none", value |-> value]
    BY <1>1, <1>6, <2>1
  <2>3. value.items = items /\ value.lastLogId = last
    BY <1>7, <2>1
  <2> QED
    BY <2>2, <2>3
<1> QED
  BY <1>10, <1>11 DEF reply, shape, json

\* The page behind a cursor.
After(cursor) == IF cursor = Absent THEN 0 ELSE cursor
PageEnd(feed, limit, cursor) ==
    IF After(cursor) + limit < Len(feed) THEN After(cursor) + limit ELSE Len(feed)
PageItems(feed, limit, cursor) ==
    [i \in 1 .. PageEnd(feed, limit, cursor) - After(cursor) |->
        RA!Decode(RA!EventItem, feed[After(cursor) + i])]
NextCursor(feed, limit, cursor) ==
    IF PageEnd(feed, limit, cursor) = Len(feed) THEN Absent ELSE PageEnd(feed, limit, cursor)

LEMMA CursorsArrive ==
    ASSUME NEW client, IsClient(client), NEW cursor
    PROVE  {q[2] : q \in {p \in RA!GetEvents(client, Absent, Absent, cursor).url.query :
                             p[1] = "lastLogId"}}
             = IF cursor = Absent THEN {} ELSE {cursor}
<1> DEFINE path == <<"v1", "agents", "events">>
           built == RA!BuildRequest(client, "GET", path)
           asked == {<<"limit", Absent>>, <<"providerId", Absent>>, <<"lastLogId", cursor>>}
           kept == {q \in asked : q[2] # Absent}
           request == RA!GetEvents(client, Absent, Absent, cursor)
<1>1. request = [built EXCEPT !.url.query = kept]
  BY DEF RA!GetEvents, RA!WithQuery
<1>2. \E headers, none : built = [error |-> "none", method |-> "GET",
                                  url |-> RA!UrlOf(client, path), headers |-> headers,
                                  body |-> none]
  BY DEF RA!BuildRequest
<1>3. RA!UrlOf(client, path) = [scheme |-> client.base.scheme, host |-> client.base.host,
                                path |-> RA!Resolved(path), query |-> {}]
  BY DEF IsClient
<1> HIDE DEF built, request, path, kept
<1>4. request.url = [RA!UrlOf(client, path) EXCEPT !.query = kept]
  BY <1>1, <1>2
<1>5. request.url.query = kept
  BY <1>3, <1>4
<1>6. kept = IF cursor = Absent THEN {} ELSE {<<"lastLogId", cursor>>}
  BY DEF kept
<1>7. CASE cursor = Absent
  BY <1>5, <1>6, <1>7 DEF request
<1>8. CASE cursor # Absent
  <2> DEFINE pair == <<"lastLogId", cursor>>
  <2>1. pair[1] = "lastLogId" /\ pair[2] = cursor
    OBVIOUS
  <2>2. request.url.query = {pair}
    BY <1>5, <1>6, <1>8
  <2> HIDE DEF pair
  <2>3. {p \in request.url.query : p[1] = "lastLogId"} = {pair}
    BY <2>1, <2>2
  <2>4. {q[2] : q \in {pair}} = {cursor}
    BY <2>1
  <2> QED
    BY <1>8, <2>3, <2>4 DEF request
<1> QED
  BY <1>7, <1>8

LEMMA PagesServed ==
    ASSUME NEW client, IsClient(client), NEW feed, NEW limit, NEW cursor
    PROVE  RA!PageFor(feed, RA!GetEvents(client, Absent, Absent, cursor), limit)
             = [items |-> PageItems(feed, limit, cursor),
                lastLogId |-> NextCursor(feed, limit, cursor)]
<1> DEFINE request == RA!GetEvents(client, Absent, Absent, cursor)
           cursors == {q[2] : q \in {p \in request.url.query : p[1] = "lastLogId"}}
           after == IF cursors = {} THEN 0 ELSE CHOOSE c \in cursors : TRUE
           upTo == IF after + limit < Len(feed) THEN after + limit ELSE Len(feed)
<1>1. RA!PageFor(feed, request, limit) =
        [items |-> [i \in 1 .. upTo - after |-> RA!Decode(RA!EventItem, feed[after + i])],
         lastLogId |-> IF upTo = Len(feed) THEN Absent ELSE upTo]
  BY DEF RA!PageFor
<1>2. cursors = IF cursor = Absent THEN {} ELSE {cursor}
  BY CursorsArrive
<1> HIDE DEF cursors
<1>3. after = After(cursor)
  <2>1. CASE cursor = Absent
    BY <1>2, <2>1 DEF After
  <2>2. CASE cursor # Absent
    <3>1. cursors = {cursor}
      BY <1>2, <2>2
    <3>2. cursors # {} /\ (CHOOSE c \in cursors : TRUE) \in cursors
      BY <3>1
    <3> QED
      BY <2>2, <3>1, <3>2 DEF After
  <2> QED
    BY <2>1, <2>2
<1> HIDE DEF after
<1>4. upTo = PageEnd(feed, limit, cursor)
  BY <1>3 DEF PageEnd
<1> HIDE DEF upTo, request
<1>5. RA!PageFor(feed, request, limit) =
        [items |-> PageItems(feed, limit, cursor), lastLogId |-> NextCursor(feed, limit, cursor)]
  BY <1>1, <1>3, <1>4 DEF PageItems, NextCursor
<1> QED
  BY <1>5 DEF request

\* What a reader gets for a cursor.
LEMMA PagesArrive ==
    ASSUME NEW client, IsClient(client), NEW feed, IsSequence(feed), NEW limit \in Nat, limit > 0,
           NEW cursor \in DOMAIN feed \cup {Absent}, MarksStandApart, AnswersStandApart
    PROVE  LET page == RA!EventPage(client, feed, limit, cursor)
               items == PageItems(feed, limit, cursor)
           IN  /\ (\E i \in DOMAIN items : items[i] = Malformed) => page.error = "Json"
               /\ (\A i \in DOMAIN items : items[i] # Malformed) =>
                    /\ page.error = "none" /\ page.value.items = items
                    /\ page.value.lastLogId = NextCursor(feed, limit, cursor)
<1> DEFINE items == PageItems(feed, limit, cursor)
           last == NextCursor(feed, limit, cursor)
           page == RA!EventPage(client, feed, limit, cursor)
           reply == [status |-> 200, body |-> [kind |-> "json", value |->
                       [items |-> items, lastLogId |-> last]]]
<1>1. page = RA!Send(reply, RA!EventPageResponse)
  BY PagesServed DEF RA!EventPage
<1>2. Len(feed) \in Nat /\ DOMAIN feed = 1 .. Len(feed)
  BY DEF IsSequence
<1>3. After(cursor) \in Nat /\ PageEnd(feed, limit, cursor) \in Nat
  BY <1>2 DEF After, PageEnd
<1>4. last \in Nat \/ last = Absent
  BY <1>3 DEF NextCursor
<1>5. IsSequence(items)
  <2> DEFINE n == PageEnd(feed, limit, cursor) - After(cursor)
             T == {items[i] : i \in 1 .. n}
  <2>1. items = [i \in 1 .. n |-> items[i]]
    BY DEF PageItems
  <2>2. \A i \in 1 .. n : items[i] \in T
    OBVIOUS
  <2>3. n \in Int
    BY <1>3
  <2> HIDE DEF items, T, n
  <2>4. CASE n >= 0
    <3>1. n \in Nat
      BY <2>3, <2>4
    <3>2. items \in Seq(T)
      BY <2>1, <2>2, <3>1
    <3> QED
      BY <3>2 DEF IsSequence
  <2>5. CASE n < 0
    <3>1. 1 .. n = {}
      BY <2>3, <2>5
    <3>2. items = <<>>
      BY <2>1, <3>1
    <3> QED
      BY <3>2 DEF IsSequence
  <2> QED
    BY <2>3, <2>4, <2>5
<1> HIDE DEF items, last, page
<1>6. /\ (\E i \in DOMAIN items : items[i] = Malformed) => page.error = "Json"
      /\ (\A i \in DOMAIN items : items[i] # Malformed) =>
           /\ page.error = "none" /\ page.value.items = items
           /\ page.value.lastLogId = last
  BY <1>1, <1>4, <1>5, PagesRead
<1> QED
  BY <1>6 DEF items, last, page

\* What is read behind each cursor, in one page and `left` others.
OneRead(client, feed, limit, left, before) ==
    [cursor \in DOMAIN feed \cup {Absent} |->
       LET page == RA!EventPage(client, feed, limit, cursor)
       IN  IF page.error # "none" THEN [error |-> page.error, events |-> <<>>]
           ELSE IF page.value.lastLogId = Absent \/ left = 0
                THEN [error |-> "none", events |-> page.value.items]
           ELSE LET rest == before[page.value.lastLogId]
                IN  [rest EXCEPT !.events = page.value.items \o @]]
ReadingUpTo(f, client, feed, limit, n) ==
    f = [left \in 0 .. n |-> OneRead(client, feed, limit, left, f[left - 1])]
Reading(client, feed, limit) == CHOOSE f : ReadingUpTo(f, client, feed, limit, Len(feed))

LEMMA ReadingExists ==
    ASSUME NEW client, NEW feed, NEW limit, NEW n \in Nat
    PROVE  \E f : ReadingUpTo(f, client, feed, limit, n)
<1> DEFINE missing == {m \in Nat : ~\E f : ReadingUpTo(f, client, feed, limit, m)}
           Next(f, i) == OneRead(client, feed, limit, i, f[i - 1])
<1>1. SUFFICES ASSUME missing # {} PROVE FALSE
  OBVIOUS
<1>2. PICK m \in missing : \A j \in missing : m <= j
  BY <1>1, LeastNumber
<1>3. ASSUME NEW f, NEW g PROVE Next(f, 0) = Next(g, 0)
  BY DEF OneRead
<1> HIDE DEF Next
<1>4. CASE m = 0
  <2> DEFINE g == [i \in 0 .. 0 |-> Next(<<>>, 0)]
  <2>1. g = [i \in 0 .. 0 |-> g[i]] /\ g[0] = Next(<<>>, 0)
    OBVIOUS
  <2> HIDE DEF g
  <2>2. \A i \in 0 .. 0 : g[i] = Next(g, i)
    BY <1>3, <2>1
  <2>3. g = [i \in 0 .. 0 |-> Next(g, i)]
    BY <2>1, <2>2
  <2>4. ReadingUpTo(g, client, feed, limit, 0)
    BY <2>3 DEF ReadingUpTo, Next
  <2> QED
    BY <1>2, <1>4, <2>4
<1>5. CASE m # 0
  <2>1. m - 1 \in Nat /\ m - 1 \notin missing
    BY <1>2, <1>5
  <2>2. PICK f : ReadingUpTo(f, client, feed, limit, m - 1)
    BY <2>1
  <2> DEFINE g == [i \in 0 .. m |-> IF i = m THEN Next(f, m) ELSE f[i]]
  <2>3. f = [i \in 0 .. m - 1 |-> Next(f, i)]
    BY <2>2 DEF ReadingUpTo, Next
  <2>4. \A i \in 0 .. m - 1 : f[i] = Next(f, i)
    BY <2>3
  <2>5. g = [i \in 0 .. m |-> g[i]] /\ g[m] = Next(f, m) /\ \A i \in 0 .. m - 1 : g[i] = f[i]
    BY <1>2
  <2> HIDE DEF g
  <2>6. ASSUME NEW i \in 0 .. m PROVE g[i] = Next(g, i)
    <3>1. CASE i = 0
      <4>1. g[0] = Next(f, 0)
        BY <1>2, <1>5, <2>4, <2>5
      <4> QED
        BY <1>3, <3>1, <4>1
    <3>2. CASE i # 0
      <4>1. i - 1 \in 0 .. m - 1
        BY <1>2, <3>2
      <4>2. g[i - 1] = f[i - 1]
        BY <2>5, <4>1
      <4>3. Next(g, i) = Next(f, i)
        BY <4>2 DEF Next
      <4>4. g[i] = Next(f, i)
        <5>1. CASE i = m
          BY <2>5, <5>1
        <5>2. CASE i # m
          <6>1. i \in 0 .. m - 1
            BY <1>2, <5>2
          <6> QED
            BY <2>4, <2>5, <6>1
        <5> QED
          BY <5>1, <5>2
      <4> QED
        BY <4>3, <4>4
    <3> QED
      BY <3>1, <3>2
  <2>7. g = [i \in 0 .. m |-> Next(g, i)]
    BY <2>5, <2>6
  <2>8. ReadingUpTo(g, client, feed, limit, m)
    BY <2>7 DEF ReadingUpTo, Next
  <2> QED
    BY <1>2, <2>8
<1> QED
  BY <1>4, <1>5

LEMMA ReadingSteps ==
    ASSUME NEW client, NEW feed, NEW limit, Len(feed) \in Nat
    PROVE  /\ RA!ReadEvents(client, feed, limit) = Reading(client, feed, limit)[Len(feed)][Absent]
           /\ \A left \in 0 .. Len(feed) :
                Reading(client, feed, limit)[left] =
                  OneRead(client, feed, limit, left, Reading(client, feed, limit)[left - 1])
<1>1. RA!ReadEvents(client, feed, limit) = Reading(client, feed, limit)[Len(feed)][Absent]
  BY DEF RA!ReadEvents, Reading, ReadingUpTo, OneRead
<1> DEFINE f == Reading(client, feed, limit)
           Next(left) == OneRead(client, feed, limit, left, f[left - 1])
<1>2. ReadingUpTo(f, client, feed, limit, Len(feed))
  BY ReadingExists DEF Reading
<1>3. f = [left \in 0 .. Len(feed) |-> Next(left)]
  BY <1>2 DEF ReadingUpTo
<1> HIDE DEF f, Next
<1>4. \A left \in 0 .. Len(feed) : f[left] = Next(left)
  BY <1>3
<1> QED
  BY <1>1, <1>4 DEF f, Next

\* What a reader is to have read behind a cursor.
ReadWell(read, feed, cursor) ==
    LET a == After(cursor)
    IN  /\ read = [error |-> read.error, events |-> read.events]
        /\ IsSequence(read.events) /\ Len(read.events) \in Nat
        /\ a + Len(read.events) <= Len(feed)
        /\ \A i \in 1 .. Len(read.events) : read.events[i].logId = feed[a + i].logId
        /\ read.error = "none" => Len(read.events) = Len(feed) - a
        /\ read.error = "none" <=>
             \A i \in a + 1 .. Len(feed) : RA!Decode(RA!EventItem, feed[i]) # Malformed

LEMMA OnePageFurther ==
    ASSUME NEW client, IsClient(client), NEW feed, IsSequence(feed), NEW limit \in Nat, limit > 0,
           MarksStandApart, AnswersStandApart, NEW cursor \in DOMAIN feed \cup {Absent},
           NEW left \in Nat, Len(feed) - After(cursor) <= left, NEW before,
           \A c \in DOMAIN feed : Len(feed) - c <= left - 1 => ReadWell(before[c], feed, c)
    PROVE  ReadWell(OneRead(client, feed, limit, left, before)[cursor], feed, cursor)
<1> DEFINE read == OneRead(client, feed, limit, left, before)[cursor]
           page == RA!EventPage(client, feed, limit, cursor)
           items == PageItems(feed, limit, cursor)
           a == After(cursor)
           e == PageEnd(feed, limit, cursor)
           n == Len(feed)
           m == e - a
           Read(i) == RA!Decode(RA!EventItem, feed[i])
<1>1. n \in Nat /\ DOMAIN feed = 1 .. n
  BY DEF IsSequence
<1>2. a \in Nat /\ a <= n
  BY <1>1 DEF After
<1>3. e \in Nat /\ m \in Nat /\ e <= n /\ a <= e /\ (e < n => a < e) /\ e = a + m
  BY <1>1, <1>2 DEF PageEnd
<1>4. items = [i \in 1 .. m |-> Read(a + i)]
  BY DEF PageItems
<1>5. /\ (\E i \in DOMAIN items : items[i] = Malformed) => page.error = "Json"
      /\ (\A i \in DOMAIN items : items[i] # Malformed) =>
           /\ page.error = "none" /\ page.value.items = items
           /\ page.value.lastLogId = NextCursor(feed, limit, cursor)
  BY PagesArrive
<1>6. read = IF page.error # "none" THEN [error |-> page.error, events |-> <<>>]
             ELSE IF page.value.lastLogId = Absent \/ left = 0
                  THEN [error |-> "none", events |-> page.value.items]
             ELSE [before[page.value.lastLogId] EXCEPT !.events = page.value.items \o @]
  BY DEF OneRead
<1>7. n - a <= left
  OBVIOUS
<1> HIDE DEF read, page, items, a, e, m, Read
<1>8. DOMAIN items = 1 .. m /\ \A i \in 1 .. m : items[i] = Read(a + i)
  BY <1>4
<1>9. CASE \E i \in DOMAIN items : items[i] = Malformed
  <2>1. read = [error |-> "Json", events |-> <<>>]
    BY <1>5, <1>6, <1>9
  <2>2. PICK i \in 1 .. m : Read(a + i) = Malformed
    BY <1>8, <1>9
  <2>3. a + i \in a + 1 .. n
    BY <1>1, <1>2, <1>3
  <2>4. ~\A j \in a + 1 .. n : Read(j) # Malformed
    BY <2>2, <2>3
  <2>5. read.error = "Json" /\ read.events = <<>>
    BY <2>1
  <2>6. IsSequence(read.events) /\ Len(read.events) = 0
    BY <2>5 DEF IsSequence
  <2>7. read = [error |-> read.error, events |-> read.events]
    BY <2>1
  <2> QED
    BY <1>1, <1>2, <2>4, <2>5, <2>6, <2>7 DEF ReadWell, a, Read, read
<1>10. CASE \A i \in DOMAIN items : items[i] # Malformed
  <2>1. /\ page.error = "none" /\ page.value.items = items
        /\ page.value.lastLogId = NextCursor(feed, limit, cursor)
    BY <1>5, <1>10
  <2>2. \A i \in 1 .. m : Read(a + i) # Malformed
    BY <1>8, <1>10
  <2>3. \A i \in 1 .. m : items[i].logId = feed[a + i].logId
    BY <1>8, <2>2, EventsKeepTheirId DEF Read
  <2>4. IsSequence(items) /\ Len(items) = m
    <3> DEFINE T == {items[i] : i \in 1 .. m}
    <3>1. items = [i \in 1 .. m |-> items[i]]
      BY <1>4
    <3>2. \A i \in 1 .. m : items[i] \in T
      OBVIOUS
    <3> HIDE DEF T
    <3>3. items \in Seq(T)
      BY <1>3, <3>1, <3>2
    <3> QED
      BY <1>3, <1>8, <3>3 DEF IsSequence
  <2>5. \A j \in a + 1 .. e : Read(j) # Malformed
    <3>1. ASSUME NEW j \in a + 1 .. e PROVE Read(j) # Malformed
      <4>1. j - a \in 1 .. m /\ a + (j - a) = j
        BY <1>2, <1>3
      <4> QED
        BY <2>2, <4>1
    <3> QED
      BY <3>1
  <2>6. CASE e = n
    <3>1. read = [error |-> "none", events |-> items]
      BY <1>6, <2>1, <2>6 DEF NextCursor, e
    <3>2. read.error = "none" /\ read.events = items
      BY <3>1
    <3>3. read = [error |-> read.error, events |-> read.events]
      BY <3>1
    <3>4. Len(items) = n - a
      BY <1>2, <1>3, <2>4, <2>6
    <3>5. \A j \in a + 1 .. n : Read(j) # Malformed
      BY <2>5, <2>6
    <3>6. a + Len(items) <= n /\ Len(items) \in Nat
      BY <1>1, <1>2, <1>3, <2>4
    <3> QED
      BY <2>3, <2>4, <3>2, <3>3, <3>4, <3>5, <3>6 DEF ReadWell, a, Read, read
  <2>7. CASE e # n
    <3> DEFINE rest == before[e]
    <3>1. e < n /\ a < e /\ e \in DOMAIN feed /\ e # Absent
      BY <1>1, <1>2, <1>3, <2>7 DEF AnswersStandApart, Marks
    <3>2. left # 0 /\ n - e <= left - 1
      BY <1>1, <1>2, <1>3, <1>7, <3>1
    <3>3. ReadWell(rest, feed, e)
      BY <3>1, <3>2
    <3>4. After(e) = e
      BY <3>1 DEF After
    <3>5. /\ rest = [error |-> rest.error, events |-> rest.events]
          /\ IsSequence(rest.events) /\ Len(rest.events) \in Nat
          /\ e + Len(rest.events) <= n
          /\ \A i \in 1 .. Len(rest.events) : rest.events[i].logId = feed[e + i].logId
          /\ rest.error = "none" => Len(rest.events) = n - e
          /\ rest.error = "none" <=> \A i \in e + 1 .. n : Read(i) # Malformed
      BY <3>3, <3>4 DEF ReadWell, Read
    <3>6. page.value.lastLogId = e
      BY <2>1, <2>7 DEF NextCursor, e
    <3>7. read = [rest EXCEPT !.events = items \o @]
      BY <1>6, <2>1, <3>1, <3>2, <3>6
    <3> DEFINE more == rest.events
               all == items \o more
    <3>8. read.error = rest.error /\ read.events = all
      <4> HIDE DEF rest
      <4>1. read = [error |-> rest.error, events |-> items \o rest.events]
        BY <3>5, <3>7
      <4> QED
        BY <4>1
    <3>9. read = [error |-> read.error, events |-> read.events]
      <4> HIDE DEF rest
      <4>1. read = [error |-> rest.error, events |-> items \o rest.events]
        BY <3>5, <3>7
      <4> QED
        BY <4>1
    <3> DEFINE l == Len(more)
    <3>10. /\ l \in Nat /\ e + l <= n /\ IsSequence(more)
           /\ \A i \in 1 .. l : more[i].logId = feed[e + i].logId
           /\ rest.error = "none" => l = n - e
      BY <3>5
    <3> HIDE DEF rest, more
    <3>11. /\ IsSequence(all) /\ Len(all) = m + l
           /\ \A i \in 1 .. m : all[i] = items[i]
           /\ \A i \in 1 .. l : all[m + i] = more[i]
      <4>1. IsSequence(items) /\ IsSequence(more)
        BY <2>4, <3>10
      <4>2. /\ IsSequence(all) /\ Len(all) = Len(items) + Len(more)
            /\ \A i \in 1 .. Len(items) : all[i] = items[i]
            /\ \A i \in 1 .. Len(more) : all[Len(items) + i] = more[i]
        BY <4>1, JoinedParts
      <4> QED
        BY <2>4, <4>2
    <3> HIDE DEF all, l
    <3>12. ASSUME NEW i \in 1 .. m + l PROVE all[i].logId = feed[a + i].logId
      <4>1. CASE i <= m
        <5>1. i \in 1 .. m
          BY <4>1
        <5> QED
          BY <2>3, <3>11, <5>1
      <4>2. CASE i > m
        <5> DEFINE k == i - m
        <5>1. k \in 1 .. l /\ m + k = i /\ e + k = a + i
          BY <1>2, <1>3, <3>10, <4>2
        <5> HIDE DEF k
        <5>2. all[i] = more[k] /\ more[k].logId = feed[e + k].logId
          BY <3>10, <3>11, <5>1
        <5> QED
          BY <5>1, <5>2
      <4> QED
        BY <1>3, <3>10, <4>1, <4>2
    <3>13. rest.error = "none" <=> \A j \in a + 1 .. n : Read(j) # Malformed
      <4>1. ASSUME NEW j \in a + 1 .. n PROVE j \in a + 1 .. e \/ j \in e + 1 .. n
        BY <1>1, <1>2, <1>3
      <4>2. ASSUME NEW j \in e + 1 .. n PROVE j \in a + 1 .. n
        BY <1>1, <1>2, <1>3
      <4> QED
        BY <2>5, <3>5, <4>1, <4>2
    <3>14. m + l \in Nat /\ a + (m + l) <= n /\ (rest.error = "none" => m + l = n - a)
      <4> HIDE DEF n
      <4>1. m + l \in Nat /\ a + (m + l) = e + l /\ e + l <= n
        BY <1>2, <1>3, <3>10
      <4>2. a + (m + l) <= n
        BY <4>1
      <4>3. ASSUME rest.error = "none" PROVE m + l = n - a
        <5>1. l = n - e
          BY <3>10, <4>3
        <5> QED
          BY <1>1, <1>2, <1>3, <5>1
      <4> QED
        BY <4>1, <4>2, <4>3
    <3> QED
      BY <3>8, <3>9, <3>11, <3>12, <3>13, <3>14 DEF ReadWell, a, Read, read
  <2> QED
    BY <2>6, <2>7
<1> QED
  BY <1>9, <1>10

\* Reading the feed page by page gives its events in order, none twice and none left
\* out; it ends early only before a page with an event that does not read, with an
\* error (get_events and its example).
THEOREM FeedsAreReadInOrder ==
    ASSUME NEW client, IsClient(client), NEW feed, IsSequence(feed), NEW limit \in Nat, limit > 0,
           MarksStandApart, AnswersStandApart
    PROVE  RA!EventsReadInOrder(client, feed, limit)
<1> DEFINE N == Len(feed)
           from == Reading(client, feed, limit)
           Behind(left) == \A cursor \in DOMAIN feed \cup {Absent} :
                              N - After(cursor) <= left =>
                                ReadWell(from[left][cursor], feed, cursor)
           missing == {left \in Nat : left <= N /\ ~Behind(left)}
           read == RA!ReadEvents(client, feed, limit)
<1>1. N \in Nat /\ DOMAIN feed = 1 .. N
  BY DEF IsSequence
<1>2. /\ read = from[N][Absent]
      /\ \A left \in 0 .. N : from[left] = OneRead(client, feed, limit, left, from[left - 1])
  BY <1>1, ReadingSteps
<1> HIDE DEF from, read
<1>3. missing = {}
  <2>1. SUFFICES ASSUME missing # {} PROVE FALSE
    OBVIOUS
  <2>2. PICK left \in missing : \A j \in missing : left <= j
    <3>1. missing \in SUBSET Nat
      OBVIOUS
    <3> HIDE DEF missing
    <3> QED
      BY <2>1, <3>1, LeastNumber
  <2>3. left \in 0 .. N /\ left \in Nat /\ ~Behind(left)
    BY <1>1, <2>2
  <2> DEFINE before == from[left - 1]
  <2>4. \A c \in DOMAIN feed : N - c <= left - 1 => ReadWell(before[c], feed, c)
    <3>1. ASSUME NEW c \in DOMAIN feed, N - c <= left - 1 PROVE ReadWell(before[c], feed, c)
      <4>1. left - 1 \in Nat /\ left - 1 <= N
        BY <1>1, <2>3, <3>1
      <4>2. left - 1 \notin missing
        BY <2>2, <2>3, <4>1
      <4>3. Behind(left - 1)
        BY <4>1, <4>2
      <4>4. After(c) = c
        BY <1>1 DEF After, AnswersStandApart, Marks
      <4> QED
        BY <3>1, <4>3, <4>4
    <3> QED
      BY <3>1
  <2>5. from[left] = OneRead(client, feed, limit, left, before)
    BY <1>2, <2>3
  <2> HIDE DEF before
  <2>6. ASSUME NEW cursor \in DOMAIN feed \cup {Absent}, N - After(cursor) <= left
        PROVE  ReadWell(from[left][cursor], feed, cursor)
    BY <2>3, <2>4, <2>5, <2>6, OnePageFurther
  <2> QED
    BY <2>3, <2>6
<1>4. ReadWell(read, feed, Absent)
  <2>1. N \notin missing
    BY <1>3
  <2>2. Behind(N)
    BY <1>1, <2>1
  <2>3. N - After(Absent) <= N
    BY <1>1 DEF After
  <2> QED
    BY <1>2, <2>2, <2>3
<1>5. /\ IsSequence(read.events) /\ Len(read.events) \in Nat
      /\ \A i \in 1 .. Len(read.events) : read.events[i].logId = feed[0 + i].logId
      /\ read.error = "none" => Len(read.events) = N - 0
      /\ read.error = "none" <=>
           \A i \in 0 + 1 .. N : RA!Decode(RA!EventItem, feed[i]) # Malformed
  BY <1>4 DEF ReadWell, After
<1> DEFINE known == {i \in DOMAIN feed : RA!Decode(RA!EventItem, feed[i]) # Malformed}
<1>6. known = DOMAIN feed <=> \A i \in 1 .. N : RA!Decode(RA!EventItem, feed[i]) # Malformed
  BY <1>1
<1>7. DOMAIN read.events = 1 .. Len(read.events)
  BY <1>5 DEF IsSequence
<1> HIDE DEF known
<1>8. /\ \A i \in DOMAIN read.events : read.events[i].logId = feed[i].logId
      /\ read.error = "none" => Len(read.events) = N
      /\ (read.error = "none") <=> (known = DOMAIN feed)
  BY <1>1, <1>5, <1>6, <1>7
<1> QED
  BY <1>8 DEF RA!EventsReadInOrder, read, known

-----------------------------------------------------------------------------
\* What the registration client is asked and told.
RegistrationInputs ==
    /\ MarksStandApart /\ AnswersStandApart
    /\ Given("client") =>
         IsOptions(input.of[1]) /\ (input.of[2] = <<>> => IsAgentIds(input.of[3]))
    /\ Given("replies") =>
         /\ input.of[1] # NoReply => input.of[1].status # Absent
         /\ input.of[2] # NoReply => input.of[2].status # Absent
    /\ Given("pending") =>
         input.of[1].version \in {"V1", "V2"} /\ LinksToAgent(input.of[1].version, input.of[2])
    /\ Given("feed") =>
         /\ IsClient(input.of[1]) /\ IsSequence(input.of[2])
         /\ input.of[3] \in Nat /\ input.of[3] > 0
    /\ Given("json") =>
         LET shape == input.of[1]
             json  == input.of[2]
         IN  /\ \A f \in DOMAIN shape : IsRule(shape[f])
             /\ json = [f \in DOMAIN json |-> json[f]] /\ IsObject(shape, json)
             /\ input.of[3] \in DOMAIN shape /\ input.of[3] \in DOMAIN json

(***************************************************************************)
(* The registration client does what its caller asked, or says why not,    *)
(* whatever the options, the ids, the replies, the feed and the objects.   *)
(***************************************************************************)
THEOREM RegistrationAlwaysHonest == []RegistrationInputs => []RegistrationHonest
<1>1. RegistrationInputs /\ Given("client") =>
        /\ input.of[2] = <<>> => RA!RequestsStayApart(input.of[1], input.of[3])
        /\ RA!ProfilesAreHonoured(input.of[1], input.of[2])
  BY CallsStayApart, ProfilesAreNotDropped DEF RegistrationInputs
<1>2. RegistrationInputs /\ Given("replies") =>
        RA!ErrorsKeepStatus(input.of[1], input.of[2], RA!CsrSubmissionResponse)
  <2>1. RegistrationInputs /\ Given("replies") =>
          /\ input.of[1] # NoReply => input.of[1].status # Absent
          /\ input.of[2] # NoReply => input.of[2].status # Absent
    BY DEF RegistrationInputs
  <2> QED
    BY <2>1, ErrorsKeepTheirStatus
<1>3. RegistrationInputs /\ Given("pending") => RA!IdLeadsToAgent(input.of[1], input.of[2])
  BY RegistrationsLeadToAgents DEF RegistrationInputs
<1>4. RegistrationInputs /\ Given("feed") =>
        RA!EventsReadInOrder(input.of[1], input.of[2], input.of[3])
  BY FeedsAreReadInOrder DEF RegistrationInputs
<1>5. RegistrationInputs /\ Given("json") =>
        RA!SpellingsAgree(input.of[1], input.of[2], input.of[3])
  BY SpellingsAlwaysAgree DEF RegistrationInputs
<1>6. RegistrationInputs => RegistrationHonest
  BY <1>1, <1>2, <1>3, <1>4, <1>5 DEF RegistrationHonest
<1> QED
  BY <1>6, PTL
=============================================================================
