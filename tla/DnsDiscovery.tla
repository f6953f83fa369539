---------------------------- MODULE DnsDiscovery ----------------------------
(***************************************************************************)
(* DNS lookups (crates/ans-verify/src/dns.rs): the rows of a DNS answer are *)
(* parsed one by one, the lookups turn an answer or a network failure into *)
(* Found, NotFound or an error, and the verifiers treat these differently: *)
(* NotFound is a determinate rejection, most errors are an outage.         *)
(*                                                                         *)
(* A TXT row is a sequence of fields [key, value], an SVCB row a priority  *)
(* with a sequence of parameters.  Bad stands for every value that the     *)
(* parser of its field refuses.                                            *)
(***************************************************************************)
EXTENDS Naturals, Sequences, Selection

CONSTANTS
    Absent,      \* an optional value that is not there
    Bad,         \* a field that does not parse
    Malformed    \* a row that does not parse

-----------------------------------------------------------------------------
(* Results.  All results have the same fields.                             *)

Found(records) == [kind |-> "Found", error |-> "none", records |-> records]
NotFound       == [kind |-> "NotFound", error |-> "none", records |-> <<>>]
Err(e)         == [kind |-> "Error", error |-> e, records |-> <<>>]

\* An empty list of usable records counts as absence.
FoundOrNot(records) == IF records = <<>> THEN NotFound ELSE Found(records)

\* DnsError::is_unavailable
IsUnavailable(error) == error \in {"Timeout", "LookupFailed"}

\* The rows that parse, in the order of the answer.
Parsed(rows, Parse(_)) == Without([i \in DOMAIN rows |-> Parse(rows[i])], Malformed)

-----------------------------------------------------------------------------
(* TXT rows *)

Fields(row, key) == Select(row, {i \in DOMAIN row : row[i].key = key})

\* The last field of a key wins.
LastField(row, key) ==
    LET fs == Fields(row, key) IN IF fs = <<>> THEN Absent ELSE fs[Len(fs)].value

Lenient(value) == IF value = Bad THEN Absent ELSE value

\* A bad URL spoils the row even if a good one follows.
BadUrl(row) == \E i \in DOMAIN row : row[i].key = "url" /\ row[i].value = Bad

\* BadgeRecord::parse
BadgeRecord(row) ==
    IF BadUrl(row) \/ LastField(row, "v") = Absent \/ LastField(row, "url") = Absent
    THEN Malformed
    ELSE [version |-> Lenient(LastField(row, "version")), url |-> LastField(row, "url")]

\* TxtDiscoveryRecord::parse
TxtDiscoveryRecord(row) ==
    IF BadUrl(row) \/ \E key \in {"v", "p", "url"} : LastField(row, key) = Absent
    THEN Malformed
    ELSE [version |-> Lenient(LastField(row, "version")), url |-> LastField(row, "url"),
          protocolToken |-> LastField(row, "p"), mode |-> LastField(row, "mode")]

-----------------------------------------------------------------------------
(* SVCB rows *)

\* parse_cap_url: raw bytes are what they decode to, and a defect.
CapUrl(raw) == IF raw.defect \in {"utf8", "url"} THEN Absent ELSE raw.value

\* parse_cap_sha256
CapSha256(raw) == IF raw.defect \in {"utf8", "base64", "length"} THEN Absent ELSE raw.value

\* bap, well-known and alpn: not empty, and UTF-8.
Token(raw) == IF raw.defect \in {"utf8", "empty"} THEN Absent ELSE raw.value

\* The first parameter of a key that decodes wins.
FirstParam(params, key, Decode(_)) ==
    LET good == Select(params, {i \in DOMAIN params : /\ params[i].key = key
                                                      /\ Decode(params[i].raw) # Absent})
    IN  IF good = <<>> THEN Absent ELSE Decode(good[1].raw)

\* SvcbDiscoveryRecord::from_rdata.  bap is authoritative, alpn the fallback.
SvcbDiscoveryRecord(row) ==
    LET bap == FirstParam(row.params, "bap", Token)
        token == IF bap # Absent THEN bap ELSE FirstParam(row.params, "alpn", Token)
    IN  IF row.priority = 0 \/ token = Absent THEN Malformed
        ELSE [priority |-> row.priority, protocolToken |-> token,
              metadataUrl |-> FirstParam(row.params, "cap", CapUrl),
              metadataSha256 |-> FirstParam(row.params, "cap-sha256", CapSha256),
              wellKnown |-> FirstParam(row.params, "well-known", Token)]

\* SvcbDiscoveryRecord::from_parts, for resolvers that do not read RDATA.
SvcbFromParts(priority, token) ==
    IF priority = 0 \/ token = Absent THEN Malformed
    ELSE [priority |-> priority, protocolToken |-> token, metadataUrl |-> Absent,
          metadataSha256 |-> Absent, wellKnown |-> Absent]

\* collect_svcb_discovery: one AliasMode row hides the whole set.
SvcbRecords(rows) ==
    IF \E i \in DOMAIN rows : rows[i].priority = 0 THEN <<>>
    ELSE Parsed(rows, SvcbDiscoveryRecord)

\* AgentProtocol::from_token
AgentProtocol(token) ==
    CASE token = "a2a" -> "A2a"
      [] token = "mcp" -> "Mcp"
      [] token \in {"http-api", "x-http"} -> "HttpApi"
      [] OTHER -> token

-----------------------------------------------------------------------------
(* Lookups.  A reply of the resolver is the rows of an answer or a failure: *)
(* NoRecordsFound with its response code (no records, ServFail), a timeout, *)
(* a failed denial-of-existence proof, an error whose text names DNSSEC, or *)
(* another one.                                                            *)

Answer(rows)   == [kind |-> "answer", rows |-> rows]
Failed(kind)   == [kind |-> kind, rows |-> <<>>]
NoRecordsFound == {"no records", "servfail"}
FailureKinds   == NoRecordsFound \cup {"timeout", "nsec", "dnssec text", "other"}

\* query_txt_strings, and the same match in lookup_svcb_discovery: Absent, an
\* error, or the records among the rows of the answer.
Queried(reply, records) ==
    CASE reply.kind = "answer"         -> FoundOrNot(records)
      [] reply.kind \in NoRecordsFound -> NotFound
      [] reply.kind = "timeout"        -> Err("Timeout")
      [] OTHER                         -> Err("LookupFailed")

BadgeRecords(rows) == Parsed(rows, BadgeRecord)

\* query_badge_txt
QueryBadgeTxt(reply) == Queried(reply, BadgeRecords(reply.rows))

\* Mutant: any primary lookup without records falls back.
LookupBadgeAnyway(primary, legacy) ==
    IF QueryBadgeTxt(primary).kind = "Found" THEN QueryBadgeTxt(primary)
    ELSE QueryBadgeTxt(legacy)

\* lookup_badge: _ans-badge, then _ra-badge if the first has none.
LookupBadge(primary, legacy) ==
    IF QueryBadgeTxt(primary).kind # "NotFound" THEN QueryBadgeTxt(primary)
    ELSE QueryBadgeTxt(legacy)

\* lookup_svcb_discovery
LookupSvcbDiscovery(reply) == Queried(reply, SvcbRecords(reply.rows))

\* lookup_txt_discovery
LookupTxtDiscovery(reply) == Queried(reply, Parsed(reply.rows, TxtDiscoveryRecord))

\* DiscoveryRecord::profile_id, for every record of a lookup
ProfileId(id, result) ==
    [result EXCEPT !.records =
        [i \in DOMAIN @ |-> [profile |-> id, token |-> @[i].protocolToken]]]

\* lookup_discovery: the bare name's SVCB rows, then _ans.
LookupDiscovery(svcb, txt) ==
    IF LookupSvcbDiscovery(svcb).kind # "NotFound"
    THEN ProfileId("ANS_DNSAID", LookupSvcbDiscovery(svcb))
    ELSE ProfileId("ANS_TXT", LookupTxtDiscovery(txt))

\* get_badge_records and get_discovery_records: absence is an error.
Required(result) == IF result.kind = "NotFound" THEN Err("NotFound") ELSE result

\* find_badge_for_version: the first that names the version or none.
FindBadgeForVersion(records, version) ==
    LET hits == Select(records, {i \in DOMAIN records :
                                    records[i].version \in {version, Absent}})
    IN  IF hits = <<>> THEN Absent ELSE hits[1]

\* The position of the sort in find_preferred_badge: unversioned records first,
\* then the newest version; the sort is stable.
Precedes(r, s) ==
    \/ r.version = Absent /\ s.version # Absent
    \/ r.version # Absent /\ s.version # Absent /\ r.version > s.version

\* find_preferred_badge (records is not empty: get_badge_records)
FindPreferredBadge(records) ==
    LET firsts == {i \in DOMAIN records :
                     ~\E j \in DOMAIN records : Precedes(records[j], records[i])}
    IN  records[CHOOSE i \in firsts : \A j \in firsts : i <= j]

-----------------------------------------------------------------------------
(* Resolvers.  A HickoryDnsResolver is a plain resolver and one for TLSA.   *)

\* DnsResolverConfig::to_resolver_config; options are the caller's or defaults.
Preset(name) ==
    [servers |-> IF name \in {"Cloudflare", "CloudflareTls"} THEN "cloudflare"
                 ELSE IF name \in {"Google", "GoogleTls"} THEN "google"
                 ELSE IF name \in {"Quad9", "Quad9Tls"} THEN "quad9" ELSE "system",
     tls |-> name \in {"CloudflareTls", "GoogleTls", "Quad9Tls"},
     validate |-> FALSE]

Validating(config) == [config EXCEPT !.validate = TRUE]

\* with_preset
WithPreset(name) == [plain |-> Preset(name), dnssec |-> Validating(Preset(name))]

\* with_nameservers
WithNameservers(servers) ==
    LET config == [servers |-> servers, tls |-> FALSE, validate |-> FALSE]
    IN  [plain |-> config, dnssec |-> Validating(config)]

\* with_config: the caller's options may validate or not.
WithConfig(config) == [plain |-> config, dnssec |-> Validating(config)]

\* with_dnssec
WithDnssec ==
    LET config == [servers |-> "default", tls |-> FALSE, validate |-> TRUE]
    IN  [plain |-> config, dnssec |-> config]
-----------------------------------------------------------------------------
(* Properties *)

Reversed(s)   == [i \in DOMAIN s |-> s[Len(s) + 1 - i]]
IsOutage(reply) == reply.kind \notin NoRecordsFound \cup {"answer"}
IsSilent(reply, Records(_)) ==
    reply.kind \in NoRecordsFound \/ (reply.kind = "answer" /\ Records(reply.rows) = <<>>)

\* What the verifiers act on.  Absence, which rejects for good and drops the
\* cache, is claimed only if both names were asked and neither has a usable row;
\* a name that had to be asked and could not be makes the lookup an outage, which
\* the failure policy covers; and the second name is asked only if the first is
\* silent, so that no row of it is ever mixed with, or preferred to, rows of the
\* first.
TwoNamesHonest(result, first, second, FirstRecords(_), SecondRecords(_)) ==
    /\ result.kind = "NotFound" <=>
         IsSilent(first, FirstRecords) /\ IsSilent(second, SecondRecords)
    /\ (\/ IsOutage(first)
        \/ IsSilent(first, FirstRecords) /\ IsOutage(second)) =>
         result.kind = "Error" /\ IsUnavailable(result.error)
    /\ result.kind = "Found" /\ ~IsSilent(first, FirstRecords) =>
         Len(result.records) = Len(FirstRecords(first.rows))

\* Both kinds of lookup are honest, and a broken row spoils no other one.
LookupsAreHonest(first, second) ==
    LET badges == LookupBadge(first, second)
    IN  /\ TwoNamesHonest(badges, first, second, BadgeRecords, BadgeRecords)
        /\ \A reply \in {first, second} : \A i \in DOMAIN reply.rows :
             /\ badges.kind # "Error" /\ (reply = first \/ IsSilent(first, BadgeRecords))
             /\ BadgeRecord(reply.rows[i]) # Malformed
             => \E j \in DOMAIN badges.records :
                  badges.records[j] = BadgeRecord(reply.rows[i])

\* The same of the discovery lookup, whose first name holds SVCB rows.
DiscoveryIsHonest(svcb, txt) ==
    LET TxtRecords(rows) == Parsed(rows, TxtDiscoveryRecord)
    IN  TwoNamesHonest(LookupDiscovery(svcb, txt), svcb, txt, SvcbRecords, TxtRecords)

\* DNS gives the rows of a name in any order.  If at most one record carries each
\* version, and at most one none, the preferred badge does not depend on it; and
\* if all are versioned it is the newest one.
ChoiceIgnoresOrder(records) ==
    (\A i, j \in DOMAIN records :
        records[i].version = records[j].version => i = j)
    => /\ FindPreferredBadge(records) = FindPreferredBadge(Reversed(records))
       /\ (\A i \in DOMAIN records : records[i].version # Absent) =>
            \A i \in DOMAIN records :
               FindPreferredBadge(records).version >= records[i].version

\* A doc of the crate: an outage of the DNS server is an indeterminate failure,
\* never the absence of a record.  (hickory wraps an upstream ServFail as
\* NoRecordsFound.)
OutageIsNotAbsence(first, second) ==
    first.kind = "servfail" /\ second.kind = "servfail" =>
        IsUnavailable(Required(LookupBadge(first, second)).error)
=============================================================================
