----------------------------- MODULE PluginQuery -----------------------------
(***************************************************************************)
(* One query of a built-in plugin, from its first request to what the      *)
(* runner makes of its result: the retrying _fetch that every plugin has   *)
(* (they differ in the answers they forgive), the proposals, and the cap   *)
(* of PluginRunner._execute_plugin.                                        *)
(***************************************************************************)
EXTENDS Proposals

CONSTANTS
  Queries,       \* the queries of the plugins to look at
  Answers(_),    \* bound: the bodies upstream may send for a query
  DnsRecords,    \* bound: what the four DNS lookups may return
  MaxAttempts,   \* tenacity's stop_after_attempt
  MaxProposals   \* MAX_PROPOSALS_PER_RUN

\* A plugin whose query depends on the type of its input appears once for each.
QueryNames ==
  {"crtsh", "virustotal_domain", "virustotal_ip", "virustotal_url", "shodan", "dns_whois",
   "wayback_cdx", "hibp", "github_user", "github_email", "opencorporates", "urlhaus",
   "aleph_occrp", "opensanctions"}

Items == Names \cup {Junk}
Labels == Items \cup {Own}

\* The shape of the bodies that _fetch hands to a plugin's builder.  The input's
\* own label is told apart from other names where a filter does so.
Bodies(q) ==
  CASE q = "crtsh" -> Seq(Labels)
    [] q = "virustotal_domain" -> Seq([type : STRING, value : Labels])
    [] q = "shodan" -> [hostnames : Seq(Items), domains : Seq(Items)]
    [] q = "wayback_cdx" -> Seq([ts : Nat, url : Items])
    [] OTHER -> Seq(Items)

ASSUME QueriesOK ==
  /\ Queries \subseteq QueryNames
  /\ MaxAttempts \in Nat \ {0} /\ MaxProposals \in Nat
  /\ \A q \in Queries : Answers(q) \subseteq Bodies(q)
  /\ DnsRecords \subseteq [a : Seq(Labels), aaaa : Seq(Labels), ns : Seq(Labels), mx : Seq(Labels)]

VARIABLES
  query,     \* which plugin, on which type of input
  records,   \* the answers of the DNS lookups of dns_whois
  attempts,  \* requests sent
  answer,    \* upstream's last answer
  result,    \* the QueryResult
  outcome    \* what the runner is to do, or has done, with it

vars == <<query, records, attempts, answer, result, outcome>>

-----------------------------------------------------------------------------
(* Answers                                                                  *)

\* What makes a _fetch raise: "transport" is a lost connection, "oversize" a body
\* of more than MAX_RESPONSE_BYTES, "undecodable" one that is not even text,
\* "misshapen" one with members of an unexpected type.  A body that is no JSON of
\* the expected type ("garbled") is none: all plugins take it for empty.
Failures == {"timeout", "transport", "oversize", "404", "429", "500", "undecodable", "misshapen"}

\* The plugins that trip over JSON whose members have an unexpected type.
Trusting == {"crtsh", "virustotal_domain", "virustotal_ip", "shodan", "hibp", "wayback_cdx"}

Kinds(q) ==
  {"garbled", "data"} \cup {kind \in Failures : kind = "misshapen" => q \in Trusting}

NoBody(q) == IF q = "shodan" THEN [hostnames |-> <<>>, domains |-> <<>>] ELSE <<>>

Unanswered == [kind |-> "none", body |-> <<>>]

AnswersTo(q) ==
  [kind : {"data"}, body : Answers(q)] \cup [kind : Kinds(q) \ {"data"}, body : {NoBody(q)}]

\* What a plugin's _fetch lets tenacity try again.
Retryable(q, kind) == kind \in {"timeout", "transport"} \/ (q = "crtsh" /\ kind = "429")

\* A 404 that _fetch returns instead of raising it.
NotFound(q, kind) ==
  kind = "404" /\ q \in {"hibp", "dns_whois", "github_user", "github_email"}

Fetched(q, kind) == kind \in {"data", "garbled"} \/ NotFound(q, kind)

\* Mutation of Swallows: a search that failed is a search without hits.
SwallowsMore(q, kind) ==
  q \in {"dns_whois", "wayback_cdx", "opencorporates", "aleph_occrp", "opensanctions"}

\* The exceptions of _fetch that query catches: every one, those of httpx, or
\* those of httpx that are no HTTP status.
Swallows(q, kind) ==
  \/ q = "dns_whois"
  \/ q \in {"wayback_cdx", "opencorporates"} /\ kind \notin {"undecodable", "misshapen"}
  \/ q \in {"github_user", "github_email"} /\ kind \in {"timeout", "transport", "oversize"}

\* What the runner makes of an exception of query (_classify_error); crtsh turns
\* a 429 into a TransportError.
ErrorClass(q, kind) ==
  CASE kind = "undecodable" -> "validation_error"
    [] kind = "misshapen" -> "unknown"
    [] kind = "timeout" -> "upstream_timeout"
    [] kind \in {"404", "429", "500"} /\ ~Retryable(q, kind) -> "upstream_http_error"
    [] kind \in {"oversize", "transport"} \/ (kind = "429" /\ Retryable(q, kind)) ->
         "upstream_network_error"

\* fetch_status, or rdap_status of dns_whois; "ok" where neither is recorded.
Status(q, kind) ==
  CASE q = "dns_whois" -> IF kind = "data" THEN "ok" ELSE "unavailable"
    [] q # "dns_whois" /\ Fetched(q, kind) -> IF kind = "404" THEN "not_found" ELSE "ok"
    [] q # "dns_whois" /\ ~Fetched(q, kind) ->
         IF q \in {"aleph_occrp", "opensanctions"} THEN "ok" ELSE "error"

QueryResult(q, dns, a) ==
  LET status == Status(q, a.kind)
  IN  CASE q = "crtsh" -> CrtSh(a.body)
        [] q = "virustotal_domain" -> VirusTotalDomain(a.body)
        [] q = "virustotal_ip" -> VirusTotalIp(a.body)
        [] q = "shodan" -> Shodan(a.body)
        [] q = "dns_whois" -> DnsWhois(dns, status)
        [] q = "wayback_cdx" -> Wayback(a.body, status)
        [] q \in {"github_user", "github_email"} -> GithubPublic(a.body, status)
        [] q = "opencorporates" -> OpenCorporates(a.body, status)
        [] q = "hibp" -> IF a.kind = "404" THEN Nothing ELSE EvidenceOnly(status)
        [] q = "virustotal_url" -> VirusTotalUrl
        [] q \in {"urlhaus", "aleph_occrp", "opensanctions"} ->
             EvidenceOnly(status)

\* EntityProposal refuses a label that is too long, and with it the query.
Valid(res) == \A i \in DOMAIN res.entities : res.entities[i].label \notin TooLong

Total(res) == Len(res.entities) + Len(res.links) + Len(res.evidence)

-----------------------------------------------------------------------------
\* A lookup that fails, in whatever way, is a lookup without answers.
Resolved(q) == IF q = "dns_whois" THEN DnsRecords ELSE {<<>>}

Init ==
  /\ query \in Queries
  /\ records \in Resolved(query)
  /\ attempts = 0 /\ answer = Unanswered
  /\ result = Nothing /\ outcome = "fetching"

\* The label is blank, or not of the form the plugin asks for.
SkipQuery ==
  /\ outcome = "fetching" /\ attempts = 0
  /\ outcome' = "returned"
  /\ UNCHANGED <<query, records, attempts, answer, result>>

\* Mutation of Request: retry as long as the failure is of the right kind.
RequestForever ==
  /\ outcome = "fetching" /\ attempts <= MaxAttempts
  /\ attempts > 0 => Retryable(query, answer.kind)
  /\ attempts' = attempts + 1
  /\ answer' \in AnswersTo(query)
  /\ UNCHANGED <<query, records, result, outcome>>

\* The first request, or the next one after a failure that is tried again.
Request ==
  /\ outcome = "fetching" /\ attempts < MaxAttempts
  /\ attempts > 0 => Retryable(query, answer.kind)
  /\ attempts' = attempts + 1
  /\ answer' \in AnswersTo(query)
  /\ UNCHANGED <<query, records, result, outcome>>

\* tenacity has no attempt left, or stop_after_delay is over (github has none).
Exhausted ==
  attempts = MaxAttempts \/ query \notin {"github_user", "github_email"}

\* _fetch has returned, or query has caught its exception.
Return ==
  /\ outcome = "fetching" /\ attempts > 0
  /\ \/ Fetched(query, answer.kind)
     \/ Swallows(query, answer.kind) /\ (Retryable(query, answer.kind) => Exhausted)
  /\ LET res == QueryResult(query, records, answer)
     IN  \/ Valid(res) /\ result' = res /\ outcome' = "returned"
         \/ ~Valid(res) /\ outcome' = "validation_error" /\ UNCHANGED result
  /\ UNCHANGED <<query, records, attempts, answer>>

\* The exception of _fetch leaves query; the runner classifies it.
Raise ==
  /\ outcome = "fetching" /\ attempts > 0
  /\ ~Fetched(query, answer.kind) /\ ~Swallows(query, answer.kind)
  /\ Retryable(query, answer.kind) => Exhausted
  /\ outcome' = ErrorClass(query, answer.kind)
  /\ UNCHANGED <<query, records, attempts, answer, result>>

\* The runner counts the proposals before it persists any.
CountProposals ==
  /\ outcome = "returned"
  /\ outcome' = IF Total(result) > MaxProposals THEN "plugin_internal" ELSE "persist"
  /\ UNCHANGED <<query, records, attempts, answer, result>>

Next == SkipQuery \/ Request \/ Return \/ Raise \/ CountProposals

Spec == Init /\ [][Next]_vars

-----------------------------------------------------------------------------
(* Properties                                                               *)

TypeOK ==
  /\ query \in Queries
  /\ attempts \in 0..MaxAttempts
  /\ answer = Unanswered \/ answer \in AnswersTo(query)
  /\ outcome \in {"fetching", "returned", "persist", "validation_error",
                  "upstream_timeout", "upstream_http_error", "upstream_network_error",
                  "unknown", "plugin_internal"}
  /\ Len(result.evidence) <= 1

Refs(res) == {res.entities[i].ref : i \in DOMAIN res.entities}

\* Whatever upstream sends, a plugin's refs are distinct and every relationship
\* joins the input to an entity of the same result.  So PluginRunner._persist
\* never meets an unknown ref and never ties a relationship to the wrong one.
RefsResolve ==
  /\ Cardinality(Refs(result)) = Len(result.entities)
  /\ \A i \in DOMAIN result.links :
       LET ends == {result.links[i].src, result.links[i].dst}
       IN  Input \in ends /\ ends \subseteq Refs(result) \cup {Input}

\* What the items of an answer name, by type: the reference for the builders.
Named(q, a) ==
  LET named(type, items) == {<<type, x>> : x \in ToSet(items) \cap Names}
      hosts(items) == {<<"DOMAIN", x>> : x \in ToSet(items) \cap Hosts}
      value(type) == [i \in DOMAIN a.body |->
                        IF a.body[i].type = type THEN a.body[i].value ELSE Junk]
  IN  CASE q = "crtsh" -> named("DOMAIN", a.body)
        [] q = "virustotal_domain" -> named("IP_ADDRESS", value("A")) \cup hosts(value("CNAME"))
        [] q = "virustotal_ip" -> hosts(a.body)
        [] q = "shodan" -> hosts(a.body.hostnames \o a.body.domains)
        [] q = "wayback_cdx" -> named("URL", [i \in DOMAIN a.body |-> a.body[i].url])
        [] q \in {"github_user", "github_email"} -> named("PERSON", a.body)
        [] q = "opencorporates" -> named("ORGANIZATION", a.body)
        [] OTHER -> {}

\* A plugin proposes what the answer names and nothing else, and if it leaves
\* anything out, at its cap or for its length, the evidence row says so.
LossIsMarked ==
  query # "dns_whois" /\ answer.kind = "data" /\ outcome \in {"returned", "persist"} =>
    LET proposed == {<<result.entities[i].type, result.entities[i].label>> :
                       i \in DOMAIN result.entities}
        lost == Named(query, answer) \ proposed
    IN  /\ proposed \subseteq Named(query, answer)
        /\ lost # {} => /\ Len(result.evidence) = 1
                        /\ result.evidence[1].truncated \/ result.evidence[1].skipped > 0

\* A fetch that raises never passes for an empty answer: a run that goes on to
\* persist after it has evidence that says so, or none at all after a 404 that
\* means "no breach".  Screening plugins must not answer "no hits".  (A DNS
\* look-up of dns_whois and a body that is no JSON raise nothing.)
FailureIsVisible ==
  outcome = "persist" /\ answer.kind \in Failures =>
    \/ \E i \in DOMAIN result.evidence :
         result.evidence[i].status \in {"error", "unavailable", "not_found"}
    \/ query = "hibp" /\ answer.kind = "404" /\ result = Nothing

\* wayback_cdx: each URL once, in the order of its first snapshot, with the
\* earliest and the latest time at which upstream saw it.
SnapshotsAreRanges ==
  query = "wayback_cdx" /\ answer.kind = "data" =>
    LET rows == answer.body
        out  == ExtractSnapshots(rows)
        times(url) == {rows[i].ts : i \in {j \in DOMAIN rows : rows[j].url = url}}
    IN  /\ {out[i].url : i \in DOMAIN out} = {rows[i].url : i \in DOMAIN rows} \ {Junk}
        /\ \A i \in DOMAIN out :
             /\ {out[i].first, out[i].last} \subseteq times(out[i].url)
             /\ \A t \in times(out[i].url) : out[i].first <= t /\ t <= out[i].last
             /\ \A j \in DOMAIN out :
                  i < j => out[i].url # out[j].url /\ out[i].first <= out[j].first

\* virustotal.py: "Per-run cap across all categories", and so for shodan: the cap
\* spans all loops of a query, and every entity keeps its relationship.
CapSpansLoops ==
  query \in {"virustotal_domain", "virustotal_ip", "shodan"} =>
    /\ Len(result.entities) <= MaxEntities
    /\ Len(result.links) = Len(result.entities)

\* crtsh.py: "Per-run cap; excess marked as truncated in evidence".  A run over
\* more subdomains than the cap keeps those below it and a marked evidence row.
ExcessIsMarked ==
  query = "crtsh" /\ result # Nothing /\ result.evidence[1].truncated =>
    outcome \in {"returned", "persist"}
=============================================================================
