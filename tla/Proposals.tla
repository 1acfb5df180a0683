------------------------------ MODULE Proposals ------------------------------
(***************************************************************************)
(* What the built-in plugins (plugins/builtin/) make of the answer of      *)
(* their upstream service: entities, relationships between them and the    *)
(* plugin's input, and the evidence row that says how complete they are.   *)
(*                                                                         *)
(* An answer is the sequence of its items in upstream's order.  A name is  *)
(* a host, an address, a URL, a login or a company that the plugin's       *)
(* filter accepts; everything a filter rejects is Junk.                    *)
(***************************************************************************)
EXTENDS Naturals, Sequences, SequencesExt

CONSTANTS
  Names,         \* what an item may name
  TooLong,       \* those longer than a label may be (EntityProposal.label, MAX_URL_LEN)
  Own,           \* the label of the input entity
  Junk,          \* an item without a usable name
  MaxSubdomains, \* the cap of crtsh
  MaxEntities,   \* the cap of virustotal and shodan
  MaxSnapshots,  \* the cap of wayback_cdx
  MaxMatches     \* the cap of opencorporates

ASSUME CapsOK ==
  /\ TooLong \subseteq Names /\ {Own, Junk} \cap Names = {}
  /\ {MaxSubdomains, MaxEntities, MaxSnapshots, MaxMatches} \subseteq Nat

Hosts == Names \ TooLong

-----------------------------------------------------------------------------
(* Proposals                                                                *)

\* A ref is minted by the plugin; {"input": True} is the plugin's input.
Input == <<"input", 0>>
Entity(ref, type, label) == [ref |-> ref, type |-> type, label |-> label]
Link(src, dst, rel) == [src |-> src, dst |-> dst, rel |-> rel]

\* status is fetch_status or rdap_status; plugins that record none say "ok".
Evidence(status, truncated, skipped) ==
  <<[status |-> status, truncated |-> truncated, skipped |-> skipped]>>

Result(entities, links, evidence) ==
  [entities |-> entities, links |-> links, evidence |-> evidence]

Nothing == Result(<<>>, <<>>, <<>>)

EvidenceOnly(status) == Result(<<>>, <<>>, Evidence(status, FALSE, 0))

\* One entity for every label, numbered as enumerate does.
Numbered(prefix, type, labels) ==
  [i \in DOMAIN labels |-> Entity(<<prefix, i - 1>>, type, labels[i])]

\* The loop over a list that leaves out what it cannot use.
Keep(entities, unusable) ==
  LET Visit(acc, e) == IF e.label \in unusable THEN acc ELSE Append(acc, e)
  IN  FoldLeft(Visit, <<>>, entities)

\* Every entity points at the input.
ToInput(entities, rel) == [i \in DOMAIN entities |-> Link(entities[i].ref, Input, rel)]

-----------------------------------------------------------------------------
(* crtsh                                                                    *)

\* The loop over the lines of all certificates.  The plugin sorts the names it
\* found; which name gets which ref is immaterial here.
ExtractSubdomains(lines) ==
  LET Visit(acc, name) ==
        CASE name \notin Names -> acc
          [] name \in Names /\ Len(acc.found) >= MaxSubdomains ->
               [acc EXCEPT !.truncated = TRUE]
          [] name \in Names /\ Len(acc.found) < MaxSubdomains ->
               [acc EXCEPT !.found = IF Contains(@, name) THEN @ ELSE Append(@, name)]
  IN  FoldLeft(Visit, [found |-> <<>>, truncated |-> FALSE], lines)

CrtSh(lines) ==
  LET sub == ExtractSubdomains(lines)
      entities == Numbered("sub", "DOMAIN", sub.found)
  IN  Result(entities, ToInput(entities, "SUBDOMAIN_OF"), Evidence("ok", sub.truncated, 0))

-----------------------------------------------------------------------------
(* virustotal and shodan: loops that stop at a common cap                   *)

NoneYet == [entities |-> <<>>, links |-> <<>>, truncated |-> FALSE]

\* What a loop makes of a name: from the input or to it, once or every time.
Found(prefix, type, rel, fromInput, once) ==
  [prefix |-> prefix, type |-> type, rel |-> rel, fromInput |-> fromInput, once |-> once]

Propose(acc, label, kind) ==
  LET ref == <<kind.prefix, Len(acc.entities)>>
      link == IF kind.fromInput THEN Link(Input, ref, kind.rel) ELSE Link(ref, Input, kind.rel)
  IN  [acc EXCEPT !.entities = Append(@, Entity(ref, kind.type, label)),
                  !.links = Append(@, link)]

\* Mutation of Full: the cap is counted for each kind of entity by itself.
FullOfKind(acc, kind) ==
  Cardinality({i \in DOMAIN acc.entities : acc.entities[i].ref[1] = kind.prefix}) >= MaxEntities

\* The test at the head of each loop; one count serves the loops of a query.
Full(acc, kind) == Len(acc.entities) >= MaxEntities

Wanted(acc, label, kind) ==
  label # Junk /\ (kind.once => \A i \in DOMAIN acc.entities : acc.entities[i].label # label)

\* Mutation of Loop: stop at the cap without a word.
LoopSilently(acc, labels, kind) ==
  LET Visit(a, label) ==
        IF ~Full(a, kind) /\ Wanted(a, label, kind) THEN Propose(a, label, kind) ELSE a
  IN  FoldLeft(Visit, acc, labels)

\* One loop: break at the cap, skip what the filter rejects, propose the rest.
Loop(acc, labels, kind) ==
  LET Visit(a, label) ==
        CASE Full(a, kind) -> [a EXCEPT !.truncated = TRUE]
          [] ~Full(a, kind) /\ Wanted(a, label, kind) -> Propose(a, label, kind)
          [] ~Full(a, kind) /\ ~Wanted(a, label, kind) -> a
  IN  FoldLeft(Visit, acc, labels)

\* The items that a filter accepts; the loop sees the others too.
Filter(items, accepted) == [i \in DOMAIN items |-> IF items[i] \in accepted THEN items[i] ELSE Junk]

Capped(acc) == Result(acc.entities, acc.links, Evidence("ok", acc.truncated, 0))

\* Two loops over the DNS records of the domain: addresses, then aliases.
VirusTotalDomain(records) ==
  LET values(type, accepted) ==
        Filter([i \in DOMAIN records |-> IF records[i].type = type THEN records[i].value ELSE Junk],
               accepted)
      ips == Loop(NoneYet, values("A", Names),
                  Found("ip", "IP_ADDRESS", "RESOLVES_TO", TRUE, FALSE))
  IN  Capped(Loop(ips, values("CNAME", Hosts),
                  Found("sub", "DOMAIN", "SUBDOMAIN_OF", FALSE, FALSE)))

\* The alternative names of the address's certificate.
VirusTotalIp(names) ==
  Capped(Loop(NoneYet, Filter(names, Hosts),
              Found("domain", "DOMAIN", "RESOLVES_TO", FALSE, FALSE)))

\* The analysis of a URL names nothing: it is evidence.
VirusTotalUrl == EvidenceOnly("ok")

\* Mutation of Shodan: number the hosts of each list from zero.
ShodanRenumbered(answer) ==
  LET hosts == SelectSeq(answer.hostnames, LAMBDA h : h \in Hosts)
      others == SelectSeq(answer.domains, LAMBDA h : h \in Hosts /\ ~Contains(hosts, h))
      entities == Numbered("host", "DOMAIN", hosts) \o Numbered("host", "DOMAIN", others)
  IN  Result(entities, ToInput(entities, "RESOLVES_TO"), Evidence("ok", FALSE, 0))

\* Hostnames, then domains; a name is proposed once (seen_hostnames).
Shodan(answer) ==
  LET host == Found("host", "DOMAIN", "RESOLVES_TO", FALSE, TRUE)
      hosts == Loop(NoneYet, Filter(answer.hostnames, Hosts), host)
  IN  Capped(Loop(hosts, Filter(answer.domains, Hosts), host))

-----------------------------------------------------------------------------
(* dns_whois: every record of four lookups, and RDAP as evidence            *)

DnsWhois(records, rdap) ==
  LET a    == Numbered("ip-a", "IP_ADDRESS", records.a)
      aaaa == Numbered("ip-aaaa", "IP_ADDRESS", records.aaaa)
      ns   == Numbered("ns", "DOMAIN", records.ns)
      mx   == Numbered("mx", "DOMAIN", records.mx)
  IN  Result(a \o aaaa \o ns \o mx,
             ToInput(a \o aaaa, "RESOLVES_TO") \o ToInput(ns \o mx, "ASSOCIATED_WITH"),
             Evidence(rdap, FALSE, 0))

-----------------------------------------------------------------------------
(* wayback_cdx                                                              *)

\* Mutation of ExtractSnapshots: take it that upstream's rows ascend.
ExtractAscending(rows) ==
  LET Visit(acc, row) ==
        LET known == {i \in DOMAIN acc : acc[i].url = row.url}
        IN  CASE row.url = Junk -> acc
              [] row.url # Junk /\ known = {} ->
                   Append(acc, [url |-> row.url, first |-> row.ts, last |-> row.ts])
              [] known # {} ->
                   [i \in DOMAIN acc |->
                      IF i \in known THEN [acc[i] EXCEPT !.last = row.ts] ELSE acc[i]]
  IN  FoldLeft(Visit, <<>>, rows)

\* The rows collapsed by URL, with the first and the last time of each.
CollapseRows(rows) ==
  LET Visit(acc, row) ==
        LET known == {i \in DOMAIN acc : acc[i].url = row.url}
        IN  CASE row.url = Junk -> acc
              [] row.url # Junk /\ known = {} ->
                   Append(acc, [url |-> row.url, first |-> row.ts, last |-> row.ts])
              [] known # {} ->
                   [i \in DOMAIN acc |->
                      IF i \notin known THEN acc[i]
                      ELSE [acc[i] EXCEPT !.first = IF row.ts < @ THEN row.ts ELSE @,
                                          !.last  = IF row.ts > @ THEN row.ts ELSE @]]
  IN  FoldLeft(Visit, <<>>, rows)

\* Where list.sort, which is stable, puts the snapshot at i.
Rank(snapshots, i) ==
  Cardinality({j \in DOMAIN snapshots :
                 \/ snapshots[j].first < snapshots[i].first
                 \/ snapshots[j].first = snapshots[i].first /\ j <= i})

SortByFirst(snapshots) ==
  [k \in DOMAIN snapshots |->
     snapshots[CHOOSE i \in DOMAIN snapshots : Rank(snapshots, i) = k]]

ExtractSnapshots(rows) == SortByFirst(CollapseRows(rows))

\* Snapshots beyond the cap are cut off, URLs that are too long are skipped.
Wayback(rows, status) ==
  LET snapshots == ExtractSnapshots(rows)
      cut  == Len(snapshots) > MaxSnapshots
      kept == IF cut THEN SubSeq(snapshots, 1, MaxSnapshots) ELSE snapshots
      all  == Numbered("snap", "URL", [i \in DOMAIN kept |-> kept[i].url])
      entities == Keep(all, TooLong)
  IN  Result(entities, ToInput(entities, "ASSOCIATED_WITH"),
             Evidence(status, cut, Len(all) - Len(entities)))

-----------------------------------------------------------------------------
(* github_public and opencorporates                                         *)

\* Logins keep the number of their item; an item without one is skipped.
GithubPublic(items, status) ==
  LET entities == Keep(Numbered("gh", "PERSON", items), {Junk})
  IN  Result(entities, ToInput(entities, "ASSOCIATED_WITH"), Evidence(status, FALSE, 0))

OpenCorporates(companies, status) ==
  LET cut  == Len(companies) > MaxMatches
      kept == IF cut THEN SubSeq(companies, 1, MaxMatches) ELSE companies
  IN  Result(Keep(Numbered("co", "ORGANIZATION", kept), {Junk}), <<>>,
             Evidence(status, cut, 0))
=============================================================================
