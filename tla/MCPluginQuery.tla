---------------------------- MODULE MCPluginQuery ----------------------------
(* Instantiates PluginQuery for TLC.                                        *)
EXTENDS PluginQuery

CONSTANTS n1, n2, n3, n4, MaxItems, MaxList

\* One more name than the largest cap, in every order, with repetitions.
MCAnswers(q) ==
  CASE q = "crtsh" -> BoundedSeq(Items \cup {Own}, MaxItems + 1)
    [] q = "virustotal_domain" ->
         BoundedSeq([type : {"A", "CNAME"}, value : Names \cup {Own}]
                      \cup {[type |-> "TXT", value |-> Junk]}, MaxItems)
    [] q = "shodan" ->
         [hostnames : BoundedSeq(Items, MaxList), domains : BoundedSeq(Items, MaxList)]
    [] q = "wayback_cdx" -> BoundedSeq([ts : 1..2, url : Items], MaxItems)
    [] q = "github_user" -> BoundedSeq(Items, 1)
    [] q \in {"virustotal_ip", "github_email", "opencorporates"} -> BoundedSeq(Items, MaxItems)
    [] OTHER -> {<<>>}

\* A name server may be the domain itself; the resolver drops blank answers.
MCDnsRecords ==
  LET lookup == BoundedSeq(Hosts \cup {Own}, 1)
  IN  [a : lookup, aaaa : lookup, ns : lookup, mx : lookup]
=============================================================================
