\* Every plugin, every answer of up to four items, every failure and retry.
\* Caps to scale: 1000, 50, 500, 50 under 2000 in the code.
CONSTANTS
  n1 = n1
  n2 = n2
  n3 = n3
  n4 = n4
  Names = {n1, n2, n3, n4}
  TooLong = {n4}
  Own = Own
  Junk = Junk
  MaxItems = 3
  MaxList = 2
  MaxSubdomains = 3
  MaxEntities = 2
  MaxSnapshots = 2
  MaxMatches = 2
  Queries = {"crtsh", "virustotal_domain", "virustotal_ip", "virustotal_url", "shodan", "dns_whois", "wayback_cdx", "hibp", "github_user", "github_email", "opencorporates", "urlhaus", "aleph_occrp", "opensanctions"}
  Answers <- MCAnswers
  DnsRecords <- MCDnsRecords
  MaxAttempts = 3
  MaxProposals = 6
SPECIFICATION Spec
INVARIANTS TypeOK RefsResolve LossIsMarked FailureIsVisible SnapshotsAreRanges CapSpansLoops
\* A query ends.
CHECK_DEADLOCK FALSE
