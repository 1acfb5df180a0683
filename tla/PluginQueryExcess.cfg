\* crtsh alone, with one name more than its cap; the caps keep the ratio of the
\* code's, 1000 subdomains under 2000 proposals.
CONSTANTS
  n1 = n1
  n2 = n2
  n3 = n3
  n4 = n4
  Names = {n1, n2, n3, n4}
  TooLong = {}
  Own = Own
  Junk = Junk
  MaxItems = 3
  MaxList = 2
  MaxSubdomains = 3
  MaxEntities = 2
  MaxSnapshots = 2
  MaxMatches = 2
  Queries = {"crtsh"}
  Answers <- MCAnswers
  DnsRecords = {}
  MaxAttempts = 3
  MaxProposals = 6
SPECIFICATION Spec
INVARIANT ExcessIsMarked
CHECK_DEADLOCK FALSE
