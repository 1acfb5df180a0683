\* Two request handlers and a run, every interleaving of their statements, every fault.
CONSTANTS
  Requests = {q1, q2}
  Runners = {g1}
  NoProc = NoProc
  Ids = {e1, e2}
  Rels = {l1}
  NoId = NoId
  a = a
  b = b
  Labels = {a, b}
  NoLabel = NoLabel
  Confs = {1, 2}
  Blobs = {"payload"}
  Results <- MCResults
  MaxSessions = 5
  Faults = {"db", "mirror"}
SPECIFICATION Spec
SYMMETRY Symmetry
INVARIANTS TypeOK LiveIsMirrored LinkHasEdge EdgeIsLive EvidenceHasBlob
PROPERTY LedgerKept
CHECK_DEADLOCK FALSE
