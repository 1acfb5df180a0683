\* Two requests on one entity, and nothing fails.
CONSTANTS
  Requests = {q1, q2}
  Runners = {}
  NoProc = NoProc
  Ids = {e1}
  Rels = {}
  NoId = NoId
  a = a
  b = b
  Labels = {a, b}
  NoLabel = NoLabel
  Confs = {1, 2}
  Blobs = {}
  Results = {}
  MaxSessions = 5
  Faults = {}
SPECIFICATION Spec
INVARIANT MirrorInSync
CHECK_DEADLOCK FALSE
