\* A run whose plugin refers to an entity it never proposed; nothing else fails.
CONSTANTS
  Requests = {q1}
  Runners = {g1}
  NoProc = NoProc
  Ids = {e1, e2}
  Rels = {l1}
  NoId = NoId
  a = a
  b = b
  Labels = {a, b}
  NoLabel = NoLabel
  Confs = {1, 2}
  Blobs = {"payload"}
  Results <- MCResults
  MaxSessions = 5
  Faults = {}
SPECIFICATION Spec
PROPERTY AllOrNothing
CHECK_DEADLOCK FALSE
