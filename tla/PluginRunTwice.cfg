\* A lease may lapse under a live worker; nothing else goes wrong.
CONSTANTS
  Runs = {r1}
  Workers = {w1, w2}
  NoRun = NoRun
  Rejected = {}
  MaxTries = 2
  SweeperWired = FALSE
  Faults = {"stalled_lease"}
  Exposed = {r1}
SPECIFICATION Spec
INVARIANT AtMostOnce
CHECK_DEADLOCK FALSE
