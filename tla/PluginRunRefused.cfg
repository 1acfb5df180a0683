\* The queue does not take the job; nothing else goes wrong.
CONSTANTS
  Runs = {r1}
  Workers = {w1, w2}
  NoRun = NoRun
  Rejected = {}
  MaxTries = 2
  SweeperWired = FALSE
  Faults = {"queue_down"}
  Exposed = {r1}
SPECIFICATION Spec
PROPERTY MovesKept
CHECK_DEADLOCK FALSE
