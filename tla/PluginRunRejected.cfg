\* Nothing fails, but the plugin does not accept the entity of the run.
CONSTANTS
  Runs = {r1}
  Workers = {w1, w2}
  NoRun = NoRun
  Rejected = {r1}
  MaxTries = 2
  SweeperWired = FALSE
  Faults = {}
  Exposed = {}
SPECIFICATION Spec
INVARIANT FinishedJobIsTerminal
CHECK_DEADLOCK FALSE
