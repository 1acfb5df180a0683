\* Nothing fails, but the sweeper runs while a worker is busy with a run that has
\* waited in the queue.
CONSTANTS
  Runs = {r1}
  Workers = {w1, w2}
  NoRun = NoRun
  Rejected = {}
  MaxTries = 2
  SweeperWired = TRUE
  Faults = {}
  Exposed = {}
SPECIFICATION Spec
PROPERTY TerminalIsFinal
CHECK_DEADLOCK FALSE
