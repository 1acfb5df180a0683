\* No sweeper.  Processes that work on r1 die, time out and lose their
\* sessions, in any combination; r2 shares the workers with it, and
\* so does r3, which its plugin refuses.
CONSTANTS
  Runs = {r1, r2, r3}
  Workers = {w1, w2}
  NoRun = NoRun
  Rejected = {r3}
  MaxTries = 3
  SweeperWired = FALSE
  Faults = {"crash", "timeout", "db"}
  Exposed = {r1}
SPECIFICATION DeployedSpec
INVARIANTS AtMostOnce InPlace
PROPERTIES MovesKept LifecycleKept
CHECK_DEADLOCK FALSE
