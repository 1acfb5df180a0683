\* Every fault, a sweeper, and two workers that may work on one run at once.
CONSTANTS
  Runs = {r1, r2}
  Workers = {w1, w2}
  NoRun = NoRun
  Rejected = {r2}
  MaxTries = 2
  SweeperWired = TRUE
  Faults = {"crash", "timeout", "db", "queue_down", "lost_reply", "stalled_lease",
            "hard_delete"}
  Exposed = {r1, r2}
SPECIFICATION Spec
SYMMETRY Symmetry
INVARIANTS TypeOK SucceededIsBacked QueuedIsUntouched
PROPERTY SettledStays
\* Every run is dispatched once: when all of them are over, the system rests.
CHECK_DEADLOCK FALSE
