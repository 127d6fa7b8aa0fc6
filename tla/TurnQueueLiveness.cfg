\* No symmetry: it is not sound for liveness.  No fault: a fault may leave the
\* queue blocked until a restart, as the code intends.
CONSTANTS
  p1 = p1 p2 = p2 h1 = h1 h2 = h2
  None = None
  Starter = Starter
  Prompts = {p1, p2}
  Tracked = {p1}
  Handlers = {h1, h2}
  MaxWriteFaults = 0
  MaxFaults = 0
  MaxCrashes = 1
  MaxAsks = 1
SPECIFICATION FairSpec

PROPERTIES QueueDrains AcceptedIsSettled
\* The system may stop: the budgets are used up and nothing waits.
CHECK_DEADLOCK FALSE
