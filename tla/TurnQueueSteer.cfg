\* sendTurn only: the second prompt steers while the first starts.
CONSTANTS
  p1 = p1 p2 = p2 h1 = h1 h2 = h2
  None = None
  Starter = Starter
  Prompts = {p1, p2}
  Tracked = {p1}
  Handlers = {h1, h2}
  MaxWriteFaults = 0
  MaxFaults = 0
  MaxCrashes = 0
  MaxAsks = 0
SPECIFICATION Spec
SYMMETRY HandlerSymmetry
PROPERTIES SteerCancelsTurn
\* The system may stop: the budgets are used up and nothing waits.
CHECK_DEADLOCK FALSE
