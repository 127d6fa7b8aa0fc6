\* A submission and a scheduled prompt, two requests at a time.  With a failed write
\* or crashes one request besides sendTurn and one other fault, else two of each.
CONSTANTS
  p1 = p1 p2 = p2 h1 = h1 h2 = h2
  None = None
  Starter = Starter
  Prompts = {p1, p2}
  Tracked = {p1}
  Handlers = {h1, h2}
  MaxWriteFaults = 1
  MaxFaults = 2
  MaxCrashes = 2
  MaxAsks = 2
SPECIFICATION Spec
SYMMETRY HandlerSymmetry
CONSTRAINT Budget
INVARIANTS SubmittedOnce AcceptedBeforeStart AcceptedIsDurable ActiveTurnIsDriven OldPromptsAreCancelled
PROPERTIES DroppedStaysDropped LaunchAfterCancel
\* The system may stop: the budgets are used up and nothing waits.
CHECK_DEADLOCK FALSE
