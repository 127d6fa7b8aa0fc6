\* What must go on in the end, each part over a small instance (see MCProgress).
CONSTANTS
  None = None t1 = t1 t2 = t2 top = top sub = sub tree = tree repository = repository
  k1 = k1 k2 = k2 b1 = b1 a1 = a1 a2 = a2 r1 = r1 r2 = r2 p1 = p1
SPECIFICATION ProgressLiveSpec
PROPERTIES QueueRuns Completes IsSettled TasksSettle Reconnects
\* The parts may stop: their requests and faults are used up.
CHECK_DEADLOCK FALSE
