\* One turn and four chunks; a stop waits for the buffer for a bounded time only.
CONSTANTS
  Turns = {t1}
  Keys = {k1, k2}
  None = None
  Limit = 2
  MaxChunks = 4
  MaxRestarts = 0
  MaxFailures = 0
SPECIFICATION Spec
INVARIANTS StaysInTurn
\* The system may stop: the turns are over and every chunk is stored.
CHECK_DEADLOCK FALSE
