\* Two windows, two updates, no lost connection.
CONSTANTS
  None = None
  Windows = {w1, w2}
  MaxDrops = 0
  MaxAttempts = 2
SPECIFICATION Spec
PROPERTIES CutsNothingOff
\* The system may stop: the updates are over and nothing is at work.
CHECK_DEADLOCK FALSE
