\* A chat that was created is forgotten when the replay of its request is refused by
\* an update lease or a policy change: expected to fail.
CONSTANTS
  None = None
  Configs = {k1}
  MaxKeys = 2
  MaxRequests = 2
  MaxDrops = 1
  MaxFlips = 0
  MaxReloads = 0
  MaxLostSaves = 0
SPECIFICATION Spec
INVARIANTS NeverTwice
CHECK_DEADLOCK FALSE
