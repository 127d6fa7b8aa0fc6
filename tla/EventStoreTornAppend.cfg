\* Three appends, one of which fails within its record.
CONSTANTS
  None = None
  Threads = {t1, t2}
  Events = {e1, e2, e3}
  MaxFaults = 0
  RestoreFails = FALSE
  MaxTorn = 1
  MaxCrashes = 1
SPECIFICATION Spec
INVARIANTS LogReadable
\* The system may stop: every event is appended and the crashes are used up.
CHECK_DEADLOCK FALSE
