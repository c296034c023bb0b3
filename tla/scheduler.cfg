SPECIFICATION FairSpec
CONSTANTS
  Runs = {r1, r2, r3}
  Ticks = {t1, t2}
  Callers = {c1}
  Crons = {daily, weekly}
  None = None
  MaxSaves = 1
  MaxCrashes = 1
INVARIANTS TypeOK  FiredOnce
PROPERTIES  NextHeals
CHECK_DEADLOCK FALSE
