SPECIFICATION Spec
CONSTANTS
  Runs = {r1, r2, r3}
  Ticks = {t1}
  Callers = {c1}
  Crons = {daily}
  None = None
  MaxSaves = 0
  MaxCrashes = 0
INVARIANTS OneActiveRun
CHECK_DEADLOCK FALSE
