SPECIFICATION Spec
CONSTANTS
  Pairs = {p1, p2, p3}
  Workflows = {w1}
  Backstop = Backstop
  Users = {}
  Kinds = {"retry"}
  Churn = {}
  BatchSize = 2
  PSI_MAX_ATTEMPTS = 1
  CronEnabled = TRUE
  MayBeOverdue = FALSE
  MaxCrashes = 0
  MaxRejects = 0
  NoticeCap = 0
INVARIANTS FailedMeansNothingSucceeded
CHECK_DEADLOCK FALSE
