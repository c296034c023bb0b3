SPECIFICATION FairSpec
CONSTANTS
  Pairs = {p1, p2}
  Workflows = {w1, w2}
  Backstop = Backstop
  Users = {}
  Kinds = {"site"}
  Churn = {}
  BatchSize = 2
  PSI_MAX_ATTEMPTS = 1
  CronEnabled = TRUE
  MayBeOverdue = FALSE
  MaxCrashes = 1
  MaxRejects = 0
  NoticeCap = 0
PROPERTIES NeverStuckOpen
CHECK_DEADLOCK FALSE
