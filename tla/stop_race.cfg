SPECIFICATION Spec
CONSTANTS
  Pairs = {p1, p2}
  Workflows = {w1}
  Backstop = Backstop
  Users = {u1}
  Kinds = {"site"}
  Churn = {}
  BatchSize = 2
  PSI_MAX_ATTEMPTS = 1
  CronEnabled = FALSE
  MayBeOverdue = FALSE
  MaxCrashes = 0
  MaxRejects = 0
  NoticeCap = 0
PROPERTIES StoppedStaysStopped
CHECK_DEADLOCK FALSE
