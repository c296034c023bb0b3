SPECIFICATION Spec
CONSTANTS
  Pairs = {p1, p2}
  Workflows = {w1, w2}
  Backstop = Backstop
  Users = {}
  Kinds = {"site", "pages"}
  Churn = {p2}
  BatchSize = 1
  PSI_MAX_ATTEMPTS = 1
  CronEnabled = TRUE
  MayBeOverdue = TRUE
  MaxCrashes = 0
  MaxRejects = 0
  NoticeCap = 0
PROPERTIES  ClosedStaysClosed 
SYMMETRY SlotsInterchangeable
CHECK_DEADLOCK FALSE
