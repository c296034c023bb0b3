SPECIFICATION Spec
CONSTANTS
  Pairs = {p1, p2, p3}
  Workflows = {w1}
  Backstop = Backstop
  Users = {u1, u2}
  Kinds = {"site", "pages", "retry"}
  Churn = {p3}
  BatchSize = 2
  PSI_MAX_ATTEMPTS = 2
  CronEnabled = FALSE
  MayBeOverdue = FALSE
  MaxCrashes = 2
  MaxRejects = 1
  NoticeCap = 2
INVARIANTS TypeOK CountersMatchRows ClosedMeansMeasured FailedMeansNothingSucceeded OneNotice HoldIsBounded
CHECK_DEADLOCK FALSE
SYMMETRY Alike
