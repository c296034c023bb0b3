SPECIFICATION StoredSpec
CONSTANTS
  None = None
  Urls = {"/a/1", "/b/1"}
  Slugs = {"a", "b", "c"}
  SLUG <- SlugOf
  DOCUMENT <- DocumentOf
  Ingests = {i1, i2}
  BatchSize = 1
  MaxGroups = 3
  MaxEdits = 2
  MaxIngests = 2
  MaxRuns = 3
  Pages = {p}
  Writers = {w1, w2}
  Keep = 2
  MaxMeasured = 3
  Callers = {c1, c2, c3}
  KEEP_VERSIONS = 2
  MaxVersion = 4
  Measurements <- Measured
  limit = 3
  MaxRows = 4
  Steps = {s1, s2}
  max = 1
  PSI_MAX_ATTEMPTS = 2
  MaxWindow = 2
  Processes = {m1}
  Databases = {d1, d2}
  MaxRotations = 1
PROPERTIES OnlyUnlistedIsDeactivated
CHECK_DEADLOCK FALSE
