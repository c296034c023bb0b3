SPECIFICATION AppSpec
\* Sets of one size share their values, which keeps the symmetry group small.
CONSTANTS
  Orgs = {o1, o2}
  Databases = {d1, d2, d3}
  Admins = {a1, a2}
  Requests = {q1, q2}
  None = None
  MAX_CACHED_TENANT_CLIENTS = 1
  MaxSaves = 4
  MaxCrashes = 1
  Emails = {d1, d2, d3}
  Organizations = {g}
  Calls = {a1, a2}
  Granted = {"admin", "viewer"}
  MaxUsers = 3
  MaxInvites = 2
  MaxCalls = 5
  Users = {u}
  Passwords = {o1, o2}
  UserOrgs = {q1, q2}
  Browsers = {b1, b2}
  Address = Address
  KEY <- KeyOf
  LOGIN_MAX = 1
  MaxLinks = 2
  MaxSignInCalls = 3
  Groups = {1, 2, 3}
  SITEMAP <- SitemapOf
  Lists = {a1, a2}
  Tabs = {a1, a2}
  TAB <- TabOf
  MaxMoves = 3
  MaxEdits = 1
  MaxFailures = 1
  Runs = {q1, q2}
SYMMETRY Interchangeable
INVARIANT Managed
CHECK_DEADLOCK FALSE
