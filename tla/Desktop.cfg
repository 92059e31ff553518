SPECIFICATION DesktopSpec
CONSTANTS
  Nobody = Nobody
  None = None
  Slugs = {"a", "b"}
  Paths = {"/", "/a/issues", "/a/inbox", "/b/issues"}
  SlugOf <- MCSlugOf
  IssuesOf <- MCIssuesOf
  Root = "/"
  MaxTabs = 3
  V1Stores <- MCV1Stores
  u1 = u1
  u2 = u2
  Users = {u1, u2}
  Plans <- MCPlans
  MaxCalls = 2
INVARIANTS DesktopTypeOK TabsSound  RestartsIdle
PROPERTIES PinnedStays TabsStayHome LastKept StatusSettles UpgradeGoesOn
CHECK_DEADLOCK FALSE
