SPECIFICATION FairScansSpec
CONSTANTS
  c1 = c1
  Subnets = {1, 2}
  Skipped = {}
  Restless = {1}
  Timers = {"quick"}
  Hearers = {"relay"}
  Clients = {c1}
  Requests <- DashboardOfFirst
  MaxMishaps = 1
INVARIANTS ScanIsShown
PROPERTIES ScanEnds ListFollowsHosts
