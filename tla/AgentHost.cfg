SPECIFICATION FairHostSpec
CONSTANTS
  Slots = {p1, p2, p3}
  MaxGen = 2
  MaxSet = 2
  MaxFaults = 2
CHECK_DEADLOCK FALSE
INVARIANTS InstallHolds
PROPERTIES OneAgentWorks
