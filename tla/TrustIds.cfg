SPECIFICATION FairSpec
CONSTANTS
  Machines = {m1, m2}
  MaxId = 1
  MaxToken = 2
  Codes = {c1}
  None = None
  MaxChanges = 1
INVARIANTS IdsNameOneMachine
PROPERTIES NobodyLost
