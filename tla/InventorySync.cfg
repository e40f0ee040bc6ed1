SPECIFICATION Spec
CONSTANTS
  a1 = a1
  a2 = a2
  a3 = a3
  m1 = m1
  m2 = m2
  m3 = m3
  None = None
  Devices = {1, 2}
  Macs <- MCMacs
  Mac <- MCMac
  Addresses <- MCAddresses
  Placeholders = {0, 1}
  Home <- MCHome
  Sites <- MCSites
  s1 = s1
  s2 = s2
  Sessions <- MCSessions
  MaxHosts = 2
  MaxAnswers = 4
SYMMETRY SessionsSymmetry
CHECK_DEADLOCK FALSE
INVARIANTS ListIsTrue FollowsMac PlainNeverFails AliasesAreOne
PROPERTIES TakenOver StaysInSubnet
