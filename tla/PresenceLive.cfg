SPECIFICATION FairSpec
CONSTANTS
  d1 = d1
  d2 = d2
  p1 = p1
  p2 = p2
  p3 = p3
  Devices = {d1, d2}
  Serviced = {d1}
  Agents = {d1}
  Alerting = {d1, d2}
  Hidden = {d2}
  Outside = {}
  Passes = {p1, p2, p3}
  Kind <- KindLoops
  Thresholds = {2}
  BatchSize = 1
  MaxMissed = 2
  MaxDisturbances = 1
PROPERTIES ShownAsItIs
