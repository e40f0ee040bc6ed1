SPECIFICATION Spec
CONSTANTS
  d1 = d1
  d2 = d2
  p1 = p1
  p2 = p2
  p3 = p3
  Devices = {d1}
  Serviced = {}
  Agents = {d1}
  Alerting = {d1}
  Hidden = {}
  Outside = {}
  Passes = {p1, p2, p3}
  Kind <- KindScans
  Thresholds = {1, 2}
  BatchSize = 1
  MaxMissed = 2
  MaxDisturbances = 1
INVARIANTS OutageIsReported
PROPERTIES OfflineAfterConsecutiveMisses
