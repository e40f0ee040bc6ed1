SPECIFICATION Spec
CONSTANTS
  a1 = a1
  a2 = a2
  a3 = a3
  a4 = a4
  Devices = {1, 2, 3, 4}
  Addresses <- McAddresses
  Ports = {22, 80}
  Discovered <- McDiscovered
  Agents = {3}
  Segment <- McSegment
  Signals <- McSignals
  Gateway <- McGateway
  FirstDevices <- McDevices
  FirstServices <- McServices
  FirstLinks <- McLinks
  Tasks = {t1, t2}
  MaxService = 5
  MaxRequests = 3
SYMMETRY TaskSymmetry
CHECK_DEADLOCK FALSE
INVARIANTS NothingSetUpIsLost AddressesHold CachesAreCurrent
