SPECIFICATION Spec
CONSTANTS
  Devices = {d1, d2}
  TicksPerHour = 2
  HoursPerDay = 2
  Retentions <- KeepEither
  FirstRetention <- KeepLess
  WindowLengths = {2, 4, 7}
  CommitEvery = 2
  MaxClock = 8
  MaxSamples = 2
  MaxDisruptions = 1
  MaxRunTicks = 1
SYMMETRY DeviceSymmetry
CHECK_DEADLOCK FALSE
INVARIANTS TiersHold AddsNothingTwice CaughtUp QueriesAreExact
