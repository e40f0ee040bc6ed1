SPECIFICATION FairProcessSpec
CONSTANTS
  Tables = {"links", "services"}
  Indexed = {"links"}
  Loops = {"scan", "retention", "outbox"}
  CleanupHours = 2
  MaxFaults = 2
INVARIANTS LoopsFollowSetup StartsRepeatSafely
PROPERTIES HistoryIsCleaned
