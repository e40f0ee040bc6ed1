SPECIFICATION FairSpec
CONSTANTS
  v1 = v1
  v2 = v2
  s1 = s1
  s2 = s2
  Events = {v1}
  Subs = {s1, s2}
  Loop = Loop
  Admin = Admin
  None = None
  Wants <- WantsAll
  MaxAttempts = 2
  MaxRetries = 1
  MaxDisturbances = 1
INVARIANTS NeverSentTwice PostsBounded
PROPERTIES OnlyRetryReopens RemovedHasNothingNew ImplementsDelivery EverythingSettles
