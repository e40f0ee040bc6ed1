SPECIFICATION FairSpec
CONSTANTS
  Jobs = {j1, j2}
  Keys = {k1, k2}
  NoKey = NoKey
  MaxActive = 1
  MaxResets = 1
INVARIANT SessionsHold
PROPERTIES OnlyConfirmedReplaces SlotsComeBack ResetEndsTerminals
