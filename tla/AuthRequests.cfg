SPECIFICATION Spec
CONSTANTS
  Requests = {r1, r2}
  Clients = {c1}
  Sessions = {s1, s2}
  Words = {w1, w2}
  Master = Master
  Classes = {k}
  Credentials = k
  Instance = k
  ApiTokens = {t1}
  Nobody = Nobody
  MaxFailures = 2
  MaxResets = 1
SYMMETRY AuthSymmetry
INVARIANTS GuessesBounded PasswordChangeEndsOthers ResetEndsAll
PROPERTIES OnlyKnownReplaces
