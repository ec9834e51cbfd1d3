\* A retired token comes back between a pass's lookup and its revocations.
SPECIFICATION Spec
CONSTANTS
  Token = {t1, t2}
  NoToken = NoToken
  Operator = {o1}
  Grace = 1
  Period = 1
  BackoffBase = 1
  BackoffMax = 2
  LedgerCap = 3
  FenceAttempts = 2
  AutoRotate = TRUE
  BackupEnabled = FALSE
  MayReinstall = TRUE
  MaxClock = 2
  MaxFaults = 0
  MaxEdits = 1
  MaxVersion = 20
INVARIANT LiveTokenValid
