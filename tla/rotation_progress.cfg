\* One operator process under fairness: swaps settle, retired tokens are
\* revoked, forced rotations happen.
SPECIFICATION FairSpec
CONSTANTS
  Token = {t1, t2, t3}
  NoToken = NoToken
  Operator = {o1}
  Grace = 1
  Period = 2
  BackoffBase = 1
  BackoffMax = 2
  LedgerCap = 3
  FenceAttempts = 2
  AutoRotate = TRUE
  BackupEnabled = FALSE
  MayReinstall = FALSE
  MaxClock = 2
  MaxFaults = 1
  MaxEdits = 1
  MaxVersion = 20
PROPERTIES SwapSettles RetiredTokenRevoked ForcedRotationHappens
