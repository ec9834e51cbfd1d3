\* One operator process; users and other writers edit the Secret, and may put a
\* retired token back.
SPECIFICATION Spec
CONSTANTS
  Token = {t1, t2, t3}
  NoToken = NoToken
  Operator = {o1}
  Grace = 1
  Period = 2
  BackoffBase = 1
  BackoffMax = 2
  LedgerCap = 2
  FenceAttempts = 2
  AutoRotate = TRUE
  BackupEnabled = TRUE
  MayReinstall = TRUE
  MaxClock = 2
  MaxFaults = 1
  MaxEdits = 2
  MaxVersion = 20
CONSTRAINT VersionBound
SYMMETRY Symmetry
INVARIANTS LedgerInv LandableWriteValid NoLostCredential LedgerBounded
PROPERTY RotateNowHonoured
