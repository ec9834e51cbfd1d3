\* Two operator processes overlap; nobody else writes the Secret.
SPECIFICATION Spec
CONSTANTS
  Token = {t1, t2, t3}
  NoToken = NoToken
  Operator = {o1, o2}
  Grace = 1
  Period = 1
  BackoffBase = 1
  BackoffMax = 2
  LedgerCap = 3
  FenceAttempts = 2
  AutoRotate = TRUE
  BackupEnabled = FALSE
  MayReinstall = FALSE
  MaxClock = 1
  MaxFaults = 2
  MaxEdits = 0
  MaxVersion = 9
CONSTRAINT VersionBound
SYMMETRY Symmetry
INVARIANTS TypeOK LiveTokenValid RevocationInv NoLostCredential OneSwapInDoubt BackoffOfLiveToken
PROPERTY RefinesCustody
