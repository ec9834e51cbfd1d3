\* One process heals the token while calls fail and others edit or lose what it needs.
SPECIFICATION FairSpec
CONSTANTS
  p1 = p1
  Root = r
  a = a
  b = b
  c = c
  d = d
  Operator = {p1}
  Token = {r, a, b, c, d}
  NoToken = NoToken
  Manual = Manual
  Temporary = Temporary
  ManageTokens = TRUE
  TokenRecovery = TRUE
  BackupToTransit = TRUE
  StoreRecoveryKeys = TRUE
  SelfHealRole = TRUE
  MaxFaults = 1
  MaxEdits = 1
INVARIANTS TypeOK LiveTokenNotLedgered RecoveryInv
PROPERTIES LedgerSurvives  ForceCleared
