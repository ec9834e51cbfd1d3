\* The normal flow: the root token is replaced before bootstrap is complete.
SPECIFICATION FairSpec
CONSTANTS
  p1 = p1
  Root = r
  a = a
  b = b
  c = c
  Operator = {p1}
  Token = {r, a, b, c}
  NoToken = NoToken
  Manual = Manual
  Temporary = Temporary
  ManageTokens = TRUE
  TokenRecovery = TRUE
  BackupToTransit = TRUE
  StoreRecoveryKeys = TRUE
  SelfHealRole = TRUE
  MaxFaults = 0
  MaxEdits = 0
PROPERTY RootRevoked
