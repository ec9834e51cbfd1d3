\* Two operator processes unseal one pod while the key Secret is edited.
SPECIFICATION FairSpec
CONSTANTS
  Operator = {o1, o2}
  Pod = {p1}
  g1 = g1
  g2 = g2
  bad = bad
  torn = torn
  Share <- Shares
  GoodShare <- Good
  Malformed <- Torn
  Threshold = 2
  KeyFile <- FilesOrNone
  MaxFaults = 1
  MaxOutages = 1
  MaxEdits = 1
INVARIANT TypeOK
PROPERTIES PodsOpen OpenReported SealedReported FailureReported
