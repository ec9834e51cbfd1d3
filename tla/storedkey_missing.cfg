\* The key Secret may be missing while the pod is sealed.
SPECIFICATION FairSpec
CONSTANTS
  Operator = {o1}
  Pod = {p1}
  g1 = g1
  g2 = g2
  bad = bad
  torn = torn
  Share <- Shares
  GoodShare <- Good
  Malformed <- Torn
  Threshold = 2
  KeyFile <- FilesOrNone
  MaxFaults = 0
  MaxOutages = 1
  MaxEdits = 1
PROPERTY ReadyMeansUnsealed
