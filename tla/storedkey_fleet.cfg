\* One process, two pods, calls that fail and pods that restart.
SPECIFICATION FairSpec
CONSTANTS
  Operator = {o1}
  Pod = {p1, p2}
  g1 = g1
  g2 = g2
  bad = bad
  torn = torn
  Share <- Shares
  GoodShare <- Good
  Malformed <- Torn
  Threshold = 2
  KeyFile <- Files
  MaxFaults = 1
  MaxOutages = 1
  MaxEdits = 1
PROPERTY PodsOpen
