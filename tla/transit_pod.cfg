\* One process and its Vault pod: initialization, seals, drift, configuration.
SPECIFICATION FairSpec
CONSTANTS
  o1 = o1
  Operator = {o1}
  Grace = 2
  BootTime = 1
  Asked = {{"kv", "bootstrap"}, {"kv", "eso", "bootstrap"}}
  MaxFaults = 1
  MaxOutages = 1
  MaxEdits = 1
INVARIANTS TypeOK FlagsTruthful FlagsInv
PROPERTIES StaysOpen LossShown DriftReported FeaturesConfigured
