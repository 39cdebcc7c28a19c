SPECIFICATION Spec
CONSTANTS
  asset1 = asset1
  asset2 = asset2
  Domains = {"fiat"}
  Assets = {asset1, asset2}
  FirstAssets <- FirstOfDomain
  Runs = {r1}
  PageRows = 1
  Limit = 1
  MaxRetries = 1
  Free = Free
  Orphan = Orphan
  NoAsset = NoAsset
  FirstDay = 2
  MaxDay = 3
  MaxFaults = 1
  MaxEdits = 1
INVARIANT FlagMeansHistory
CHECK_DEADLOCK FALSE
