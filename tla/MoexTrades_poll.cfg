SPECIFICATION FairSpec
CONSTANTS
  Runs = {r1, r2}
  Assets = {a}
  PageRows = 1
  PageLimit = 2
  TopN = 1
  Free = Free
  Orphan = Orphan
  NoAsset = NoAsset
  MaxTrades = 2
  MaxFaults = 2
  MaxEdits = 1
INVARIANTS NoGap OneInTime LiveOnce
PROPERTIES EventuallyStored
