SPECIFICATION FairSpec
CONSTANTS
  Pairs = {p}
  Malformed = Malformed
  ReadCount = 2
  Gap = 2
  Ceiling = 3
  Interval = 1
  MaxEntries = 3
  MaxTime = 4
  MaxFaults = 1
  MaxEdits = 1
INVARIANTS TrimSparesUnsettled NoSilentLoss RecentTailKept PelHoldsOneBatch
PROPERTIES ImplementsSink EventuallySettled
CHECK_DEADLOCK FALSE
