SPECIFICATION FairSpec
CONSTANTS
  Pairs = {1, 2}
  MaxStreams = 1
  MaxParams = 1
  Streamer = Streamer
  Watcher = Watcher
  Nobody = Nobody
  Requests = {r1, r2}
  ReadCount = 1
  MaxEdits = 2
  MaxFaults = 2
INVARIANTS BeliefIsTrue StreamsWithinLimit CaughtUp
PROPERTIES RecoveryFindsMissed Converges
CHECK_DEADLOCK FALSE
