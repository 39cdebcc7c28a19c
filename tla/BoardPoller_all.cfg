\* One security, two workers, a budget in which two attempts and a pause may
\* or may not fit.
SPECIFICATION FairSpec
CONSTANTS
    Runs = {r1, r2}
    Assets = {a}
    Tick = 5
    Ttl = 4
    Budget = 3
    Latency = 0
    AttemptDeadline = 2
    MaxAttempts = 2
    FirstPause = 1
    MaxPause = 1
    Jitter = 20
    Reasons = {why}
    Free = free
    Orphan = orphan
    MaxClock = 1
    MaxFaults = 2
    MaxEdits = 1
INVARIANTS OneReader ReportIsTrue
PROPERTIES EventuallyFresh
