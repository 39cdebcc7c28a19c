SPECIFICATION FairSpec
CONSTANTS
  Clients = {c1, c2}
  Groups = {a, b}
  Malformed = Malformed
  TopN = 1
  ReadCount = 2
  MaxTickers = 1
  MaxEntries = 2
  MaxFaults = 2
INVARIANTS InOrderOnce NoLostWakeup
PROPERTIES EventuallyFresh
