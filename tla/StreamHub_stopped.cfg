SPECIFICATION FairSpec
CONSTANTS
  Clients = {c1, c2}
  Groups = {a}
  Malformed = Malformed
  TopN = 1
  ReadCount = 2
  MaxTickers = 1
  MaxEntries = 0
  MaxFaults = 1
PROPERTIES StoppedHubIsReplaced
