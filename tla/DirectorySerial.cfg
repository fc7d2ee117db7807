\* One sweep at a time, with crashes, errors and failed extractions.
SPECIFICATION FairSpec
CONSTANTS
  Vendors = {v1}
  Sweeps = {s1}
  Pages = {p1, p2}
  None = None
  StaleAfter = 2
  MaxFaults = 2
INVARIANTS PublishedHasList FreshWasRead
PROPERTIES NoSilentMove RefusalIsHonoured
