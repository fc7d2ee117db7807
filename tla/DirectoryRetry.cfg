\* A failed extraction is not tried again while the page stays the same.
SPECIFICATION FairSpec
CONSTANTS
  Vendors = {v1}
  Sweeps = {s1}
  Pages = {p1, p2}
  None = None
  StaleAfter = 1
  MaxFaults = 1
PROPERTIES FailedListIsRetried
