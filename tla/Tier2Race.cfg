\* Two sweeps spend together.
SPECIFICATION Spec
CONSTANTS
  Sources = {x1}
  Sweeps = {s1, s2}
  PerSource = 2
  TenantLimit = 6
  LastDay = 1
  MaxSpends = 3
  MaxCrashes = 0
INVARIANTS SourceWithinQuota
CHECK_DEADLOCK FALSE
