\* One sweep at a time, over midnights and checks that die.
SPECIFICATION Spec
CONSTANTS
  Sources = {x1, x2}
  Sweeps = {s1}
  PerSource = 2
  TenantLimit = 3
  LastDay = 3
  MaxSpends = 3
  MaxCrashes = 2
INVARIANTS SourceWithinQuota TenantWithinLimit ValveIsCovered
CHECK_DEADLOCK FALSE
