\* A page that no tier can read.
SPECIFICATION Spec
CONSTANTS
  Sources = {x1}
  Sweeps = {s1}
  PerSource = 2
  TenantLimit = 6
  LastDay = 1
  MaxSpends = 3
  MaxCrashes = 0
INVARIANTS OneFreeAttempt
CHECK_DEADLOCK FALSE
