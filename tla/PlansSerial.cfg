\* One job, webhook or request at a time; Paddle's events in order.
SPECIFICATION FairSpec
CONSTANTS
  Hooks = {h1}
  Requests = {r1}
  Names = {n1, n2}
  None = None
  Trials = Trials
  FreeLimit = 1
  StarterLimit = 2
  GrowthLimit = 2
  MaxPages = 2
  MaxEvents = 4
  InFlight = 1
  Ordered = TRUE
INVARIANTS InStep
PROPERTIES OldestKept AddsWithinLimit TrialsEnd
CHECK_DEADLOCK FALSE
