\* Webhooks early, late, repeated and out of order.
SPECIFICATION LogFairSpec
CONSTANTS
  Recipients = {m1}
  Types = {"delivered", "bounced", "failed", "deferred", "complained"}
INVARIANTS BounceIsCounted
PROPERTIES GapIsSticky ReportsReachLog
