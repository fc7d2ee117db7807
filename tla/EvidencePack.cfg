\* Packs before and after a release, over changes of plan and a crash.
SPECIFICATION Spec
CONSTANTS
  Subscribers = {a}
  Senders = {s1}
  Sweeps = {z1}
  Tabs = {t1}
  Windows = {1, 2}
  None = None
  MaxObjections = 1
  MaxCrashes = 1
INVARIANTS PackVerifies DamageIsFound NoFalseNegative
PROPERTIES StatementsStand EarnedIsKept
CHECK_DEADLOCK FALSE
