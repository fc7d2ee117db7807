\* The operator's own tenant, whose trial runs out.
SPECIFICATION FairSpec
CONSTANTS
  Scheduled = scheduled
  Triggers = {}
  None = None
  Operator = TRUE
  Interval = 2
  MaxAge = 4
  Grace = 1
  MaxRun = 2
  MaxFaults = 1
PROPERTIES OperatorIsChecked
