\* A triggered cycle beside those of the scheduler.
SPECIFICATION FairSpec
CONSTANTS
  Scheduled = scheduled
  Triggers = {t1}
  None = None
  Operator = FALSE
  Interval = 1
  MaxAge = 2
  Grace = 1
  MaxRun = 1
  MaxFaults = 1
INVARIANTS GreenMeansWorked NoFalseAlarm LastErrorIsCurrent
PROPERTIES DueIsChecked
