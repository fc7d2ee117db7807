\* One sweep at a time, with crashes, lost mails and errors.
SPECIFICATION FairSpec
CONSTANTS
  Sources = {x1}
  Sweeps = {s1}
  Pages = {p1, p2}
  None = None
  Threshold = 2
  Window = 2
  StaleAfter = 1
  MaxFaults = 1
INVARIANTS TypeOK RecoveryClearsStamps
PROPERTIES EventsRecordChanges AlertsSpaced TroubleIsTold
