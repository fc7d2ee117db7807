\* Requests of a kind overlap, and one dies.
SPECIFICATION Spec
CONSTANTS
  Deciders = {d1, d2}
  Drafters = {p1, p2}
  Senders = {s1, s2}
  Emails = {m1}
  Visits = {v1}
  Texts = {t1, t2}
  Windows = {w1}
  None = None
  MaxCrashes = 1
INVARIANTS ReleasedWasSeen MailNeedsRelease MailIsAccounted
PROPERTIES ReviewActionIsFinal
