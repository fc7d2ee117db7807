\* Two send requests for one notice.
SPECIFICATION Spec
CONSTANTS
  Deciders = {d1}
  Drafters = {p1}
  Senders = {s1, s2}
  Emails = {m1}
  Visits = {v1}
  Texts = {t1}
  Windows = {w1}
  None = None
  MaxCrashes = 0
INVARIANTS SentOncePerAddress
