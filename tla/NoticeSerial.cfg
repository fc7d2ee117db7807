\* One request of each kind at a time; a process may die once.
SPECIFICATION Spec
CONSTANTS
  Deciders = {d1}
  Drafters = {p1}
  Senders = {s1}
  Emails = {m1, m2}
  Visits = {v1}
  Texts = {t1, t2}
  Windows = {w1, w2}
  None = None
  MaxCrashes = 1
INVARIANTS CountIsRows
PROPERTIES KeepsPromise
