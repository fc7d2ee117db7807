\* Two sweeps work on one row.
SPECIFICATION Spec
CONSTANTS
  e1 = e1
  e2 = e2
  x1 = x1
  d1 = d1
  d2 = d2
  g1 = g1
  g2 = g2
  Events = {e1}
  Sources = {x1}
  SourceOf <- MCSourceOf
  Sweeps = {s1, s2}
  Tabs = {t1}
  Digests = {d1, d2}
  Stamps = {g1}
  NoDigest = NoDigest
  NoToken = NoToken
  Nothing = Nothing
  MaxAttempts = 2
  MaxFaults = 0
  MaxRetries = 1
PROPERTIES FollowsDiagram
