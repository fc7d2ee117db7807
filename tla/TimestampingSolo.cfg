\* One sweep at a time, as the in-process scheduler runs them.
SPECIFICATION Spec
CONSTANTS
  e1 = e1
  e2 = e2
  x1 = x1
  d1 = d1
  d2 = d2
  g1 = g1
  g2 = g2
  Events = {e1, e2}
  Sources = {x1}
  SourceOf <- MCSourceOf
  Sweeps = {s1}
  Tabs = {t1}
  Digests = {d1, d2}
  Stamps = {g1, g2}
  NoDigest = NoDigest
  NoToken = NoToken
  Nothing = Nothing
  MaxAttempts = 3
  MaxFaults = 2
  MaxRetries = 2
INVARIANTS TokenCoversBaseline
PROPERTIES FollowsDiagram
