\* Does an eventually consistent Load make a stored name disappear?
SPECIFICATION LaggingSpec
CONSTANTS
  c1 = c1
  c2 = c2
  k1 = k1
  k2 = k2
  r1 = r1
  r2 = r2
  e1 = e1
  e2 = e2
  n1 = n1
  None = None
  NoSpec = NoSpec
  ExtNames = {e1, e2}
  ObjNames = {n1}
  Keys = {k1}
  Resources = {r1, r2}
  Calls = {c1}
  Scopes = {"orphaned", "all"}
  Requests <- WritingRequests
  Exclusive = TRUE
  MaxFaults = 0
  MaxPast = 2
PROPERTIES
  NamesLeaveOnlyWhenTold
