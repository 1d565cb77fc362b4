\* Two calls at once for one composite, on a store that reads eventually consistently.
SPECIFICATION LaggingSpec
SYMMETRY AlikeCalls
CONSTANTS
  c1 = c1
  c2 = c2
  k1 = k1
  k2 = k2
  r1 = r1
  r2 = r2
  e1 = e1
  e2 = e2
  n1 = n1
  None = None
  NoSpec = NoSpec
  ExtNames = {e1, e2}
  ObjNames = {n1}
  Keys = {k1}
  Resources = {r1}
  Calls = {c1, c2}
  Scopes = {"orphaned", "all"}
  Requests <- WritingRequests
  Exclusive = FALSE
  MaxFaults = 2
  MaxPast = 2
PROPERTIES
  FailedDeleteIsRetried
  OnlyUnseenNamesAreLost
