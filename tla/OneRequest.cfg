\* One call after another for one composite with two resources.
SPECIFICATION Spec
CONSTANTS
  c1 = c1
  c2 = c2
  k1 = k1
  k2 = k2
  r1 = r1
  r2 = r2
  e1 = e1
  e2 = e2
  n1 = n1
  None = None
  NoSpec = NoSpec
  Resources = {r1, r2}
  ExtNames = {e1, e2}
  ObjNames = {n1}
  Calls = {c1}
  Keys = {k1}
  Scopes = {"orphaned", "all"}
  Requests <- AllRequests
  Exclusive = TRUE
  MaxFaults = 2
INVARIANTS
  TypeOK
  CacheCoherent
PROPERTIES
  NamesLeaveOnlyWhenTold
  TrackingIsBacked
  RestoresStoredName
