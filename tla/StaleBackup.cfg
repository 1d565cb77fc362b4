\* Is a name that changes, and changes back, backed up in the end?
SPECIFICATION FairSpec
CONSTANTS
  c1 = c1
  k1 = k1
  r1 = r1
  e1 = e1
  e2 = e2
  n1 = n1
  n2 = n2
  None = None
  NoSpec = NoSpec
  Resources = {r1}
  ExtNames = {e1, e2}
  ObjNames = {n1}
  Calls = {c1}
  Keys = {k1}
  Scopes = {"orphaned"}
  Requests = {}
  Exclusive = TRUE
  MaxFaults = 0
  KeyOf <- OneKey
  Drives <- AlwaysNormal
  Templates <- Orphaned
  MaxEdits = 0
  MaxSwitches = 0
  MaxRenames = 2
  MaxDisasters = 0
  MaxDrops = 0
PROPERTIES
  EventuallyBackedUp
