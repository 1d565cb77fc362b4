\* Policies, renames, disasters, failures and lost responses; restore-only on and off.
SPECIFICATION ReconcileSpec
CONSTANTS
  c1 = c1
  k1 = k1
  r1 = r1
  e1 = e1
  e2 = e2
  n1 = n1
  n2 = n2
  None = None
  NoSpec = NoSpec
  Resources = {r1}
  ExtNames = {e1, e2}
  ObjNames = {n1}
  Calls = {c1}
  Keys = {k1}
  Scopes = {"orphaned"}
  Requests = {}
  Exclusive = TRUE
  MaxFaults = 1
  KeyOf <- OneKey
  Drives <- NormalOrRestoreOnly
  Templates <- OrphanOrDelete
  MaxEdits = 5
  MaxSwitches = 1
  MaxRenames = 1
  MaxDisasters = 1
  MaxDrops = 1
INVARIANTS
  ReconcileTypeOK
PROPERTIES
  NoDuplicate
  NeverAdoptsDeleted
  SettledStays
  OneAnswerSettles
