\* A disaster, failures, a lost response and one change of policy.
SPECIFICATION FairSpec
CONSTANTS
  c1 = c1
  k1 = k1
  r1 = r1
  e1 = e1
  e2 = e2
  n1 = n1
  n2 = n2
  None = None
  NoSpec = NoSpec
  Resources = {r1}
  ExtNames = {e1, e2}
  ObjNames = {n1}
  Calls = {c1}
  Keys = {k1}
  Scopes = {"orphaned"}
  Requests = {}
  Exclusive = TRUE
  MaxFaults = 2
  KeyOf <- OneKey
  Drives <- NormalOrOff
  Templates <- OrphanOrDelete
  MaxEdits = 1
  MaxSwitches = 2
  MaxRenames = 0
  MaxDisasters = 1
  MaxDrops = 1
INVARIANTS
  TrackedMeansStoredUnlessLost
PROPERTIES
  EventuallyBackedUp
  EventuallyRestored
  EventuallyQuiet
  TrackingSettles
  TrackingLostOnlyByLoss
