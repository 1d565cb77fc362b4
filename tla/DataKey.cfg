\* Does every composition key serve as a data key of the ConfigMap?
SPECIFICATION StoresSpec
CONSTANTS
  c1 = c1
  c2 = c2
  k0 = k0
  k1 = k1
  k2 = k2
  r1 = r1
  r2 = r2
  e1 = e1
  None = None
  NoSpec = NoSpec
  Resources = {r1, r2}
  ExtNames = {e1}
  ObjNames = {}
  Saves <- OneOrBoth
  Clients = {c1}
  Keys = {k1, k2}
  Settled = {}
  Crowded = FALSE
  KeyLength <- ClusterScopedKeys
  MaxPast = 2
  StoreTypes = {"k8sconfigmap"}
INVARIANTS
  KeysCanBeStored
