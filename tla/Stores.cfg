\* Both stores: two clients at once on different compositions; a Save at once
\* with a purge or a deletion only while a third keeps the ConfigMap alive.
SPECIFICATION StoresSpec
CONSTANTS
  c1 = c1
  c2 = c2
  k0 = k0
  k1 = k1
  k2 = k2
  r1 = r1
  r2 = r2
  e1 = e1
  None = None
  NoSpec = NoSpec
  Resources = {r1, r2}
  ExtNames = {e1}
  ObjNames = {}
  Saves <- OneOrBoth
  Clients = {c1, c2}
  Keys = {k0, k1, k2}
  Settled = {k0}
  Crowded = FALSE
  KeyLength <- NamespacedKeys
  MaxPast = 2
  StoreTypes = {"awsdynamodb", "k8sconfigmap"}
INVARIANTS
  StoresTypeOK
PROPERTIES
  ImplementsStore
