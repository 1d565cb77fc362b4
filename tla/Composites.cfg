\* Four composites over their lives, two remembered visits, every secret.
SPECIFICATION CompositesSpec
CONSTANTS
  old = old
  teamA = teamA
  teamB = teamB
  claim = claim
  g1 = g1
  k1 = k1
  s1 = s1
  s2 = s2
  None = None
  Owners = {old, teamA, teamB, claim}
  Manifest <- FourNetworks
  Annotations <- HowTheyAreAnnotated
  Generated = {g1}
  Secrets <- AllSecrets
  MaxVisits = 2
INVARIANTS
  CompositesTypeOK
  KeysAreDistinct
  MigrationFindsBackup
  PipelineMakesNoDifference
  CredentialsAreOfDefault
