SPECIFICATION Spec
CONSTANTS
  p1 = p1
  p2 = p2
  i1 = i1
  i2 = i2
  n1 = n1
  n2 = n2
  ground = ground
  hadal = hadal
  k1 = k1
  None = None
  Prime = {p1, p2}
  Environment = {ground, hadal}
  Hazardous = {hadal}
  Check = {c1}
  Key = {k1}
  Handler = {h1, h2}
  AuthId = {i1, i2}
  Nonce = {n1, n2}
  Assertion <- MCAssertion
  Genuine <- MCGenuine
  KeyRings <- MCKeyRings
  MaxPending = 1
  MaxDelivered = 2
  PassportSize = 1
  OpenSize = 1
  ClosedSize = 2
  PendingSize = 2
  KeptSize = 3
  SizeLimit = 9
  OtherSizes = {0, 4}
SYMMETRY Symmetry
INVARIANTS
  GrantBacked
PROPERTIES
  RecordsClose
  ReleaseAuthorized
  ImplementsRelease
