SPECIFICATION Spec
CONSTANTS
  Operation = {o1, o2}
  Worker = {w1, w2}
  MaxFaults = 2
  Controller = {c1, c2}
  Tx = {t1}
  BoundTx = {t1}
  Epoch = {e1}
  a1 = a1
  p1 = p1
  p2 = p2
  Approver = {a1}
  RoleOf <- MCRole
  RequiredRoles = {"CREATOR"}
  MinApprovals = 1
  Provider <- MCProviders
  FamilyOf <- MCFamily
  DomainOf <- MCDomain
  Families = {"LATTICE", "HASH_BASED"}
  MinDomains = 2
  NoIntent = NoIntent
  MaxLevel = 2
  MaxPolicy = 2
  MaxEmergency = 1
  MaxApproved = 2
  MaxWrecks = 1
  k1 = k1
  k2 = k2
  k3 = k3
  Coin = {k1, k2, k3}
  Sats <- MCSats
  Listing <- MCListing
  Given <- MCGiven
  MaxInputs = 2
  MaxValue = 2
  Migrator = {m1, m2}
  Nonce = {n1, n2}
  NoBinding = NoBinding
  MaxLostReplies = 1
  f1 = f1
  f2 = f2
  Feed <- MCFeed
  Reader = {r1, r2}
  NoMessage = NoMessage
  MaxRevision = 4
SYMMETRY Symmetry
INVARIANTS AnswersDurable ReleaseUnbroken ReleaseAnchored ReportedIsCommitted BatchSweptOnce
PROPERTIES CursorsAdvance ImplementsOneShot ImplementsSingleRelease
CHECK_DEADLOCK FALSE
