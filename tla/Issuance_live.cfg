SPECIFICATION FairSpec
CONSTANTS
  Request = {r1, r2}
  Params = {p1, p2}
  Identity = {i1, i2, i3}
  KeyId = {k1, k2}
  Material = {m1, m2}
  k1 = k1  k2 = k2  m1 = m1  m2 = m2
  KeyRings <- OneRing
  Thread = {t1, t2}
  None = None
  MaxRecords = 1
  MaxFaults = 2
PROPERTIES PreparedAnswered
