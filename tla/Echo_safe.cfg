SPECIFICATION Spec
CONSTANTS
  Event = {e1, e2, e3}
  Content = {c1, c2}
  KeyId = {k1, k2}
  Material = {m1, m2}
  k1 = k1  k2 = k2  m1 = m1  m2 = m2
  KeyRings <- Rotation
  Thread = {t1, t2}
  None = None
  MaxEvents = 2
  MaxDeliveries = 2
  MaxCheckpoints = 2
  MaxFaults = 1
SYMMETRY Symmetry
INVARIANTS VerdictsHold DeliveriesCounted ChainVerifies ReturnedKept NoFalseAlarm
PROPERTIES ImplementsProvenance
