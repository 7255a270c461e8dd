SPECIFICATION Spec
CONSTANTS
  Intent = {i1, i2}
  Caller = {c1, c2}
  NoIntent = NoIntent
  MaxExceptions = 2
  q1 = q1
  q2 = q2
  q3 = q3
  Asked = {q1, q2, q3}
  Issued <- MCIssued
  Expires <- MCExpires
  Demo = {q1, q2}
  Decision <- MCDecision
  ObsId = {b1, b2}
  Foreign <- MCForeign
  Runner = {r1, r2}
  None = None
  MaxTime = 2
  MaxReceipts = 2
  MaxAge = 1
INVARIANTS OneEffectEach NoBlindRetry UncertainNotFailed TrailMatches
INVARIANTS HonestTraceConforms OneExecutionEach FreshnessMasksNothing
PROPERTIES DispatchedSealed ImplementsReconciledEffect
CHECK_DEADLOCK FALSE
