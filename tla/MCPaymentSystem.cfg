\* CHECK_DEADLOCK FALSE: the system stops once every request is answered.
SPECIFICATION Spec
CONSTANTS
  k1 = k1
  g1 = g1
  g2 = g2
  r1 = r1
  r2 = r2
  Null = Null
  Keys = {k1}
  Gateways = {g1, g2}
  Requests = {r1, r2}
  Events <- OneKeyedEvent
  Faults = {"db", "ttl", "redis", "crash"}
SYMMETRY Symmetry
INVARIANTS
  TypeOK
  ChargedAtMostOnce
  ChargeIsAudited
  AttemptsAudited
  CreationLoggedFirst
  SuccessIsBacked
  AnswersStand
  HandledOnce
  ColumnsAgree
  FailedAfterAll
  ProcessedSettles
  NoLeakedLock
PROPERTIES
  PaymentsSpec
  NoChargeAfterFailed
CHECK_DEADLOCK FALSE
