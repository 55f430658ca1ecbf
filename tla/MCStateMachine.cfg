\* CHECK_DEADLOCK FALSE: callers stop once the trail has MaxTrail entries.
SPECIFICATION FairSpec
CONSTANTS
  k1 = k1
  g1 = g1
  g2 = g2
  c1 = c1
  c2 = c2
  Null = Null
  Keys = {k1}
  Gateways = {g1, g2}
  Callers = {c1, c2}
  Metas <- MCMetas
  MaxTrail = 4
INVARIANTS
  NoStaleDecision
  NoOrphanLock
  AuditTrailIsPath
PROPERTIES
  LedgerSpec
  TerminalStays
  CallsReturn
CHECK_DEADLOCK FALSE
