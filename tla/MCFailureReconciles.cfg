SPECIFICATION Spec
CONSTANTS
  k1 = k1
  g1 = g1
  g2 = g2
  r1 = r1
  r2 = r2
  Null = Null
  Keys = {k1}
  Gateways = {g1, g2}
  Requests = {r1}
  Events <- FailureEvent
  Faults = {}
INVARIANT ReconciledIsConfirmed
\* The system stops once every request is answered and every webhook handled.
CHECK_DEADLOCK FALSE
