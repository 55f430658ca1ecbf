SPECIFICATION Spec
CONSTANTS
  g1 = g1
  g2 = g2
  p1 = p1
  p2 = p2
  Gateways = {g1}
  Payments = {p1, p2}
  RedisMayFail = FALSE
INVARIANT TripsAlways
