SPECIFICATION Spec
CONSTANTS
  Gateways <- MCGateways
  CostBps <- MCCostBps
  Latencies = {0, 1, 1500}
  MaxOutcomes = 6
  Unit = 1000000
INVARIANTS
  TypeOK
  RankingIsComplete
  DominatedComesLater
  HighValueGoesToReliable
  AverageIsObserved
