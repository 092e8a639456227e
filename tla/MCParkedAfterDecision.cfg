CONSTANTS
  c1 = c1  c2 = c2  k1 = k1  w1 = w1  w2 = w2  p1 = p1  p2 = p2
  Cards <- OneCard
  Wakes <- OneWake
  Workers <- OneWorker
  Calls <- OneCall
  None = None
  MaxFailures = 0
SPECIFICATION Spec
INVARIANTS
  ResolutionUnparks
