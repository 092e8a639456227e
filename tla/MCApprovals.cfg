CONSTANTS
  c1 = c1  c2 = c2  k1 = k1  w1 = w1  w2 = w2  p1 = p1  p2 = p2
  Cards <- OneCard
  Wakes <- OneWake
  Workers <- TwoWorkers
  Calls <- TwoCalls
  None = None
  MaxFailures = 1
SPECIFICATION Spec
SYMMETRY Symmetric
INVARIANTS
  TypeOK
  PostedAtMostOnce
  DeliveryIsTruthful
  ResolutionAfterOutcome
  MarkedOnlyIfResumed
PROPERTIES
  VerdictsFinal
  ImplementsGate
