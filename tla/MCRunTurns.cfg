CONSTANTS
  m1 = m1  s1 = s1  c1 = c1
  MaxCards = 2
  ListLimit = 1
  MaxClicks = 1
  MaxLost = 1
  None = None
  Messages <- OneMessage
  Steers <- OneSteer
  Cards <- OneCard
  Inputs <- Pairs
  Ceiling = 2
  Estimate = 1
  StepCost = 1
  MaxSteps = 2
  MaxDeliveries = 1
  MaxSends = 1
  MaxLag = 1
  MaxFailures = 1
SPECIFICATION TurnsSpec
INVARIANTS
  InputShownOnce
  RowIsRight
  TurnSpendBounded
  EpisodeOfEachTurn
PROPERTIES
  AdmittedIsServed
  DecidedCardsLeave
CHECK_DEADLOCK FALSE
