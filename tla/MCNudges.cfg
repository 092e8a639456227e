CONSTANTS
  Cards = {c1}
  Wakes = {k1}
  Workers = {w1}
  Calls = {p1}
  CardFailures = 2
  None = None
  Alarm = alarm
  Sweeps = {sweep1, sweep2}
  MaxFailures = 2
SPECIFICATION CardsSpec
INVARIANT
  NudgesSafe
PROPERTIES
  DecisionReachesRun
  ParkingEnds
  PageComes
