CONSTANTS
  k1 = k1  k2 = k2  k3 = k3
  Consumers <- ThreeConsumers
  MaxFailures = 3
  Customers = {"message", "answer"}
  Own = {"own"}
  Workers = {"w1", "w2"}
  MaxEvents = 2
  IntakeFailures = 1
  Channels = {"c1"}
  Slugs = {"s1", "s2"}
  Derived <- SlugOfName
  Registrations = {"r1", "r2"}
  Executions = {"x1", "x2"}
  MaxPatches = 2
  Unset = Unset
SPECIFICATION QueuesSpec
INVARIANTS
  ProvenanceExact
  DuplicatesReported
  OneEpisodeWithoutFailure
  IntakeSafe
  ScopeHolds
PROPERTIES
  EpisodeFinal
  EpisodeDelivered
  EveryMessageDecided
CHECK_DEADLOCK FALSE
