CONSTANTS
  k1 = k1  k2 = k2  k3 = k3
  Effects <- Pull
  Callers <- ThreeCallers
  Kind <- KindOf
  Answers <- ByEffect
  None = None
  MaxPolls = 2
  MaxCrashes = 1
  Programs = {"p1", "p2"}
  Scenes <- SmallScenes
  Window = 1
  Polls = {"q1", "q2"}
  RecordingFailures = 1
SPECIFICATION CapabilitiesSpec
INVARIANTS
  SandboxSafe
  RecordingSafe
PROPERTIES
  ImplementsOnce
  EveryCallReturns
  PollingEnds
CHECK_DEADLOCK FALSE
