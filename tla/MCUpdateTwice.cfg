CONSTANTS
  k1 = k1  k2 = k2  k3 = k3
  Effects <- Update
  Callers <- TwoCallers
  Kind <- KindOf
  Answers <- ByEffect
  None = None
  MaxPolls = 1
  MaxCrashes = 0
SPECIFICATION Spec
INVARIANT
  UpdateAppliedOnce
