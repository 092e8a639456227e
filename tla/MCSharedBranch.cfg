CONSTANTS
  k1 = k1  k2 = k2  k3 = k3
  Effects <- TwoPulls
  Callers <- TwoCallers
  Kind <- KindOf
  Answers <- ByBranch
  None = None
  MaxPolls = 1
  MaxCrashes = 0
SPECIFICATION Spec
INVARIANT
  ReconciledIsPerformed
