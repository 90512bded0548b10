SPECIFICATION MCSpec
CONSTANTS
  l1 = l1 l2 = l2 a1 = a1 c1 = c1 c2 = c2
  Leases = {l1, l2}
  Apps = {a1}
  Containers = {c1, c2}
  AppOf <- SameApp
  Modes = {"pause"}
  MaxFaults = 1 MaxCrashes = 1 MaxOutside = 1
  Paths = {p1, p2}
  Present = {p1}
  Volumes = {v}
  Missing = {k}
  MaxCommands = 3 MaxFailures = 2 MaxStops = 1
SYMMETRY LeaseSymmetry
INVARIANTS
  HeldIsCovered SwitchPending OneActiveLease
  PreviousRecoverable  
