SPECIFICATION RunSpec
CONSTANTS
  l1 = l1 a1 = a1 c1 = c1 c2 = c2
  Leases = {l1}
  Lease = l1
  Apps = {a1}
  Containers = {c1, c2}
  AppOf <- OneApp
  Modes = {"pause"}
  Hooks = "yes"
  MaxFaults = 1 MaxCrashes = 0 MaxOutside = 0
INVARIANT CommittedIsConsistent
CHECK_DEADLOCK FALSE
