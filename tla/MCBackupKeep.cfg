SPECIFICATION MCSpec
CONSTANTS
  l1 = l1 a1 = a1 c1 = c1 c2 = c2
  Leases = {l1}
  Lease = l1
  Apps = {a1}
  Containers = {c1}
  AppOf <- OneApp
  Modes = {"pause", "stop"}
  Hooks = "yes"
  MaxFaults = 1 MaxCrashes = 1 MaxOutside = 1
  MaxTime = 7
  Lengths <- TwoKinds
  MaxKeep = 2
INVARIANTS
  BackupStateOK CommittedMeansQuiet
  KeepsWhatIsPromised HistoryDoesNotMatter
PROPERTIES RunEnds Released
CHECK_DEADLOCK FALSE
