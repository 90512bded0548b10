SPECIFICATION MCSpec
CONSTANTS
  Cmds = {c1, c2}
  Discover = {c1, c2}
  MaxAttempts = 1 MaxDrops = 1 MaxStops = 1 MaxCallFaults = 1
  MaxRP = 2
  Components = {data, db}
  Optional = {db}
  MaxFaults = 1 MaxManual = 1 MaxReindex = 1 MaxRestores = 1
SYMMETRY CmdSymmetry
INVARIANTS
  NoOverlap ToldTheTruth
  ManifestComplete CommittedExists
CHECK_DEADLOCK FALSE
