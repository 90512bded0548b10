SPECIFICATION SwapSpec
CONSTANTS
  Paths = {p1}
  Present = {p1}
  Volumes = {}
  Missing = {}
  MaxCommands = 1 MaxFailures = 1 MaxStops = 0
INVARIANT TargetWhole
CHECK_DEADLOCK FALSE
