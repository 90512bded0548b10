SPECIFICATION DispatchSpec
CONSTANTS
    Cmds = {c1}
    Discover = {}
    MaxAttempts = 2
    MaxDrops = 0
    MaxStops = 0
    MaxCallFaults = 0
INVARIANTS
    NeverRunTwice
CHECK_DEADLOCK FALSE
