SPECIFICATION MCSpec
CONSTANTS
  Cmds = {c1}
  Discover = {}
  MaxAttempts = 2 MaxDrops = 1 MaxStops = 1 MaxCallFaults = 0
  MaxRP = 2
  Components = {data}
  Optional = {}
  MaxFaults = 2 MaxManual = 1 MaxReindex = 0 MaxRestores = 0
 
PROPERTIES DispatchIsACall Answered ResultsAcknowledged GarbageGoes
CHECK_DEADLOCK FALSE
