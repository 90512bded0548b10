SPECIFICATION FairSpec
CONSTANTS
    MaxRP = 2
    Components = {data}
    Optional = {}
    MaxFaults = 1
    MaxManual = 0
    MaxReindex = 0
    MaxRestores = 0
PROPERTIES
    FailedDeletionRetried
CHECK_DEADLOCK FALSE
