SPECIFICATION WorkSpec
CONSTANTS
  MaxLogins = 2
  LockAfter = 2
  SessionFaults = 1
  Views = {"jobs", "volumes", "restores"}
  ChangeTypes = {"restore.updated", "inventory.updated"}
  BufferSize = 1
  MaxChanges = 2
  MaxFaults = 1
  Hosts = {"h1"}
  Focus = "h1"
  FirstHosts <- MCFirstHosts
  MaxTokens = 1
  MaxActs = 2
  MaxOuter = 1
  Containers = {"c1", "c2"}
  GroupNames = {"g"}
  MaxPosts = 3
  MaxStrays = 1
  Fields = {"owner", "environment"}
  Texts = {"", "a"}
  MaxPatches = 2
  MaxConfirms = 2
  MaxWorld = 2
  Manifest <- MCManifest
  WorkingDir <- MCWorkingDir
  MaxRuns = 2
  MaxStarts = 2
  MaxWizardEdits = 1
  MaxWorldChanges = 1
  MaxLostStarts = 1
  MaxHistory = 2
  MaxLostCancels = 1
INVARIANTS
  WorkStateOK NoForeignCache  RevealsWereConfirmed OneRestoreAtATime
  CancelledIsUndone
PROPERTY AnnouncedHappens
CHECK_DEADLOCK FALSE
