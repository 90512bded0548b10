SPECIFICATION ConsoleFairSpec
CONSTANTS
  MaxLogins = 1
  LockAfter = 1
  SessionFaults = 1
  Views = {"jobs", "volumes", "restores"}
  ChangeTypes = {"restore.updated", "inventory.updated"}
  BufferSize = 1
  MaxChanges = 1
  MaxFaults = 1
  Hosts = {"h1"}
  Focus = "h1"
  FirstHosts <- MCFirstHosts
  MaxTokens = 1
  MaxActs = 1
  MaxOuter = 1
  Containers = {"c1", "c2"}
  GroupNames = {"g"}
  MaxPosts = 2
  MaxStrays = 1
  Fields = {"owner", "environment"}
  Texts = {"", "a"}
  MaxPatches = 1
  MaxConfirms = 1
  MaxWorld = 1
  Manifest <- MCManifest
  WorkingDir <- MCWorkingDir
  MaxRuns = 2
  MaxStarts = 2
  MaxWizardEdits = 0
  MaxWorldChanges = 1
  MaxLostStarts = 1
  MaxHistory = 2
  MaxLostCancels = 1
  Data = {"data"}
  FirstSettings <- MCFirstSettings
  FormModes = {"offline"}
  Minutes = {0, 2}
  MaxDraftEdits = 1
  MaxSaves = 1
  MaxLostSaves = 1
  NowSettings <- MCNowSettings
  FirstPoints <- MCFirstPoints
  NowModes = {"offline"}
  MaxPoints = 2
  MaxEvents = 1
  Points = {1, 2}
  Visited = {1}
  FirstStates <- MCFirstStates
  Unreadable = {1}
  MaxAlerts = 2
  MaxAsked = 1
  MaxOutside = 1
  Repos = {"nas", "lab"}
  Keys = {"ada", "grace", "alan"}
  FirstRecipients = {"ada", "grace"}
  InitialRepos <- MCInitialRepos
  MaxPackages = 2
  MaxRequests = 2
  MaxOthers = 0
  CronTokens <- MCTokens
  MaxEdits = 3
  PolicyNames = {"x", "z"}
  FirstNames <- MCFirstNames
  FirstAssigned <- MCFirstAssigned
  Tours <- MCTours
  MaxWrites = 2
  MaxOuts = 0
  Components = {"volume"}
  Rpos = {0, 1500}
  Drafts <- MCDrafts
  Ages = {100, 2000}
  MaxPuts = 1
  MaxTurns = 1
  Catalogue <- MCCatalogue
  OtherEvents <- MCOtherEvents
  Custom <- MCCustom
  FirstEvents <- MCFirstEvents
  Visits <- MCVisits
  MaxCalls = 2
  MaxOtherEdits = 0
  People = {"me", "u"}
  Self = "me"
  Roles = {"auditor"}
  GroupIds = {"g"}
  MaxUserSaves = 1
  MaxElse = 1
  Zones = {"UTC", "Chicago"}
  LimDrafts <- MCLimDrafts
  OtherLimits <- MCOtherLimits
  LimMinutes <- MCLimMinutes
  MaxLimSaves = 0
PROPERTIES SessionIsFollowed StartedWorkEnds PagesSettle
CHECK_DEADLOCK FALSE
