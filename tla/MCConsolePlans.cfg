SPECIFICATION PlansSpec
CONSTANTS
  Data = {"data"}
  FirstSettings <- MCFirstSettings
  FormModes = {"offline"}
  Minutes = {0, 2}
  MaxDraftEdits = 1
  MaxSaves = 2
  MaxLostSaves = 1
  NowSettings <- MCNowSettings
  FirstPoints <- MCFirstPoints
  NowModes = {"offline"}
  MaxPoints = 2
  MaxEvents = 2
  Points = {1, 2}
  Visited = {1}
  FirstStates <- MCFirstStates
  Unreadable = {1}
  MaxAlerts = 2
  MaxAsked = 2
  MaxOutside = 1
  Repos = {"nas", "lab"}
  Keys = {"ada", "grace", "alan"}
  FirstRecipients = {"ada", "grace"}
  InitialRepos <- MCInitialRepos
  MaxPackages = 3
  MaxRequests = 2
  MaxOthers = 1
  CronTokens <- MCTokens
  MaxEdits = 3
  PolicyNames = {"x", "z"}
  FirstNames <- MCFirstNames
  FirstAssigned <- MCFirstAssigned
  Tours <- MCTours
  MaxWrites = 2
  MaxOuts = 1
  Components = {"volume"}
  Rpos = {0, 1500}
  Drafts <- MCDrafts
  Ages = {100, 2000}
  MaxPuts = 1
  MaxTurns = 2
  Catalogue <- MCCatalogue
  OtherEvents <- MCOtherEvents
  Custom <- MCCustom
  FirstEvents <- MCFirstEvents
  Visits <- MCVisits
  MaxCalls = 2
  MaxOtherEdits = 1
  People = {"me", "u"}
  Self = "me"
  Roles = {"auditor"}
  GroupIds = {"g"}
  MaxUserSaves = 2
  MaxElse = 1
  Zones = {"UTC", "Chicago"}
  LimDrafts <- MCLimDrafts
  OtherLimits <- MCOtherLimits
  LimMinutes <- MCLimMinutes
  MaxLimSaves = 2
INVARIANTS
   UneditedFormsKeep  UndeletedIsKept HealthyIsRecoverable
   WaitEndsInWindow
PROPERTIES EscrowBeforeUse NothingStoredIsLost
CHECK_DEADLOCK FALSE
