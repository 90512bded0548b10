SPECIFICATION RepoSpec
CONSTANTS
    Repos = {"nas", "lab"}
    Keys = {"ada", "grace", "alan"}
    FirstRecipients = {"ada", "grace"}
    InitialRepos <- MCInitialRepos
    MaxPackages = 3
    MaxRequests = 2
    MaxOthers = 1
PROPERTY
    PackageStaysShown
CHECK_DEADLOCK FALSE
