SPECIFICATION Spec
CONSTANTS
    Groups <- MCGroups3
    Envs <- MCEnvs
    EnvOf <- MCEnvOf
    BatchCaps <- MCNoCaps
    SuspectAttempts = 2
    UrgentLagMargin = 2
    MaxLag = 0
    BatchGroups = 1
    MaxAttempts = 3
    PrefetchModes = {FALSE, TRUE}
    Cap = 3
    Poison = {}
    MaxVersion = 2
    MaxOpen = 1
    MaxCrashes = 1
    MaxTimeouts = 1
    MaxFails = 1
INVARIANTS
    HeldIsTaken
    PublishedOnce
    StaleIsLate

    
