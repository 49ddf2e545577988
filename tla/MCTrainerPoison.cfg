SPECIFICATION FairSpec
CONSTANTS
    Groups <- MCGroups5
    Envs <- MCEnvs
    EnvOf <- MCEnvOf
    BatchCaps <- MCCaps
    SuspectAttempts = 2
    UrgentLagMargin = 2
    MaxLag = 2
    BatchGroups = 2
    MaxAttempts = 3
    PrefetchModes = {FALSE, TRUE}
    Cap = 4
    Poison = {2}
    MaxVersion = 2
    MaxOpen = 1
    MaxCrashes = 0
    MaxTimeouts = 0
    MaxFails = 0
INVARIANTS
    OneSuspectPerBatch
    OnlyPoisonExhausted
    TakeIsFull
    ExtraOnlyWhenShort
    
PROPERTIES
    InlineTrainingProgresses
