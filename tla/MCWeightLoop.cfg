CONSTANTS
    Ops = {"e1a", "e1b", "e2a"}
    KindOf <- MCKindOf
    ValueOf <- MCValueOf
    MaxSignatures = 0
    MaxCrashes = 1
    MaxEpoch = 2
    MaxFaults = 1
SPECIFICATION FairLoop
INVARIANTS
    EpochWrittenOnce
PROPERTY
    LaterEpochsAttempted
