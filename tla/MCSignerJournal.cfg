CONSTANTS
    Ops = {"w1", "w1b", "w2", "axon", "index"}
    KindOf <- MCKindOf
    ValueOf <- MCValueOf
    MaxSignatures = 2
    MaxCrashes = 1
SPECIFICATION Spec
INVARIANTS
    ChainWriteOnce
    OneAnswer
PROPERTY
    KeepsPromise
CHECK_DEADLOCK FALSE
