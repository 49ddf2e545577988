CONSTANT
    Setups <- MCPublishing
SPECIFICATION FairSpec
PROPERTY
    ArchivesReachBucket
CHECK_DEADLOCK FALSE
