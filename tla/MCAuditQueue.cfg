CONSTANTS
    Audits = {"a", "b", "c"}
    KOf <- MCKOf
    First = {"a", "b"}
    Forced = {"b"}
    Poisons <- MCPoisons
    AUDIT_MAX_LAG = 0
    MAX_ATTEMPTS = 2
    AUDIT_CHUNK = 2
    Sources = {"trainer", "loop"}
    MaxVersion = 1
    MaxDeaths = 1
    MaxResent = 1
SPECIFICATION FairSpec
INVARIANTS
    ConcludedOnce
PROPERTIES
    QueueDrains
