CONSTANT
    Setups <- MCSetups
SPECIFICATION Spec
INVARIANTS
    PaidOnce
    ConfirmedIsStored
    EntriesBounded
    NoPayCreated
    CarryBounded
    AccruedIsOpen
    NoOutageMissed
PROPERTY
    BannedUnpaid
CHECK_DEADLOCK FALSE
