SPECIFICATION Spec

CONSTANTS
    Statuses <- MCStatuses
    Currents <- OneCurrent
    MaxTime = 2

INVARIANTS
    TimeAccounted
    ChargeStateKnown

PROPERTIES
    SupplyFollowed
    SupplyTold
