SPECIFICATION FairSpec

CONSTANTS
    LowLevel = 3300
    PofwarnVoltage = 30
    Voltages <- MCVoltages
    Energies = {6, 7}
    Failing <- Calls

INVARIANTS
    StateProtected
    ModeAgreesWithState
    IntervalAgreesWithState

PROPERTIES
    PofwarnEndsOnSample
    WarningRecorded
    LowLeavesNormalOrFails
    LowBatterySettles
    HighBatterySettles
