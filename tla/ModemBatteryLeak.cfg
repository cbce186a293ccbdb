SPECIFICATION FairSpec

CONSTANTS
    LowLevel = 3300
    PofwarnVoltage = 30
    Voltages <- MCVoltages
    Energies = {7}
    Failing <- OnlyPowerOff

PROPERTIES
    LowLeavesNormal
