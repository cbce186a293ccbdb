SPECIFICATION Spec

CONSTANTS
    LowLevel = 3300
    PofwarnVoltage = 30
    Voltages <- MCVoltages
    Energies = {7}
    Failing <- NoCalls

PROPERTIES
    RxOnlyAfterRise
