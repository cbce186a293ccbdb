--------------------------- MODULE MCModemBattery ---------------------------
(* Constants and mutants for the model checking of ModemBattery.           *)
EXTENDS ModemBattery

\* One voltage per range that the code tells apart, two of them on the
\* thresholds.
MCVoltages == {2900, 3000, 3300}

NoCalls == {}

OnlyPowerOff == {"power_off"}

=============================================================================
