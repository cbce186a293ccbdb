---------------------------- MODULE MCFuelGauge ----------------------------
(* Values of the constants of FuelGauge for TLC.                           *)
EXTENDS FuelGauge

\* Idle without a bit, two charging phases, one of them with the bit of the
\* completed charge, which comes first in charge_status_inform.
MCStatuses == {{}, {"CC"}, {"CC", "COMPLETE"}}

\* One reading: no property of the runs is about the current.
OneCurrent == {-1}
=============================================================================
