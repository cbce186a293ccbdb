----------------------------- MODULE BatteryAdc -----------------------------
(***************************************************************************)
(* The sample battery_adc: the set-up of the measurement before main(),    *)
(* the samples that main() takes until one fails, and the level that is    *)
(* computed from a voltage and a discharge curve.                          *)
(*                                                                         *)
(* External: the ADC, each reading of which fails or gives a voltage, and  *)
(* the pin that supplies the divider, where there is one.  A voltage is in *)
(* mV and below zero only as an error; a reading below zero through the    *)
(* divider is one that wraps in the division by its unsigned resistance,   *)
(* to any voltage or error.                                                *)
(*                                                                         *)
(* A definition marked "Mutant" is the definition that follows it with a   *)
(* plausible mistake; no formula uses it.                                  *)
(***************************************************************************)
EXTENDS Integers, Sequences, FiniteSetsExt

CONSTANTS
    Curve,          \* levels: the points, with lvl_pptt and lvl_mV decreasing
    Voltages        \* the voltages that battery_sample may return

VARIABLES
    btMain,         \* where main() is
    battery_ok,     \* whether battery_setup succeeded
    calibrate,      \* whether the next reading calibrates the ADC
    supply,         \* external: the pin that supplies the divider, if any
    batt_mV,        \* the last sample, or Failed
    batt_pptt       \* the level of the last voltage

Failed == -1

vars == <<btMain, battery_ok, calibrate, supply, batt_mV, batt_pptt>>

Init ==
    /\ btMain = "setup"
    /\ battery_ok = FALSE /\ calibrate = TRUE
    /\ supply \in {"none", "low"}
    /\ batt_mV = Failed /\ batt_pptt = 0

-----------------------------------------------------------------------------
(* battery_level_pptt *)

\* The first point at or below the voltage, or the last of all.
PointBelow(mV) ==
    Min({i \in DOMAIN Curve : mV >= Curve[i].lvl_mV \/ Curve[i].lvl_pptt = 0})

\* Mutant: the quotient is taken before the product.
Level_RoundsEarly(mV) ==
    LET b  == PointBelow(mV)
        pb == Curve[b]
        pa == Curve[b - 1]
    IN  IF b = 1 \/ mV < pb.lvl_mV
        THEN pb.lvl_pptt
        ELSE pb.lvl_pptt
             + ((pa.lvl_pptt - pb.lvl_pptt) \div (pa.lvl_mV - pb.lvl_mV)) * (mV - pb.lvl_mV)

\* Capped at both ends of the curve, interpolated between its points.
Level(mV) ==
    LET b  == PointBelow(mV)
        pb == Curve[b]
        pa == Curve[b - 1]
    IN  IF b = 1 \/ mV < pb.lvl_mV
        THEN pb.lvl_pptt
        ELSE pb.lvl_pptt
             + ((pa.lvl_pptt - pb.lvl_pptt) * (mV - pb.lvl_mV)) \div (pa.lvl_mV - pb.lvl_mV)

-----------------------------------------------------------------------------
\* divider_setup: the ADC, the pin if there is one, and the channel.
Setup ==
    /\ btMain = "setup"
    /\ battery_ok' \in BOOLEAN
    /\ btMain' = "enable"
    /\ UNCHANGED <<calibrate, supply, batt_mV, batt_pptt>>

\* What battery_measure_enable(high) leaves of the pin, when it succeeds.
Supplied(high) == IF supply = "none" THEN "none" ELSE high

EnableMeasure ==
    /\ btMain = "enable" /\ battery_ok
    /\ supply' = Supplied("high")
    /\ btMain' = "sample"
    /\ UNCHANGED <<battery_ok, calibrate, batt_mV, batt_pptt>>

\* The set-up had failed, or the pin, if there is one, cannot be set.
EnableFails ==
    /\ btMain = "enable"
    /\ ~battery_ok \/ supply # "none"
    /\ btMain' = "returned"
    /\ UNCHANGED <<battery_ok, calibrate, supply, batt_mV, batt_pptt>>

\* battery_sample: the first reading calibrates, also when it fails.
Sample ==
    /\ btMain = "sample"
    /\ batt_mV' \in Voltages \cup {Failed}
    /\ calibrate' = FALSE
    /\ btMain' = IF batt_mV' < 0 THEN "disable" ELSE "level"
    /\ UNCHANGED <<battery_ok, supply, batt_pptt>>

\* The level is printed, and main() waits for the next sample.
ComputeLevel ==
    /\ btMain = "level"
    /\ batt_pptt' = Level(batt_mV)
    /\ btMain' = "wait"
    /\ UNCHANGED <<battery_ok, calibrate, supply, batt_mV>>

BusyWait ==
    /\ btMain = "wait"
    /\ btMain' = "sample"
    /\ UNCHANGED <<battery_ok, calibrate, supply, batt_mV, batt_pptt>>

\* The pin may fail to be set: the result is printed only.
DisableMeasure ==
    /\ btMain = "disable"
    /\ supply' \in {Supplied("low"), supply}
    /\ btMain' = "returned"
    /\ UNCHANGED <<battery_ok, calibrate, batt_mV, batt_pptt>>

Next == \/ Setup \/ EnableMeasure \/ EnableFails \/ Sample
        \/ ComputeLevel \/ BusyWait \/ DisableMeasure

Spec == Init /\ [][Next]_vars

-----------------------------------------------------------------------------
(* Properties *)

TypeOK ==
    /\ btMain \in {"setup", "enable", "sample", "level", "wait", "disable", "returned"}
    /\ battery_ok \in BOOLEAN /\ calibrate \in BOOLEAN
    /\ supply \in {"none", "low", "high"}
    /\ batt_mV \in Voltages \cup {Failed}
    /\ batt_pptt \in 0..Curve[1].lvl_pptt

\* The level printed is the greatest that does not lie above the discharge
\* curve: above the first point and below the last the curve is level, and
\* between two points it is the line through them.
OnOrBelow(mV, pptt) ==
    \E i \in 1..Len(Curve) - 1 :
        LET a == Curve[i]
            b == Curve[i + 1]
        IN  /\ b.lvl_mV <= mV /\ mV <= a.lvl_mV
            /\ (pptt - b.lvl_pptt) * (a.lvl_mV - b.lvl_mV)
                 <= (a.lvl_pptt - b.lvl_pptt) * (mV - b.lvl_mV)

LevelOnCurve ==
    btMain = "wait" =>
        LET first == Curve[1]
            last  == Curve[Len(Curve)]
        IN  IF batt_mV >= first.lvl_mV THEN batt_pptt = first.lvl_pptt
            ELSE IF batt_mV < last.lvl_mV THEN batt_pptt = last.lvl_pptt
            ELSE OnOrBelow(batt_mV, batt_pptt) /\ ~OnOrBelow(batt_mV, batt_pptt + 1)
=============================================================================
