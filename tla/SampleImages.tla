---------------------------- MODULE SampleImages ----------------------------
(***************************************************************************)
(* The samples of the kernel's and the chip's services.  Each is a program *)
(* of its own: a build gives one image, and the board runs the image that  *)
(* was flashed last.  Here the image is chosen at first; its program then  *)
(* runs alone, and the variables of the others keep the value they would   *)
(* begin with.                                                             *)
(*                                                                         *)
(* The definitions of Watchdog are taken in by EXTENDS, those of the other *)
(* programs by INSTANCE, with the variables of the same names.             *)
(***************************************************************************)
EXTENDS Watchdog, Sequences

CONSTANTS
    QueueSize, MaxResults,  \* of WifiScan
    Frequency, Top,         \* of RtcAlarm
    Curve, Voltages         \* of BatteryAdc

VARIABLES
    image,                  \* the program that the board runs
    wqMain, sysQueue, sysPc, timer, periodic, customPc, pressed,
    tmMain, tmWake, oneshot, every, guard, status, delay, odd,
    watchdog_fire_count, logQueued, logPc, behind,
    wfMain, scan_sem, scan_result, mac, iface, scan, found, events, shown,
    timedOut, lostDone,
    rtMain, rtWake, alarm_sem, periodic_count, systemOff, rtc, alarm,
    btMain, battery_ok, calibrate, supply, batt_mV, batt_pptt

WQ == INSTANCE WorkQueue
TM == INSTANCE Timers
WF == INSTANCE WifiScan
RT == INSTANCE RtcAlarm
BT == INSTANCE BatteryAdc

ASSUME QueueAssumption == QueueSize \in Nat \ {0} /\ MaxResults \in Nat

\* The counter counts, and the short sleep of main() before the power-off, with
\* its lateness, is over before the wake-up is due.
ASSUME CounterAssumption ==
    /\ Frequency \in Nat \ {0} /\ Top \in Nat
    /\ Late + 1 < RT!WakeupDelay

ASSUME CurveAssumption ==
    /\ Curve \in Seq([lvl_pptt : Nat, lvl_mV : Nat])
    /\ Len(Curve) >= 2 /\ Curve[Len(Curve)].lvl_pptt = 0
    /\ \A i, j \in DOMAIN Curve : i < j =>
         /\ Curve[i].lvl_pptt > Curve[j].lvl_pptt
         /\ Curve[i].lvl_mV > Curve[j].lvl_mV

ASSUME VoltagesAssumption == Voltages \subseteq Nat

workQueue == <<wqMain, sysQueue, sysPc, timer, periodic, customPc, pressed>>
timers    == <<tmMain, tmWake, oneshot, every, guard, status, delay, odd,
               watchdog_fire_count, logQueued, logPc, behind>>
wifiScan  == <<wfMain, scan_sem, scan_result, mac, iface, scan, found, events,
               shown, timedOut, lostDone>>
rtcAlarm  == <<rtMain, rtWake, alarm_sem, periodic_count, systemOff, rtc, alarm>>
battery   == <<btMain, battery_ok, calibrate, supply, batt_mV, batt_pptt>>
imageVars == <<image, vars, workQueue, timers, wifiScan, rtcAlarm, battery>>

Images == {"watchdog", "work_queue", "timers", "wifi_scan", "rtc_alarm", "battery_adc"}

\* What the program that runs finds may differ; for the others it does not matter.
ImagesInit ==
    /\ image \in Images
    /\ Init /\ WQ!Init /\ TM!Init /\ WF!Init /\ RT!Init /\ BT!Init
    /\ image = "watchdog" \/ demo = "no"
    /\ image = "wifi_scan" \/ (mac = "none" /\ iface = "up")
    /\ image = "rtc_alarm" \/ systemOff = "no"
    /\ image = "battery_adc" \/ supply = "none"

RunWatchdog ==
    /\ image = "watchdog"
    /\ Next
    /\ UNCHANGED <<image, workQueue, timers, wifiScan, rtcAlarm, battery>>

RunWorkQueue ==
    /\ image = "work_queue"
    /\ WQ!Next
    /\ UNCHANGED <<image, vars, timers, wifiScan, rtcAlarm, battery>>

RunTimers ==
    /\ image = "timers"
    /\ TM!Next
    /\ UNCHANGED <<image, vars, workQueue, wifiScan, rtcAlarm, battery>>

RunWifiScan ==
    /\ image = "wifi_scan"
    /\ WF!Next
    /\ UNCHANGED <<image, vars, workQueue, timers, rtcAlarm, battery>>

RunRtcAlarm ==
    /\ image = "rtc_alarm"
    /\ RT!Next
    /\ UNCHANGED <<image, vars, workQueue, timers, wifiScan, battery>>

RunBatteryAdc ==
    /\ image = "battery_adc"
    /\ BT!Next
    /\ UNCHANGED <<image, vars, workQueue, timers, wifiScan, rtcAlarm>>

\* main() of the work queue, of the timers, of the scan or of the battery has
\* returned, with nothing left that runs: the one way to stop for ever.
Ended ==
    /\ \/ image = "work_queue" /\ wqMain = "returned"
       \/ image = "timers" /\ tmMain = "returned"
       \/ image = "wifi_scan" /\ wfMain = "returned"
       \/ image = "battery_adc" /\ btMain = "returned"
    /\ UNCHANGED imageVars

ImagesNext == \/ RunWatchdog \/ RunWorkQueue \/ RunTimers
              \/ RunWifiScan \/ RunRtcAlarm \/ RunBatteryAdc
              \/ Ended

\* That of WorkQueue, which says why, for its image; the properties of the other
\* programs need none.
ImagesFairness ==
    /\ WF_imageVars(RunWorkQueue /\ WQ!Main)
    /\ WF_imageVars(RunWorkQueue /\ WQ!TimerExpires)
    /\ WF_imageVars(RunWorkQueue /\ WQ!SystemWq)
    /\ SF_imageVars(RunWorkQueue /\ WQ!CustomWq)

ImagesSpec == ImagesInit /\ [][ImagesNext]_imageVars /\ ImagesFairness

-----------------------------------------------------------------------------
(* Properties: those of Watchdog by their names, and *)

\* The variables of every program keep their types.
ImagesTypeOK ==
    /\ image \in Images
    /\ TypeOK /\ WQ!TypeOK /\ TM!TypeOK /\ WF!TypeOK /\ RT!TypeOK /\ BT!TypeOK

\* work_queue: a press is followed by a run of sensor_work, also one that
\* comes while the last run sleeps and is not queued any more.
PressHandled == WQ!PressHandled

\* work_queue: once periodic_dwork is scheduled, result_work runs again and
\* again, also when a firing found it pending and submitted nothing.
PeriodicReports == WQ!PeriodicReports

\* timers: log_work at rest has logged the count of the last expiry.
LogNotBehind == TM!LogNotBehind

\* timers: main() stops the watchdog-style timer before it expires, unless it
\* was kept waiting for a second or more, and never restarts a one-shot timer
\* that still runs.
TimersInTime == TM!TimersInTime

\* wifi_scan: the results of a scan are numbered from one in their order, also
\* after a scan that main() has given up, unless the event of an end was lost.
NumberedFromOne == WF!NumberedFromOne

\* wifi_scan: until a wait times out, each wait ends by its own scan.
WaitsForOwnScan == WF!WaitsForOwnScan

\* rtc_alarm: main() waits for, and the chip sleeps until, an alarm to come.
AwaitsAnAlarm == RT!AwaitsAnAlarm

\* battery_adc: the level shown is the greatest not above the discharge curve.
LevelOnCurve == BT!LevelOnCurve
=============================================================================
