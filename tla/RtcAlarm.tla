------------------------------ MODULE RtcAlarm ------------------------------
(***************************************************************************)
(* The sample rtc_alarm: main() waits for one alarm of the RTC counter,    *)
(* then for a few more, each set when the last has come, and at last, if   *)
(* CONFIG_RTC_DEMO_SYSTEM_OFF is set, switches the chip off, to be woken   *)
(* by an alarm.                                                            *)
(*                                                                         *)
(* Time is in seconds, a sleep being rounded up; main(), when it need not  *)
(* wait, may be kept from the CPU up to Late.  External: the counter,      *)
(* which runs the alarm down while it is started, also with the chip off,  *)
(* and refuses an alarm when one is set or beyond its top; starting it and *)
(* setting an alarm may fail.                                              *)
(*                                                                         *)
(* A definition marked "Mutant" is the definition that follows it with a   *)
(* plausible mistake; no formula uses it.                                  *)
(***************************************************************************)
EXTENDS Integers

CONSTANTS
    Frequency,      \* of the counter, in ticks per second
    Top,            \* its top value
    Late            \* the longest that main(), when ready, waits for the CPU

OneShotDelay == 5
Interval     == 3       \* PERIODIC_ALARM_INTERVAL_S
AlarmCount   == 5       \* PERIODIC_ALARM_COUNT
WakeupDelay  == 10      \* WAKEUP_DELAY_S

VARIABLES
    rtMain,         \* where main() is
    rtWake,         \* until its sleep ends; negative: it is late
    alarm_sem,      \* its tokens
    periodic_count,
    systemOff,      \* whether CONFIG_RTC_DEMO_SYSTEM_OFF is set
    rtc,            \* external: whether the counter runs
    alarm           \* external: the ticks to the alarm, or NoAlarm

NoAlarm == -1

vars == <<rtMain, rtWake, alarm_sem, periodic_count, systemOff, rtc, alarm>>

Init ==
    /\ rtMain = "start" /\ rtWake = 0
    /\ alarm_sem = 0 /\ periodic_count = 0
    /\ systemOff \in {"yes", "no"}
    /\ rtc = "stopped" /\ alarm = NoAlarm

-----------------------------------------------------------------------------
(* main(): the conditions that its steps share *)

At(pc)   == rtMain = pc /\ rtWake <= 0
Goto(pc) == rtMain' = pc /\ rtWake' = 0

\* Mutant: 16 bits are kept of the ticks.
Ticks_Short(seconds) == (seconds * Frequency) % 65536

\* counter_us_to_ticks.
Ticks(seconds) == seconds * Frequency

\* set_alarm_seconds succeeds.
SetAlarm(seconds) ==
    /\ alarm = NoAlarm /\ Ticks(seconds) <= Top
    /\ alarm' = Ticks(seconds)

DeviceFails ==
    /\ At("start")
    /\ Goto("returned")
    /\ UNCHANGED <<alarm_sem, periodic_count, systemOff, rtc, alarm>>

StartCounter ==
    /\ At("start")
    /\ rtc' = "running"
    /\ Goto("oneshot")
    /\ UNCHANGED <<alarm_sem, periodic_count, systemOff, alarm>>

-----------------------------------------------------------------------------
(* main(): demo 1 *)

SetOneShot ==
    /\ At("oneshot")
    /\ SetAlarm(OneShotDelay)
    /\ Goto("wait_oneshot")
    /\ UNCHANGED <<alarm_sem, periodic_count, systemOff, rtc>>

SetOneShotFails ==
    /\ At("oneshot")
    /\ rtc' = "stopped"
    /\ Goto("returned")
    /\ UNCHANGED <<alarm_sem, periodic_count, systemOff, alarm>>

OneShotFired ==
    /\ At("wait_oneshot") /\ alarm_sem = 1
    /\ alarm_sem' = 0
    /\ periodic_count' = 0
    /\ Goto("periodic")
    /\ UNCHANGED <<systemOff, rtc, alarm>>

-----------------------------------------------------------------------------
(* main(): demo 2 *)

\* Mutant: one alarm more.
SetPeriodic_OneMore ==
    /\ At("periodic") /\ periodic_count <= AlarmCount
    /\ SetAlarm(Interval)
    /\ Goto("wait_periodic")
    /\ UNCHANGED <<alarm_sem, periodic_count, systemOff, rtc>>

SetPeriodic ==
    /\ At("periodic") /\ periodic_count < AlarmCount
    /\ SetAlarm(Interval)
    /\ Goto("wait_periodic")
    /\ UNCHANGED <<alarm_sem, periodic_count, systemOff, rtc>>

\* The last alarm has come, or the next cannot be set; the counter stops.
LeavePeriodic ==
    /\ At("periodic")
    /\ rtc' = "stopped"
    /\ Goto(IF systemOff = "yes" THEN "restart" ELSE "spin")
    /\ UNCHANGED <<alarm_sem, periodic_count, systemOff, alarm>>

PeriodicFired ==
    /\ At("wait_periodic") /\ alarm_sem = 1
    /\ alarm_sem' = 0
    /\ periodic_count' = periodic_count + 1
    /\ Goto("periodic")
    /\ UNCHANGED <<systemOff, rtc, alarm>>

-----------------------------------------------------------------------------
(* main(): demo 3 *)

RestartCounter ==
    /\ At("restart")
    /\ rtc' = "running"
    /\ Goto("wakeup")
    /\ UNCHANGED <<alarm_sem, periodic_count, systemOff, alarm>>

RestartFails ==
    /\ At("restart")
    /\ Goto("returned")
    /\ UNCHANGED <<alarm_sem, periodic_count, systemOff, rtc, alarm>>

\* The alarm is set, and a short sleep lets the log come out.
SetWakeup ==
    /\ At("wakeup")
    /\ SetAlarm(WakeupDelay)
    /\ rtMain' = "flush" /\ rtWake' = 1
    /\ UNCHANGED <<alarm_sem, periodic_count, systemOff, rtc>>

SetWakeupFails ==
    /\ At("wakeup")
    /\ rtc' = "stopped"
    /\ Goto("returned")
    /\ UNCHANGED <<alarm_sem, periodic_count, systemOff, alarm>>

Poweroff ==
    /\ At("flush")
    /\ Goto("off")
    /\ UNCHANGED <<alarm_sem, periodic_count, systemOff, rtc, alarm>>

-----------------------------------------------------------------------------
(* alarm_callback, and external: the counter and time *)

AlarmCallback ==
    /\ alarm = 0 /\ rtMain # "off"
    /\ alarm' = NoAlarm
    /\ alarm_sem' = 1
    /\ UNCHANGED <<rtMain, rtWake, periodic_count, systemOff, rtc>>

\* The alarm wakes the chip, which boots: nothing of the memory is left.
ColdBoot ==
    /\ alarm = 0 /\ rtMain = "off"
    /\ rtMain' = "start" /\ rtWake' = 0
    /\ alarm_sem' = 0 /\ periodic_count' = 0
    /\ rtc' = "stopped" /\ alarm' = NoAlarm
    /\ UNCHANGED systemOff

Resting == rtMain \in {"spin", "off", "returned"}
Waiting == rtMain \in {"wait_oneshot", "wait_periodic"} /\ alarm_sem = 0

\* The ticks of a second, or those that are left.
Elapse(t) == IF t > Frequency THEN t - Frequency ELSE 0

Tick ==
    /\ alarm # 0
    /\ Resting \/ Waiting \/ rtWake > -Late
    /\ rtWake' = IF Resting \/ Waiting THEN rtWake ELSE rtWake - 1
    /\ alarm' = IF rtc = "running" /\ alarm # NoAlarm THEN Elapse(alarm) ELSE alarm
    /\ UNCHANGED <<rtMain, alarm_sem, periodic_count, systemOff, rtc>>

Demo1 == DeviceFails \/ StartCounter \/ SetOneShot \/ SetOneShotFails \/ OneShotFired
Demo2 == SetPeriodic \/ LeavePeriodic \/ PeriodicFired
Demo3 == RestartCounter \/ RestartFails \/ SetWakeup \/ SetWakeupFails \/ Poweroff
Next  == Demo1 \/ Demo2 \/ Demo3 \/ AlarmCallback \/ ColdBoot \/ Tick

Spec == Init /\ [][Next]_vars

-----------------------------------------------------------------------------
(* Properties *)

TypeOK ==
    /\ rtMain \in {"start", "oneshot", "wait_oneshot", "periodic", "wait_periodic", "spin",
                   "restart", "wakeup", "flush", "off", "returned"}
    /\ rtWake \in -Late..1
    /\ alarm_sem \in 0..1 /\ periodic_count \in 0..AlarmCount
    /\ systemOff \in {"yes", "no"} /\ rtc \in {"stopped", "running"}
    /\ alarm \in NoAlarm..Top

\* main() waits for, and the chip sleeps until, an alarm that is to come: no
\* token is left from an earlier one that would end a wait, the alarm does not
\* come before the power goes off, and the counter runs meanwhile.
AwaitsAnAlarm ==
    /\ rtMain \in {"wait_oneshot", "wait_periodic"} =>
         rtc = "running" /\ (alarm = NoAlarm <=> alarm_sem = 1)
    /\ rtMain = "off" => rtc = "running" /\ alarm # NoAlarm
=============================================================================
