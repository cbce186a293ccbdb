----------------------------- MODULE WorkQueue -----------------------------
(***************************************************************************)
(* The sample work_queue: a button interrupt submits sensor_work to the    *)
(* system work queue, and a delayed item on a queue of its own reschedules *)
(* itself and submits result_work to the system work queue.                *)
(*                                                                         *)
(* External: the kernel.  The thread of the system work queue is           *)
(* cooperative: the thread of the custom queue, a preemptible one, runs    *)
(* only while the first sleeps or is idle, and is preempted as soon as it  *)
(* has work; the interrupts, of the button and of the timer, come at any   *)
(* step.  A submission adds an item at the end of its queue, unless it is  *)
(* in the queue already; an item leaves the queue when it starts.          *)
(* Left out is what is only shown: the LED and process_count, which follow *)
(* the runs of sensor_work, and the loop of main().                        *)
(*                                                                         *)
(* A definition marked "Mutant" is the definition that follows it with a   *)
(* plausible mistake; no formula uses it.                                  *)
(***************************************************************************)
EXTENDS Integers, Sequences, SequencesExt

VARIABLES
    wqMain,         \* where main() is
    sysQueue,       \* the items submitted to the system work queue
    sysPc,          \* what its thread does
    timer,          \* the delay of periodic_dwork
    periodic,       \* "queued" when periodic_dwork is in the custom queue
    customPc,       \* what the thread of the custom queue does
    pressed         \* history: a press that no run of sensor_work has followed

system  == <<sysQueue, sysPc>>
custom  == <<timer, periodic, customPc>>
vars    == <<wqMain, system, custom, pressed>>

Init ==
    /\ wqMain = "setup"
    /\ sysQueue = <<>> /\ sysPc = "idle"
    /\ timer = "off" /\ periodic = "no" /\ customPc = "none"
    /\ pressed = FALSE

Submitted(item) == IF Contains(sysQueue, item) THEN sysQueue ELSE Append(sysQueue, item)

-----------------------------------------------------------------------------
(* main() *)

\* The LED, the button and its interrupt; each may fail, and main() returns.
SetUpPins ==
    /\ wqMain = "setup"
    /\ wqMain' \in {"start", "returned"}
    /\ UNCHANGED <<system, custom, pressed>>

StartQueue ==
    /\ wqMain = "start"
    /\ wqMain' = "schedule"
    /\ customPc' = "idle"
    /\ UNCHANGED <<system, timer, periodic, pressed>>

SchedulePeriodic ==
    /\ wqMain = "schedule"
    /\ wqMain' = "loop"
    /\ timer' = "armed"
    /\ UNCHANGED <<system, periodic, customPc, pressed>>

-----------------------------------------------------------------------------
(* Interrupts *)

\* Mutant: a press is dropped while sensor_work runs.
ButtonPressed_UnlessBusy ==
    /\ wqMain \in {"start", "schedule", "loop"}
    /\ pressed' = TRUE
    /\ sysQueue' = IF sysPc \in {"sensor", "sensor_sleep", "toggle"} THEN sysQueue ELSE Submitted("sensor")
    /\ UNCHANGED <<wqMain, sysPc, custom>>

\* button_isr, once main() has added the callback.
ButtonPressed ==
    /\ wqMain \in {"start", "schedule", "loop"}
    /\ pressed' = TRUE
    /\ sysQueue' = Submitted("sensor")
    /\ UNCHANGED <<wqMain, sysPc, custom>>

\* External: the delay of periodic_dwork ends.
TimerExpires ==
    /\ timer = "armed"
    /\ timer' = "off"
    /\ periodic' = "queued"
    /\ UNCHANGED <<wqMain, system, customPc, pressed>>

-----------------------------------------------------------------------------
(* The thread of the system work queue *)

TakeItem ==
    /\ sysPc = "idle" /\ sysQueue # <<>>
    /\ sysPc' = Head(sysQueue)
    /\ sysQueue' = Tail(sysQueue)
    /\ pressed' = (pressed /\ sysPc' # "sensor")
    /\ UNCHANGED <<wqMain, custom>>

\* sensor_work_fn as far as its sleep, the end of the sleep, and the rest.
SensorWork ==
    /\ sysPc = "sensor"
    /\ sysPc' = "sensor_sleep"
    /\ UNCHANGED <<wqMain, sysQueue, custom, pressed>>

SensorSlept ==
    /\ sysPc = "sensor_sleep"
    /\ sysPc' = "toggle"
    /\ UNCHANGED <<wqMain, sysQueue, custom, pressed>>

SensorToggles ==
    /\ sysPc = "toggle"
    /\ sysPc' = "idle"
    /\ UNCHANGED <<wqMain, sysQueue, custom, pressed>>

\* result_work_fn only logs.
ResultWork ==
    /\ sysPc = "result"
    /\ sysPc' = "idle"
    /\ UNCHANGED <<wqMain, sysQueue, custom, pressed>>

-----------------------------------------------------------------------------
(* The thread of the custom queue *)

SystemBlocked == sysPc = "sensor_sleep" \/ (sysPc = "idle" /\ sysQueue = <<>>)

PeriodicFires ==
    /\ SystemBlocked
    /\ customPc = "idle" /\ periodic = "queued"
    /\ periodic' = "no"
    /\ customPc' = "test"
    /\ UNCHANGED <<wqMain, system, timer, pressed>>

\* Mutant: nothing is submitted while any item is pending.
TestPending_Any ==
    /\ SystemBlocked
    /\ customPc = "test"
    /\ customPc' = IF sysQueue # <<>> \/ sysPc # "idle" THEN "reschedule" ELSE "submit"
    /\ UNCHANGED <<wqMain, system, timer, periodic, pressed>>

\* k_work_is_pending: queued, or running.
TestPending ==
    /\ SystemBlocked
    /\ customPc = "test"
    /\ customPc' = IF Contains(sysQueue, "result") \/ sysPc = "result" THEN "reschedule" ELSE "submit"
    /\ UNCHANGED <<wqMain, system, timer, periodic, pressed>>

SubmitResult ==
    /\ SystemBlocked
    /\ customPc = "submit"
    /\ sysQueue' = Submitted("result")
    /\ customPc' = "reschedule"
    /\ UNCHANGED <<wqMain, sysPc, timer, periodic, pressed>>

\* The last statement of periodic_dwork_fn.
Reschedule ==
    /\ SystemBlocked
    /\ customPc = "reschedule"
    /\ timer' = "armed"
    /\ customPc' = "idle"
    /\ UNCHANGED <<wqMain, system, periodic, pressed>>

-----------------------------------------------------------------------------
Main      == SetUpPins \/ StartQueue \/ SchedulePeriodic
SystemWq  == TakeItem \/ SensorWork \/ SensorSlept \/ SensorToggles \/ ResultWork
CustomWq  == PeriodicFires \/ TestPending \/ SubmitResult \/ Reschedule
Next == Main \/ ButtonPressed \/ TimerExpires \/ SystemWq \/ CustomWq

\* The threads run when the kernel lets them, and timers expire.  The custom
\* queue gets the CPU each time that the system work queue sleeps or is idle,
\* hence SF; the presses leave the latter time for its items.
Fairness ==
    /\ WF_vars(Main) /\ WF_vars(TimerExpires)
    /\ WF_vars(SystemWq) /\ SF_vars(CustomWq)

Spec == Init /\ [][Next]_vars /\ Fairness

-----------------------------------------------------------------------------
(* Properties *)

Items == {"sensor", "result"}

TypeOK ==
    /\ wqMain \in {"setup", "start", "schedule", "loop", "returned"}
    /\ sysQueue \in Seq(Items) /\ IsInjective(sysQueue)
    /\ sysPc \in Items \cup {"idle", "sensor_sleep", "toggle"}
    /\ timer \in {"off", "armed"} /\ periodic \in {"no", "queued"}
    /\ customPc \in {"none", "idle", "test", "submit", "reschedule"}
    /\ pressed \in BOOLEAN

\* A press is followed by a run of sensor_work, also one that comes while the
\* last run sleeps and is not queued any more.
PressHandled == pressed ~> ~pressed

\* periodic_dwork keeps itself alive and its results are reported: once main()
\* loops, result_work runs again and again, also when a firing found it
\* pending and submitted nothing.
PeriodicReports == wqMain = "loop" ~> sysPc = "result"
=============================================================================
