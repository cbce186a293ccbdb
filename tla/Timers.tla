------------------------------- MODULE Timers -------------------------------
(***************************************************************************)
(* The sample timers: a one-shot, a periodic and a watchdog-style kernel   *)
(* timer, whose expiry functions run in interrupts; main(), which sleeps,  *)
(* polls and waits beside them; and log_work, which the periodic timer     *)
(* submits to the system work queue.                                       *)
(*                                                                         *)
(* Time is in half seconds.  A timer that is due expires at once; main(),  *)
(* when it need not wait any longer, may be kept from the CPU up to Late;  *)
(* log_work any time.                                                      *)
(*                                                                         *)
(* Left out is what is only shown: the LED, toggled at each expiry of the  *)
(* periodic timer, its count, which is that of the expiries, and the       *)
(* remaining times.                                                        *)
(*                                                                         *)
(* A definition marked "Mutant" is the definition that follows it with a   *)
(* plausible mistake; no formula uses it.                                  *)
(***************************************************************************)
EXTENDS Integers

CONSTANT
    Late            \* the longest that main(), when ready, waits for the CPU

VARIABLES
    tmMain,         \* where main() is
    tmWake,         \* until the sleep of main() ends; negative: it is late
    oneshot,        \* until oneshot_timer expires, or Off
    every,          \* until periodic_timer expires, or Off
    guard,          \* until watchdog_timer expires, or Off
    status,         \* the expiries of periodic_timer not yet consumed, up to 1
    delay,          \* history: the time that main() was kept waiting before
                    \* it stopped watchdog_timer, which it did up to three times
    odd,            \* whether loop_count is odd
    watchdog_fire_count,    \* up to 1
    logQueued,      \* whether log_work is in the queue
    logPc,          \* whether it runs, and has not yet returned
    behind          \* history: whether an expiry came since log_work read the count

Off == -1

clocks == <<tmWake, oneshot, every, guard>>
log    == <<logQueued, logPc, behind>>
vars   == <<tmMain, clocks, status, delay, odd, watchdog_fire_count, log>>

Init ==
    /\ tmMain = "start" /\ tmWake = 0
    /\ oneshot = Off /\ every = Off /\ guard = Off
    /\ status = 0
    /\ delay = 0 /\ odd = FALSE
    /\ watchdog_fire_count = 0
    /\ logQueued = FALSE /\ logPc = "idle" /\ behind = FALSE

-----------------------------------------------------------------------------
(* main() *)

\* main() sleeps for t half seconds before the step at pc.
Sleep(t, pc) == tmMain' = pc /\ tmWake' = t
Awake(pc)    == tmMain = pc /\ tmWake <= 0

LedFails ==
    /\ tmMain = "start"
    /\ tmMain' = "returned"
    /\ UNCHANGED <<clocks, status, delay, odd, watchdog_fire_count, log>>

\* The LED is ready; the three timers are started.
StartTimers ==
    /\ tmMain = "start"
    /\ Sleep(1, "poll")
    /\ oneshot' = 6 /\ every' = 2 /\ guard' = 10
    /\ UNCHANGED <<status, delay, odd, watchdog_fire_count, log>>

PollRemaining ==
    /\ Awake("poll")
    /\ Sleep(0, "sync")
    /\ UNCHANGED <<oneshot, every, guard, status, delay, odd, watchdog_fire_count, log>>

\* Mutant: the sleep that follows is a second longer.
StatusSync_SleepsLonger ==
    /\ tmMain = "sync" /\ status > 0
    /\ status' = 0
    /\ Sleep(7, "get")
    /\ UNCHANGED <<oneshot, every, guard, delay, odd, watchdog_fire_count, log>>

\* k_timer_status_sync waits for an expiry, and consumes the count.
StatusSync ==
    /\ tmMain = "sync" /\ status > 0
    /\ status' = 0
    /\ Sleep(5, "get")
    /\ UNCHANGED <<oneshot, every, guard, delay, odd, watchdog_fire_count, log>>

StatusGet ==
    /\ Awake("get")
    /\ status' = 0
    /\ tmMain' = "stop"
    /\ UNCHANGED <<clocks, delay, odd, watchdog_fire_count, log>>

\* k_timer_stop, and the first sleep of the loop.
StopWatchdog ==
    /\ tmMain = "stop"
    /\ guard' = Off
    /\ Sleep(6, "loop")
    /\ UNCHANGED <<oneshot, every, status, delay, odd, watchdog_fire_count, log>>

\* A round of the loop; in the even rounds the one-shot timer is started again.
Loop ==
    /\ Awake("loop")
    /\ Sleep(6, "loop")
    /\ odd' = ~odd
    /\ oneshot' = IF odd' THEN oneshot ELSE 6
    /\ UNCHANGED <<every, guard, status, delay, watchdog_fire_count, log>>

-----------------------------------------------------------------------------
(* The expiry functions, in interrupts *)

OneshotExpires ==
    /\ oneshot = 0
    /\ oneshot' = Off
    /\ UNCHANGED <<tmMain, tmWake, every, guard, status, delay, odd, watchdog_fire_count, log>>

\* Mutant: log_work is submitted only when it does not run.
PeriodicExpires_UnlessRunning ==
    /\ every = 0
    /\ every' = 2
    /\ status' = 1
    /\ behind' = TRUE
    /\ logQueued' = (logQueued \/ logPc = "idle")
    /\ UNCHANGED <<tmMain, tmWake, oneshot, guard, delay, odd, watchdog_fire_count, logPc>>

\* The kernel counts the expiry; submitting log_work again changes nothing
\* while it is queued, and queues it again while it runs.
PeriodicExpires ==
    /\ every = 0
    /\ every' = 2
    /\ status' = 1
    /\ behind' = TRUE
    /\ logQueued' = TRUE
    /\ UNCHANGED <<tmMain, tmWake, oneshot, guard, delay, odd, watchdog_fire_count, logPc>>

WatchdogExpires ==
    /\ guard = 0
    /\ guard' = 10
    /\ watchdog_fire_count' = 1
    /\ UNCHANGED <<tmMain, tmWake, oneshot, every, status, delay, odd, log>>

-----------------------------------------------------------------------------
(* log_work_fn on the system work queue *)

LogStarts ==
    /\ logPc = "idle" /\ logQueued
    /\ logQueued' = FALSE
    /\ logPc' = "run"
    /\ UNCHANGED <<tmMain, clocks, status, delay, odd, watchdog_fire_count, behind>>

LogReads ==
    /\ logPc = "run"
    /\ behind' = FALSE
    /\ logPc' = "return"
    /\ UNCHANGED <<tmMain, clocks, status, delay, odd, watchdog_fire_count, logQueued>>

LogReturns ==
    /\ logPc = "return"
    /\ logPc' = "idle"
    /\ UNCHANGED <<tmMain, clocks, status, delay, odd, watchdog_fire_count, logQueued, behind>>

-----------------------------------------------------------------------------
(* External: time *)

Ready == tmWake <= 0 /\ (tmMain = "sync" => status > 0)

Elapse(t) == IF t = Off THEN Off ELSE t - 1

Tick ==
    /\ tmMain \notin {"start", "returned"}
    /\ 0 \notin {oneshot, every, guard}
    /\ Ready => tmWake > -Late
    /\ tmWake' = IF tmMain = "sync" /\ ~Ready THEN tmWake ELSE tmWake - 1
    /\ delay' = IF Ready /\ tmMain # "loop" THEN delay + 1 ELSE delay
    /\ oneshot' = Elapse(oneshot) /\ every' = Elapse(every) /\ guard' = Elapse(guard)
    /\ UNCHANGED <<tmMain, status, odd, watchdog_fire_count, log>>

Main    == \/ LedFails \/ StartTimers \/ PollRemaining \/ StatusSync
           \/ StatusGet \/ StopWatchdog \/ Loop
Expiry  == OneshotExpires \/ PeriodicExpires \/ WatchdogExpires
LogWork == LogStarts \/ LogReads \/ LogReturns
Next    == Main \/ Expiry \/ LogWork \/ Tick

Spec == Init /\ [][Next]_vars

-----------------------------------------------------------------------------
(* Properties *)

TypeOK ==
    /\ tmMain \in {"start", "poll", "sync", "get", "stop", "loop", "returned"}
    /\ tmWake \in -Late..6
    /\ oneshot \in Off..6 /\ every \in Off..2 /\ guard \in Off..10
    /\ status \in 0..1 /\ watchdog_fire_count \in 0..1 /\ delay \in 0..3 * Late
    /\ odd \in BOOLEAN /\ logQueued \in BOOLEAN
    /\ logPc \in {"idle", "run", "return"} /\ behind \in BOOLEAN

\* Expiries that come while log_work is queued or runs are merged, but the
\* last one is never lost: when log_work is at rest, it has logged the count.
LogNotBehind ==
    ~logQueued /\ logPc = "idle" => ~behind

\* main() stops the watchdog-style timer before its first expiry, unless it
\* was kept waiting for a second or more: its own sleeps and the wait for the
\* periodic timer leave it 1.5 s before the expiry, of which the wait absorbs
\* a delay of up to half a second.
WatchdogStoppedInTime == watchdog_fire_count > 0 => delay >= 3

\* When main() starts the one-shot timer again, in the even rounds, the timer
\* has expired before, however the sleeps of main() drift.
OneshotOverAtRearm == Awake("loop") /\ odd => oneshot = Off

\* The sleeps of main() and the durations of the timers fit together.
TimersInTime == WatchdogStoppedInTime /\ OneshotOverAtRearm
=============================================================================
