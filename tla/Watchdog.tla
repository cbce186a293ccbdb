------------------------------ MODULE Watchdog ------------------------------
(***************************************************************************)
(* The sample watchdog: main() starts the watchdog and then a thread that  *)
(* feeds it, until the button pauses the feeding.  A watchdog that is not  *)
(* fed for Timeout resets the chip.  Time is in seconds; what the program  *)
(* does between two sleeps takes no time, but a thread whose sleep is over *)
(* may have to wait for the CPU, up to Late.                               *)
(*                                                                         *)
(* External: the watchdog, whose counter, once started, runs also while    *)
(* the CPU sleeps, unless it accepted WDT_OPT_PAUSE_IN_SLEEP: then it runs *)
(* while a thread is ready, and otherwise as much as something else keeps  *)
(* the CPU awake.  The debugger is left out.                               *)
(*                                                                         *)
(* A definition marked "Mutant" is the definition that follows it with a   *)
(* plausible mistake; no formula uses it.                                  *)
(***************************************************************************)
EXTENDS Integers

CONSTANTS
    Timeout,        \* window.max of the channel
    FeedInterval,   \* FEED_INTERVAL_MS
    Countdown,      \* the seconds the paused thread counts down
    DemoFeeds,      \* feeds before CONFIG_WDT_DEMO_TRIGGER_RESET pauses
    Late            \* the longest that a ready thread waits for the CPU

ASSUME IntervalAssumption ==
    /\ Timeout \in Nat /\ FeedInterval \in Nat /\ Late \in Nat
    /\ FeedInterval + Late < Timeout
ASSUME CountdownAssumption ==
    /\ Countdown \in Nat \ {0}
    /\ FeedInterval + Countdown >= Timeout
ASSUME DemoAssumption == DemoFeeds \in Nat \ {0}

VARIABLES
    mainPc,     \* where main() is
    feeder,     \* where watchdog_feed_thread is
    wake,       \* until the sleep of the thread ends; negative: it is late
    remaining,  \* the loop variable of the countdown
    feeding,    \* "paused" once feed_paused is set
    feedCount,  \* feed_count, as far as DemoFeeds
    demo,       \* whether CONFIG_WDT_DEMO_TRIGGER_RESET is set
    wdt,        \* external: the watchdog is off, running, or has expired
    option,     \* external: "sleep" when it pauses in sleep
    counter,    \* external: its counter
    since       \* history: the time that the watchdog has run since feed_paused
                \* was set or main() returned, up to MaxSince

thread == <<feeder, wake, remaining, feedCount>>
dog    == <<wdt, option, counter>>
vars   == <<mainPc, thread, feeding, demo, dog, since>>

Setup    == {"start", "install", "setup", "button", "create"}
MaxSince == Timeout + Late + 1

Init ==
    /\ mainPc = "start"
    /\ feeder = "none" /\ wake = 0 /\ remaining = 0 /\ feedCount = 0
    /\ feeding = "on"
    /\ demo \in {"yes", "no"}
    /\ wdt = "off" /\ option = "none" /\ counter = 0
    /\ since = 0

-----------------------------------------------------------------------------
(* main() *)

DeviceReady ==
    /\ mainPc = "start"
    /\ mainPc' = "install"
    /\ UNCHANGED <<thread, feeding, demo, dog, since>>

InstallTimeout ==
    /\ mainPc = "install"
    /\ mainPc' = "setup"
    /\ UNCHANGED <<thread, feeding, demo, dog, since>>

\* wdt_setup with both options, then without the pause in sleep, then without
\* any: the second and the third differ for the debugger only.
SetupWdt ==
    /\ mainPc = "setup"
    /\ mainPc' = "button"
    /\ option' \in {"sleep", "none"}
    /\ wdt' = "running" /\ counter' = 0
    /\ UNCHANGED <<thread, feeding, demo, since>>

ButtonReady ==
    /\ mainPc = "button"
    /\ mainPc' = "create"
    /\ UNCHANGED <<thread, feeding, demo, dog, since>>

\* A step of the set-up that may fail, the one of the button with the watchdog
\* already running.
SetupFails ==
    /\ mainPc \in {"start", "install", "setup", "button"}
    /\ mainPc' = "returned"
    /\ UNCHANGED <<thread, feeding, demo, dog, since>>

\* The thread begins with a sleep.
CreateThread ==
    /\ mainPc = "create"
    /\ mainPc' = "asleep"
    /\ feeder' = "asleep" /\ wake' = FeedInterval
    /\ UNCHANGED <<remaining, feedCount, feeding, demo, dog, since>>

-----------------------------------------------------------------------------
(* button_isr *)

ButtonPressed ==
    /\ mainPc \in {"create", "asleep"}
    /\ feeding = "on"
    /\ feeding' = "paused"
    /\ UNCHANGED <<mainPc, thread, demo, dog, since>>

-----------------------------------------------------------------------------
(* watchdog_feed_thread *)

Awake == wake <= 0

\* Mutant: the test is compiled for the demonstration only.
TestPaused_DemoOnly ==
    /\ feeder = "asleep" /\ Awake
    /\ IF feeding = "paused" /\ demo = "yes"
       THEN /\ feeder' = "countdown"
            /\ remaining' = Countdown
            /\ wake' = 1
       ELSE /\ feeder' = "feed"
            /\ UNCHANGED <<remaining, wake>>
    /\ UNCHANGED <<mainPc, feedCount, feeding, demo, dog, since>>

\* feed_paused is tested, and after that the button may set it.
TestPaused ==
    /\ feeder = "asleep" /\ Awake
    /\ IF feeding = "paused"
       THEN /\ feeder' = "countdown"
            /\ remaining' = Countdown
            /\ wake' = 1
       ELSE /\ feeder' = "feed"
            /\ UNCHANGED <<remaining, wake>>
    /\ UNCHANGED <<mainPc, feedCount, feeding, demo, dog, since>>

\* One second of the countdown; after the last the thread spins in short sleeps.
CountDown ==
    /\ feeder = "countdown" /\ Awake
    /\ remaining' = remaining - 1
    /\ IF remaining = 1
       THEN feeder' = "spin" /\ UNCHANGED wake
       ELSE wake' = 1 /\ UNCHANGED feeder
    /\ UNCHANGED <<mainPc, feedCount, feeding, demo, dog, since>>

\* Mutant: the thread sleeps as long as the window is open.
Feed_LongSleep ==
    /\ feeder = "feed"
    /\ feeder' = "asleep" /\ wake' = Timeout
    /\ feedCount' = IF feedCount < DemoFeeds THEN feedCount + 1 ELSE feedCount
    /\ counter' = IF wdt = "running" THEN 0 ELSE counter
    /\ IF demo = "yes" /\ feedCount' >= DemoFeeds
       THEN feeding' = "paused"
       ELSE UNCHANGED feeding
    /\ UNCHANGED <<mainPc, remaining, demo, wdt, option, since>>

\* wdt_feed, the demonstration's stop, and the next sleep.  An expired
\* watchdog is not fed back to life.
Feed ==
    /\ feeder = "feed"
    /\ feeder' = "asleep" /\ wake' = FeedInterval
    /\ feedCount' = IF feedCount < DemoFeeds THEN feedCount + 1 ELSE feedCount
    /\ counter' = IF wdt = "running" THEN 0 ELSE counter
    /\ IF demo = "yes" /\ feedCount' >= DemoFeeds
       THEN feeding' = "paused"
       ELSE UNCHANGED feeding
    /\ UNCHANGED <<mainPc, remaining, demo, wdt, option, since>>

-----------------------------------------------------------------------------
(* External: time, the watchdog and the reset *)

Ready == feeder \in {"asleep", "countdown", "feed"} /\ Awake

\* How much of a second the counter counts.
Counted == IF option = "sleep" /\ ~Ready THEN {0, 1} ELSE {1}

\* Nobody is to feed the watchdog any more.
Unfed == feeding = "paused" \/ mainPc = "returned"

Tick ==
    /\ mainPc \in {"asleep", "returned"} /\ wdt # "expired"
    /\ Ready => wake > -Late
    /\ wake' = IF feeder \in {"none", "spin"} THEN wake ELSE wake - 1
    /\ since' = IF Unfed /\ wdt = "running" /\ since < MaxSince THEN since + 1 ELSE since
    /\ IF wdt = "running"
       THEN /\ \E n \in Counted : counter' = counter + n
            /\ wdt' = IF counter' >= Timeout THEN "expired" ELSE "running"
       ELSE UNCHANGED <<wdt, counter>>
    /\ UNCHANGED <<mainPc, feeder, remaining, feedCount, feeding, demo, option>>

\* wdt_callback only prints; then the whole chip starts again.
Reset ==
    /\ wdt = "expired"
    /\ mainPc' = "start"
    /\ feeder' = "none" /\ wake' = 0 /\ remaining' = 0 /\ feedCount' = 0
    /\ feeding' = "on"
    /\ wdt' = "off" /\ option' = "none" /\ counter' = 0
    /\ since' = 0
    /\ UNCHANGED demo

Main    == DeviceReady \/ InstallTimeout \/ SetupWdt \/ ButtonReady \/ SetupFails \/ CreateThread
Thread  == TestPaused \/ CountDown \/ Feed
Next    == Main \/ ButtonPressed \/ Thread \/ Tick \/ Reset

Spec == Init /\ [][Next]_vars

-----------------------------------------------------------------------------
(* Properties *)

TypeOK ==
    /\ mainPc \in Setup \cup {"asleep", "returned"}
    /\ feeder \in {"none", "asleep", "feed", "countdown", "spin"}
    /\ wake \in Int /\ wake >= -Late /\ wake <= FeedInterval + 1
    /\ remaining \in 0..Countdown
    /\ feedCount \in 0..DemoFeeds
    /\ feeding \in {"on", "paused"} /\ demo \in {"yes", "no"}
    /\ wdt \in {"off", "running", "expired"} /\ option \in {"none", "sleep"}
    /\ counter \in 0..Timeout
    /\ since \in 0..MaxSince

\* The watchdog expires only after the feeding was paused or main() returned
\* without a feed thread: however late the thread is scheduled, a feed every
\* FEED_INTERVAL_MS keeps the chip running.
NeverStarved == wdt = "expired" => Unfed

\* When the counter runs in sleep, a watchdog that is started is in any case
\* fed or expires: within the time-out of the button press or of the
\* demonstration's stop, also when the press came between the test of the flag
\* and the feed and so one more feed was made, and within the time-out of its
\* start when main() returned after it, for want of the button.
ResetInTime == option = "none" => since <= Timeout + Late

\* When the counter runs in sleep, the countdown is long enough: the thread
\* does not come to its last loop before the watchdog has expired.
CountdownSuffices == feeder = "spin" /\ option = "none" => wdt = "expired"
=============================================================================
