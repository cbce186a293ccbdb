-------------------------- MODULE Watchdog_proofs --------------------------
(***************************************************************************)
(* The watchdog is fed in time and expires in time, for any time-out, feed *)
(* interval and length of the countdown that fit together, and any lateness*)
(* of the threads that the time-out leaves room for.                       *)
(***************************************************************************)
EXTENDS Watchdog, TLAPS

\* How far main() has come, and with it the watchdog and the feed thread.
SetupInv ==
    /\ mainPc \in {"start", "install", "setup"} =>
         wdt = "off" /\ feeder = "none" /\ feeding = "on" /\ counter = 0
    /\ mainPc = "button" => wdt = "running" /\ feeder = "none" /\ feeding = "on" /\ counter = 0
    /\ mainPc = "create" => wdt = "running" /\ feeder = "none" /\ counter = 0
    /\ mainPc = "returned" => feeder = "none" /\ feeding = "on"
    /\ mainPc = "asleep" => wdt # "off" /\ feeder # "none"

\* The thread that feeds is never as late as the watchdog is patient.
FedInv ==
    /\ wdt = "running" => counter < Timeout
    /\ feeder \in {"asleep", "feed"} => wdt = "running" /\ counter <= FeedInterval - wake
    /\ feeder = "feed" => wake <= 0
    /\ feeder \in {"countdown", "spin"} => feeding = "paused"
    /\ feeder = "countdown" => remaining >= 1

\* The counter has counted the time since nobody feeds any more, but for the
\* delay of the one feed that was already decided on.
SinceInv ==
    /\ ~Unfed => since = 0
    /\ wdt = "off" => since = 0
    /\ feeder = "feed" => since <= -wake
    /\ option = "none" => since <= counter + Late

\* In a counter that runs in sleep, each sleep of the thread is counted.
CountdownInv ==
    option = "none" =>
        /\ feeder = "asleep" => counter >= FeedInterval - wake
        /\ feeder = "countdown" =>
             wdt = "expired" \/ counter >= FeedInterval + Countdown - remaining + 1 - wake
        /\ feeder = "spin" => wdt = "expired"

IInv == TypeOK /\ SetupInv /\ FedInv /\ SinceInv /\ CountdownInv

-----------------------------------------------------------------------------
LEMMA IInvInit == ASSUME Init PROVE IInv
BY IntervalAssumption, CountdownAssumption, DemoAssumption
   DEF Init, IInv, TypeOK, SetupInv, FedInv, SinceInv, CountdownInv, Setup, MaxSince, Unfed

\* The steps of main().
LEMMA MainKeeps == ASSUME IInv, Main PROVE IInv'
<1> USE IntervalAssumption, CountdownAssumption, DemoAssumption
        DEF IInv, TypeOK, SetupInv, FedInv, SinceInv, CountdownInv, Setup, MaxSince, Unfed,
            thread, dog
<1>1. CASE DeviceReady
  BY <1>1 DEF DeviceReady
<1>2. CASE InstallTimeout
  BY <1>2 DEF InstallTimeout
<1>3. CASE SetupWdt
  BY <1>3 DEF SetupWdt
<1>4. CASE ButtonReady
  BY <1>4 DEF ButtonReady
<1>5. CASE SetupFails
  BY <1>5 DEF SetupFails
<1>6. CASE CreateThread
  BY <1>6 DEF CreateThread
<1> QED BY <1>1, <1>2, <1>3, <1>4, <1>5, <1>6 DEF Main

\* The button, at any moment.
LEMMA ButtonKeeps == ASSUME IInv, ButtonPressed PROVE IInv'
BY IntervalAssumption
   DEF ButtonPressed, IInv, TypeOK, SetupInv, FedInv, SinceInv, CountdownInv, Setup, MaxSince,
       Unfed, thread, dog

\* The feed thread: a feed clears the counter, and a paused thread has a
\* countdown ahead of it that begins with a late sleep.
LEMMA ThreadKeeps == ASSUME IInv, Thread PROVE IInv'
<1> USE IntervalAssumption, CountdownAssumption, DemoAssumption
        DEF IInv, TypeOK, SetupInv, FedInv, SinceInv, CountdownInv, Setup, MaxSince, Unfed,
            dog, Awake
<1>1. CASE TestPaused
  <2>1. TypeOK' BY <1>1 DEF TestPaused
  <2>2. SetupInv' BY <1>1 DEF TestPaused
  <2>3. FedInv' BY <1>1 DEF TestPaused
  <2>4. SinceInv' BY <1>1 DEF TestPaused
  <2>5. CountdownInv' BY <1>1 DEF TestPaused
  <2> QED BY <2>1, <2>2, <2>3, <2>4, <2>5
<1>2. CASE CountDown
  <2>1. TypeOK' BY <1>2 DEF CountDown
  <2>2. SetupInv' BY <1>2 DEF CountDown
  <2>3. FedInv' BY <1>2 DEF CountDown
  <2>4. SinceInv' BY <1>2 DEF CountDown
  <2>5. CountdownInv' BY <1>2 DEF CountDown
  <2> QED BY <2>1, <2>2, <2>3, <2>4, <2>5
<1>3. CASE Feed
  <2>1. TypeOK' BY <1>3 DEF Feed
  <2>2. SetupInv' BY <1>3 DEF Feed
  <2>3. FedInv' BY <1>3 DEF Feed
  <2>4. SinceInv' BY <1>3 DEF Feed
  <2>5. CountdownInv' BY <1>3 DEF Feed
  <2> QED BY <2>1, <2>2, <2>3, <2>4, <2>5
<1> QED BY <1>1, <1>2, <1>3 DEF Thread

\* While the thread that feeds sleeps or is late, time does not bring the
\* counter to its maximum.
LEMMA TickSpares ==
    ASSUME IInv, Tick, feeder \in {"asleep", "feed"}
    PROVE  counter' < Timeout /\ wdt' = "running" /\ wake' = wake - 1
BY IntervalAssumption, SMTT(30)
   DEF Tick, Ready, Awake, Counted, IInv, TypeOK, FedInv

\* Time.
LEMMA TickKeeps == ASSUME IInv, Tick PROVE IInv'
<1> USE IntervalAssumption, CountdownAssumption, DemoAssumption
        DEF Tick, IInv
<1>1. counter' \in 0..Timeout
  BY DEF Counted, TypeOK, FedInv
<1>2. since' \in 0..MaxSince
  BY DEF TypeOK, MaxSince
<1>3. wake' \in Int /\ wake' >= -Late /\ wake' <= FeedInterval + 1
  BY DEF TypeOK, Ready, Awake
<1>4. wdt' \in {"off", "running", "expired"}
  BY DEF TypeOK
<1>5. TypeOK'
  BY <1>1, <1>2, <1>3, <1>4 DEF TypeOK
<1>6. SetupInv'
  BY DEF SetupInv
<1>7. FedInv'
  BY TickSpares, <1>1 DEF FedInv, TypeOK, Counted
<1>8. SinceInv'
  BY DEF SinceInv, TypeOK, FedInv, Unfed, Counted, MaxSince
<1>9. CountdownInv'
  BY DEF CountdownInv, TypeOK, FedInv, SetupInv, Counted
<1> QED BY <1>5, <1>6, <1>7, <1>8, <1>9

\* The chip starts again.
LEMMA ResetKeeps == ASSUME IInv, Reset PROVE IInv'
BY IntervalAssumption, CountdownAssumption, DemoAssumption
   DEF Reset, IInv, TypeOK, SetupInv, FedInv, SinceInv, CountdownInv, Setup, MaxSince, Unfed

LEMMA NextKeeps == ASSUME IInv, [Next]_vars PROVE IInv'
<1>1. CASE UNCHANGED vars
  BY <1>1 DEF vars, thread, dog, IInv, TypeOK, SetupInv, FedInv, SinceInv, CountdownInv,
     Unfed
<1>2. CASE Next
  BY <1>2, MainKeeps, ButtonKeeps, ThreadKeeps, TickKeeps, ResetKeeps DEF Next
<1> QED BY <1>1, <1>2

\* The invariant that the others follow from.
THEOREM Inductive == Spec => []IInv
<1>1. Init => IInv BY IInvInit
<1>2. IInv /\ [Next]_vars => IInv' BY NextKeeps
<1> QED BY <1>1, <1>2, PTL DEF Spec

\* Every variable of the watchdog sample keeps its type.
THEOREM TypeCorrect == Spec => []TypeOK
<1>1. IInv => TypeOK BY DEF IInv
<1> QED BY <1>1, Inductive, PTL

\* A watchdog that is being fed never expires: watchdog_feed_thread feeds it
\* every FEED_INTERVAL_MS, however late it is scheduled within Late.
THEOREM FedInTime == Spec => []NeverStarved
<1>1. IInv => NeverStarved
  BY DEF IInv, TypeOK, SetupInv, FedInv, NeverStarved, Unfed, Setup
<1> QED BY <1>1, Inductive, PTL

\* A watchdog that runs in sleep and is not fed any more resets the chip
\* within its time-out and the lateness of one feed, whether button_isr, the
\* demonstration or a failure in main() ended the feeding.
THEOREM ResetsInTime == Spec => []ResetInTime
<1>1. IInv => ResetInTime
  BY IntervalAssumption DEF IInv, TypeOK, SinceInv, ResetInTime
<1> QED BY <1>1, Inductive, PTL

\* The five seconds that the paused thread counts down are enough, if the
\* watchdog runs in sleep: it has expired when the thread comes to its last loop.
THEOREM CountdownIsEnough == Spec => []CountdownSuffices
<1>1. IInv => CountdownSuffices
  BY DEF IInv, CountdownInv, CountdownSuffices
<1> QED BY <1>1, Inductive, PTL

=============================================================================
