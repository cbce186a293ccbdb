------------------------ MODULE SampleImages_proofs ------------------------
(***************************************************************************)
(* The images of SampleImages: for each program but that of the watchdog,  *)
(* whose proofs are in Watchdog_proofs, the inductive invariant behind its *)
(* safety properties; and that the board, whatever image it runs, keeps    *)
(* them all.                                                               *)
(***************************************************************************)
EXTENDS SampleImages, Watchdog_proofs, SequenceTheorems, WellFoundedInduction

-----------------------------------------------------------------------------
(* Timers *)

\* Which of the clocks run, as far as main() has come.
ClockInv ==
    /\ tmMain \in {"start", "returned"} =>
         oneshot = TM!Off /\ every = TM!Off /\ guard = TM!Off /\ status = 0 /\ delay = 0
         /\ tmWake = 0 /\ watchdog_fire_count = 0
    /\ tmMain \notin {"start", "returned"} => every >= 0
    /\ tmMain \in {"poll", "sync", "get", "stop"} => guard >= 0
    /\ tmMain # "loop" => ~odd
    /\ tmMain = "loop" => guard = TM!Off
    /\ tmMain = "poll" => tmWake <= 1
    /\ tmMain \in {"sync", "stop"} => tmWake <= 0
    /\ tmMain = "get" => tmWake <= 5

Lateness == IF tmWake < 0 THEN -tmWake ELSE 0
Asleep   == IF tmWake > 0 THEN tmWake ELSE 0

\* Each of the three waits adds its lateness to the delay.
DelayInv ==
    /\ tmMain = "poll" => delay = Lateness
    /\ tmMain = "sync" => delay <= Late + Lateness
    /\ tmMain \in {"get", "stop"} => delay <= 2 * Late + Lateness

\* What is left to watchdog_timer.  The wait for the periodic timer takes up
\* what main() was late before.
GuardInv ==
    /\ watchdog_fire_count > 0 => delay >= 3
    /\ watchdog_fire_count = 0 =>
         /\ tmMain = "poll" => guard = 9 + tmWake
         /\ tmMain \in {"poll", "sync"} /\ status = 0 => every = guard - 8
         /\ tmMain = "sync" /\ status = 1 => guard >= 8 - delay
         /\ tmMain \in {"get", "stop"} => guard >= 3 - delay + Asleep

\* The one-shot timer never outlasts the sleep of an even round.
OneshotInv ==
    tmMain = "loop" =>
        IF odd THEN oneshot <= 0 /\ (oneshot = 0 => tmWake = 6)
               ELSE oneshot <= 0 \/ oneshot <= tmWake

\* An expiry that log_work has not seen is one that it is going to see.
LogInv == behind => logQueued \/ logPc = "run"

TimersInv == TM!TypeOK /\ ClockInv /\ DelayInv /\ GuardInv /\ OneshotInv /\ LogInv

LEMMA TimersInit == ASSUME TM!Init PROVE TimersInv
<1> USE IntervalAssumption DEF TM!Init, TM!Off
<1>1. TM!TypeOK
  <2>1. odd \in BOOLEAN /\ logQueued \in BOOLEAN /\ behind \in BOOLEAN
    OBVIOUS
  <2> QED BY <2>1 DEF TM!TypeOK
<1>2. ClockInv /\ LogInv
  BY DEF ClockInv, LogInv
<1>3. DelayInv /\ GuardInv /\ OneshotInv
  BY DEF DelayInv, GuardInv, OneshotInv
<1> QED BY <1>1, <1>2, <1>3 DEF TimersInv

\* The steps of main(), each of which begins a wait.
LEMMA TimersMainKeeps == ASSUME TimersInv, TM!Main PROVE TimersInv'
<1> USE IntervalAssumption
    DEF TimersInv, TM!TypeOK, ClockInv, DelayInv, GuardInv, OneshotInv, LogInv, TM!Off,
        Lateness, Asleep, TM!Awake, TM!Sleep, TM!clocks, TM!log
<1>1. CASE TM!LedFails
  BY <1>1 DEF TM!LedFails
<1>2. CASE TM!StartTimers
  BY <1>2 DEF TM!StartTimers
<1>3. CASE TM!PollRemaining
  BY <1>3 DEF TM!PollRemaining
<1>4. CASE TM!StatusSync
  BY <1>4 DEF TM!StatusSync
<1>5. CASE TM!StatusGet
  BY <1>5 DEF TM!StatusGet
<1>6. CASE TM!StopWatchdog
  BY <1>6 DEF TM!StopWatchdog
<1>7. CASE TM!Loop
  BY <1>7 DEF TM!Loop
<1> QED BY <1>1, <1>2, <1>3, <1>4, <1>5, <1>6, <1>7 DEF TM!Main

\* The expiry functions: watchdog_timer expires only when main() is late.
LEMMA TimersExpiryKeeps == ASSUME TimersInv, TM!Expiry PROVE TimersInv'
<1> USE IntervalAssumption
    DEF TimersInv, TM!TypeOK, ClockInv, DelayInv, GuardInv, OneshotInv, LogInv, TM!Off,
        Lateness, Asleep, TM!log
<1>1. CASE TM!OneshotExpires
  BY <1>1 DEF TM!OneshotExpires
<1>2. CASE TM!PeriodicExpires
  BY <1>2 DEF TM!PeriodicExpires
<1>3. CASE TM!WatchdogExpires
  BY <1>3 DEF TM!WatchdogExpires
<1> QED BY <1>1, <1>2, <1>3 DEF TM!Expiry

LEMMA LogWorkKeeps == ASSUME TimersInv, TM!LogWork PROVE TimersInv'
<1> USE DEF TimersInv, TM!LogWork, TM!LogStarts, TM!LogReads, TM!LogReturns, TM!clocks
<1>1. TM!TypeOK'
  BY DEF TM!TypeOK
<1>2. ClockInv'
  BY DEF ClockInv
<1>3. DelayInv' /\ GuardInv' /\ OneshotInv'
  BY DEF DelayInv, GuardInv, OneshotInv, Lateness, Asleep
<1>4. LogInv'
  BY DEF LogInv, TM!TypeOK
<1> QED BY <1>1, <1>2, <1>3, <1>4

\* Time: what a clock loses, the sleep of main() loses too, or the delay gains.
LEMMA TimersTickKeeps == ASSUME TimersInv, TM!Tick PROVE TimersInv'
<1> USE IntervalAssumption
    DEF TimersInv, TM!Tick, TM!Ready, TM!Elapse, TM!TypeOK, ClockInv, TM!Off, TM!log
<1>1. ClockInv'
  OBVIOUS
<1>2. DelayInv'
  BY DEF DelayInv, Lateness
<1>3. TM!TypeOK'
  BY DEF DelayInv, Lateness
<1>4. GuardInv'
  BY DEF GuardInv, DelayInv, Lateness, Asleep
<1>5. OneshotInv'
  BY DEF OneshotInv
<1>6. LogInv'
  BY DEF LogInv
<1> QED BY <1>1, <1>2, <1>3, <1>4, <1>5, <1>6

LEMMA TimersNextKeeps == ASSUME TimersInv, [TM!Next]_(TM!vars) PROVE TimersInv'
<1>1. CASE UNCHANGED TM!vars
  BY <1>1 DEF TM!vars, TM!clocks, TM!log, TimersInv, TM!TypeOK, ClockInv, DelayInv, GuardInv,
     OneshotInv, LogInv, Lateness, Asleep
<1>2. CASE TM!Next
  BY <1>2, TimersMainKeeps, TimersExpiryKeeps, LogWorkKeeps, TimersTickKeeps DEF TM!Next
<1> QED BY <1>1, <1>2

-----------------------------------------------------------------------------
(* WifiScan *)

\* The number of the i-th event, that of the last result handled for i = 0.
Number(i) == IF i = 0 THEN scan_result ELSE events[i]

\* Unless an end was lost, the numbers go on by one or begin again, up to what
\* the driver has found.
NumbersInv ==
    ~lostDone =>
        /\ \A i \in 1..Len(events) : events[i] = 0 \/ events[i] = Number(i - 1) + 1
        /\ Number(Len(events)) = IF scan = "running" THEN found ELSE 0
        /\ shown[1] = shown[2]

\* Until a wait times out, there is one scan at a time, and its end is with the
\* driver, in the queue or in the semaphore, or lost.
ScanInv ==
    ~timedOut =>
        /\ wfMain # "wait" => scan = "idle" /\ scan_sem = 0
        /\ scan = "running" \/ scan_sem = 1 \/ wfMain # "wait" =>
             \A i \in 1..Len(events) : events[i] # 0
        /\ scan = "running" => scan_sem = 0
        /\ \A i, j \in 1..Len(events) : events[i] = 0 /\ events[j] = 0 => i = j

WifiInv == WF!TypeOK /\ NumbersInv /\ ScanInv

LEMMA WifiInit == ASSUME WF!Init PROVE WifiInv
<1> USE QueueAssumption DEF WF!Init
<1>1. events \in Seq(0..MaxResults) /\ Len(events) = 0
  OBVIOUS
<1>2. WF!TypeOK
  <2>1. scan_sem \in 0..1 /\ scan_result \in 0..MaxResults + 1 /\ found \in 0..MaxResults
    OBVIOUS
  <2>2. shown \in (0..MaxResults + 1) \X (0..MaxResults)
    OBVIOUS
  <2>3. timedOut \in BOOLEAN /\ lostDone \in BOOLEAN
    OBVIOUS
  <2>4. Len(events) <= QueueSize
    BY <1>1
  <2> HIDE QueueAssumption
  <2> QED BY <1>1, <2>1, <2>2, <2>3, <2>4 DEF WF!TypeOK
<1>3. NumbersInv /\ ScanInv
  BY <1>1 DEF NumbersInv, ScanInv, Number
<1> QED BY <1>2, <1>3 DEF WifiInv

\* The queue when its first event has been handled.
LEMMA EventHandled ==
    ASSUME WF!TypeOK, events # <<>>, events' = Tail(events)
    PROVE  /\ events' \in Seq(0..MaxResults)
           /\ Len(events') = Len(events) - 1 /\ Len(events') < QueueSize
           /\ events[1] = Head(events) /\ Len(events) >= 1
           /\ \A i \in 1..Len(events') : i + 1 \in 1..Len(events) /\ events'[i] = events[i + 1]
BY QueueAssumption DEF WF!TypeOK

\* The queue when an event has been posted, or was lost.
LEMMA EventPosted ==
    ASSUME WF!TypeOK, NEW e \in 0..MaxResults, WF!Post(e)
    PROVE  /\ events' \in Seq(0..MaxResults) /\ Len(events') <= QueueSize
           /\ events' = events
              \/ /\ events' # events
                 /\ Len(events') = Len(events) + 1
                 /\ \A i \in 1..Len(events) : events'[i] = events[i]
                 /\ events'[Len(events) + 1] = e
<1> USE QueueAssumption DEF WF!TypeOK, WF!Post
<1>1. CASE Len(events) < QueueSize
  <2>1. events' = Append(events, e)
    BY <1>1
  <2>2. Len(events') = Len(events) + 1
    BY <2>1
  <2> QED BY <1>1, <2>1, <2>2
<1>2. CASE ~(Len(events) < QueueSize)
  BY <1>2
<1> QED BY <1>1, <1>2

\* The steps of main() leave the queue and the numbers alone; a request begins
\* a scan that finds the numbers at their beginning.
LEMMA WifiMainKeeps == ASSUME WifiInv, WF!Main PROVE WifiInv'
<1> USE QueueAssumption DEF WifiInv, WF!handler, WF!link, WF!driver
<1>1. CASE WF!SetUp
  <2> USE <1>1 DEF WF!SetUp, WF!CheckMac, WF!InterfaceDown, WF!SetAddress, WF!InterfaceUp
  <2>1. WF!TypeOK'
    BY DEF WF!TypeOK
  <2>2. NumbersInv'
    BY DEF NumbersInv, Number
  <2>3. ScanInv'
    BY DEF ScanInv
  <2> QED BY <2>1, <2>2, <2>3
<1>2. CASE WF!RequestScan
  <2> USE <1>2 DEF WF!RequestScan
  <2>1. WF!TypeOK'
    BY DEF WF!TypeOK
  <2>2. NumbersInv'
    BY DEF NumbersInv, Number
  <2>3. ScanInv'
    BY DEF ScanInv
  <2> QED BY <2>1, <2>2, <2>3
<1>3. CASE WF!ScanFails \/ WF!TakeScanSem \/ WF!ScanTimesOut \/ WF!SleepEnds
  <2> USE <1>3 DEF WF!ScanFails, WF!TakeScanSem, WF!ScanTimesOut, WF!SleepEnds
  <2>1. timedOut' \in BOOLEAN
    BY DEF WF!TypeOK
  <2>2. WF!TypeOK'
    BY <2>1 DEF WF!TypeOK
  <2>3. NumbersInv'
    BY DEF NumbersInv, Number
  <2>4. ScanInv'
    BY DEF ScanInv, WF!TypeOK
  <2> QED BY <2>2, <2>3, <2>4
<1> QED BY <1>1, <1>2, <1>3 DEF WF!Main, WF!Scanning

\* wifi_mgmt_event_handler: the count follows the number of the event.
LEMMA HandleKeeps == ASSUME WifiInv, WF!Handle PROVE WifiInv'
<1> USE QueueAssumption DEF WifiInv, WF!link, WF!driver
<1>1. events # <<>> /\ events' = Tail(events)
  BY DEF WF!Handle, WF!HandleResult, WF!HandleDone
<1>2. /\ events' \in Seq(0..MaxResults)
      /\ Len(events') = Len(events) - 1 /\ Len(events') < QueueSize
      /\ events[1] = Head(events) /\ Len(events) >= 1
      /\ \A i \in 1..Len(events') : i + 1 \in 1..Len(events) /\ events'[i] = events[i + 1]
  BY <1>1, EventHandled
<1>3. events[1] \in 0..MaxResults /\ Len(events) \in Nat
  BY <1>2 DEF WF!TypeOK
<1>4. ~lostDone => scan_result' = events[1]
  BY <1>2, <1>3 DEF WF!Handle, WF!HandleResult, WF!HandleDone, NumbersInv, Number, WF!TypeOK
<1>5. WF!TypeOK'
  <2>1. scan_result' \in 0..MaxResults + 1 /\ scan_sem' \in 0..1
    BY DEF WF!TypeOK, WF!Handle, WF!HandleResult, WF!HandleDone
  <2>2. shown' \in (0..MaxResults + 1) \X (0..MaxResults)
    BY <1>2, <1>3, <2>1 DEF WF!TypeOK, WF!Handle, WF!HandleResult, WF!HandleDone
  <2>3. UNCHANGED <<wfMain, mac, iface, scan, found, timedOut, lostDone>>
    BY DEF WF!Handle, WF!HandleResult, WF!HandleDone
  <2> QED BY <1>2, <2>1, <2>2, <2>3 DEF WF!TypeOK
<1>6. NumbersInv'
  <2> SUFFICES ASSUME ~lostDone PROVE NumbersInv'
    BY DEF NumbersInv, WF!Handle, WF!HandleResult, WF!HandleDone
  <2>1. \A i \in 0..Len(events') : Number(i)' = Number(i + 1)
    BY <1>2, <1>3, <1>4 DEF Number
  <2>2. \A i \in 1..Len(events') : events'[i] = 0 \/ events'[i] = Number(i - 1)' + 1
    <3> TAKE i \in 1..Len(events')
    <3>1. i + 1 \in 1..Len(events) /\ events'[i] = events[i + 1]
      BY <1>2
    <3>2. events[i + 1] = 0 \/ events[i + 1] = Number((i + 1) - 1) + 1
      BY <3>1 DEF NumbersInv
    <3>3. Number(i - 1)' = Number(i)
      BY <2>1, <1>2
    <3> QED BY <3>1, <3>2, <3>3, <1>2
  <2>3. Number(Len(events))' = Number(Len(events))
    BY <1>2, <1>3, <2>1
  <2>4. shown'[1] = shown'[2]
    BY <1>2, <1>3, <1>4 DEF NumbersInv, WF!Handle, WF!HandleResult, WF!HandleDone
  <2>5. UNCHANGED <<scan, found, lostDone>>
    BY DEF WF!Handle, WF!HandleResult, WF!HandleDone
  <2> QED BY <2>2, <2>3, <2>4, <2>5 DEF NumbersInv
<1>7. ScanInv'
  <2> SUFFICES ASSUME ~timedOut PROVE ScanInv'
    BY DEF ScanInv, WF!Handle, WF!HandleResult, WF!HandleDone
  <2>1. UNCHANGED <<wfMain, scan, timedOut>>
    BY DEF WF!Handle, WF!HandleResult, WF!HandleDone
  <2>2. \A i, j \in 1..Len(events') : events'[i] = 0 /\ events'[j] = 0 => i = j
    <3> TAKE i, j \in 1..Len(events')
    <3>1. /\ i + 1 \in 1..Len(events) /\ events'[i] = events[i + 1]
          /\ j + 1 \in 1..Len(events) /\ events'[j] = events[j + 1]
      BY <1>2
    <3>2. events[i + 1] = 0 /\ events[j + 1] = 0 => i + 1 = j + 1
      BY <3>1 DEF ScanInv
    <3> QED BY <3>1, <3>2, <1>2
  <2>3. CASE events[1] # 0
    <3>1. scan_sem' = scan_sem
      BY <1>2, <2>3 DEF WF!Handle, WF!HandleResult, WF!HandleDone
    <3>2. scan = "running" \/ scan_sem = 1 \/ wfMain # "wait" =>
            \A i \in 1..Len(events') : events'[i] # 0
      BY <1>2, <1>3 DEF ScanInv
    <3> QED BY <2>1, <2>2, <3>1, <3>2 DEF ScanInv
  <2>4. CASE events[1] = 0
    <3>1. scan = "idle" /\ wfMain = "wait"
      BY <1>2, <2>4 DEF ScanInv, WF!TypeOK
    <3>2. \A i \in 1..Len(events') : events'[i] # 0
      BY <1>2, <1>3, <2>4 DEF ScanInv
    <3> QED BY <2>1, <2>2, <3>1, <3>2 DEF ScanInv
  <2> QED BY <2>3, <2>4
<1> QED BY <1>5, <1>6, <1>7

\* The driver: a result goes on from the last number, and an end comes once.
LEMMA DriverKeeps == ASSUME WifiInv, WF!FindNetwork \/ WF!EndScan PROVE WifiInv'
<1> USE QueueAssumption DEF WifiInv, WF!handler, WF!link
<1> DEFINE e == IF WF!FindNetwork THEN found + 1 ELSE 0
<1>1. e \in 0..MaxResults /\ WF!Post(e)
  BY DEF WF!TypeOK, WF!FindNetwork, WF!EndScan
<1> HIDE DEF e
<1>2. /\ events' \in Seq(0..MaxResults) /\ Len(events') <= QueueSize
      /\ events' = events
         \/ /\ events' # events
            /\ Len(events') = Len(events) + 1
            /\ \A i \in 1..Len(events) : events'[i] = events[i]
            /\ events'[Len(events) + 1] = e
  BY <1>1, EventPosted
<1>3. Len(events) \in Nat /\ Len(events') \in Nat
  BY <1>2 DEF WF!TypeOK
<1>4. UNCHANGED <<wfMain, scan_sem, scan_result, shown, timedOut>> /\ scan = "running"
  BY DEF WF!FindNetwork, WF!EndScan
<1>5. WF!TypeOK'
  <2>1. found' \in 0..MaxResults /\ scan' \in {"idle", "running"} /\ UNCHANGED <<mac, iface>>
    BY DEF WF!TypeOK, WF!FindNetwork, WF!EndScan
  <2>2. lostDone' \in BOOLEAN
    BY DEF WF!TypeOK, WF!FindNetwork, WF!EndScan
  <2> QED BY <1>2, <1>4, <2>1, <2>2 DEF WF!TypeOK
<1>6. NumbersInv'
  <2> SUFFICES ASSUME ~lostDone' PROVE NumbersInv'
    BY DEF NumbersInv
  <2>1. ~lostDone
    BY DEF WF!FindNetwork, WF!EndScan
  <2>2. CASE events' = events
    <3>1. WF!FindNetwork /\ UNCHANGED <<scan, found>>
      BY <2>2 DEF WF!FindNetwork, WF!EndScan
    <3> QED BY <1>4, <2>1, <2>2, <3>1 DEF NumbersInv, Number
  <2>3. CASE events' # events
    <3>1. \A i \in 0..Len(events) : Number(i)' = Number(i)
      BY <1>2, <1>3, <1>4, <2>3 DEF Number
    <3>2. Number(Len(events)) = found /\ Number(Len(events))' = e
      BY <1>2, <1>3, <1>4, <2>1, <2>3 DEF NumbersInv, Number
    <3>3. e = IF scan' = "running" THEN found' ELSE 0
      BY <2>3 DEF e, WF!FindNetwork, WF!EndScan
    <3>4. e = 0 \/ e = found + 1
      BY DEF e
    <3>5. \A i \in 1..Len(events') : events'[i] = 0 \/ events'[i] = Number(i - 1)' + 1
      <4> TAKE i \in 1..Len(events')
      <4>1. CASE i = Len(events) + 1
        <5>1. Number(i - 1)' = found
          BY <1>3, <3>1, <3>2, <4>1
        <5> QED BY <1>2, <2>3, <3>4, <4>1, <5>1
      <4>2. CASE i \in 1..Len(events)
        <5>1. Number(i - 1)' = Number(i - 1)
          BY <1>3, <3>1, <4>2
        <5>2. events'[i] = events[i]
          BY <1>2, <2>3, <4>2
        <5> QED BY <2>1, <4>2, <5>1, <5>2 DEF NumbersInv
      <4> QED BY <1>2, <1>3, <2>3, <4>1, <4>2
    <3> QED BY <1>4, <2>1, <3>2, <3>3, <3>5 DEF NumbersInv
  <2> QED BY <2>2, <2>3
<1>7. ScanInv'
  <2> SUFFICES ASSUME ~timedOut PROVE ScanInv'
    BY <1>4 DEF ScanInv
  <2>1. /\ scan_sem = 0 /\ wfMain = "wait"
        /\ \A i \in 1..Len(events) : events[i] # 0
    BY <1>4 DEF ScanInv, WF!TypeOK
  <2>2. CASE events' = events
    BY <1>4, <2>1, <2>2 DEF ScanInv
  <2>3. CASE events' # events
    <3>1. \A i \in 1..Len(events') : events'[i] = 0 => i = Len(events) + 1
      <4> SUFFICES ASSUME NEW i \in 1..Len(events'), i # Len(events) + 1
                   PROVE  events'[i] # 0
        OBVIOUS
      <4>1. i \in 1..Len(events)
        BY <1>2, <1>3, <2>3
      <4> QED BY <1>2, <2>1, <2>3, <4>1
    <3>2. scan' = "running" => e # 0
      BY DEF e, WF!FindNetwork, WF!EndScan, WF!TypeOK
    <3>3. scan' = "running" => \A i \in 1..Len(events') : events'[i] # 0
      BY <1>2, <1>3, <2>3, <3>1, <3>2
    <3> QED BY <1>4, <2>1, <3>1, <3>3 DEF ScanInv
  <2> QED BY <2>2, <2>3
<1> QED BY <1>5, <1>6, <1>7

LEMMA WifiNextKeeps == ASSUME WifiInv, [WF!Next]_(WF!vars) PROVE WifiInv'
<1>1. CASE UNCHANGED WF!vars
  <2> USE <1>1 DEF WF!vars, WF!handler, WF!link, WF!driver, WifiInv
  <2>1. WF!TypeOK'
    BY DEF WF!TypeOK
  <2>2. NumbersInv' /\ ScanInv'
    BY DEF NumbersInv, ScanInv, Number
  <2> QED BY <2>1, <2>2
<1>2. CASE WF!Next
  BY <1>2, WifiMainKeeps, HandleKeeps, DriverKeeps DEF WF!Next
<1> QED BY <1>1, <1>2

-----------------------------------------------------------------------------
(* RtcAlarm *)

\* Where an alarm may be set, and where a token may be left.
AlarmInv ==
    /\ rtMain \in {"start", "oneshot", "periodic", "spin", "restart", "wakeup", "returned"} =>
         alarm = RT!NoAlarm /\ alarm_sem = 0
    /\ rtMain \in {"wait_oneshot", "wait_periodic"} =>
         (alarm = RT!NoAlarm <=> alarm_sem = 1)
    /\ rtMain \in {"flush", "off"} => alarm # RT!NoAlarm /\ alarm_sem = 0

\* Where the counter runs.
CounterInv ==
    rtMain \in {"oneshot", "wait_oneshot", "periodic", "wait_periodic", "wakeup", "flush", "off"}
        => rtc = "running"

\* The last alarm is further away than the power-off.
FlushInv ==
    rtMain = "flush" => alarm >= (RT!WakeupDelay - 1 + rtWake) * Frequency

RtcInv ==
    /\ RT!TypeOK /\ AlarmInv /\ CounterInv /\ FlushInv
    /\ rtMain = "wait_periodic" => periodic_count < RT!AlarmCount

LEMMA RtcInit == ASSUME RT!Init PROVE RtcInv
BY IntervalAssumption, CounterAssumption
   DEF RT!Init, RtcInv, RT!TypeOK, AlarmInv, CounterInv, FlushInv, RT!NoAlarm, RT!AlarmCount

\* What an alarm that main() sets leaves behind.
LEMMA AlarmSet ==
    ASSUME NEW seconds \in 1..RT!WakeupDelay, RT!SetAlarm(seconds)
    PROVE  alarm' = seconds * Frequency /\ alarm' \in 0..Top /\ alarm' # RT!NoAlarm
<1> USE CounterAssumption DEF RT!WakeupDelay
<1>1. seconds * Frequency \in Nat
  OBVIOUS
<1> QED BY <1>1 DEF RT!SetAlarm, RT!Ticks, RT!NoAlarm

\* The first two demonstrations.
LEMMA DemosKeep == ASSUME RtcInv, RT!Demo1 \/ RT!Demo2 PROVE RtcInv'
<1> USE IntervalAssumption, CounterAssumption
    DEF RtcInv, RT!TypeOK, AlarmInv, CounterInv, FlushInv, RT!AlarmCount, RT!At, RT!Goto
<1>1. CASE RT!DeviceFails \/ RT!StartCounter \/ RT!SetOneShotFails \/ RT!OneShotFired
  BY <1>1 DEF RT!DeviceFails, RT!StartCounter, RT!SetOneShotFails, RT!OneShotFired
<1>2. CASE RT!SetOneShot
  <2>1. alarm' \in 0..Top /\ alarm' # RT!NoAlarm
    BY <1>2, AlarmSet DEF RT!SetOneShot, RT!OneShotDelay, RT!WakeupDelay
  <2> QED BY <1>2, <2>1 DEF RT!SetOneShot, RT!NoAlarm
<1>3. CASE RT!SetPeriodic
  <2>1. alarm' \in 0..Top /\ alarm' # RT!NoAlarm
    BY <1>3, AlarmSet DEF RT!SetPeriodic, RT!Interval, RT!WakeupDelay
  <2> QED BY <1>3, <2>1 DEF RT!SetPeriodic, RT!NoAlarm
<1>4. CASE RT!LeavePeriodic \/ RT!PeriodicFired
  BY <1>4 DEF RT!LeavePeriodic, RT!PeriodicFired
<1> QED BY <1>1, <1>2, <1>3, <1>4 DEF RT!Demo1, RT!Demo2

\* The third: the alarm is set for long after the last sleep.
LEMMA Demo3Keeps == ASSUME RtcInv, RT!Demo3 PROVE RtcInv'
<1> USE IntervalAssumption, CounterAssumption
    DEF RtcInv, RT!TypeOK, AlarmInv, CounterInv, FlushInv, RT!AlarmCount, RT!At, RT!Goto
<1>1. CASE RT!RestartCounter \/ RT!RestartFails \/ RT!SetWakeupFails \/ RT!Poweroff
  BY <1>1 DEF RT!RestartCounter, RT!RestartFails, RT!SetWakeupFails, RT!Poweroff
<1>2. CASE RT!SetWakeup
  <2>1. alarm' = RT!WakeupDelay * Frequency /\ alarm' \in 0..Top /\ alarm' # RT!NoAlarm
    BY <1>2, AlarmSet DEF RT!SetWakeup, RT!WakeupDelay
  <2>2. RT!WakeupDelay - 1 + rtWake' = RT!WakeupDelay
    BY <1>2 DEF RT!SetWakeup, RT!WakeupDelay
  <2> QED BY <1>2, <2>1, <2>2 DEF RT!SetWakeup, RT!NoAlarm
<1> QED BY <1>1, <1>2 DEF RT!Demo3

\* While main() sleeps for the log, more than a second is left to the alarm.
LEMMA FlushLeavesTime ==
    ASSUME RtcInv, rtMain = "flush"
    PROVE  /\ alarm > 0
           /\ rtWake > -Late => alarm > Frequency
                 /\ alarm - Frequency >= (RT!WakeupDelay - 1 + (rtWake - 1)) * Frequency
<1> USE IntervalAssumption, CounterAssumption DEF RT!WakeupDelay
<1> DEFINE k == 9 + rtWake
<1>1. k \in Nat /\ k >= 1 /\ alarm \in Int /\ alarm >= k * Frequency
  BY DEF RtcInv, RT!TypeOK, FlushInv, RT!NoAlarm
<1>2. rtWake > -Late => k >= 2
  BY DEF RtcInv, RT!TypeOK
<1>3. (RT!WakeupDelay - 1 + (rtWake - 1)) * Frequency = k * Frequency - Frequency
  BY <1>1 DEF RtcInv, RT!TypeOK
<1> HIDE DEF k
<1>4. k * Frequency >= Frequency /\ (k >= 2 => k * Frequency > Frequency)
  BY <1>1
<1> QED BY <1>1, <1>2, <1>3, <1>4

\* The interrupt, the cold boot and time.
LEMMA ClockKeeps == ASSUME RtcInv, RT!AlarmCallback \/ RT!ColdBoot \/ RT!Tick PROVE RtcInv'
<1> USE IntervalAssumption, CounterAssumption
    DEF RtcInv, AlarmInv, CounterInv, RT!NoAlarm
<1>1. CASE RT!AlarmCallback
  <2>1. rtMain \in {"wait_oneshot", "wait_periodic"}
    BY <1>1, FlushLeavesTime DEF RT!AlarmCallback, RT!TypeOK
  <2> QED BY <1>1, <2>1 DEF RT!AlarmCallback, RT!TypeOK, FlushInv
<1>2. CASE RT!ColdBoot
  BY <1>2 DEF RT!ColdBoot, RT!TypeOK, FlushInv, RT!AlarmCount
<1>3. CASE RT!Tick
  <2> USE <1>3 DEF RT!Tick, RT!Resting, RT!Waiting, RT!Elapse
  <2>1. RT!TypeOK'
    BY DEF RT!TypeOK
  <2>2. AlarmInv' /\ CounterInv'
    BY DEF RT!TypeOK
  <2>3. FlushInv'
    BY FlushLeavesTime DEF FlushInv, RT!TypeOK
  <2> QED BY <2>1, <2>2, <2>3
<1> QED BY <1>1, <1>2, <1>3

LEMMA RtcNextKeeps == ASSUME RtcInv, [RT!Next]_(RT!vars) PROVE RtcInv'
<1>1. CASE UNCHANGED RT!vars
  BY <1>1 DEF RT!vars, RtcInv, RT!TypeOK, AlarmInv, CounterInv, FlushInv
<1>2. CASE RT!Next
  BY <1>2, DemosKeep, Demo3Keeps, ClockKeeps DEF RT!Next
<1> QED BY <1>1, <1>2

-----------------------------------------------------------------------------
(* BatteryAdc *)

LevelInv ==
    /\ btMain \in {"level", "wait"} => batt_mV \in Voltages
    /\ btMain = "wait" => batt_pptt = BT!Level(batt_mV)

BatteryInv == BT!TypeOK /\ LevelInv

LEMMA LeastNatural ==
    ASSUME NEW S, S \subseteq Nat, S # {}
    PROVE  \E n \in S : \A m \in S : n <= m
<1> DEFINE R == {p \in Nat \X Nat : p[1] < p[2]}
<1>1. IsWellFoundedOn(R, Nat)
  BY NatLessThanWellFounded, Zenon DEF OpToRel
<1>2. ASSUME NEW m \in Nat, NEW n \in Nat, <<m, n>> \notin R
      PROVE  n <= m
  BY <1>2
<1> HIDE DEF R
<1>3. \E n \in S : \A m \in S : <<m, n>> \notin R
  BY <1>1, WFMin, Zenon
<1> QED BY <1>2, <1>3, Zenon

\* The points of the curve are natural numbers, in falling order.
LEMMA CurvePoints ==
    /\ Len(Curve) \in Nat /\ Len(Curve) >= 2 /\ DOMAIN Curve = 1..Len(Curve)
    /\ \A i \in 1..Len(Curve) : Curve[i].lvl_pptt \in Nat /\ Curve[i].lvl_mV \in Nat
    /\ \A i, j \in 1..Len(Curve) : i < j =>
         Curve[i].lvl_pptt > Curve[j].lvl_pptt /\ Curve[i].lvl_mV > Curve[j].lvl_mV
    /\ Curve[Len(Curve)].lvl_pptt = 0
<1>1. Len(Curve) \in Nat /\ DOMAIN Curve = 1..Len(Curve)
  BY CurveAssumption
<1>2. ASSUME NEW i \in 1..Len(Curve) PROVE Curve[i] \in [lvl_pptt : Nat, lvl_mV : Nat]
  BY CurveAssumption, ElementOfSeq
<1> QED BY <1>1, <1>2, CurveAssumption

\* The point that battery_level_pptt stops at, and those that it passes by.
LEMMA PointFound ==
    ASSUME NEW mV \in Nat
    PROVE  LET b == BT!PointBelow(mV)
           IN  /\ b \in 1..Len(Curve)
               /\ mV >= Curve[b].lvl_mV \/ b = Len(Curve)
               /\ \A i \in 1..b - 1 : mV < Curve[i].lvl_mV
<1> DEFINE S == {i \in DOMAIN Curve : mV >= Curve[i].lvl_mV \/ Curve[i].lvl_pptt = 0}
           b == BT!PointBelow(mV)
<1>1. S \subseteq Nat /\ Len(Curve) \in S
  BY CurvePoints
<1>2. \E n \in S : \A m \in S : n <= m
  BY <1>1, LeastNatural
<1>3. b \in S /\ \A m \in S : b <= m
  BY <1>2 DEF BT!PointBelow, BT!Min
<1>4. b \in 1..Len(Curve)
  BY <1>3, CurvePoints
<1>5. ASSUME NEW i \in 1..Len(Curve), i # Len(Curve)
      PROVE  Curve[i].lvl_pptt # 0
  <2>1. Len(Curve) \in Nat /\ Len(Curve) >= 2
    BY CurvePoints
  <2>2. i < Len(Curve) /\ Len(Curve) \in 1..Len(Curve)
    BY <1>5, <2>1
  <2>3. Curve[i].lvl_pptt > Curve[Len(Curve)].lvl_pptt
    BY <2>2, CurvePoints
  <2> QED BY <2>3, CurvePoints
<1>6. mV >= Curve[b].lvl_mV \/ b = Len(Curve)
  BY <1>3, <1>4, <1>5
<1>7. \A i \in 1..b - 1 : mV < Curve[i].lvl_mV
  <2> SUFFICES ASSUME NEW i \in 1..b - 1, ~(mV < Curve[i].lvl_mV)
               PROVE  FALSE
    OBVIOUS
  <2>1. i \in 1..Len(Curve) /\ i < b
    BY <1>4, CurvePoints
  <2>2. i \in S
    BY <2>1, CurvePoints
  <2> QED BY <1>3, <1>4, <2>1, <2>2, CurvePoints
<1> QED BY <1>4, <1>6, <1>7

\* The quotient of two natural numbers.
LEMMA Quotient ==
    ASSUME NEW n \in Nat, NEW d \in Nat, d > 0
    PROVE  /\ n \div d \in Nat
           /\ (n \div d) * d <= n /\ n < (n \div d + 1) * d
OBVIOUS

\* What the interpolation adds to the level of the lower point.
LEMMA Interpolation ==
    ASSUME NEW dy \in Nat, NEW x \in Nat, NEW dx \in Nat, x < dx
    PROVE  LET q == (dy * x) \div dx
           IN  /\ q \in Nat /\ q <= dy
               /\ q * dx <= dy * x /\ dy * x < (q + 1) * dx
               /\ x = 0 => q = 0
<1> DEFINE q == (dy * x) \div dx
<1>1. dy * x \in Nat /\ dy * x <= dy * dx
  OBVIOUS
<1>2. q \in Nat /\ q * dx <= dy * x /\ dy * x < (q + 1) * dx
  BY <1>1, Quotient
<1> HIDE DEF q
<1>3. q <= dy
  <2>1. SUFFICES ASSUME q >= dy + 1 PROVE FALSE
    BY <1>2
  <2>2. q * dx >= (dy + 1) * dx
    BY <1>2, <2>1
  <2>3. (dy + 1) * dx = dy * dx + dx
    OBVIOUS
  <2> QED BY <1>1, <1>2, <2>2, <2>3
<1>4. x = 0 => q = 0
  <2>1. q >= 1 => q * dx >= dx
    BY <1>2
  <2> QED BY <1>2, <2>1
<1> QED BY <1>2, <1>3, <1>4 DEF q

\* Above the first point and below the last, the level is that of the point.
LEMMA LevelAtEnds ==
    ASSUME NEW mV \in Nat
    PROVE  /\ mV >= Curve[1].lvl_mV => BT!Level(mV) = Curve[1].lvl_pptt
           /\ mV < Curve[Len(Curve)].lvl_mV => BT!Level(mV) = Curve[Len(Curve)].lvl_pptt
<1> DEFINE b == BT!PointBelow(mV)
<1>1. /\ b \in 1..Len(Curve)
      /\ mV >= Curve[b].lvl_mV \/ b = Len(Curve)
      /\ \A i \in 1..b - 1 : mV < Curve[i].lvl_mV
  BY PointFound
<1> HIDE DEF b
<1>2. Len(Curve) \in Nat /\ Len(Curve) >= 2 /\ 1 \in 1..Len(Curve)
  BY CurvePoints
<1>3. ASSUME mV >= Curve[1].lvl_mV PROVE b = 1
  <2>1. Curve[1].lvl_mV \in Nat
    BY <1>2, CurvePoints
  <2>2. b > 1 => mV < Curve[1].lvl_mV
    BY <1>1, <1>2
  <2> QED BY <1>1, <1>2, <1>3, <2>1, <2>2
<1>4. ASSUME mV < Curve[Len(Curve)].lvl_mV PROVE b = Len(Curve)
  <2>1. Len(Curve) \in 1..Len(Curve)
    BY <1>2
  <2>2. Curve[b].lvl_mV \in Nat /\ Curve[Len(Curve)].lvl_mV \in Nat
    BY <1>1, <2>1, CurvePoints
  <2>3. b < Len(Curve) => Curve[b].lvl_mV > Curve[Len(Curve)].lvl_mV
    BY <1>1, <2>1, CurvePoints
  <2> QED BY <1>1, <1>2, <1>4, <2>2, <2>3
<1>5. b = 1 => BT!Level(mV) = Curve[1].lvl_pptt
  BY DEF BT!Level, b
<1>6. b = Len(Curve) /\ mV < Curve[b].lvl_mV => BT!Level(mV) = Curve[Len(Curve)].lvl_pptt
  BY DEF BT!Level, b
<1> QED BY <1>3, <1>4, <1>5, <1>6

\* The segment of the curve that ends at point b, taken from the lower end.
Rise(b) == Curve[b - 1].lvl_pptt - Curve[b].lvl_pptt
Run(b)  == Curve[b - 1].lvl_mV - Curve[b].lvl_mV

\* Between the ends the level is interpolated on the segment of the voltage.
LEMMA LevelBetween ==
    ASSUME NEW mV \in Nat, Curve[Len(Curve)].lvl_mV <= mV, mV < Curve[1].lvl_mV
    PROVE  \E b \in 2..Len(Curve) :
             /\ Curve[b].lvl_mV <= mV /\ mV < Curve[b - 1].lvl_mV
             /\ BT!Level(mV) = Curve[b].lvl_pptt + (Rise(b) * (mV - Curve[b].lvl_mV)) \div Run(b)
<1> DEFINE b == BT!PointBelow(mV)
<1>1. /\ b \in 1..Len(Curve)
      /\ mV >= Curve[b].lvl_mV \/ b = Len(Curve)
      /\ \A i \in 1..b - 1 : mV < Curve[i].lvl_mV
  BY PointFound
<1>2. Curve[b].lvl_mV <= mV /\ b # 1 /\ ~(mV < Curve[b].lvl_mV)
  <2>1. Curve[b].lvl_mV \in Nat /\ Curve[1].lvl_mV \in Nat
    BY <1>1, CurvePoints
  <2>2. mV >= Curve[b].lvl_mV
    BY <1>1
  <2>3. b # 1
    BY <2>1, <2>2
  <2> QED BY <2>1, <2>2, <2>3
<1>3. BT!Level(mV) = Curve[b].lvl_pptt + (Rise(b) * (mV - Curve[b].lvl_mV)) \div Run(b)
  BY <1>2 DEF BT!Level, Rise, Run
<1> HIDE DEF b
<1>4. b \in 2..Len(Curve) /\ b - 1 \in 1..b - 1
  <2>1. Len(Curve) \in Nat
    BY CurvePoints
  <2> QED BY <1>1, <1>2, <2>1
<1>5. mV < Curve[b - 1].lvl_mV
  BY <1>1, <1>4
<1> QED BY <1>2, <1>3, <1>4, <1>5

Segment(b) ==
    /\ Curve[b].lvl_mV \in Nat /\ Curve[b - 1].lvl_mV \in Nat
    /\ Curve[b].lvl_pptt \in Nat /\ Curve[b - 1].lvl_pptt \in Nat
    /\ Rise(b) \in Nat /\ Run(b) \in Nat /\ Run(b) > 0
    /\ Curve[b].lvl_pptt + Rise(b) = Curve[b - 1].lvl_pptt
    /\ Curve[b].lvl_mV + Run(b) = Curve[b - 1].lvl_mV

\* What the segments of the curve measure.
LEMMA Segments == \A b \in 2..Len(Curve) : Segment(b)
<1> SUFFICES ASSUME NEW b \in 2..Len(Curve) PROVE Segment(b)
  OBVIOUS
<1>1. b \in 1..Len(Curve) /\ b - 1 \in 1..Len(Curve) /\ b - 1 < b
  BY CurvePoints
<1>2. Curve[b - 1].lvl_pptt > Curve[b].lvl_pptt /\ Curve[b - 1].lvl_mV > Curve[b].lvl_mV
  BY <1>1, CurvePoints
<1>3. /\ Curve[b].lvl_mV \in Nat /\ Curve[b - 1].lvl_mV \in Nat
      /\ Curve[b].lvl_pptt \in Nat /\ Curve[b - 1].lvl_pptt \in Nat
  BY <1>1, CurvePoints
<1> QED BY <1>2, <1>3 DEF Rise, Run, Segment

\* A later point is not above an earlier one.
LEMMA Falling ==
    ASSUME NEW i \in 1..Len(Curve), NEW j \in 1..Len(Curve), i <= j
    PROVE  Curve[j].lvl_pptt <= Curve[i].lvl_pptt /\ Curve[j].lvl_mV <= Curve[i].lvl_mV
<1>1. CASE i = j
  BY <1>1, CurvePoints
<1>2. CASE i < j
  <2>1. Curve[i].lvl_pptt > Curve[j].lvl_pptt /\ Curve[i].lvl_mV > Curve[j].lvl_mV
    BY <1>2, CurvePoints
  <2> QED BY <2>1, CurvePoints
<1> QED BY <1>1, <1>2

\* A level between the ends is not above the curve, and the next one is, also at
\* a point of the curve, where two segments meet.
LEMMA LevelIsGreatest ==
    ASSUME NEW mV \in Nat, Curve[Len(Curve)].lvl_mV <= mV, mV < Curve[1].lvl_mV
    PROVE  /\ BT!Level(mV) \in 0..Curve[1].lvl_pptt
           /\ BT!OnOrBelow(mV, BT!Level(mV))
           /\ ~BT!OnOrBelow(mV, BT!Level(mV) + 1)
<1>1. PICK b \in 2..Len(Curve) :
        /\ Curve[b].lvl_mV <= mV /\ mV < Curve[b - 1].lvl_mV
        /\ BT!Level(mV) = Curve[b].lvl_pptt + (Rise(b) * (mV - Curve[b].lvl_mV)) \div Run(b)
  BY LevelBetween
<1>2. b \in 1..Len(Curve) /\ b - 1 \in 1..Len(Curve)
  BY CurvePoints
<1> DEFINE v  == Curve[b].lvl_mV
           va == Curve[b - 1].lvl_mV
           p  == Curve[b].lvl_pptt
           pa == Curve[b - 1].lvl_pptt
           dy == Rise(b)
           dx == Run(b)
           x  == mV - v
           q  == (dy * x) \div dx
           L  == BT!Level(mV)
<1>3. /\ v \in Nat /\ va \in Nat /\ p \in Nat /\ pa \in Nat
      /\ dy \in Nat /\ dx \in Nat /\ p + dy = pa /\ v + dx = va
      /\ dy = pa - p /\ dx = va - v
  BY Segments DEF Segment, Rise, Run
<1>4. v <= mV /\ mV < va /\ L = p + q /\ x = mV - v
  BY <1>1
<1> HIDE DEF v, va, p, pa, dy, dx, x, L
<1>5. x \in Nat /\ x < dx /\ dx > 0
  BY <1>3, <1>4
<1>6. /\ q \in Nat /\ q <= dy
      /\ q * dx <= dy * x /\ dy * x < (q + 1) * dx
      /\ x = 0 => q = 0
  BY <1>3, <1>5, Interpolation
<1> HIDE DEF q
<1>7. L \in 0..Curve[1].lvl_pptt
  <2>1. 1 \in 1..Len(Curve) /\ 1 <= b - 1
    BY CurvePoints
  <2>2. pa <= Curve[1].lvl_pptt
    BY <1>2, <2>1, Falling DEF pa
  <2>3. Curve[1].lvl_pptt \in Nat
    BY <2>1, CurvePoints
  <2>4. L \in 0..pa
    BY <1>3, <1>4, <1>6
  <2> QED BY <1>3, <2>2, <2>3, <2>4
<1>8. BT!OnOrBelow(mV, L)
  <2>1. b - 1 \in 1..Len(Curve) - 1 /\ (b - 1) + 1 = b
    BY CurvePoints
  <2>2. v <= mV /\ mV <= va /\ (L - p) * (va - v) <= (pa - p) * (mV - v)
    <3>1. L - p = q
      BY <1>3, <1>4, <1>6
    <3>2. mV <= va
      BY <1>3, <1>4
    <3> QED BY <1>3, <1>4, <1>6, <3>1, <3>2
  <2> QED BY <2>1, <2>2 DEF BT!OnOrBelow, v, va, p, pa
<1>9. ~BT!OnOrBelow(mV, L + 1)
  <2> SUFFICES ASSUME NEW i \in 1..Len(Curve) - 1,
                      Curve[i + 1].lvl_mV <= mV, mV <= Curve[i].lvl_mV,
                      ((L + 1) - Curve[i + 1].lvl_pptt) * (Curve[i].lvl_mV - Curve[i + 1].lvl_mV)
                        <= (Curve[i].lvl_pptt - Curve[i + 1].lvl_pptt) * (mV - Curve[i + 1].lvl_mV)
               PROVE  FALSE
    BY DEF BT!OnOrBelow
  <2>1. i \in 1..Len(Curve) /\ i + 1 \in 1..Len(Curve) /\ i + 1 \in 2..Len(Curve) /\ (i + 1) - 1 = i
    BY CurvePoints
  <2> DEFINE w  == Curve[i + 1].lvl_mV
             o  == Curve[i + 1].lvl_pptt
             ey == Rise(i + 1)
             ex == Run(i + 1)
  <2>2. /\ w \in Nat /\ o \in Nat /\ ey \in Nat /\ ex \in Nat /\ ex > 0
        /\ Curve[i].lvl_mV = w + ex /\ Curve[i].lvl_pptt = o + ey
        /\ Curve[i].lvl_mV - w = ex /\ Curve[i].lvl_pptt - o = ey
    BY <2>1, Segments DEF Segment, Rise, Run
  <2>3. w <= mV /\ mV <= w + ex /\ ((L + 1) - o) * ex <= ey * (mV - w)
    BY <2>2
  <2> HIDE DEF w, o, ey, ex
  <2>4. CASE i + 1 < b
    <3>1. i + 1 <= b - 1
      BY <2>4
    <3>2. va <= w
      BY <1>2, <2>1, <3>1, Falling DEF va, w
    <3> QED BY <1>3, <1>4, <2>2, <2>3, <3>2
  <2>5. CASE i + 1 = b
    <3>1. o = p /\ w = v /\ ey = dy /\ ex = dx
      BY <2>5 DEF o, p, w, v, ey, dy, ex, dx
    <3>2. (L + 1) - p = q + 1 /\ mV - v = x
      BY <1>3, <1>4, <1>6
    <3>3. (q + 1) * dx <= dy * x
      BY <2>3, <3>1, <3>2
    <3>4. dy * x \in Nat /\ (q + 1) * dx \in Nat
      BY <1>3, <1>5, <1>6
    <3> QED BY <1>6, <3>3, <3>4
  <2>6. CASE i = b
    <3>1. v = w + ex /\ p = o + ey
      BY <2>2, <2>6 DEF v, p
    <3>2. mV = v
      BY <1>3, <1>4, <2>2, <2>3, <3>1
    <3>3. L = p
      BY <1>3, <1>4, <1>6, <3>2
    <3>4. (L + 1) - o = ey + 1 /\ mV - w = ex
      BY <2>2, <3>1, <3>2, <3>3
    <3>5. (ey + 1) * ex <= ey * ex
      BY <2>3, <3>4
    <3>6. (ey + 1) * ex = ey * ex + ex /\ ey * ex \in Nat
      BY <2>2
    <3> QED BY <2>2, <3>5, <3>6
  <2>7. CASE i > b
    <3>1. v > Curve[i].lvl_mV
      BY <1>2, <2>1, <2>7, CurvePoints DEF v
    <3> QED BY <1>3, <1>4, <2>2, <2>3, <3>1
  <2> QED BY <1>2, <2>1, <2>4, <2>5, <2>6, <2>7
<1> QED BY <1>7, <1>8, <1>9 DEF L

\* Any voltage gives a level of the curve.
LEMMA LevelBounded == ASSUME NEW mV \in Nat PROVE BT!Level(mV) \in 0..Curve[1].lvl_pptt
<1>1. /\ 1 \in 1..Len(Curve) /\ Len(Curve) \in 1..Len(Curve) /\ 1 <= Len(Curve)
  BY CurvePoints
<1>2. /\ Curve[1].lvl_pptt \in Nat /\ Curve[Len(Curve)].lvl_pptt = 0
      /\ Curve[1].lvl_mV \in Nat /\ Curve[Len(Curve)].lvl_mV \in Nat
  BY <1>1, CurvePoints
<1>3. CASE mV >= Curve[1].lvl_mV
  BY <1>2, <1>3, LevelAtEnds
<1>4. CASE mV < Curve[Len(Curve)].lvl_mV
  BY <1>2, <1>4, LevelAtEnds
<1>5. CASE Curve[Len(Curve)].lvl_mV <= mV /\ mV < Curve[1].lvl_mV
  BY <1>5, LevelIsGreatest
<1> QED BY <1>2, <1>3, <1>4, <1>5

LEMMA BatteryInit == ASSUME BT!Init PROVE BatteryInv
<1>1. Curve[1].lvl_pptt \in Nat
  BY CurvePoints
<1>2. batt_pptt \in 0..Curve[1].lvl_pptt
  BY <1>1 DEF BT!Init
<1>3. BT!TypeOK
  BY <1>2, Zenon DEF BT!Init, BT!TypeOK
<1>4. LevelInv
  BY DEF BT!Init, LevelInv
<1> QED BY <1>3, <1>4 DEF BatteryInv

LEMMA BatteryNextKeeps == ASSUME BatteryInv, [BT!Next]_(BT!vars) PROVE BatteryInv'
<1> USE DEF BatteryInv, BT!TypeOK, LevelInv
<1>1. CASE BT!Setup
  BY <1>1 DEF BT!Setup
<1>2. CASE BT!EnableMeasure \/ BT!EnableFails
  BY <1>2 DEF BT!EnableMeasure, BT!EnableFails, BT!Supplied
<1>3. CASE BT!Sample
  <2>1. batt_mV' \in Voltages \cup {BT!Failed} /\ (~(batt_mV' < 0) => batt_mV' \in Voltages)
    BY <1>3, VoltagesAssumption DEF BT!Sample, BT!Failed
  <2>2. btMain' \in {"disable", "level"} /\ (btMain' = "level" => ~(batt_mV' < 0))
    BY <1>3 DEF BT!Sample
  <2>3. BT!TypeOK'
    BY <1>3, <2>1, <2>2 DEF BT!Sample
  <2>4. LevelInv'
    BY <2>1, <2>2
  <2> QED BY <2>3, <2>4
<1>4. CASE BT!ComputeLevel
  <2>1. batt_mV \in Nat
    BY <1>4, VoltagesAssumption DEF BT!ComputeLevel
  <2> QED BY <1>4, <2>1, LevelBounded DEF BT!ComputeLevel
<1>5. CASE BT!BusyWait \/ BT!DisableMeasure
  BY <1>5 DEF BT!BusyWait, BT!DisableMeasure, BT!Supplied
<1>6. CASE UNCHANGED BT!vars
  BY <1>6 DEF BT!vars
<1> QED BY <1>1, <1>2, <1>3, <1>4, <1>5, <1>6 DEF BT!Next

\* The level that main() shows.
LEMMA LevelShown == ASSUME BatteryInv PROVE LevelOnCurve
<1> SUFFICES ASSUME btMain = "wait" PROVE LevelOnCurve
  BY DEF LevelOnCurve, BT!LevelOnCurve
<1>1. batt_mV \in Nat /\ batt_pptt = BT!Level(batt_mV)
  BY VoltagesAssumption DEF BatteryInv, LevelInv
<1>2. Curve[1].lvl_mV \in Nat /\ Curve[Len(Curve)].lvl_mV \in Nat
  BY CurvePoints
<1> QED BY <1>1, <1>2, LevelAtEnds, LevelIsGreatest DEF LevelOnCurve, BT!LevelOnCurve

-----------------------------------------------------------------------------
(* WorkQueue *)

\* A press that is not yet followed by a run is still in the queue.
PressKept == pressed => WQ!Contains(sysQueue, "sensor")

\* Once scheduled, periodic_dwork is in one place: its timer runs, it is in the
\* custom queue, or its handler is at work and will reschedule it.
PeriodicAlive ==
    wqMain = "loop" =>
        \/ timer = "armed" /\ periodic = "no" /\ customPc = "idle"
        \/ timer = "off" /\ periodic = "queued" /\ customPc = "idle"
        \/ timer = "off" /\ periodic = "no" /\ customPc \in {"test", "submit", "reschedule"}

StartInv ==
    wqMain # "loop" =>
        timer = "off" /\ periodic = "no" /\ customPc = IF wqMain = "schedule" THEN "idle" ELSE "none"

QueueInv == WQ!TypeOK /\ PressKept /\ PeriodicAlive /\ StartInv

\* A submission adds the item unless it is there, and takes none away.
LEMMA SubmitAdds ==
    ASSUME WQ!TypeOK, NEW item \in WQ!Items
    PROVE  /\ WQ!Submitted(item) \in Seq(WQ!Items) /\ WQ!IsInjective(WQ!Submitted(item))
           /\ WQ!Contains(WQ!Submitted(item), item)
           /\ \A e : WQ!Contains(sysQueue, e) => WQ!Contains(WQ!Submitted(item), e)
<1>1. sysQueue \in Seq(WQ!Items) /\ WQ!IsInjective(sysQueue) /\ Len(sysQueue) \in Nat
  BY DEF WQ!TypeOK
<1>2. CASE WQ!Contains(sysQueue, item)
  BY <1>1, <1>2 DEF WQ!Submitted
<1>3. CASE ~WQ!Contains(sysQueue, item)
  <2> DEFINE q == Append(sysQueue, item)
  <2>1. /\ q \in Seq(WQ!Items) /\ Len(q) = Len(sysQueue) + 1
        /\ \A i \in 1..Len(sysQueue) : q[i] = sysQueue[i]
        /\ q[Len(sysQueue) + 1] = item
    BY <1>1, AppendProperties
  <2>2. WQ!Submitted(item) = q
    BY <1>3 DEF WQ!Submitted
  <2> HIDE DEF q
  <2>3. DOMAIN q = 1..Len(sysQueue) + 1 /\ DOMAIN sysQueue = 1..Len(sysQueue)
    BY <1>1, <2>1
  <2>4. \A i \in 1..Len(sysQueue) : sysQueue[i] # item
    BY <1>3 DEF WQ!Contains
  <2>5. WQ!IsInjective(q)
    <3> SUFFICES ASSUME NEW i \in 1..Len(sysQueue) + 1, NEW j \in 1..Len(sysQueue) + 1,
                        q[i] = q[j]
                 PROVE  i = j
      BY <2>3 DEF WQ!IsInjective
    <3>1. CASE i \in 1..Len(sysQueue) /\ j \in 1..Len(sysQueue)
      <4>1. sysQueue[i] = sysQueue[j]
        BY <2>1, <3>1
      <4> QED BY <1>1, <2>3, <3>1, <4>1 DEF WQ!IsInjective
    <3>2. CASE i \in 1..Len(sysQueue) /\ j = Len(sysQueue) + 1
      BY <2>1, <2>4, <3>2
    <3>3. CASE j \in 1..Len(sysQueue) /\ i = Len(sysQueue) + 1
      BY <2>1, <2>4, <3>3
    <3> QED BY <1>1, <3>1, <3>2, <3>3
  <2>6. WQ!Contains(q, item)
    BY <1>1, <2>1 DEF WQ!Contains
  <2>7. ASSUME NEW e, WQ!Contains(sysQueue, e) PROVE WQ!Contains(q, e)
    BY <1>1, <2>1, <2>7 DEF WQ!Contains
  <2> QED BY <2>1, <2>2, <2>5, <2>6, <2>7
<1> QED BY <1>2, <1>3

\* The thread takes the first item, and leaves the others in the queue.
LEMMA TakeLeaves ==
    ASSUME WQ!TypeOK, sysQueue # <<>>
    PROVE  /\ Head(sysQueue) \in WQ!Items
           /\ Tail(sysQueue) \in Seq(WQ!Items) /\ WQ!IsInjective(Tail(sysQueue))
           /\ \A e : WQ!Contains(sysQueue, e) /\ e # Head(sysQueue) =>
                       WQ!Contains(Tail(sysQueue), e)
<1> DEFINE q == Tail(sysQueue)
<1>1. sysQueue \in Seq(WQ!Items) /\ WQ!IsInjective(sysQueue) /\ Len(sysQueue) \in Nat \ {0}
  BY EmptySeq DEF WQ!TypeOK
<1>2. /\ Head(sysQueue) \in WQ!Items /\ q \in Seq(WQ!Items)
      /\ Len(q) = Len(sysQueue) - 1
      /\ \A i \in 1..Len(q) : q[i] = sysQueue[i + 1]
  BY <1>1, HeadTailProperties
<1>3. Head(sysQueue) = sysQueue[1]
  BY <1>1
<1> HIDE DEF q
<1>4. DOMAIN q = 1..Len(sysQueue) - 1 /\ DOMAIN sysQueue = 1..Len(sysQueue)
  BY <1>1, <1>2
<1>5. WQ!IsInjective(q)
  <2> SUFFICES ASSUME NEW i \in 1..Len(sysQueue) - 1, NEW j \in 1..Len(sysQueue) - 1,
                      q[i] = q[j]
               PROVE  i = j
    BY <1>4 DEF WQ!IsInjective
  <2>1. sysQueue[i + 1] = sysQueue[j + 1]
    BY <1>2
  <2>2. i + 1 \in DOMAIN sysQueue /\ j + 1 \in DOMAIN sysQueue
    BY <1>1, <1>4
  <2> QED BY <1>1, <2>1, <2>2 DEF WQ!IsInjective
<1>6. ASSUME NEW e, WQ!Contains(sysQueue, e), e # Head(sysQueue) PROVE WQ!Contains(q, e)
  <2>1. PICK i \in 1..Len(sysQueue) : sysQueue[i] = e
    BY <1>6 DEF WQ!Contains
  <2>2. i - 1 \in 1..Len(q) /\ (i - 1) + 1 = i
    BY <1>1, <1>2, <1>3, <1>6, <2>1
  <2>3. q[i - 1] = e
    BY <1>2, <2>1, <2>2
  <2> QED BY <2>2, <2>3 DEF WQ!Contains
<1> QED BY <1>2, <1>5, <1>6 DEF q

LEMMA QueueInit == ASSUME WQ!Init PROVE QueueInv
<1>1. WQ!TypeOK
  <2>1. <<>> \in Seq(WQ!Items) /\ WQ!IsInjective(<<>>)
    BY DEF WQ!IsInjective
  <2> QED BY <2>1 DEF WQ!Init, WQ!TypeOK
<1> QED BY <1>1 DEF WQ!Init, QueueInv, PressKept, PeriodicAlive, StartInv

LEMMA QueueNextKeeps == ASSUME QueueInv, [WQ!Next]_(WQ!vars) PROVE QueueInv'
<1> USE DEF QueueInv, PressKept, PeriodicAlive, StartInv, WQ!system, WQ!custom
<1>1. CASE UNCHANGED WQ!vars
  BY <1>1 DEF WQ!vars, WQ!TypeOK
<1>2. CASE WQ!Main
  BY <1>2 DEF WQ!Main, WQ!SetUpPins, WQ!StartQueue, WQ!SchedulePeriodic, WQ!TypeOK
<1>3. CASE WQ!ButtonPressed
  <2>1. "sensor" \in WQ!Items
    BY DEF WQ!Items
  <2>2. /\ sysQueue' \in Seq(WQ!Items) /\ WQ!IsInjective(sysQueue')
        /\ WQ!Contains(sysQueue', "sensor")
    BY <1>3, <2>1, SubmitAdds DEF WQ!ButtonPressed
  <2> QED BY <1>3, <2>2 DEF WQ!ButtonPressed, WQ!TypeOK
<1>4. CASE WQ!TimerExpires
  BY <1>4 DEF WQ!TimerExpires, WQ!TypeOK
<1>5. CASE WQ!TakeItem
  <2>1. /\ sysPc' \in WQ!Items
        /\ sysQueue' \in Seq(WQ!Items) /\ WQ!IsInjective(sysQueue')
    BY <1>5, TakeLeaves DEF WQ!TakeItem
  <2>2. pressed' => WQ!Contains(sysQueue', "sensor")
    BY <1>5, TakeLeaves DEF WQ!TakeItem
  <2>3. pressed' \in BOOLEAN
    BY <1>5 DEF WQ!TakeItem
  <2> QED BY <1>5, <2>1, <2>2, <2>3 DEF WQ!TakeItem, WQ!TypeOK
<1>6. CASE WQ!SensorWork \/ WQ!SensorSlept \/ WQ!SensorToggles \/ WQ!ResultWork
  BY <1>6 DEF WQ!SensorWork, WQ!SensorSlept, WQ!SensorToggles, WQ!ResultWork, WQ!TypeOK
<1>7. CASE WQ!PeriodicFires \/ WQ!TestPending \/ WQ!Reschedule
  BY <1>7 DEF WQ!PeriodicFires, WQ!TestPending, WQ!Reschedule, WQ!TypeOK
<1>8. CASE WQ!SubmitResult
  <2>1. "result" \in WQ!Items
    BY DEF WQ!Items
  <2>2. /\ sysQueue' \in Seq(WQ!Items) /\ WQ!IsInjective(sysQueue')
        /\ pressed => WQ!Contains(sysQueue', "sensor")
    BY <1>8, <2>1, SubmitAdds DEF WQ!SubmitResult
  <2> QED BY <1>8, <2>2 DEF WQ!SubmitResult, WQ!TypeOK
<1> QED BY <1>1, <1>2, <1>3, <1>4, <1>5, <1>6, <1>7, <1>8 DEF WQ!Next, WQ!SystemWq, WQ!CustomWq

-----------------------------------------------------------------------------
(* The board *)

\* A step of the board is one of the program that runs; the others stand still.
LEMMA OneProgramSteps ==
    ASSUME [ImagesNext]_imageVars
    PROVE  /\ image' = image
           /\ [Next]_vars /\ [WQ!Next]_(WQ!vars) /\ [TM!Next]_(TM!vars)
           /\ [WF!Next]_(WF!vars) /\ [RT!Next]_(RT!vars) /\ [BT!Next]_(BT!vars)
<1>1. UNCHANGED workQueue => UNCHANGED WQ!vars
  BY DEF workQueue, WQ!vars, WQ!system, WQ!custom
<1>2. UNCHANGED timers => UNCHANGED TM!vars
  BY DEF timers, TM!vars, TM!clocks, TM!log
<1>3. UNCHANGED wifiScan => UNCHANGED WF!vars
  BY DEF wifiScan, WF!vars, WF!handler, WF!link, WF!driver
<1>4. UNCHANGED rtcAlarm => UNCHANGED RT!vars
  BY DEF rtcAlarm, RT!vars
<1>5. UNCHANGED battery => UNCHANGED BT!vars
  BY DEF battery, BT!vars
<1>6. CASE UNCHANGED imageVars
  BY <1>1, <1>2, <1>3, <1>4, <1>5, <1>6 DEF imageVars
<1>7. CASE RunWatchdog
  BY <1>1, <1>2, <1>3, <1>4, <1>5, <1>7 DEF RunWatchdog
<1>8. CASE RunWorkQueue
  BY <1>2, <1>3, <1>4, <1>5, <1>8 DEF RunWorkQueue
<1>9. CASE RunTimers
  BY <1>1, <1>3, <1>4, <1>5, <1>9 DEF RunTimers
<1>10. CASE RunWifiScan
  BY <1>1, <1>2, <1>4, <1>5, <1>10 DEF RunWifiScan
<1>11. CASE RunRtcAlarm
  BY <1>1, <1>2, <1>3, <1>5, <1>11 DEF RunRtcAlarm
<1>12. CASE RunBatteryAdc
  BY <1>1, <1>2, <1>3, <1>4, <1>12 DEF RunBatteryAdc
<1> QED BY <1>6, <1>7, <1>8, <1>9, <1>10, <1>11, <1>12 DEF ImagesNext, Ended

\* Whatever image the board runs, it behaves as each of the programs, begun or
\* not, in the sense of its own specification without the fairness.
THEOREM EachProgram ==
    ImagesSpec => /\ Spec /\ TM!Spec /\ WF!Spec /\ RT!Spec /\ BT!Spec
                  /\ WQ!Init /\ [][WQ!Next]_(WQ!vars)
<1>1. ImagesInit => Init /\ WQ!Init /\ TM!Init /\ WF!Init /\ RT!Init /\ BT!Init
  BY DEF ImagesInit
<1>2. [ImagesNext]_imageVars =>
        /\ [Next]_vars /\ [WQ!Next]_(WQ!vars) /\ [TM!Next]_(TM!vars)
        /\ [WF!Next]_(WF!vars) /\ [RT!Next]_(RT!vars) /\ [BT!Next]_(BT!vars)
  BY OneProgramSteps
<1> QED BY <1>1, <1>2, PTL DEF ImagesSpec, Spec, TM!Spec, WF!Spec, RT!Spec, BT!Spec

\* The invariants of the programs, each inductive under its own steps.
THEOREM WorkQueueInductive == ImagesSpec => []QueueInv
<1>1. WQ!Init => QueueInv BY QueueInit
<1>2. QueueInv /\ [WQ!Next]_(WQ!vars) => QueueInv' BY QueueNextKeeps
<1> QED BY <1>1, <1>2, EachProgram, PTL

\* As above, for the timers.
THEOREM TimersInductive == ImagesSpec => []TimersInv
<1>1. TM!Init => TimersInv BY TimersInit
<1>2. TimersInv /\ [TM!Next]_(TM!vars) => TimersInv' BY TimersNextKeeps
<1> QED BY <1>1, <1>2, EachProgram, PTL DEF TM!Spec

\* As above, for the scan of the networks.
THEOREM WifiInductive == ImagesSpec => []WifiInv
<1>1. WF!Init => WifiInv BY WifiInit
<1>2. WifiInv /\ [WF!Next]_(WF!vars) => WifiInv' BY WifiNextKeeps
<1> QED BY <1>1, <1>2, EachProgram, PTL DEF WF!Spec

\* As above, for the alarms of the counter.
THEOREM RtcInductive == ImagesSpec => []RtcInv
<1>1. RT!Init => RtcInv BY RtcInit
<1>2. RtcInv /\ [RT!Next]_(RT!vars) => RtcInv' BY RtcNextKeeps
<1> QED BY <1>1, <1>2, EachProgram, PTL DEF RT!Spec

\* As above, for the battery's voltage and level.
THEOREM BatteryInductive == ImagesSpec => []BatteryInv
<1>1. BT!Init => BatteryInv BY BatteryInit
<1>2. BatteryInv /\ [BT!Next]_(BT!vars) => BatteryInv' BY BatteryNextKeeps
<1> QED BY <1>1, <1>2, EachProgram, PTL DEF BT!Spec

\* Every variable of every program keeps its type.
THEOREM ImagesTypeCorrect == ImagesSpec => []ImagesTypeOK
<1>1. ImagesInit => image \in Images BY DEF ImagesInit
<1>2. image \in Images /\ [ImagesNext]_imageVars => (image \in Images)'
  BY OneProgramSteps
<1>3. image \in Images /\ TypeOK /\ QueueInv /\ TimersInv /\ WifiInv /\ RtcInv /\ BatteryInv
        => ImagesTypeOK
  BY DEF ImagesTypeOK, QueueInv, TimersInv, WifiInv, RtcInv, BatteryInv
<1> QED BY <1>1, <1>2, <1>3, EachProgram, TypeCorrect, WorkQueueInductive, TimersInductive,
           WifiInductive, RtcInductive, BatteryInductive, PTL DEF ImagesSpec

\* The image of the watchdog keeps what Watchdog_proofs shows of its program: a
\* watchdog that watchdog_feed_thread still feeds does not expire.
THEOREM ImageFedInTime == ImagesSpec => []NeverStarved
BY EachProgram, FedInTime, PTL

\* And one that nobody feeds any more expires within its time-out and the
\* lateness of one feed.
THEOREM ImageResetsInTime == ImagesSpec => []ResetInTime
BY EachProgram, ResetsInTime, PTL

\* button_isr never loses a press: one that no run of sensor_work has followed
\* yet is in the system work queue, also when it came while sensor_work_fn slept.
THEOREM PressNeverLost == ImagesSpec => []PressKept
<1>1. QueueInv => PressKept BY DEF QueueInv
<1> QED BY <1>1, WorkQueueInductive, PTL

\* periodic_dwork never dies: after main() has scheduled it, its timer runs, or
\* it is in the custom queue, or periodic_dwork_fn is on its way to reschedule
\* it; and it is never in two of these places.
THEOREM PeriodicNeverDies == ImagesSpec => []PeriodicAlive
<1>1. QueueInv => PeriodicAlive BY DEF QueueInv
<1> QED BY <1>1, WorkQueueInductive, PTL

\* log_work at rest has logged the count of the last expiry of the periodic
\* timer, although submissions of a queued item are merged.
THEOREM LogCatchesUp == ImagesSpec => []LogNotBehind
<1>1. TimersInv => LogNotBehind
  BY DEF TimersInv, LogInv, LogNotBehind, TM!LogNotBehind
<1> QED BY <1>1, TimersInductive, PTL

\* main() stops watchdog_timer before its first expiry, unless it was kept
\* waiting for a second or more, and does not restart a one-shot timer that runs.
THEOREM TimersFit == ImagesSpec => []TimersInTime
<1>1. TimersInv => TM!WatchdogStoppedInTime
  BY DEF TimersInv, GuardInv, TM!WatchdogStoppedInTime
<1>2. TimersInv => TM!OneshotOverAtRearm
  BY DEF TimersInv, TM!TypeOK, OneshotInv, TM!OneshotOverAtRearm, TM!Awake, TM!Off
<1>3. TimersInv => TimersInTime
  BY <1>1, <1>2 DEF TimersInTime, TM!TimersInTime
<1> QED BY <1>3, TimersInductive, PTL

\* handle_wifi_scan_result numbers the results of a scan from one in their
\* order, whatever the length of the queue of the events, unless it lost an end.
THEOREM NumberedInOrder == ImagesSpec => []NumberedFromOne
<1>1. WifiInv => NumberedFromOne
  BY DEF WifiInv, NumbersInv, NumberedFromOne, WF!NumberedFromOne
<1> QED BY <1>1, WifiInductive, PTL

\* Until a wait on scan_sem times out, each wait of main() ends by its own scan.
THEOREM OwnScanAwaited == ImagesSpec => []WaitsForOwnScan
<1>1. WifiInv => WaitsForOwnScan
  BY DEF WifiInv, ScanInv, WaitsForOwnScan, WF!WaitsForOwnScan
<1> QED BY <1>1, WifiInductive, PTL

\* main() waits for an alarm of a counter that runs, and switches the chip off
\* only with one ahead, whatever the frequency and the width of the counter.
THEOREM AlarmAhead == ImagesSpec => []AwaitsAnAlarm
<1>1. RtcInv => AwaitsAnAlarm
  BY DEF RtcInv, AlarmInv, CounterInv, AwaitsAnAlarm, RT!AwaitsAnAlarm
<1> QED BY <1>1, RtcInductive, PTL

\* battery_level_pptt gives, for every discharge curve that falls and every
\* voltage, the greatest level that does not lie above the curve.
THEOREM LevelFollowsCurve == ImagesSpec => []LevelOnCurve
<1>1. BatteryInv => LevelOnCurve BY LevelShown
<1> QED BY <1>1, BatteryInductive, PTL
=============================================================================
