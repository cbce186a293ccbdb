# Formal models of the Conexio Stratus firmware SDK

TLA+ models of the firmware in this repository, the TLC configurations that
check them, and the TLAPS proofs of their main safety properties. The code is
a board-support package and 41 samples for the Conexio Stratus Pro (nRF9151 /
nRF9161, Zephyr, nRF Connect SDK). The samples are independent programs: they
share no code, so there is one model per program; six smaller ones are checked
together as the images of which the board runs one. What makes them interesting
is that each of the larger ones is a small concurrent program: threads, work
queues, timers, interrupts and library callbacks over shared variables, a
network that comes and goes, library calls that fail, resets.

## 1. Inventory

| Component | State | Operations and who runs them | What is hard | What makes it correct |
|---|---|---|---|---|
| `cellular_modem_battery_monitor` | `state`, `refresh_interval`, the modem's functional mode | main loop; two work queues fed by modem notifications | three threads and one semaphore; calls that fail while it is held; a sample that is stale when used; a modem that turns itself offline | one thread at a time in the protected region; the state tells the truth about the modem; each battery level leads to its documented mode |
| `rtos_threads` | message queue, mutex-protected reading, binary semaphore, LED | sensor, consumer and heartbeat threads with three priorities | full queue, purge, an unchecked put, preemption between queueing and sharing, a time-out that races with a give | the newest reading is never lost; the shared reading is not behind the queued one; the log is an ordered stream |
| `mqtt_control` | MQTT client, socket, `fds`, payload buffer, LED | main loop; event handler called by the library; button thread | reconnection through several paths, oversized payloads read piece by piece, reused buffer, disconnect inside a callback | the loop watches the open socket; every QoS 1 message is acknowledged in order; no read overruns the buffer; the LED obeys commands and nothing else |
| `udp` | `data_upload_iterations`, socket, two semaphores | main; delayable work item that re-arms itself; LTE callback | boundary of the countdown; shutdown against a work item that may be armed | as many transmissions as counted, none on a closed socket; ends or goes on as configured |
| `wifi_scan` | result counter, `scan_sem`, the MAC address | scan loop; events of the network management | a scan that outlives its 10 s wait leaves a token and results for the next one; an event that is lost | until a wait times out, each wait ends by its own scan; the results are numbered from one |
| `nvs_storage` | five entries in flash | five demos in every boot | a reset or a failed write between any two operations | the counter never goes back; the threshold is gone after the demo |
| `npm1300_fuel_gauge` | last charger status, VBUS flag, gauge | main loop; PMIC event callback | the event races with the first read; status remembered before it was delivered; failed updates | every second is processed once; the gauge knows status and supply |
| `watchdog` | `feed_paused`, the countdown, the watchdog's channel | set-up; feed thread; button interrupt; expiry | test-then-feed against the interrupt; a set-up that fails after the start; a counter that may pause in sleep | a scheduled thread keeps the chip running; a paused one is reset within the time-out |
| `timers` | three timers, counters, a log work item | timer interrupts; system work queue; main | coalesced work; four waits of main() against the durations of three timers | no expiry stays unlogged; the watchdog-style timer is stopped in time |
| `work_queue` | three work items on two queues | button interrupt; timer; both queues, one preempted by the other | a press while its item runs or sleeps; pending test and submission in two steps | no press is lost; the periodic item keeps itself alive and its results come |
| `rtc_alarm` | alarm, semaphore, wake-up from system off | main; counter interrupt; cold boot | a failure between the start and the alarm; an alarm that comes before the power goes off | main() waits, and the chip sleeps, only for an alarm to come |
| `battery_adc` | the set-up's result, the divider's supply | set-up, sampling loop, `battery_level_pptt` over a discharge curve | integer interpolation at the ends and between points | the level is the greatest not above the curve |
| `sht4x_power_gate`, `low_power_mode` | the sensor supply | main loop | reading order against the supply | the sensor is read only while supplied |
| GPIO samples (`button`, `digital_*`, `led_blink`, `pwm`, `npm_leds`) | one LED | a loop or an interrupt | nothing that outlives a step | - |
| sensor samples (`accelerometer`, `adc_read`, `bme280`, `bme680`, `dps310`, `scd4x`, `sht3xd`, `sht4x`, `multi_sensor`, `usefulsensors_person_sensor`) | none | fetch, print, sleep | I/O and formatting only | - |
| bus and storage I/O (`i2c_read_write`, `spi_read_write`, `ext_flash`) | none | one pass over a driver | I/O only | - |
| modem tools (`at_client`, `device_info`, `full_modem_firmware_update`, `gnss`) | the last position in `gnss` | library services | the library's callbacks | - |
| console samples (`shell_commands`, `logging_levels`, `empty_template`) | none | formatting | - | - |
| boards, bootloader configuration, scripts | none | build-time data | - | - |

All paths above are under `samples/conexio_stratus/` but for the last row. The
programs interact with external parts only: the Zephyr kernel (semaphores,
mutexes, queues, work queues, priorities), the modem and MQTT libraries, the
network, the broker and the battery. Those are modelled from how the programs
use them, and a fault of theirs is a nondeterministic choice.

## 2. Modules

| Module | Role |
|---|---|
| `ModemBattery` | the program `cellular_modem_battery_monitor` |
| `ModemBattery_proofs` | its theorems |
| `RtosThreads` | the program `rtos_threads` |
| `ReadingStream` | the abstract specification that `RtosThreads` implements |
| `RtosThreads_proofs` | its theorems, the refinement among them |
| `MqttControl` | the program `mqtt_control` |
| `MqttControl_proofs` | its theorems |
| `UdpUpload` | the program `udp` |
| `UdpUpload_proofs` | its theorems |
| `NvsStorage` | the program `nvs_storage` |
| `BootCounter` | the abstract specification that its boot counter implements |
| `NvsStorage_proofs` | its theorems, the refinement among them |
| `FuelGauge` | the program `npm1300_fuel_gauge` |
| `FuelGauge_proofs` | its theorems |
| `Watchdog` | the program `watchdog` |
| `Watchdog_proofs` | its theorems |
| `WorkQueue` | the program `work_queue` |
| `Timers` | the program `timers` |
| `WifiScan` | the program `wifi_scan` |
| `RtcAlarm` | the program `rtc_alarm` |
| `BatteryAdc` | the program `battery_adc` |
| `SampleImages` | the board that runs one of the last six |
| `SampleImages_proofs` | the theorems of the board and of these six programs |
| `MC*` | constants for TLC |

Definitions marked "Mutant" repeat the definition that follows them with a
plausible mistake (a dropped guard, a missing return, a wrong state). No
formula uses them; they exist so that each property can be seen to fail on the
kind of mistake it is for.

### ModemBattery

`state`, `refreshInterval`, `stateSem` and `batteryVoltage` are `state`,
`refresh_interval`, `state_sem` and the local of `main()`. `modem` and
`voltage` are the functional mode and the voltage as they really are, which
the program learns only through samples and notifications. `mainPc`, `lowPc`,
`pofPc` say where each thread is; a step between two of their values is one
library call or one critical assignment, so that every interleaving of the
three threads at library calls is explored. `lowQueued` and `pofQueued` are
work items: submitting one that is queued changes nothing, as in
`k_work_submit_to_queue`.

Each activity of `main()` is cut where it calls the library: `InitMode`,
`InitConnect`, `PofMode`, `PofConnect`, `LowMode`, `LowConnect`, `EvalConn`,
`SetNormal`. Note two orders that the code has and the model keeps:
`init_activity` updates the state *before* it connects, the others *after*.
Every call in `Failing` may return an error; the error ends `main()` (or the
handler of the low level) with `state_sem` taken, since the early returns do
not give it back. The DNS lookup of NORMAL_HIGH_BAT changes no state and is
part of `TakeState`'s last alternative. `NotifyPofwarn` sets the modem offline
in the same step: the modem does so before it warns.

### RtosThreads and ReadingStream

A reading is its number. One step of a thread is one kernel call or one
access to shared data. The threads run on one core under preemptive
priorities, so a step of the consumer has the guard `~SensorRunnable`, and one
of the heartbeat `HeartbeatRuns`. `k_msgq_put` hands the reading directly to a
consumer that waits (`MsgqPut`), else queues it, and fails on a full queue
(`MsgqFull`). `ReadingStream` promises that the log is a rising subsequence of
the readings: `latest <- reading`, `delivered <- logged`.

### MqttControl

`main()` is `ModemConfigure`, `ClientInit`, `Connect`, `FdsInit`, `Poll` and
the disconnect; `mqtt_input` is the disjunction of what it can find
(`InputFails`, `InputOther`, and the events `Connack`, `ConnackRefused`,
`Publish`); the PUBLISH event is `Publish`, `GetPayload`, `Ack`, `Act`, during
which the network may break the connection. A payload is a sequence of cells
and the buffer a function of `BufferCells` cells, because three properties
depend on what a short or an oversized payload leaves in the buffer; the
commands LEDON and LEDOFF share their first cell. A payload may have any length.
`GetPayload` reads it as `get_received_payload` does: `TruncateStep` is one read
of the loop, which gives any part of what it asks for, `ReadRest` the read of what
fits, and `ReadFails` a broken connection, which may leave a part of the last
cells in the buffer; `unread` is what is still to come. A read that puts more into
the buffer than it holds ends the model (`mainPc` = "overrun"): C does not define
what follows, so nothing is claimed of it, and `ReadsFitBuffer` says when it
happens. `CommandIn` is the command that a payload that fits begins with, with or
without more text behind it, which `strncmp` does not look at. `unacked` and
`lastCommand` are history variables, for the properties only.

### UdpUpload

`iterations` is `data_upload_iterations`, which starts at the configured
value; `work` is the delayable work item (idle, scheduled, and the two halves
of its handler: `Send` and `Count`, between which the network may change).
`lteConnected` and `modemShutdown` are the counts of the two semaphores.
`Register` and `Deregister` are the callback `lte_handler`. `sent` is a history
variable.

### NvsStorage and BootCounter

One action is one `nvs_*` call, and `Reset` may come before any of them and
after the last. `count`, `name` and `stored` are the entries in flash; a call
that fails leaves them alone and is only logged, as in the code. `name` is the
number in "Stratus-Pro-n", which is taken from the counter as it is *stored*
(`demo_device_name` reads it again) and not as `demo_boot_counter` has computed
it: two properties depend on that. `course` (an operation of this boot has
failed or not) and `boots` are history variables. `BootCounter` promises that a
boot raises the counter by one at most once: `counted <- count`, `pending <-`
"`main()` has not passed `demo_boot_counter`".

### FuelGauge

`mainPc` walks `main()`, `fuel_gauge_init` and `fuel_gauge_update`; every call
may fail and ends the program or this second's update. A status word is the set
of its bits. `prev` is `chg_status_prev`, `arg` the `vbus_connected` passed by
value, `gauge` what the library was last told, and `elapsed` in it the sum of
the deltas. The supply changes at any time and latches an event; the callback
gets all that are latched. `told`, `sensed` and `start` are history variables.
Two of the properties name their exceptions, which are the code's: an inform
that failed is not repeated while the status stays, and a charger that was
charging during `fuel_gauge_init` and reads 0 afterwards is never informed as
idle (`ChargeStateKnown`); two changes in one callback, or one between the read
and the store at main.c:81-87, leave the flag wrong (`SupplyFollowed`).

### Watchdog

`mainPc` walks the set-up, each step of which may fail (`SetupFails`), the last
two with the watchdog running already. `feeder` is `watchdog_feed_thread`:
asleep, between the test of `feed_paused` and the feed (where the button may set
it), in the countdown, or in the last loop. Time is explicit: `Tick` is a
second, `wake` what is left of a sleep, negative as long as the thread that is
due has not run (at most `Late`). The counter of the watchdog runs with time,
unless it was accepted with `WDT_OPT_PAUSE_IN_SLEEP`: then a second in which
only sleeping threads are left may count or not. `since` is a history variable.

### WorkQueue

`sysQueue` and `sysPc` are the system work queue and its cooperative thread,
`periodic`, `timer` and `customPc` the delayed item and the preemptible thread
of the other queue. `SystemBlocked` is the guard of each step of the latter;
interrupts come at any step. `TestPending` and `SubmitResult` are the two halves
of "submit unless pending". `pressed` is a history variable.

### Timers

`oneshot`, `every` and `guard` are the half seconds to the expiry of the three
timers; time does not pass over one that is due. `tmMain` and `tmWake` are
`main()` and its sleep, `status` what `k_timer_status_sync` consumes.
`LogStarts`, `LogReads`, `LogReturns` are `log_work_fn`, between whose steps the
timers go on; a submission while it is queued changes nothing. `behind` and
`delay` are history variables.

### WifiScan

`wfMain` walks `main()`, the setting of the MAC address and `wifi_scan()`;
`Scanning` is the loop, in which a request may fail (its result is ignored) and
a wait may time out (its result is ignored, too). `HandleResult` and
`HandleDone` are `wifi_mgmt_event_handler`, fed from a bounded queue in which an
event that finds no room is lost; a scan may never end. A result is its number.
`shown`, `timedOut` and `lostDone` are history variables; the two properties
name what the code does not survive: a late end leaves a token in `scan_sem`, a
lost end leaves the count.

### RtcAlarm

`rtMain` walks the three demonstrations with each failure; `alarm` is the ticks
that are left; an alarm beyond the top of the counter is refused, which is one of the
failures (the code's delays are far below its 24-bit top).
`AlarmCallback` is the interrupt, `ColdBoot` the same alarm with the chip off.

### BatteryAdc

`Level` is `battery_level_pptt`, over the curve as a sequence of points, with
the integer division of C (all operands are natural there). The rest is the
set-up before `main()`, the supply of the divider and the sampling loop.
`LevelOnCurve` does not repeat the formula: it states by cross-multiplication
that the level is on or below the line and that the next greater one is not.

### SampleImages

The six programs above are separate images, so composing them does not mean
running them in parallel: `image` is chosen in `ImagesInit`, the actions of that
program are taken and the variables of the others keep the value that they
would begin with. What this gives is one run for six programs, with one account
of how a program may stop: `Ended` lists the `main()`s that return with nothing
left to run, and any other state without a successor is a deadlock that TLC
would report (the run checks it). `Watchdog` comes in by EXTENDS, so that its
properties keep their names, the others by INSTANCE; their assumptions on
constants stand in `SampleImages`, where TLC evaluates them.

## 3. What the runs check

| Run | Kind | What it shows |
|---|---|---|
| `modem_battery` | passes | Mutual exclusion, agreement of the state with the modem and with the refresh interval, POFWARN ended by the main loop on a sample only, and four liveness properties (a warning is recorded, a low battery leaves normal mode, low and high batteries settle), with any call failing |
| `rtos_threads` | passes | Mutex, newest reading kept although the second put is unchecked, shared reading not behind, newest reading arrives, refinement of `ReadingStream` |
| `mqtt_control` | passes | `fds` follows the open socket, acknowledgement before the next packet, the LED shows the last command, reconnection |
| `udp_upload` | passes | Work item armed on a connected socket only, each transmission counted once and none left out before the shutdown, a limited upload ends, an unlimited one goes on |
| `nvs_storage` | passes | Refinement of `BootCounter`, name not ahead of the counter and never back, and a complete store after one clean boot, whatever resets and failures came before |
| `fuel_gauge` | passes | Whatever updates fail, every second is given to the gauge once; the charge state and the supply are known but for the named holes; the gauge learns what the flag settles on |
| `sample_images` | passes | The chip runs while it is fed and is reset in time when it is not; no press and no periodic result is lost; no expiry stays unlogged and the waits of `main()` fit the timers; each wait ends by its own scan, whose results are numbered from one; no alarm is awaited that will not come; the battery level follows its curve |
| `modem_battery_stale` | violated | `RxOnlyAfterRise`: the voltage is sampled before `state_sem` is taken; a warning recorded in between is answered with receive-only mode although the voltage has not risen (README.rst:42 of the sample) |
| `modem_battery_leak` | violated | `LowLeavesNormal`: when `lte_lc_power_off` fails, the handler keeps `state_sem` and the modem stays in normal mode on a low battery (README.rst:34) |
| `mqtt_control_stale` | violated | `LedShowsLastCommand`: a message that is a prefix of a command is completed by what an earlier payload left in the buffer (README.rst:15-17) |
| `mqtt_control_long` | violated | `ReadsFitBuffer`: the loop that is to truncate a payload "until it fits in the payload buffer" (mqtt_connection.c:44) asks, for one longer than twice the buffer, for more than the buffer holds |
| `udp_upload_count` | violated | `ShutsDownAsConfigured`: the countdown is tested after the transmission (main.c:75), so a limit of n gives n + 1 transmissions, against Kconfig:18 and README.rst:53 of the sample |

`LedShowsLastCommand` is in a passing and in a violated run: it holds when
no message ends inside a command (`WholeMessages`: commands, one of them with
text behind it, which the code obeys, foreign texts, and a payload longer than the
buffer), and fails with a truncated command (`PartMessages`). `ReadsFitBuffer`
fails with payloads longer than twice the buffer (`LongMessages`), and is proved
for all others.

The type invariants of the first six programs are proved and not run; that of the
images is both. Proved and not run is also that `mqtt_connect` is never called
over an open connection (`ConnectsOnceClosed`).

Three disagreements with the documentation are facts of the models rather than
runs. `k_msgq_purge` empties the queue, where the comment at `rtos_threads`
main.c:127 speaks of the oldest item: `Purge` shows it, and `NewestKept` and
`StreamSpec` hold in spite of it. `fuel_gauge_update` negates the current at
fuel_gauge.c:196 and again at :222, so that an update gives the gauge the sensor's
own sign, against the comment at :219 and against `fuel_gauge_init`: the theorem
`SignsDiffer` says so for every current. With `WDT_OPT_PAUSE_IN_SLEEP`, which
`main()` of `watchdog` asks for first, the watchdog need not count while the paused
thread sleeps, and may not have fired when the last loop begins, against the
comment at main.c:110: `Tick` shows it, and `ResetInTime` and `CountdownSuffices`
speak of the other option only.

### Bounds

- `ModemBattery`: one voltage per range that the code tells apart (below 3000,
  from 3000, from 3300 mV), two of them *on* the thresholds, so that both
  comparisons are checked at equality; one energy estimate on each side of
  `LTE_LC_ENERGY_CONSUMPTION_NORMAL` (6 and 7). Nothing else is bounded: the
  state space is the whole one for these values.
- `RtosThreads`: the queue holds 3 readings and the sensor takes 8, enough for
  two overflows with a purge and a retry each. The bound `MaxReadings` stops
  the sensor; the deadlock check is off for that reason.
- `MqttControl`: a buffer of three cells is the smallest in which a command, its
  beginning and a text that begins with it differ. The payloads of the passing
  run have one, two, three and six cells: shorter than the buffer, equal, and
  twice as long, which is the longest that every read of the loop has room for;
  `mqtt_control_long` has seven. Two messages under way let one wait behind
  another; two descriptors make a stale one visible.
- `UdpUpload`: `CONFIG_UDP_DATA_UPLOAD_ITERATIONS` is -1, 0, 1 and 3; `sent`
  saturates at 5, which a limited upload never reaches. The deadlock check is
  off because `main()` ends. `udp_upload_count` has the limits 1 and 3.
- `NvsStorage`: six boots, enough for two updates of the name on top of lost
  counts and interrupted boots; the deadlock check is off because the last boot
  is not followed by a reset. The code's 32-bit counter would need 2^32 boots to
  wrap, far more than the flash's rated life.
- `FuelGauge`: no bit, one bit, and two bits of which the first test wins; the
  uptime stops at 2, from which on the deltas are 0 and the loop goes on: two
  seconds suffice for one that is postponed and one that is not. No
  property of the run is about the current.
- `Watchdog`: the time-out, the feed interval and the countdown are the code's
  5, 2 and 5 s. `DemoFeeds` is 2 instead of 5, since only the last feed differs.
  `Late` is 2, the most that `IntervalAssumption` admits: with one second more
  the watchdog would expire between two feeds.
- `Timers`: the code's durations in half seconds, the greatest unit of which all
  are multiples. With `Late` = 2 (one second) `main()` can be late enough for
  the watchdog-style timer to expire, so that the exception of
  `WatchdogStoppedInTime` occurs.
- `WifiScan`: a queue of two events and at most two results per scan: the queue
  overflows with results and with ends, and results of two scans mix.
- `RtcAlarm`: the counter's real frequency and 24-bit top.
- `BatteryAdc`: the code's curve, and voltages on, next to and between its
  points and at both ends of the positive range of an int.

### Fairness

- Threads run: weak fairness of each thread's next step.
- Semaphores in `ModemBattery`: `k_sem_give` hands the token to the waiting
  thread, so a thread in `k_sem_take` is not overtaken for ever: strong
  fairness of the three takes.
- Notifications: the modem monitors its battery in hardware. A level that
  stays low is reported (weak), a level below the power-off threshold again and
  again is warned of (strong).
- `RtosThreads`: the sensor sleeps 500 ms in every round, in which the consumer
  runs; since each wake-up disables the consumer for a while, its fairness is
  strong. The heartbeat is given none.
- `MqttControl`: the loop runs; an attempt to connect and a CONNACK get through
  if the network lets them again and again (strong); a broken connection is
  noticed by `poll` or `mqtt_input` (strong, since other input may be found
  first). The broker, the button and the network are given none.
- `UdpUpload`: `main()` and the work queue run. The network promises nothing:
  `LimitedUploadEnds` starts from the registration.
- `FuelGauge`: `main()` runs; a sensor read and an inform of the supply succeed
  again and again (strong), since a driver that fails for ever lets no gauge
  learn anything. Failures are not bounded. The supply and the PMIC are given
  none: `SupplyTold` starts from the flag.
- `WorkQueue`: both queues and `main()` run, and a timer that is armed expires.
  The fairness of the custom queue is strong, since the cooperative thread of
  the system queue disables it each time that it has work, and leaves it the CPU
  each time that it sleeps or is idle. The button is given none.
- `Watchdog`, `Timers`, `WifiScan`, `RtcAlarm`, `BatteryAdc`: none. What must
  come in time is stated as a bound on time, which is a safety property; a scan
  may never end, and then nothing is promised.

## 4. What is proved

All theorems hold for every value of the constants that the named assumptions
admit (`ConfigAssumption`, `DepthAssumption`, `BootsAssumption`,
`StatusesAssumption`, `CurrentsAssumption`, `TimeAssumption`, `SizeAssumption`,
`IntervalAssumption`, `CountdownAssumption`, `DemoAssumption`,
`QueueAssumption`, `CounterAssumption`, `CurveAssumption`, `VoltagesAssumption`).
Every safety property that a passing run checks is the statement of a theorem,
`LedShowsLastCommand` under a hypothesis.

- **ModemBattery_proofs**: `TypeCorrect`, `Inductive`, `Protected`,
  `ModeAgrees`, `IntervalAgrees`, `PofwarnEnds`. `ModeAgreesWithState` speaks
  of the moments at which `state_sem` is free, and is not inductive.
  `AgreementInv` says where the agreement holds while a thread is inside (all
  over, but between the mode change and the state update of
  `normal_low_bat_activity`), and `LocalState` what each thread may conclude
  from the state it has read, because nobody else can change it before the
  give. `PofwarnEnds` is an action property that follows from the same
  invariant. Three theorems are about the early returns that keep `state_sem`
  (`Lost`: it is taken and no thread is on the way to give it back):
  `LossIsFailure` says that nothing but a failed call inside the region loses it,
  `LossIsForGood` that a loss is permanent and freezes the state, and `NeverLost`
  that without failures inside the region there is none. They say why the
  liveness properties of this model must except a program in which a call has
  failed, and that no interleaving needs to be excepted.
- **RtosThreads_proofs**: `Inductive`, `TypeCorrect`, `Protected`,
  `NewestIsKept`, `SharedIsFresh`, `ImplementsStream`. The invariant orders the
  readings along the pipeline (logged, received, queue from head to tail,
  newest: `QueueOrder`, `ReceivedOrder`), says that a waiting consumer and a
  purged queue go with emptiness (`EmptyQueue`, which makes the unchecked put
  safe), and that the shared reading is the newest or the one before
  (`SharedOrder`). The priorities enter through `ConsumerTurn`: the consumer
  moves only while the sensor sleeps or waits for the mutex. The refinement is
  a step simulation: `Measure` is `Produce`, `Log` is `Deliver`, every other
  step stutters.
- **UdpUpload_proofs**: `Inductive`, `SocketIsOpen`, `UploadsAddUp`,
  `OneMoreThanConfigured`. `UploadInv` says that the work item and the shutdown
  token exclude each other, and `CountInv` that what was sent and what is left add
  up to what was configured. `OneMoreThanConfigured` shows for every limit what
  `udp_upload_count` finds for two: the shutdown follows one transmission too many.
  `UploadStaysAlive`, `UnlimitedStays` and `LimitedCountsDown` are what the two
  liveness properties of the run rest on: the chain in which the handler arms
  itself does not break, does not end at -1, and has a variant (`Left`, the steps
  that are left) that each step of the handler decreases.

- **NvsStorage_proofs**: `Inductive`, `TypeCorrect`, `NameFollows`,
  `CleanBootCompletes`, `NameGrows`, `ImplementsCounter`. `CountInv` says that a
  boot that may still count finds a counter below the number of boots,
  `NameInv` that the number about to be written is the stored counter, and
  `CleanInv` what the demonstrations that have run without a failure have
  achieved: it is what makes the final statement about a whole boot inductive.

- **FuelGauge_proofs**: `Inductive`, `TypeCorrect`, `NoTimeLost`, `ChargeKnown`,
  `SupplyIsFollowed`. `TimeInv` holds from the start, so that the statement
  about the loop becomes inductive; `ChargeInv` ties `chg_status_prev` to what
  the gauge was told, and `EventInv` says that an event latched alone is that
  of the last change, which is why a single event cannot mislead the callback.
  `SignsDiffer` follows the sign of the current from the sensor to the gauge.
  `SupplyStaysTold` is the safety half of `SupplyTold`: what the gauge knows of
  the flag is undone by a change of the flag only, or by an update that has read
  it before the change.

- **MqttControl_proofs**: `TypeCorrect`, `Inductive`, `PollsOpenSocket`,
  `ConnectsClosed`, `AcksFirst`. `ConnInv` says at each place of `main()` how
  the connection, the socket and `fds` stand to each other, although the library
  may close the socket inside the callback; `AckInv` that what is not yet
  acknowledged is the message at hand, so that no other is read before.
  These hold for messages of any length, in the sense in which the model speaks of
  them: up to a read that overruns the buffer. `ReadsFit` says that there is none
  if no message is longer than twice the buffer (`ShortPayloads`); `UnreadInv`
  bounds what is left of a payload by the payload. `mqtt_control_long` shows that
  the hypothesis is needed.
  `LedFollowsCommands` has another hypothesis on what the broker delivers,
  `WholeCommands`: no payload ends inside a command. Text behind a command, foreign
  texts and payloads of any length are allowed. `WholeMessages` of `mqtt_control`
  satisfies it, and `PartMessages` of `mqtt_control_stale` does not: the run shows
  that the hypothesis is needed. `LedInv` says that while a command is handled
  the buffer holds it, and that otherwise the LED is right and a payload that was
  read without an error does not look like a command in the buffer.
- **Watchdog_proofs**: `TypeCorrect`, `Inductive`, `FedInTime`, `ResetsInTime`,
  `CountdownIsEnough`, for every time-out, feed interval, countdown and delay
  that the assumptions admit: the feed interval with the delay is shorter than
  the time-out (`FedInTime`), and the countdown after a last feed is not
  (`CountdownIsEnough`). `FedInv` bounds the counter by the time since the last
  feed, `SinceInv` the time without feeding by the counter and what was left of
  the sleep, `CountdownInv` the counter from below by what is left of the
  countdown.

- **SampleImages_proofs**: `EachProgram` says that the board, whatever its image,
  behaves as each of the six programs, so that a program's safety properties are
  proved on its own steps and hold of the board (`ImageFedInTime` and
  `ImageResetsInTime` carry over those of the watchdog). The other theorems each
  have an invariant of their program:
  - `Timers`: `TimersFit` and `LogCatchesUp`, for any `Late`. `ClockInv` says
    which timers run at each place of `main()`, `DelayInv` how the lateness of
    `main()` adds up over its three waits, and `GuardInv` what that leaves to the
    watchdog-style timer: nothing is lost in the wait for the periodic timer,
    which ends by the timer and not after a duration. `OneshotInv` compares the
    one-shot timer with the sleep of the loop. `LogInv`: an expiry that is not
    logged has its work item queued, or running before it reads.
  - `WifiScan`: `NumberedInOrder` and `OwnScanAwaited`, for queues of any length.
    `NumbersInv` follows `scan_result` through the events in the queue: the
    number that the i-th of them will meet is known from those before. `ScanInv`:
    until a wait times out there is one scan, whose end is in one place, the scan,
    the queue or `scan_sem`.
  - `RtcAlarm`: `AlarmAhead`, for every frequency and top of the counter, and a
    `main()` that is late by less than the delay of the wake-up less a second
    (`CounterAssumption`). `AlarmInv` says that in a
    wait an alarm is armed or its token has come, and `FlushInv` that the last
    alarm is further away than the power-off.
  - `BatteryAdc`: `LevelFollowsCurve`, for every curve whose voltages and levels
    fall, and every voltage. The lemmas on `Level` go from the code's search for
    the first point that is not above the voltage (`LeastNatural`, `PointFound`)
    to the integer division on one segment (`LevelBetween`, `LevelIsGreatest`)
    and the ends (`LevelAtEnds`).
  - `WorkQueue`: `PressNeverLost` and `PeriodicNeverDies` are the safety halves of
    the two liveness properties of the run. A press that is not served is in the
    system queue (`PressKept`), also when it comes while its item runs; and the
    periodic item is in exactly one of its timer, its queue and its handler
    (`PeriodicAlive`), so that it is never armed twice and never forgotten.

Checked only: the liveness properties (`WarningRecorded`,
`LowLeavesNormalOrFails`, `LowBatterySettles`, `HighBatterySettles`,
`NewestReachesConsumer`, `Reconnects`, `LimitedUploadEnds`,
`UnlimitedUploadGoesOn`, `SupplyTold`, `PressHandled`, `PeriodicReports`): TLAPS
1.4.5 has no ENABLED, hence no proofs from fairness.

## 5. What is not modelled

Durations, but in `Watchdog`, `Timers` and `RtcAlarm`, whose properties are
about them: elsewhere a sleep, a delay or a time-out ends at any time, so the
models admit more orders than a clock does, except where a priority rules an
order out. Log output, LEDs that only show what has run, `process_count` of
`work_queue`. The values of sensor readings. The socket options of `udp`
(failure is only printed). Parsing of the client id and of the broker's address
in `mqtt_control` (one step that may fail); its button before `client_init`,
where what happens is inside the library; the result of `subscribe()`, which the
code ignores and does not retry. Raw results of `wifi_scan`, which are only
printed, and its bands and channels. A negative reading of the ADC in
`battery_adc` through the divider, which is any voltage or an error.

The samples that are one sequential pass of I/O, and build-time data, for which
a state machine has nothing to say: the GPIO, sensor, bus and console samples,
the modem tools, the boards and the scripts. Three things met while reading that
no run is about: the comment of `work_queue` at main.c:69 says that
`result_work_fn` raises `process_count`, but `sensor_work_fn` does; `gnss` reads
the satellites of its buffer before it calls `nrf_modem_gnss_read`, hence those
of the previous event; `sht4x_power_gate` returns with the rail on when a fetch
fails.

## 6. Plan

Done: all programs of the inventory with more than one flow of control, and the
theorems of every safety property that a run checks. Left, in this order:

1. More safety halves of liveness properties, as for `WorkQueue` and `UdpUpload`:
   a power-off warning on its way in `ModemBattery`, and the way back from each
   place of `mqtt_control` to `mqtt_connect`.
2. `PowerGate` (the sensor is read only while supplied) and `Gnss` (the fix
   buffer between the callback and the main loop), as two more images.
