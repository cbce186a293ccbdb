---------------------------- MODULE RtosThreads ----------------------------
(***************************************************************************)
(* The sample rtos_threads: a sensor thread hands readings to a consumer   *)
(* thread through a message queue, a variable protected by a mutex, and a  *)
(* binary semaphore, while a heartbeat thread blinks an LED.               *)
(*                                                                         *)
(* A reading is its number: 1 for the first one, counter for the one taken *)
(* when the code's counter is counter - 1.  The threads run on one core    *)
(* under preemptive priorities: a thread takes a step only while no thread *)
(* of higher priority can.                                                 *)
(*                                                                         *)
(* A definition marked "Mutant" is the definition that follows it with a   *)
(* plausible mistake; no formula uses it.                                  *)
(***************************************************************************)
EXTENDS Naturals, Sequences

CONSTANTS
    MsgqDepth,    \* MSGQ_DEPTH
    MaxReadings   \* bound on the number of readings, for model checking

ASSUME DepthAssumption == MsgqDepth \in Nat \ {0} /\ MaxReadings \in Nat

VARIABLES
    sensorPc, reading,              \* sensor_thread
    consumerPc, received, logged,   \* consumer_thread: its local, and the
                                    \* last reading it has logged
    observed,                       \* the shared reading it has last logged
    heartbeatPc, led,               \* heartbeat_thread
    queue,                          \* sensor_msgq
    mutex,                          \* owner of data_mutex
    sharedLast,                     \* shared_last_reading
    dataReady                       \* count of data_ready_sem

sensorVars == <<sensorPc, reading>>
consumerVars == <<consumerPc, received, logged, observed>>
heartbeatVars == <<heartbeatPc, led>>
vars == <<sensorVars, consumerVars, heartbeatVars, queue, mutex, sharedLast,
          dataReady>>

Init ==
    /\ sensorPc = "measure" /\ reading = 0
    /\ consumerPc = "get" /\ received = 0 /\ logged = 0 /\ observed = 0
    /\ heartbeatPc = "none" /\ led \in BOOLEAN
    /\ queue = <<>>
    /\ mutex = "none"
    /\ sharedLast = 0
    /\ dataReady = 0

-----------------------------------------------------------------------------
(* The kernel: SENSOR_PRIORITY 5 before CONSUMER_PRIORITY 6 before         *)
(* HEARTBEAT_PRIORITY 7.                                                   *)

\* Mutant: the consumer has the same priority as the sensor, and the two are
\* time-sliced.
SensorRunnable_Sliced == FALSE

SensorRunnable ==
    /\ sensorPc # "sleep"
    /\ ~(sensorPc = "lock" /\ mutex = "consumer")

ConsumerRunnable ==
    /\ consumerPc # "waiting"
    /\ ~(consumerPc = "sem" /\ dataReady = 0)

\* Mutant: the test for room lets one reading too many in.
MsgqFull_OffByOne == consumerPc # "waiting" /\ Len(queue) > MsgqDepth

\* k_msgq_put fails with K_NO_WAIT when the queue is full; a consumer that waits
\* for a reading makes room for it.
MsgqFull == consumerPc # "waiting" /\ Len(queue) >= MsgqDepth

\* k_msgq_put when it succeeds: a consumer that waits is handed the reading,
\* otherwise it is queued.
MsgqPut(r) ==
    IF consumerPc = "waiting"
    THEN /\ received' = r /\ consumerPc' = "log"
         /\ UNCHANGED <<queue, logged, observed>>
    ELSE /\ queue' = Append(queue, r)
         /\ UNCHANGED consumerVars

-----------------------------------------------------------------------------
(* sensor_thread_fn                                                        *)

Measure ==
    /\ sensorPc = "measure"
    /\ reading' = reading + 1
    /\ sensorPc' = "put"
    /\ UNCHANGED <<consumerVars, heartbeatVars, queue, mutex, sharedLast, dataReady>>

\* Mutant: the counter is incremented before the reading is numbered, and after.
Put_Next ==
    /\ sensorPc = "put"
    /\ IF MsgqFull
       THEN sensorPc' = "purge" /\ UNCHANGED <<consumerVars, queue>>
       ELSE sensorPc' = "lock" /\ MsgqPut(reading + 1)
    /\ UNCHANGED <<reading, heartbeatVars, mutex, sharedLast, dataReady>>

Put ==
    /\ sensorPc = "put"
    /\ IF MsgqFull
       THEN sensorPc' = "purge" /\ UNCHANGED <<consumerVars, queue>>
       ELSE sensorPc' = "lock" /\ MsgqPut(reading)
    /\ UNCHANGED <<reading, heartbeatVars, mutex, sharedLast, dataReady>>

\* k_msgq_purge empties the queue.
Purge ==
    /\ sensorPc = "purge"
    /\ queue' = <<>>
    /\ sensorPc' = "retry"
    /\ UNCHANGED <<reading, consumerVars, heartbeatVars, mutex, sharedLast, dataReady>>

\* Mutant: the reading is not put again after the purge.
RetryPut_None ==
    /\ sensorPc = "retry"
    /\ sensorPc' = "lock"
    /\ UNCHANGED <<reading, consumerVars, heartbeatVars, queue, mutex, sharedLast, dataReady>>

\* The result of the second k_msgq_put is ignored.
RetryPut ==
    /\ sensorPc = "retry"
    /\ IF MsgqFull THEN UNCHANGED <<consumerVars, queue>> ELSE MsgqPut(reading)
    /\ sensorPc' = "lock"
    /\ UNCHANGED <<reading, heartbeatVars, mutex, sharedLast, dataReady>>

SensorLock ==
    /\ sensorPc = "lock"
    /\ mutex = "none"
    /\ mutex' = "sensor"
    /\ sensorPc' = "write"
    /\ UNCHANGED <<reading, consumerVars, heartbeatVars, queue, sharedLast, dataReady>>

WriteAndUnlock ==
    /\ sensorPc = "write"
    /\ sharedLast' = reading
    /\ mutex' = "none"
    /\ sensorPc' = "give"
    /\ UNCHANGED <<reading, consumerVars, heartbeatVars, queue, dataReady>>

\* The count of the semaphore saturates at 1.
GiveReady ==
    /\ sensorPc = "give"
    /\ dataReady' = 1
    /\ sensorPc' = "sleep"
    /\ UNCHANGED <<reading, consumerVars, heartbeatVars, queue, mutex, sharedLast>>

\* The 500 ms sleep ends; MaxReadings bounds the number of rounds.
SensorWake ==
    /\ sensorPc = "sleep"
    /\ reading < MaxReadings
    /\ sensorPc' = "measure"
    /\ UNCHANGED <<reading, consumerVars, heartbeatVars, queue, mutex, sharedLast, dataReady>>

Sensor == \/ Measure \/ Put \/ Purge \/ RetryPut \/ SensorLock
          \/ WriteAndUnlock \/ GiveReady \/ SensorWake

-----------------------------------------------------------------------------
(* consumer_thread_fn                                                      *)

\* Mutant: the consumer leaves the last reading in the queue.
Get_Peek ==
    /\ consumerPc = "get"
    /\ ~SensorRunnable
    /\ Len(queue) > 1
    /\ received' = Head(queue)
    /\ queue' = Tail(queue)
    /\ consumerPc' = "log"
    /\ UNCHANGED <<sensorVars, logged, observed, heartbeatVars, mutex, sharedLast, dataReady>>

\* k_msgq_get with K_FOREVER.
Get ==
    /\ consumerPc = "get"
    /\ ~SensorRunnable
    /\ \/ /\ queue # <<>>
          /\ received' = Head(queue)
          /\ queue' = Tail(queue)
          /\ consumerPc' = "log"
       \/ /\ queue = <<>>
          /\ consumerPc' = "waiting"
          /\ UNCHANGED <<received, queue>>
    /\ UNCHANGED <<sensorVars, logged, observed, heartbeatVars, mutex, sharedLast, dataReady>>

Log ==
    /\ consumerPc = "log"
    /\ ~SensorRunnable
    /\ logged' = received
    /\ consumerPc' = "lock"
    /\ UNCHANGED <<sensorVars, received, observed, heartbeatVars, queue, mutex, sharedLast, dataReady>>

\* Mutant: the consumer reads the shared reading without data_mutex.
ConsumerLock_None ==
    /\ consumerPc = "lock"
    /\ ~SensorRunnable
    /\ consumerPc' = "read"
    /\ UNCHANGED <<sensorVars, received, logged, observed, heartbeatVars, queue, mutex, sharedLast, dataReady>>

ConsumerLock ==
    /\ consumerPc = "lock"
    /\ ~SensorRunnable
    /\ mutex = "none"
    /\ mutex' = "consumer"
    /\ consumerPc' = "read"
    /\ UNCHANGED <<sensorVars, received, logged, observed, heartbeatVars, queue, sharedLast, dataReady>>

Read ==
    /\ consumerPc = "read"
    /\ ~SensorRunnable
    /\ observed' = sharedLast
    /\ consumerPc' = "unlock"
    /\ UNCHANGED <<sensorVars, received, logged, heartbeatVars, queue, mutex, sharedLast, dataReady>>

ConsumerUnlock ==
    /\ consumerPc = "unlock"
    /\ ~SensorRunnable
    /\ mutex' = "none"
    /\ consumerPc' = "sem"
    /\ UNCHANGED <<sensorVars, received, logged, observed, heartbeatVars, queue, sharedLast, dataReady>>

TakeReady ==
    /\ consumerPc = "sem"
    /\ ~SensorRunnable
    /\ dataReady = 1
    /\ dataReady' = 0
    /\ consumerPc' = "get"
    /\ UNCHANGED <<sensorVars, received, logged, observed, heartbeatVars, queue, mutex, sharedLast>>

\* k_sem_take gives up after 200 ms.
TakeTimeout ==
    /\ consumerPc = "sem"
    /\ dataReady = 0
    /\ consumerPc' = "get"
    /\ UNCHANGED <<sensorVars, received, logged, observed, heartbeatVars, queue, mutex, sharedLast, dataReady>>

Consumer == \/ Get \/ Log \/ ConsumerLock \/ Read \/ ConsumerUnlock
            \/ TakeReady \/ TakeTimeout

-----------------------------------------------------------------------------
(* main() creates heartbeat_thread, which ends if the LED is not ready.    *)

CreateHeartbeat ==
    /\ heartbeatPc = "none"
    /\ heartbeatPc' = "start"
    /\ UNCHANGED <<sensorVars, consumerVars, led, queue, mutex, sharedLast, dataReady>>

HeartbeatRuns == ~SensorRunnable /\ ~ConsumerRunnable

StartHeartbeat ==
    /\ heartbeatPc = "start"
    /\ HeartbeatRuns
    /\ \/ heartbeatPc' = "blink" /\ led' = FALSE
       \/ heartbeatPc' = "ended" /\ UNCHANGED led
    /\ UNCHANGED <<sensorVars, consumerVars, queue, mutex, sharedLast, dataReady>>

Toggle ==
    /\ heartbeatPc = "blink"
    /\ HeartbeatRuns
    /\ led' = ~led
    /\ UNCHANGED <<sensorVars, consumerVars, heartbeatPc, queue, mutex, sharedLast, dataReady>>

Heartbeat == CreateHeartbeat \/ StartHeartbeat \/ Toggle

Next == Sensor \/ Consumer \/ Heartbeat

Spec == Init /\ [][Next]_vars

(* The sensor sleeps 500 ms in every round, so the consumer is not starved *)
(* although it is preempted again and again: strong fairness.              *)
FairSpec == Spec /\ WF_vars(Sensor) /\ SF_vars(Consumer)

-----------------------------------------------------------------------------
TypeOK ==
    /\ sensorPc \in {"measure", "put", "purge", "retry", "lock", "write",
                     "give", "sleep"}
    /\ reading \in Nat
    /\ consumerPc \in {"get", "waiting", "log", "lock", "read", "unlock", "sem"}
    /\ received \in Nat /\ logged \in Nat /\ observed \in Nat
    /\ heartbeatPc \in {"none", "start", "blink", "ended"}
    /\ led \in BOOLEAN
    /\ queue \in Seq(Nat) /\ Len(queue) <= MsgqDepth
    /\ mutex \in {"none", "sensor", "consumer"}
    /\ sharedLast \in Nat
    /\ dataReady \in {0, 1}

\* shared_last_reading is written and read under data_mutex alone: its owner
\* is the one thread inside a critical section.
MutexProtects ==
    /\ mutex = "sensor" <=> sensorPc = "write"
    /\ mutex = "consumer" <=> consumerPc \in {"read", "unlock"}

\* The put after the purge, whose result is ignored, never loses the newest
\* reading: once it has been offered, the consumer has it or it ends the queue.
NewestKept ==
    sensorPc \in {"lock", "write", "give", "sleep"} =>
        IF queue = <<>> THEN received = reading
                        ELSE queue[Len(queue)] = reading

\* The shared reading that the consumer logs is never older than the reading
\* it took from the queue, although the queue is filled first: a consequence
\* of the two priorities, not of the mutex.
SharedNotBehind == consumerPc = "unlock" => observed >= received

\* Every reading that was queued reaches the consumer, or a newer one does.
NewestReachesConsumer ==
    \A n \in 1..MaxReadings : reading = n ~> logged >= n

\* The consumer logs a rising subsequence of the readings that were taken.
Stream == INSTANCE ReadingStream WITH latest <- reading, delivered <- logged
StreamSpec == Stream!Spec

=============================================================================
