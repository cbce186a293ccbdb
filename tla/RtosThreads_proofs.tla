------------------------- MODULE RtosThreads_proofs -------------------------
(***************************************************************************)
(* Type correctness, mutual exclusion, what happens to the newest reading, *)
(* the freshness of the shared one, and the refinement of ReadingStream,   *)
(* for queues of any depth and any number of readings.                     *)
(***************************************************************************)
EXTENDS RtosThreads, SequenceTheorems, TLAPS

(***************************************************************************)
(* The order of the readings along the pipeline: logged, received, the     *)
(* queue from its head to its tail, and the newest one.                    *)
(***************************************************************************)
Offering == sensorPc \in {"put", "purge", "retry"}

QueueOrder ==
    /\ \A i, j \in 1..Len(queue) : i < j => queue[i] < queue[j]
    /\ \A i \in 1..Len(queue) : received < queue[i] /\ queue[i] <= reading
    /\ Offering => \A i \in 1..Len(queue) : queue[i] < reading

ReceivedOrder ==
    /\ received <= reading /\ logged <= received
    /\ Offering => received < reading
    /\ consumerPc = "log" => logged < received

\* A consumer waits at an empty queue only, and the purge leaves none behind.
EmptyQueue ==
    consumerPc = "waiting" \/ sensorPc = "retry" => queue = <<>>

\* The shared reading is the newest one, or the one before while the sensor
\* thread is between the measurement and the write.
SharedOrder ==
    /\ reading = IF sensorPc \in {"measure", "give", "sleep"}
                 THEN sharedLast ELSE sharedLast + 1
    /\ consumerPc = "read" => received <= sharedLast

IInv ==
    /\ TypeOK
    /\ MutexProtects
    /\ QueueOrder /\ ReceivedOrder /\ EmptyQueue /\ NewestKept
    /\ SharedOrder /\ SharedNotBehind

-----------------------------------------------------------------------------
\* The consumer runs only while the sensor thread sleeps, or waits for the
\* mutex that the consumer has.
LEMMA ConsumerTurn ==
    ASSUME ~SensorRunnable
    PROVE  sensorPc = "sleep" \/ (sensorPc = "lock" /\ mutex = "consumer")
BY DEF SensorRunnable

\* What appending to and taking from the queue does to it.
LEMMA AppendQueue ==
    ASSUME NEW q \in Seq(Nat), NEW r \in Nat
    PROVE  /\ Append(q, r) \in Seq(Nat) /\ Append(q, r) # <<>>
           /\ Len(Append(q, r)) = Len(q) + 1 /\ Len(q) \in Nat
           /\ Append(q, r)[Len(q) + 1] = r
           /\ \A i \in 1..Len(q) : Append(q, r)[i] = q[i] /\ q[i] \in Nat
OBVIOUS

LEMMA TailQueue ==
    ASSUME NEW q \in Seq(Nat), q # <<>>
    PROVE  /\ Head(q) \in Nat /\ Head(q) = q[1] /\ Tail(q) \in Seq(Nat)
           /\ Len(Tail(q)) = Len(q) - 1 /\ Len(q) \in Nat \ {0}
           /\ (Tail(q) = <<>>) <=> (Len(q) = 1)
           /\ \A i \in 1..Len(Tail(q)) : Tail(q)[i] = q[i + 1]
           /\ \A i \in 1..Len(q) : q[i] \in Nat
<1>1. /\ Head(q) \in Nat /\ Tail(q) \in Seq(Nat) /\ Len(Tail(q)) = Len(q) - 1
      /\ \A i \in 1..Len(Tail(q)) : Tail(q)[i] = q[i + 1]
  BY HeadTailProperties
<1>2. Len(q) \in Nat \ {0} /\ Head(q) = q[1] /\ \A i \in 1..Len(q) : q[i] \in Nat
  OBVIOUS
<1>3. \A t \in Seq(Nat) : (t = <<>>) <=> (Len(t) = 0)
  BY EmptySeq
<1>4. (Tail(q) = <<>>) <=> (Len(Tail(q)) = 0)
  BY <1>1, <1>3, Zenon
<1>5. (Len(Tail(q)) = 0) <=> (Len(q) = 1)
  BY <1>1, <1>2
<1> QED BY <1>1, <1>2, <1>4, <1>5, Zenon

-----------------------------------------------------------------------------
LEMMA IInvInit == ASSUME Init PROVE IInv
BY DepthAssumption DEF Init, IInv, TypeOK, MutexProtects, QueueOrder, Offering,
   ReceivedOrder, EmptyQueue, NewestKept, SharedOrder, SharedNotBehind

\* A successful put keeps the invariant, if the sensor thread then goes on to
\* the mutex.
LEMMA PutKeeps ==
    ASSUME IInv, Offering, ~MsgqFull, MsgqPut(reading), sensorPc' = "lock",
           UNCHANGED <<reading, heartbeatVars, mutex, sharedLast, dataReady>>
    PROVE  IInv'
<1> USE DEF IInv, TypeOK, heartbeatVars, consumerVars
<1>1. CASE consumerPc = "waiting"
  <2>1. /\ received' = reading /\ consumerPc' = "log" /\ queue' = <<>> /\ queue = <<>>
        /\ UNCHANGED <<queue, logged, observed, reading, mutex, sharedLast>>
    BY <1>1 DEF MsgqPut, EmptyQueue
  <2>2. TypeOK'
    BY <2>1
  <2>3. MutexProtects' /\ EmptyQueue' /\ NewestKept' /\ QueueOrder'
    BY <2>1, <1>1 DEF MutexProtects, EmptyQueue, NewestKept, QueueOrder, Offering
  <2>4. ReceivedOrder' /\ SharedOrder' /\ SharedNotBehind'
    BY <2>1, <1>1 DEF ReceivedOrder, SharedOrder, SharedNotBehind, Offering
  <2> QED BY <2>2, <2>3, <2>4
<1>2. CASE consumerPc # "waiting"
  <2>1. /\ queue' = Append(queue, reading) /\ Len(queue) < MsgqDepth
        /\ UNCHANGED <<consumerPc, received, logged, observed, reading, mutex,
                       sharedLast, dataReady, heartbeatPc, led>>
    BY <1>2, DepthAssumption DEF MsgqPut, MsgqFull
  <2>2. TypeOK'
    BY <2>1, AppendQueue, DepthAssumption
  <2>3. MutexProtects' /\ EmptyQueue' /\ SharedOrder' /\ SharedNotBehind' /\ ReceivedOrder'
    BY <2>1, <1>2 DEF MutexProtects, EmptyQueue, SharedOrder, SharedNotBehind,
       ReceivedOrder, Offering
  <2>4. NewestKept'
    BY <2>1, AppendQueue DEF NewestKept
  <2>5. QueueOrder'
    BY <2>1, AppendQueue DEF QueueOrder, ReceivedOrder, Offering
  <2> QED BY <2>2, <2>3, <2>4, <2>5
<1> QED BY <1>1, <1>2

\* Each step of the sensor thread.
LEMMA SensorKeeps == ASSUME IInv, Sensor PROVE IInv'
<1> USE DEF IInv, TypeOK, heartbeatVars, consumerVars
<1>1. CASE Measure
  BY <1>1 DEF Measure, MutexProtects, QueueOrder, Offering, ReceivedOrder,
     EmptyQueue, NewestKept, SharedOrder, SharedNotBehind
<1>2. CASE Put
  <2>1. CASE MsgqFull
    BY <1>2, <2>1 DEF Put, MutexProtects, QueueOrder, Offering, ReceivedOrder,
       EmptyQueue, NewestKept, SharedOrder, SharedNotBehind
  <2>2. CASE ~MsgqFull
    BY <1>2, <2>2, PutKeeps DEF Put, Offering
  <2> QED BY <2>1, <2>2
<1>3. CASE Purge
  BY <1>3, DepthAssumption DEF Purge, MutexProtects, QueueOrder, Offering,
     ReceivedOrder, EmptyQueue, NewestKept, SharedOrder, SharedNotBehind
<1>4. CASE RetryPut
  <2>1. ~MsgqFull
    BY <1>4, DepthAssumption DEF RetryPut, MsgqFull, EmptyQueue
  <2> QED BY <1>4, <2>1, PutKeeps DEF RetryPut, Offering
<1>5. CASE SensorLock \/ WriteAndUnlock
  BY <1>5 DEF SensorLock, WriteAndUnlock, MutexProtects, QueueOrder, Offering,
     ReceivedOrder, EmptyQueue, NewestKept, SharedOrder, SharedNotBehind
<1>6. CASE GiveReady \/ SensorWake
  BY <1>6 DEF GiveReady, SensorWake, MutexProtects, QueueOrder, Offering,
     ReceivedOrder, EmptyQueue, NewestKept, SharedOrder, SharedNotBehind
<1> QED BY <1>1, <1>2, <1>3, <1>4, <1>5, <1>6 DEF Sensor

\* k_msgq_get takes the oldest reading, and then the others are newer.
LEMMA GetKeeps == ASSUME IInv, Get PROVE IInv'
<1> USE DEF IInv, TypeOK, sensorVars, heartbeatVars
<1>1. sensorPc = "sleep"
  BY ConsumerTurn DEF Get, MutexProtects
<1>2. CASE queue = <<>>
  BY <1>1, <1>2 DEF Get, MutexProtects, QueueOrder, Offering, ReceivedOrder,
     EmptyQueue, NewestKept, SharedOrder, SharedNotBehind
<1>3. CASE queue # <<>>
  <2>1. /\ received' = queue[1] /\ queue' = Tail(queue) /\ consumerPc' = "log"
        /\ UNCHANGED <<sensorPc, reading, logged, observed, heartbeatPc, led,
                       mutex, sharedLast, dataReady>>
    BY <1>3, TailQueue DEF Get
  <2>2. TypeOK'
    BY <2>1, <1>3, TailQueue, DepthAssumption
  <2>3. MutexProtects' /\ EmptyQueue' /\ SharedOrder' /\ SharedNotBehind'
    BY <2>1, <1>1 DEF Get, MutexProtects, EmptyQueue, SharedOrder, SharedNotBehind
  <2>4. received < queue[1] /\ queue[1] <= reading
    BY <1>3, TailQueue DEF QueueOrder
  <2>5. ReceivedOrder'
    BY <2>1, <2>4, <1>1, <1>3, TailQueue DEF ReceivedOrder, Offering
  <2>6. QueueOrder'
    BY <2>1, <1>1, <1>3, TailQueue DEF QueueOrder, Offering
  <2>7. NewestKept'
    BY <2>1, <1>1, <1>3, TailQueue DEF NewestKept
  <2> QED BY <2>2, <2>3, <2>5, <2>6, <2>7
<1> QED BY <1>2, <1>3

\* Each step of the consumer thread.
LEMMA ConsumerKeeps == ASSUME IInv, Consumer PROVE IInv'
<1> USE DEF IInv, TypeOK, sensorVars, heartbeatVars
<1>1. CASE Get
  BY <1>1, GetKeeps
<1>2. CASE Log
  BY <1>2 DEF Log, MutexProtects, QueueOrder, Offering, ReceivedOrder,
     EmptyQueue, NewestKept, SharedOrder, SharedNotBehind
<1>3. CASE ConsumerLock
  <2>1. sensorPc = "sleep"
    BY <1>3, ConsumerTurn DEF ConsumerLock
  <2> QED BY <1>3, <2>1 DEF ConsumerLock, MutexProtects, QueueOrder, Offering,
             ReceivedOrder, EmptyQueue, NewestKept, SharedOrder, SharedNotBehind
<1>4. CASE Read
  BY <1>4 DEF Read, MutexProtects, QueueOrder, Offering, ReceivedOrder,
     EmptyQueue, NewestKept, SharedOrder, SharedNotBehind
<1>5. CASE ConsumerUnlock
  BY <1>5 DEF ConsumerUnlock, MutexProtects, QueueOrder, Offering,
     ReceivedOrder, EmptyQueue, NewestKept, SharedOrder, SharedNotBehind
<1>6. CASE TakeReady \/ TakeTimeout
  BY <1>6 DEF TakeReady, TakeTimeout, MutexProtects, QueueOrder, Offering,
     ReceivedOrder, EmptyQueue, NewestKept, SharedOrder, SharedNotBehind
<1> QED BY <1>1, <1>2, <1>3, <1>4, <1>5, <1>6 DEF Consumer

\* The invariant that all the theorems rest on.
THEOREM Inductive == Spec => []IInv
<1>1. ASSUME IInv, Heartbeat \/ UNCHANGED vars PROVE IInv'
  BY <1>1 DEF Heartbeat, CreateHeartbeat, StartHeartbeat, Toggle, vars, IInv,
     TypeOK, sensorVars, consumerVars, heartbeatVars, MutexProtects, QueueOrder,
     Offering, ReceivedOrder, EmptyQueue, NewestKept, SharedOrder, SharedNotBehind
<1>2. IInv /\ [Next]_vars => IInv'
  BY <1>1, SensorKeeps, ConsumerKeeps DEF Next
<1> QED BY IInvInit, <1>2, PTL DEF Spec

-----------------------------------------------------------------------------
\* Every variable keeps its type, and the queue its depth.
THEOREM TypeCorrect == Spec => []TypeOK
<1>1. IInv => TypeOK
  BY DEF IInv
<1> QED BY <1>1, Inductive, PTL

\* The owner of data_mutex is the one thread in a critical section.
THEOREM Protected == Spec => []MutexProtects
<1>1. IInv => MutexProtects
  BY DEF IInv
<1> QED BY <1>1, Inductive, PTL

\* The unchecked second put never loses the newest reading.
THEOREM NewestIsKept == Spec => []NewestKept
<1>1. IInv => NewestKept
  BY DEF IInv
<1> QED BY <1>1, Inductive, PTL

\* The shared reading the consumer logs is not older than the queued one.
THEOREM SharedIsFresh == Spec => []SharedNotBehind
<1>1. IInv => SharedNotBehind
  BY DEF IInv
<1> QED BY <1>1, Inductive, PTL

\* The threads implement the stream of readings: what the consumer logs is a
\* rising subsequence of what the sensor has measured.
THEOREM ImplementsStream == Spec => StreamSpec
<1>1. Init => Stream!Init
  BY DEF Init, Stream!Init
<1>2. ASSUME IInv, [Next]_vars PROVE [Stream!Next]_(Stream!vars)
  <2> USE <1>2 DEF IInv, TypeOK
  <2>1. CASE Measure
    BY <2>1 DEF Measure, consumerVars, Stream!Next, Stream!Produce
  <2>2. CASE Log
    BY <2>2 DEF Log, sensorVars, ReceivedOrder, Stream!Next, Stream!Deliver
  <2>3. CASE Put \/ Purge \/ RetryPut \/ SensorLock \/ WriteAndUnlock
             \/ GiveReady \/ SensorWake
    BY <2>3 DEF Put, Purge, RetryPut, SensorLock, WriteAndUnlock, GiveReady,
       SensorWake, MsgqPut, consumerVars, Stream!vars
  <2>4. CASE Get \/ ConsumerLock \/ Read \/ ConsumerUnlock \/ TakeReady \/ TakeTimeout
    BY <2>4 DEF Get, ConsumerLock, Read, ConsumerUnlock, TakeReady, TakeTimeout,
       sensorVars, Stream!vars
  <2>5. CASE Heartbeat
    BY <2>5 DEF Heartbeat, CreateHeartbeat, StartHeartbeat, Toggle, sensorVars,
       consumerVars, Stream!vars
  <2>6. CASE UNCHANGED vars
    BY <2>6 DEF vars, sensorVars, consumerVars, Stream!vars
  <2> QED BY <2>1, <2>2, <2>3, <2>4, <2>5, <2>6 DEF Next, Sensor, Consumer
<1> QED BY <1>1, <1>2, Inductive, PTL DEF Spec, StreamSpec, Stream!Spec

=============================================================================
