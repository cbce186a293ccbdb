SPECIFICATION FairSpec

CONSTANTS
    MsgqDepth = 3
    MaxReadings = 8

INVARIANTS
    MutexProtects
    NewestKept
    SharedNotBehind

PROPERTIES
    NewestReachesConsumer
    StreamSpec

\* The bound MaxReadings stops the sensor, and then the consumer waits for ever.
CHECK_DEADLOCK FALSE
