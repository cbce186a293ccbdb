SPECIFICATION Spec

CONSTANTS
    MaxBoots = 6

INVARIANTS
    NameFollowsCounter
    CompleteAfterCleanBoot

PROPERTIES
    CounterSpec
    NameNeverBack

\* main() ends, and the last boot is not followed by a reset.
CHECK_DEADLOCK FALSE
