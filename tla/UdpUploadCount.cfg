SPECIFICATION Spec

CONSTANTS
    Configured <- MCLimited
    MaxSent = 5

INVARIANTS
    ShutsDownAsConfigured

\* main() ends after the shutdown, and when a call fails.
CHECK_DEADLOCK FALSE
