SPECIFICATION FairSpec

CONSTANTS
    Configured <- MCConfigured
    MaxSent = 5

INVARIANTS
    SendsOnOpenSocket
    UploadsCounted

PROPERTIES
    LimitedUploadEnds
    UnlimitedUploadGoesOn

\* main() ends after the shutdown, and when a call fails.
CHECK_DEADLOCK FALSE
