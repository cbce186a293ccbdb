SPECIFICATION ImagesSpec
CONSTANTS
    Timeout = 5
    FeedInterval = 2
    Countdown = 5
    DemoFeeds = 2
    Late = 2
    QueueSize = 2
    MaxResults = 2
    Frequency = 32768
    Top = 16777215
    Curve <- MCCurve
    Voltages <- MCVoltages
INVARIANTS
    ImagesTypeOK
    NeverStarved
    ResetInTime
    LogNotBehind
    TimersInTime
    NumberedFromOne
    WaitsForOwnScan
    AwaitsAnAlarm
    LevelOnCurve
PROPERTIES
    PressHandled
    PeriodicReports
