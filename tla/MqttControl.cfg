SPECIFICATION FairSpec

CONSTANTS
    BufferCells = 3
    Messages <- WholeMessages
    MaxInbox = 2
    Fds = {3, 4}

INVARIANTS
    PollsTheOpenSocket
    AcksBeforeNextPacket
    LedShowsLastCommand

PROPERTIES
    Reconnects
