SPECIFICATION Spec

CONSTANTS
    BufferCells = 3
    Messages <- PartMessages
    MaxInbox = 2
    Fds = {3}

INVARIANTS
    LedShowsLastCommand
