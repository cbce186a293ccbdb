SPECIFICATION Spec

CONSTANTS
    BufferCells = 3
    Messages <- LongMessages
    MaxInbox = 2
    Fds = {3}

INVARIANTS
    ReadsFitBuffer
