SPECIFICATION FairSpec
CONSTANTS
    Commands = 2
    MaxJobs = 2
    Capacity = 2
    MaxChunks = 0
PROPERTIES
    CancelEnds
    QueueMoves
