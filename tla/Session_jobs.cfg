SPECIFICATION Spec
CONSTANTS
    Commands = 3
    MaxJobs = 2
    Capacity = 2
    MaxChunks = 1
INVARIANTS
    TypeOK
    StartsInOrder
    AnsweredOnce
    InterruptsOwn
    OutputBeforeResult
