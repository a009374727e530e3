SPECIFICATION Spec
CONSTANTS
    Commands = 1
    MaxJobs = 2
    Capacity = 2
    MaxChunks = 1
INVARIANTS
    OutputComplete
