SPECIFICATION FairSpec
CONSTANTS
    w1 = w1  c1 = c1  c2 = c2  h1 = h1  h2 = h2  p1 = p1  p2 = p2
    None = None
    Worker = {w1}
    Conn = {c1}
    WorkerOf <- OneWorker
    Handle = {h1}
    Pty = {p1, p2}
    Sessions = TRUE
    Env = {"abandon", "disk"}
INVARIANTS
    TypeOK
    HeldOnce
    NoLeak
    NoLostWork
    OwnShell
PROPERTIES
    PurgesFinished
    PtyReleased
    HandleEnds
CHECK_DEADLOCK FALSE
