SPECIFICATION Spec
CONSTANTS
    t1 = t1
    t2 = t2
    None = None
    Attachment = {t1, t2}
    WireCap = 1
    Backlog = 1
    PtyCap = 1
    KeepTimeout = 1
    MaxOut = 2
    MaxIn = 2
SYMMETRY Symmetry
INVARIANTS
    TypeOK
    OutputInOrder
    InputInOrder
    ReservationOwned
CHECK_DEADLOCK FALSE
