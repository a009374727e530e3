SPECIFICATION FairSpec
CONSTANTS
    t1 = t1
    t2 = t2
    None = None
    Attachment = {t1}
    WireCap = 1
    Backlog = 1
    PtyCap = 1
    KeepTimeout = 1
    MaxOut = 3
    MaxIn = 0
PROPERTIES
    SilentClientDetached
CHECK_DEADLOCK FALSE
