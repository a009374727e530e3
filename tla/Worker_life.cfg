SPECIFICATION FairSpec
CONSTANTS
    RestartAfters = {2}
    Leases = {TRUE}
    MaxServed = 3
    Proc = {p1, p2}
    Ipc = {i1}
    Path = {d1}
    Account = {a1}
    Baked = {}
    Pid1s = {TRUE}
INVARIANTS TypeOK CleanReuse AccountsUndone QuotaRespected NothingSwallowed
PROPERTIES LetsGo
