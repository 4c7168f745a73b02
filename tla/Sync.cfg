SPECIFICATION FairSpec
CONSTANTS
    p1 = p1
    p2 = p2
    v1 = v1
    Validators = {v1}
    Peers = {p1, p2}
    Ignored = {p2}
    SyncTimeout = 2
    Cooldown = 1
    StuckLimit = 1
    SleepLimit = 1
    CheckInterval = 2
    CheckWindow = 1
    CheckEnabled = TRUE
    ExpireTime = 2
    MaxStall = 2
    MaxEvents = 2
    TipKinds = {TRUE, FALSE}
    RpcCommands = {"next", "reset"}
INVARIANTS
    TypeOK
    TickNeverThrows
PROPERTIES
    EventuallyFinished
