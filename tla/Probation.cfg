CONSTANTS
    StartTime = 10
    MaxTime = 11
    StartHeight = 1
    MaxHeight = 2
    Pings <- FewPings
    Broadcasts <- FewBroadcasts
    StartAliasTimes = {11}
    MASTERNODE_VERSION = 2
    MaxProtocol = 2
    ListSize = 1
    POSEBanMaxScore = 1
    TipThreads = 1
    MasternodeCheckSeconds = 1
    MasternodeMinMNBSeconds = 1
    MasternodeMinMNPSeconds = 1
    EarlyPingSeconds = 1
    MasternodeExpirationSeconds = 1
    MasternodeNewStartRequiredSeconds = 2
    FutureSeconds = 1
    MN_PING_HEIGHT_OFFSET = 1
    MN_PING_HEIGHT_EXPIRATION = 1
    NoEntry = NoEntry
SPECIFICATION Spec
PROPERTIES ReleasedOnProbation
