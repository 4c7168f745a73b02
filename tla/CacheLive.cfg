SPECIFICATION FairSpec
CONSTANTS
    Blocks = {b1, b2, b3, b4}
    Genesis = g
    NoBlock = none
    NoPeer = none
    NoThread = none
    Signed = {b3}
    Bad = {b4}
    Malformed = {}
    Peers = {p1}
    MsgThreads = {m}
    Submitters = {}
    ForkLimit = 1
    ForkLead = 1
    KnownHeaders = {b1, b2, b3, b4}
    MaxLost = 0
    MaxExpired = 1
    g = g
    b1 = b1
    b2 = b2
    b3 = b3
    b4 = b4
    p1 = p1
    p2 = p2
    parent <- LineParent
    height <- LineHeight
    chain <- LineChain
    needs <- LineNeeds
INVARIANT RejectedForCause
INVARIANT ChainTxComplete
PROPERTY EventuallyConnected
CHECK_DEADLOCK FALSE
