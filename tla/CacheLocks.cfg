SPECIFICATION Spec
CONSTANTS
    Blocks = {b1, b2, b3, b4}
    Genesis = g
    NoBlock = none
    NoPeer = none
    NoThread = none
    Signed = {}
    Bad = {}
    Malformed = {}
    Peers = {p1, p2}
    MsgThreads = {m}
    Submitters = {s}
    ForkLimit = 1
    ForkLead = 1
    KnownHeaders = {b2, b3, b4}
    MaxLost = 0
    MaxExpired = 0
    g = g
    b1 = b1
    b2 = b2
    b3 = b3
    b4 = b4
    p1 = p1
    p2 = p2
    parent <- ForkParent
    height <- ForkHeight
    chain <- ForkChain
    needs <- ForkNeeds
INVARIANT NoLockCycle
CHECK_DEADLOCK FALSE
