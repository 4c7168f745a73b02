SPECIFICATION Spec
CONSTANTS
    Blocks = {b1, b2, b3, b4}
    Genesis = g
    NoBlock = none
    NoPeer = none
    NoThread = none
    Signed = {}
    Bad = {b4}
    Malformed = {b4}
    Peers = {p1}
    MsgThreads = {m, n}
    Submitters = {s}
    ForkLimit = 1
    ForkLead = 1
    KnownHeaders = {b2, b3}
    MaxLost = 1
    MaxExpired = 1
    g = g
    b1 = b1
    b2 = b2
    b3 = b3
    b4 = b4
    p1 = p1
    p2 = p2
    parent <- ForkParent
    height <- ForkHeight
    chain <- ForkChain
    needs <- ForkNeeds
INVARIANT TypeOK
INVARIANT OneExecutor
INVARIANT ItemsStay
INVARIANT MarkOwned
CHECK_DEADLOCK FALSE
