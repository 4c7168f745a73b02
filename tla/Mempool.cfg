SPECIFICATION Spec
CONSTANTS
    A = A
    D = D
    E = E
    K = K
    P = P
    Q = Q
    R = R
    S = S
    T = T
    W = W
    X = X
    Y = Y
    g = g
    b1 = b1
    b2 = b2
    b3 = b3
    c2 = c2
    c3 = c3
    r0 = r0
    r1 = r1
    r2 = r2
    n1 = n1
    n2 = n2
    p1 = p1
    p2 = p2
    Absent = Absent
    Txids = {A, D, E, K, P, Q, R, S, T, W, X, Y}
    Outs = {1, 2}
    Nullifiers = {n1, n2}
    Roots = {r0, r1, r2}
    EmptyRoot = r0
    Blocks = {g, b1, b2, b3, c2, c3}
    Genesis = g
    parent <- MCparent
    height <- MCheight
    vtx <- MCvtx
    rootOf <- MCrootOf
    tx <- MCtx
    lockTime <- MClockTime
    expiry <- MCexpiry
    signedFor <- MCsignedFor
    Tickets = {Y}
    Peers = {p1, p2}
    MaxOrphans = 2
    Activation = 4
    COINBASE_MATURITY = 2
    TX_EXPIRING_SOON_THRESHOLD = 1
INVARIANTS
    TypeOK
    MapsInStep
    PoolChecks
    MayBeMined
    NoOrphanOverlooked
PROPERTIES
    NoneDroppedNeedlessly
    LockReleased
