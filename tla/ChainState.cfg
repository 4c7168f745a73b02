SPECIFICATION Spec
CONSTANTS
    A = A
    B = B
    D = D
    R = R
    S = S
    T = T
    U = U
    V = V
    g = g
    b1 = b1
    b2 = b2
    b3 = b3
    c2 = c2
    c3 = c3
    w2 = w2
    x3 = x3
    y3 = y3
    z3 = z3
    r0 = r0
    r1 = r1
    r2 = r2
    n1 = n1
    n2 = n2
    Absent = Absent
    Txids = {A, B, D, R, S, T, U, V}
    Outs = {1, 2}
    Nullifiers = {n1, n2}
    Roots = {r0, r1, r2}
    EmptyRoot = r0
    Blocks = {g, b1, b2, b3, c2, c3, w2, x3, y3, z3}
    Genesis = g
    parent <- MCparent
    height <- MCheight
    vtx <- MCvtx
    rootOf <- MCrootOf
INVARIANTS
    TypeOK
    AssertionsHold
    DiskConsistent
    TipFollowsChain
    Reversible
    ChainAcceptable
PROPERTY ImplementsLedger
