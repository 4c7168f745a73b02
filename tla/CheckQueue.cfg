CONSTANTS
    c1 = c1
    c2 = c2
    c3 = c3
    c4 = c4
    Checks = {c1, c2, c3, c4}
    Bad = {c4}
    Txs <- MCTxs
    Workers = {w1, w2}
    Masters = {m1}
    Main = Main
    Nobody = Nobody
    BatchSize = 2
SPECIFICATION FairSpec
INVARIANTS
    TypeOK
    CountersExact
    NoLostWakeup
PROPERTIES
    ImplementsVerdict
    WaitReturns
CHECK_DEADLOCK FALSE
