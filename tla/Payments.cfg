CONSTANTS
    me = me
    mn = mn
    A = A
    B = B
    Masternodes = {me, mn}
    Self = me
    Payees = {A, B}
    NoPayee = NoPayee
    MaxTip = 1
    Ballots <- FewBallots
    StorageLimit = 0
    FutureWindow = 1
    WinnerDelta = 1
    VotersDelta = 1
    SignaturesRequired = 1
    FewVoteCheck = TRUE
    NoVote = NoVote
    NoHeight = NoHeight
    MaxDumps = 1
    MaxRestarts = 1
SPECIFICATION Spec
INVARIANTS TypeOK CountedVerified CountedOnce TemplateStaysValid
