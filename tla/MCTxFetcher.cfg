CONSTANTS
    h1 = h1
    h2 = h2
    h3 = h3
    m1 = m1
    n1 = n1
    n2 = n2
    Wrong = Wrong
    Nil = Nil
    Fetchers = {"acc", "funds"}
    ReturnsOnTimeout = {"funds"}
    TxsOf <- MCTxsOf
    Members <- MCNoMembers
    Nested = {}
    Byzantine = {"acc", "funds"}
    ChanCap = 1
SPECIFICATION FairSpec
INVARIANT TypeOK
INVARIANT AcceptedBlockComplete
PROPERTY PreValidateReturns
CHECK_DEADLOCK FALSE
