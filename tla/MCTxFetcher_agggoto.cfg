CONSTANTS
    h1 = h1
    h2 = h2
    h3 = h3
    m1 = m1
    n1 = n1
    n2 = n2
    Wrong = Wrong
    Nil = Nil
    Fetchers = {"funds", "agg"}
    ReturnsOnTimeout = {"funds", "agg"}
    TxsOf <- MCAggTxsOf
    Members <- MCMembers
    Nested <- MCNested
    Byzantine = {"agg"}
    ChanCap = 1
SPECIFICATION FairSpec
INVARIANT AcceptedBlockComplete
CHECK_DEADLOCK FALSE
