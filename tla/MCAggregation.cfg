CONSTANTS
    a1 = a1
    a2 = a2
    a3 = a3
    t1 = t1
    t2 = t2
    t3 = t3
    t4 = t4
    t5 = t5
    ZeroAddr = ZeroAddr
    Addrs = {a1, a2, a3}
    Txs = {t1, t2, t3, t4, t5}
    From <- MCFrom
    To <- MCTo
    TallyMod = 16
SPECIFICATION FairSpec
INVARIANT TypeOK
INVARIANT BlockHoldsStoreOnce
INVARIANT AggTxNamesItsParties
PROPERTY AggregationTerminates
