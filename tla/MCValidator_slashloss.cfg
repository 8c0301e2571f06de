CONSTANTS
    a1 = a1
    a2 = a2
    b1 = b1
    b2 = b2
    r = r
    g = g
    Blocks <- MCBlocks
    Genesis = g
    Parent <- MCParent
    FailingStages <- MCAllStages
    p = p
    none = none
    Addrs = {p}
    NoSlash = none
    Beneficiary <- MCBeneficiary
    SlashedIn <- MCSlashedIn
    Forged = {}
    t1 = t1
    t2 = t2
    Txs = {t1, t2}
    TxsOf <- MCTxsOf
    AggMembersOf <- MCAggMembersOf
SPECIFICATION Spec
INVARIANT SlashingProofKept
