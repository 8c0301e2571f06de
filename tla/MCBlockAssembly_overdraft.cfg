CONSTANTS
    a = a
    b = b
    r = r
    n = n
    Accounts = {a, b, r, n}
    InitAccounts = {a, b, r}
    RootAccounts = {r}
    Contracts = {b}
    Word = 8
    MaxMoney = 3
    FeeMinimum = 1
    StakingMinimum = 1
    InitBalance <- MCInitBalance
    Amounts = {1, 3}
    Fees = {1, 7}
    TxCnts = {0}
    Kinds = {"acc", "funds", "config", "stake", "iot"}
    MaxBlockTxs = 3
SPECIFICATION Spec
INVARIANT NoOverdraft
CHECK_DEADLOCK FALSE
