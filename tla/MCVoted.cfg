SPECIFICATION RoundsSpec
CONSTANTS
    a = a
    b = b
    t1 = t1
    t2 = t2
    Nodes <- AB
    Runners <- AB
    Txs <- TwoTxs
    Selections <- OneByOne
    MaxRuns = 3
    Doubters = {}
    Serial = TRUE
    CoreSizes = {2}
    CoreMayFail = FALSE
    AllowDegraded = FALSE
    Testnet = FALSE
INVARIANT ConfirmedWasVoted
CHECK_DEADLOCK FALSE
