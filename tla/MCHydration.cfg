SPECIFICATION Spec
CONSTANTS
    t0 = t0
    t1 = t1
    t2 = t2
    t3 = t3
    Tx <- One
    Account <- One
    Sender <- OneAccount
    Nonce <- Consecutive
    Stamp <- MCStamp
    Escrow = {t1}
    OldTxs = {t0}
    Invalid = {}
    Faults = {"chainfile", "late", "read", "hydrate", "request"}
    CrashAt = {"headed"}
    MaxCrashes = 1
    MaxHeight = 2
INVARIANTS
    HistoryCoversRocks
    NoLeadingTip
CHECK_DEADLOCK FALSE
