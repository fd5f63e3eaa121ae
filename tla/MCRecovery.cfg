SPECIFICATION Spec
CONSTANTS
    t0 = t0
    t1 = t1
    t2 = t2
    t3 = t3
    Tx <- Two
    Account <- Two
    Sender <- OneAccount
    Nonce <- Consecutive
    Stamp <- MCStamp
    Escrow = {t1, t2}
    OldTxs = {t0}
    Invalid = {t2}
    Faults = {"apply", "rocks", "persist", "pool", "late", "request", "age"}
    CrashAt = {"idle", "applied", "staged", "headed", "committed"}
    MaxCrashes = 2
    MaxHeight = 2
INVARIANTS
    TypeOK
    NoCanonicalTxQueued
    NoLeadingTip
    NextNumberIsNextHeight
    EscrowRowsRecover
CHECK_DEADLOCK FALSE
