SPECIFICATION FairSpec
CONSTANTS
    t0 = t0
    t1 = t1
    t2 = t2
    t3 = t3
    Tx <- Two
    Account <- Two
    Sender <- OwnAccounts
    Nonce <- FirstNonce
    Stamp <- MCStamp
    Escrow = {t1}
    OldTxs = {}
    Invalid = {}
    Faults = {"request", "migrate"}
    CrashAt = {"idle", "committed"}
    MaxCrashes = 2
    MaxHeight = 2
INVARIANTS
    AckedDurable
PROPERTIES
    AckedIsCommitted
CHECK_DEADLOCK FALSE
