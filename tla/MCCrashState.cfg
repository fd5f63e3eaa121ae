SPECIFICATION Spec
CONSTANTS
    t0 = t0
    t1 = t1
    t2 = t2
    t3 = t3
    Tx <- Two
    Account <- Two
    Sender <- OneAccount
    Nonce <- Consecutive
    Stamp <- MCStamp
    Escrow = {t1}
    OldTxs = {t0}
    Invalid = {}
    Faults = {}
    CrashAt = {"headed"}
    MaxCrashes = 1
    MaxHeight = 2
INVARIANTS
    StateMatchesChain
CHECK_DEADLOCK FALSE
