SPECIFICATION Spec
CONSTANTS
    t1 = t1
    t2 = t2
    alice = alice
    Tx <- OneTx
    Account <- OneAccount
    Sender <- MCSender
    Nonce <- MCNonce
    Procs = {g, h}
    Kinds = {"l2", "legacy"}
    Faults = {"persist", "rocks", "reply"}
    PeerLead = 0
    MaxHeight = 1
INVARIANTS
    CacheReachesRocks
PROPERTIES
    CacheHeadNeverShrinks
SYMMETRY ProcSymmetry
CHECK_DEADLOCK FALSE
