SPECIFICATION Spec
CONSTANTS
    t1 = t1
    t2 = t2
    alice = alice
    Tx <- TwoTxs
    Account <- OneAccount
    Sender <- MCSender
    Nonce <- MCNonce
    Procs = {w}
    Kinds = {"auto", "l2", "peer"}
    Faults = {"snapshot", "apply", "persist", "header", "rocks"}
    PeerLead = 0
    MaxHeight = 1
INVARIANTS
    NextNumberIsNextHeight
CHECK_DEADLOCK FALSE
