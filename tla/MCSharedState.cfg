SPECIFICATION Spec
CONSTANTS
    t1 = t1
    t2 = t2
    alice = alice
    Tx <- TwoTxs
    Account <- OneAccount
    Sender <- MCSender
    Nonce <- MCNonce
    Procs = {g, h}
    Kinds = {"l2", "peer"}
    Faults = {}
    PeerLead = 0
    MaxHeight = 1
INVARIANTS
    CommittedStatePaired
CHECK_DEADLOCK FALSE
