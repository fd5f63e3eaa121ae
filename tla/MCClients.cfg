SPECIFICATION Spec
CONSTANTS
    c1 = c1
    c2 = c2
    m1 = m1
    m2 = m2
    Wallets = {w1, w2}
    Peer = peer
    MaxNonce = 1
    PeerNonces = {1}
    ReserveAhead = 1
    Escrowing = {w2}
    MayBeInvalid = {peer}
    Sockets = {c1, c2}
    Addrs = {"x", "y"}
    Msgs = {m1, m2}
    DeviceOf <- MCDeviceOf
    To <- MCTo
    BufferMax = 1
    Ids = {"q1", "q2", "q3"}
    Users = {"s", "r1", "r2", "r3"}
    Sender <- MCSender
    Receiver <- MCReceiver
    LockTx <- MCLockTx
    Settling = {"q1"}
    Late = {"q1"}
    BasePendingLimit = 1
    InitialXP = 0
    MaxCreators = 2
    MaxFailures = 1
INVARIANTS
    ClientsTypeOK
    HandedOutOnce
    
    AddrIndexSound
    AcceptedAccountedFor
    PendingExcessBounded
    AnsweredStays
SYMMETRY SocketSymmetry
CHECK_DEADLOCK FALSE
