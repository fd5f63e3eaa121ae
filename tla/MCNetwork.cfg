SPECIFICATION Spec
CONSTANTS
    n1 = n1
    n2 = n2
    t1 = t1
    Nodes <- TwoNodes
    Runners <- TwoNodes
    Txs <- OneTx
    Selections <- OneSelection
    MaxRuns = 2
    Doubters = {n2}
    Serial = TRUE
    CoreSizes = {0, 2}
    CoreMayFail = TRUE
    AllowDegraded = TRUE
    Testnet = FALSE
    FeeNodes <- TwoNodes
    Weight <- MCWeight
    BlockFees = {45}
    VoterSets <- MCVoterSets
    LoadPcts = {90}
    MaxBlocks = 2
    MaxRestarts = 1
    MaxRefusals = 1
    MaxCalls = 2
    MaxNoise = 1
    Gateways = {g1, g2}
    MaxCores = 3
    StartFaults = {}
    Members = {"a", "b"}
    Dials <- BothDial
    Links = {"l1", "l2", "l3", "l4", "l5", "l6"}
    MaxLosses = 1
    PongWindow = 1
    PingFailuresAllowed = 0
    Sides = {"p", "f"}
    Confirmers = {"p"}
    Dialling = {"f"}
    MaxChain = 2
    MaxConns = 2
    MaxFaults = 1
INVARIANTS
    NetworkTypeOK
    OnlyRivalsSlashed
    FeesConserved
    WalletMatchesEarnings
    MutateOnce
    AnswerIsOwn
    OneCore
    
PROPERTIES
    RoundEnds
    CallReturns
    
    
CHECK_DEADLOCK FALSE
