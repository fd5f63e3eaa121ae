SPECIFICATION Spec
CONSTANTS
    v1 = v1
    v2 = v2
    v3 = v3
    v4 = v4
    v5 = v5
    w = w
    Volunteers <- MCVolunteers
    Pools <- MCPools
    Exclusions <- MCExclusions
    Escrows = {e1}
    Verdicts = {yes, no}
    None = none
    TopHeight = 1
    FlushMayFail = FALSE
    Addresses = {"a1"}
    Requests = {r1, r2}
    Cooldown = 3
    MaxClock = 4
    MaxCredits = 3
    CreditUnsure = TRUE
INVARIANTS
    StoresTypeOK
    
    AckedCreditsSpaced

    
SYMMETRY SeatSymmetry
CHECK_DEADLOCK FALSE
