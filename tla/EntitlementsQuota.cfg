SPECIFICATION Spec
CONSTANTS
    Caller = {c1, c2}
    Feature = {"MAX_PLAYERS_IN_ROOM", "BOT_COMMAND"}
    Plan = {"free", "pro"}
    Quota <- TwoPlans
    UserPlan = {"pro", None}
    CallsFail = TRUE
    MaxCount = 2
    MaxMonth = 1
    MaxRequests = 3
    None = None
SYMMETRY CallerSymmetry
INVARIANTS
    TypeOK
    UsageNotOverstated
    DenialIsJust
    ChargeMatchesOperation
