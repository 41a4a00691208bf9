SPECIFICATION Spec
CONSTANTS
    Caller = {c1}
    Feature = {"CREATE_ROOM"}
    Plan = {"free"}
    Quota <- TwoPlans
    UserPlan = {"free"}
    CallsFail = FALSE
    MaxCount = 3
    MaxMonth = 0
    MaxRequests = 3
    None = None
INVARIANTS
    CheckFollowsCounters
