SPECIFICATION FairSpec
CONSTANTS
    u1 = u1
    u2 = u2
    b1 = b1
    Update = {u1}
    Bot = {b1}
    BotOf <- OneBot
    Runner = {ra, rb}
    MaxAttempts = 2
    GlobalLimit = 2
    PerBotLimit = 1
    Batch = 2
    Faults = TRUE
    MaxSends = 2
    None = None
CHECK_DEADLOCK FALSE
INVARIANTS
    TypeOK
    OneHandlerAtATime
    HandledOnce
    DeadMeansTried
    NothingForgotten
PROPERTIES
    AcceptedIsSettled
