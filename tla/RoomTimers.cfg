SPECIFICATION FairSpec
CONSTANTS
    User = {owner, guest}
    Owner = owner
    Player = {p1}
    QuestionId = {"q1", "q2"}
    Banks <- SharedIds
    RoundTicks = 2
    ClockSteps = {1}
    MaxScore = 100
    MaxStarts = 2
    MaxPauses = 2
    None = None
INVARIANTS
    TypeOK
    TimeoutDueByDeadline
PROPERTIES
    StaleTimeoutHarmless
    PauseFreezesGame
    RunningGameEnds
    ImplementsFairLifecycle
