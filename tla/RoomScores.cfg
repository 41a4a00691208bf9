SPECIFICATION Spec
CONSTANTS
    User = {owner, guest}
    Owner = owner
    Player = {p1, p2, p3}
    QuestionId = {"q1", "q2"}
    Banks <- TwoQuestions
    RoundTicks = 1
    ClockSteps = {1, 2}
    MaxScore = 200
    MaxStarts = 2
    MaxPauses = 0
    None = None
SYMMETRY PlayerSymmetry
INVARIANTS
    RunningRoundIsTimed
    TeamScoreIsSum
    OneScorePerTurn
    AnsweredRoundWaitsForDeparted
PROPERTIES
    ClosedIsFinal
    AnswerClosesForAll
