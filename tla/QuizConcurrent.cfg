SPECIFICATION ServiceSpec
CONSTANTS
    Quiz = {q1}
    User = {ann, bob}
    Content = {c1, c2}
    Request = {r1, r2}
    MaxVersion = 2
    None = None
    Text <- Texts
    Empty = ""
    Long = {"long"}
    Lower <- SmallLetters
    Job = {j1}
    Reply <- Replies
    Bank <- Banks
    Count = {1, 2}
    MaxRetries = 1
CHECK_DEADLOCK FALSE
SYMMETRY ServiceSymmetry
INVARIANTS
    VersionsConsecutive
    AnsweredVersionHolds
    PublishedAsShown
    UnfinishedJobHasWorker
    DoneQuizIsRight
PROPERTY
    FinishedJobStays
