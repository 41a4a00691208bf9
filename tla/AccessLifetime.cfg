SPECIFICATION Spec
CONSTANTS
    Client = {c1}
    Room = {r1}
    Pin = {p1}
    Token = {t1}
    Ticket = {k1}
    MaxRetries = 0
    RepliesLost = FALSE
    CommandsLate = FALSE
    KeysExpire = TRUE
    Operations = {"create"}
    MaxRequests = 1
    None = None
SYMMETRY IdSymmetry
INVARIANTS
    PinOpensItsRoom
