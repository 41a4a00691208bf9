SPECIFICATION Spec
CONSTANTS
    Client = {c1, c2}
    Room = {r1, r2}
    Pin = {p1, p2}
    Token = {t1, t2, t3}
    Ticket = {k1}
    MaxRetries = 1
    RepliesLost = TRUE
    CommandsLate = TRUE
    KeysExpire = FALSE
    Operations = {"create", "regenerate"}
    MaxRequests = 3
    None = None
SYMMETRY IdSymmetry
INVARIANTS
    TypeOK
    PinOpensItsRoom
    RoomTokenOpens
    RevokedStaysRevoked
    OneInvite
