SPECIFICATION Spec
CONSTANTS
    Client = {c1, c2}
    Room = {r1}
    Pin = {p1}
    Token = {t1}
    Ticket = {k1}
    MaxRetries = 1
    RepliesLost = TRUE
    CommandsLate = TRUE
    KeysExpire = TRUE
    Operations = {"create", "issue", "join"}
    MaxRequests = 5
    None = None
SYMMETRY IdSymmetry
INVARIANTS
    TicketAdmitsOnce
    OldTicketStaysOut
