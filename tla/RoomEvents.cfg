SPECIFICATION FairSpec
CONSTANTS
    v1 = v1
    v2 = v2
    A = A
    Viewer = {v1, v2}
    Room = {A}
    RoomOf <- RoomsTogether
    Buffer = 2
    QueueSize = 1
    Threads = 1
    MaxEvents = 3
CHECK_DEADLOCK FALSE
PROPERTIES
    ImplementsFeed
    BrowserCatchesUp
