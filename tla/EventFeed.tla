----------------------------- MODULE EventFeed -----------------------------
(***************************************************************************)
(* What a viewer of a room is promised: from the moment it subscribes it   *)
(* is shown the events of the room in the order they were published, each  *)
(* at most once.  Events are left out only when Buffer newer ones pushed   *)
(* them out, and the viewer is told how many before it is shown the next.  *)
(***************************************************************************)
EXTENDS Naturals

CONSTANTS Viewer, Room, RoomOf, Buffer

VARIABLES
    log,  \* events published in each room
    from, \* the first event after the viewer subscribed, or 0
    seen, \* events the viewer was shown or told it missed
    last  \* the event last shown to the viewer, or 0

vars == <<log, from, seen, last>>

Init ==
    /\ log = [r \in Room |-> 0]
    /\ from = [v \in Viewer |-> 0]
    /\ seen = [v \in Viewer |-> 0]
    /\ last = [v \in Viewer |-> 0]

Publish(r) ==
    /\ log' = [log EXCEPT ![r] = @ + 1]
    /\ UNCHANGED <<from, seen, last>>

Subscribe(v) ==
    /\ from[v] = 0
    /\ from' = [from EXCEPT ![v] = log[RoomOf[v]] + 1]
    /\ UNCHANGED <<log, seen, last>>

\* The event the viewer waits for
Due(v) == from[v] + seen[v]

Show(v) ==
    /\ from[v] # 0 /\ Due(v) <= log[RoomOf[v]]
    /\ last' = [last EXCEPT ![v] = Due(v)]
    /\ seen' = [seen EXCEPT ![v] = @ + 1]
    /\ UNCHANGED <<log, from>>

Announce(v) ==
    /\ from[v] # 0
    /\ \E n \in 1 .. log[RoomOf[v]] :
        /\ Due(v) + n - 1 + Buffer <= log[RoomOf[v]]
        /\ seen' = [seen EXCEPT ![v] = @ + n]
    /\ UNCHANGED <<log, from, last>>

Next ==
    \/ \E r \in Room : Publish(r)
    \/ \E v \in Viewer : Subscribe(v) \/ Show(v) \/ Announce(v)
Spec == Init /\ [][Next]_vars
============================================================================
