---------------------------- MODULE MCRoomEvents ----------------------------
(* Instances of RoomEvents for TLC. *)
EXTENDS RoomEvents, TLC

CONSTANTS v1, v2, A

\* Both websockets show the same room
RoomsTogether == v1 :> A @@ v2 :> A
=============================================================================
