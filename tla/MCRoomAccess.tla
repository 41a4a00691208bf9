--------------------------- MODULE MCRoomAccess ---------------------------
(***************************************************************************)
(* Instances of RoomAccess for TLC.  Clients, ids and tickets are model    *)
(* values that differ in name only.                                        *)
(***************************************************************************)
EXTENDS RoomAccess, TLC

IdSymmetry ==
    Permutations(Client) \cup Permutations(Room) \cup Permutations(Pin)
    \cup Permutations(Token) \cup Permutations(Ticket)
===========================================================================
