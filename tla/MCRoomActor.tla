--------------------------- MODULE MCRoomActor ---------------------------
(***************************************************************************)
(* Small instances of RoomActor for TLC.  Players are interchangeable.     *)
(***************************************************************************)
EXTENDS RoomActor, TLC

\* Two questions with ids of their own.
TwoQuestions == {<<"q1", "q2">>}
\* Two questions that share an id, and a single one: what the id check of
\* RoundTimeout cannot tell apart.
SharedIds == {<<"q1", "q1">>, <<"q2">>}

PlayerSymmetry == Permutations(Player)
===========================================================================
