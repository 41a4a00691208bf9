-------------------------- MODULE GameLifecycle --------------------------
(***************************************************************************)
(* What a room promises its players about the course of a game, without    *)
(* timers, scores and membership: the questions of a game are asked one by *)
(* one, in order, none skipped and none asked twice, the teams taking      *)
(* turns; a game ends after its last question; and a running game that is  *)
(* left alone goes on.  A closed room stays closed.                        *)
(***************************************************************************)
EXTENDS Naturals

VARIABLES
    phase,  \* "Lobby", "InProgress", "Paused", "Finished" or "Closed"
    asked,  \* how many questions of this game have been asked
    total,  \* how many questions this game has
    turn    \* the team that answers

lifecycleVars == <<phase, asked, total, turn>>

Init ==
    /\ phase = "Lobby"
    /\ asked = 0
    /\ total = 0
    /\ turn = "A"

\* A game starts, or starts over, in any room that is not closed.
Begin ==
    /\ phase # "Closed"
    /\ phase' = "InProgress"
    /\ asked' = 1
    /\ total' \in Nat \ {0}
    /\ turn' = "A"

Advance ==
    /\ phase = "InProgress"
    /\ asked < total
    /\ asked' = asked + 1
    /\ turn' = IF turn = "A" THEN "B" ELSE "A"
    /\ UNCHANGED <<phase, total>>

End ==
    /\ phase = "InProgress"
    /\ asked = total
    /\ phase' = "Finished"
    /\ UNCHANGED <<asked, total, turn>>

Suspend ==
    /\ phase = "InProgress"
    /\ phase' = "Paused"
    /\ UNCHANGED <<asked, total, turn>>

Continue ==
    /\ phase = "Paused"
    /\ phase' = "InProgress"
    /\ UNCHANGED <<asked, total, turn>>

Close ==
    /\ phase = "Lobby"
    /\ phase' = "Closed"
    /\ UNCHANGED <<asked, total, turn>>

Next == Begin \/ Advance \/ End \/ Suspend \/ Continue \/ Close

Spec == Init /\ [][Next]_lifecycleVars

\* A game that keeps running moves on.
FairSpec == Spec /\ WF_lifecycleVars(Advance \/ End)
===========================================================================
