------------------------- MODULE RoomActorProofs -------------------------
(***************************************************************************)
(* Proofs about the room actor for every set of players, every question    *)
(* bank, every round length and every bound on the commands.               *)
(***************************************************************************)
EXTENDS RoomActor, FiniteSetTheorems, WellFoundedInduction, TLAPS

---------------------------------------------------------------------------
(* Operators.                                                              *)

LEMMA RemainingTimeType ==
    ASSUME NEW r \in Round
    PROVE  RemainingTime(r) \in Remaining
  BY TimeAssumption DEF RemainingTime, NotNegative, Remaining, Round

LEMMA SaturatingAddType ==
    ASSUME NEW a \in 0 .. MaxScore, NEW b \in Nat
    PROVE  SaturatingAdd(a, b) \in 0 .. MaxScore
  BY ScoreAssumption DEF SaturatingAdd

LEMMA EventType ==
    ASSUME NEW kind \in EventKind, NEW about \in Player \cup QuestionId \cup {None}
    PROVE  Event(kind, about) \in RoomEvent
  BY DEF Event, RoomEvent

LEMMA NewRoundType ==
    ASSUME NEW b \in Seq(QuestionId), NEW i \in Nat, i < Len(b), NEW t \in Team
    PROVE  NewRound(b, i, t) \in Round
<1>1. b[i + 1] \in QuestionId
  OBVIOUS
<1>2. RoundTicks \in -1 .. RoundTicks
  BY TimeAssumption
<1>. QED
  BY <1>1, <1>2 DEF NewRound, Round

\* What the lifecycle-independent parts of closing a round may write.
ProgressType ==
    /\ lifecycle' \in LifecycleState
    /\ round' \in Round
    /\ result' \in Result \cup {None}
    /\ pausedRemaining' = None
    /\ armed' \in Timer
    /\ turns' \in [Team -> Nat]
    /\ emitted' \in Seq(RoomEvent)

LEMMA ProgressIsTyped ==
    ASSUME TypeOK,
           NEW r \in Round,
           NEW sc \in [Player -> 0 .. MaxScore],
           NEW ts \in [Team -> 0 .. MaxScore],
           NEW evs \in Seq(RoomEvent),
           CloseRoundAndProgress(r, sc, ts, evs)
    PROVE  ProgressType
<1>1. CASE /\ r.index + 1 >= Len(bank)
           /\ FinishGame(sc, ts)
           /\ round' = r
           /\ UNCHANGED turns
           /\ emitted' = evs \o <<Event("RoundEnded", r.qid), Event("GameEnded", None)>>
  <2>1. round' \in Round /\ turns' \in [Team -> Nat]
    BY <1>1 DEF TypeOK
  <2>2. result' \in Result
    <3>1. PICK t \in Best(Team, ts),
               w \in IF players = {} THEN {None} ELSE Best(players, sc) :
             result' = [winner     |-> w,
                        winnerTeam |-> t,
                        scores     |-> [p \in players |-> sc[p]],
                        teamScores |-> ts]
      BY <1>1 DEF FinishGame
    <3>2. t \in Team /\ w \in Player \cup {None}
      BY DEF Best, TypeOK
    <3>3. [p \in players |-> sc[p]] \in UNION {[ps -> 0 .. MaxScore] : ps \in SUBSET Player}
      <4>1. [p \in players |-> sc[p]] \in [players -> 0 .. MaxScore]
        BY DEF TypeOK
      <4>. QED
        BY <4>1 DEF TypeOK
    <3>. QED
      BY <3>1, <3>2, <3>3 DEF Result
  <2>3. armed' \in Timer
    BY <1>1, RemainingTimeType DEF CloseRoundAndProgress, Spawn, Timer, Round
  <2>4. emitted' \in Seq(RoomEvent)
    <3>1. Event("RoundEnded", r.qid) \in RoomEvent /\ Event("GameEnded", None) \in RoomEvent
      BY EventType DEF EventKind, Round
    <3>. QED
      BY <1>1, <3>1
  <2>. QED
    BY <1>1, <2>1, <2>2, <2>3, <2>4 DEF CloseRoundAndProgress, ProgressType, FinishGame,
       ForgetPause, LifecycleState
<1>2. CASE /\ r.index + 1 < Len(bank)
           /\ StartRound(bank, r.index + 1, OtherTeam(r.team))
           /\ UNCHANGED <<lifecycle, result>>
           /\ emitted' = evs \o <<Event("RoundEnded", r.qid),
                                  Event("QuestionStarted", bank[r.index + 2])>>
  <2>1. r.index + 1 \in Nat /\ OtherTeam(r.team) \in Team
    BY DEF Round, OtherTeam, Team
  <2>2. round' \in Round
    BY <1>2, <2>1, NewRoundType DEF StartRound, TypeOK
  <2>3. turns' \in [Team -> Nat]
    BY <1>2, <2>1 DEF StartRound, TypeOK
  <2>4. armed' \in Timer
    BY <2>2, RemainingTimeType DEF CloseRoundAndProgress, Spawn, Timer, Round
  <2>5. emitted' \in Seq(RoomEvent)
    <3>1. bank[r.index + 2] \in QuestionId
      <4>1. r.index \in Nat /\ Len(bank) \in Nat /\ r.index + 1 < Len(bank)
        BY <1>2 DEF TypeOK, Round
      <4>2. r.index + 2 \in 1 .. Len(bank)
        BY <4>1
      <4>. QED
        BY <4>2 DEF TypeOK
    <3>2. /\ Event("RoundEnded", r.qid) \in RoomEvent
          /\ Event("QuestionStarted", bank[r.index + 2]) \in RoomEvent
      BY <3>1, EventType DEF EventKind, Round
    <3>. QED
      BY <1>2, <3>2
  <2>. QED
    BY <1>2, <2>2, <2>3, <2>4, <2>5 DEF CloseRoundAndProgress, ProgressType, ForgetPause, TypeOK
<1>. QED
  BY <1>1, <1>2 DEF CloseRoundAndProgress

---------------------------------------------------------------------------
(* Types.                                                                  *)

LEMMA InitTyped == Init => TypeOK
<1>. SUFFICES ASSUME Init PROVE TypeOK
  OBVIOUS
<1>1. 0 \in 0 .. MaxScore
  BY ScoreAssumption
<1>2. /\ teamOf \in [Player -> Team \cup {None}]
      /\ score \in [Player -> 0 .. MaxScore]
      /\ teamScore \in [Team -> 0 .. MaxScore]
      /\ detached \in [QuestionId \X Remaining -> Nat]
      /\ turns \in [Team -> Nat]
  BY <1>1 DEF Init
<1>. QED
  BY <1>2 DEF Init, TypeOK, LifecycleState

\* Every action keeps the types: the membership and scores in the handlers
\* of players, the timers in those of the owner.
LEMMA NextTyped == TypeOK /\ [Next]_vars => TypeOK'
<1>. SUFFICES ASSUME TypeOK, [Next]_vars PROVE TypeOK'
  OBVIOUS
<1>. USE DEF LifecycleState
<1>1. ASSUME NEW p \in Player, Join(p) PROVE TypeOK'
  <2>1. teamOf' \in [Player -> Team \cup {None}]
    BY <1>1 DEF Join, PickTeam, Team, TypeOK
  <2>2. Event("PlayerJoined", p) \in RoomEvent /\ Event("TeamsAssigned", p) \in RoomEvent
    BY EventType DEF EventKind
  <2>3. emitted' \in Seq(RoomEvent)
    BY <1>1, <2>2 DEF Join
  <2>. QED
    BY <1>1, <2>1, <2>3 DEF Join, TypeOK, scores, timers, budget
<1>2. ASSUME NEW p \in Player, Leave(p) PROVE TypeOK'
  <2>1. Event("PlayerLeft", p) \in RoomEvent /\ Event("RoomClosed", None) \in RoomEvent
    BY EventType DEF EventKind
  <2>2. emitted' \in Seq(RoomEvent)
    <3>1. \/ emitted' = <<Event("PlayerLeft", p), Event("RoomClosed", None)>>
          \/ emitted' = <<Event("PlayerLeft", p)>>
      BY <1>2 DEF Leave
    <3>2. <<Event("PlayerLeft", p), Event("RoomClosed", None)>> \in Seq(RoomEvent)
      BY <2>1
    <3>3. <<Event("PlayerLeft", p)>> \in Seq(RoomEvent)
      BY <2>1
    <3>. QED
      BY <3>1, <3>2, <3>3
  <2>. QED
    BY <1>2, <2>2 DEF Leave, TypeOK, scores, timers, budget
<1>3. ASSUME NEW u \in User, NEW p \in Player, KickPlayer(u, p) PROVE TypeOK'
  <2>1. Event("PlayerLeft", p) \in RoomEvent
    BY EventType DEF EventKind
  <2>2. emitted' \in Seq(RoomEvent)
    BY <1>3, <2>1 DEF KickPlayer
  <2>. QED
    BY <1>3, <2>2 DEF KickPlayer, TypeOK, scores, timers, budget
<1>4. ASSUME NEW u \in User, NEW b \in Banks, StartGame(u, b) PROVE TypeOK'
  <2>1. b \in Seq(QuestionId) /\ 0 < Len(b) /\ b[1] \in QuestionId
    BY <1>4, QuizAssumption DEF StartGame
  <2>2. round' \in Round /\ turns' \in [Team -> Nat]
    BY <1>4, <2>1, NewRoundType DEF StartGame, StartRound, Team, TypeOK
  <2>3. armed' \in Timer
    BY <1>4, <2>1, TimeAssumption DEF StartGame, Spawn, Timer, Remaining
  <2>4. Event("GameStarted", None) \in RoomEvent /\ Event("QuestionStarted", b[1]) \in RoomEvent
    BY <2>1, EventType DEF EventKind
  <2>5. emitted' \in Seq(RoomEvent)
    BY <1>4, <2>4 DEF StartGame
  <2>. QED
    BY <1>4, <2>1, <2>2, <2>3, <2>5
    DEF StartGame, TypeOK, membership, scores, ClearResult, ForgetPause
<1>5. ASSUME NEW u \in User, PauseGame(u) PROVE TypeOK'
  <2>1. pausedRemaining' \in Remaining \cup {None}
    BY <1>5, RemainingTimeType DEF PauseGame, TypeOK
  <2>. QED
    BY <1>5, <2>1 DEF PauseGame, CancelTimer, TypeOK, membership, scores
<1>6. ASSUME NEW u \in User, ResumeGame(u) PROVE TypeOK'
  <2>1. CASE round = None
    BY <1>6, <2>1 DEF ResumeGame, TypeOK, membership, scores, budget
  <2>2. CASE round # None
    <3>. DEFINE left == IF pausedRemaining = None THEN RemainingTime(round)
                        ELSE pausedRemaining
    <3>1. left \in Remaining
      BY <2>2, RemainingTimeType DEF TypeOK
    <3>2. /\ round' = [round EXCEPT !.endsIn = left]
          /\ armed' = [qid |-> round.qid, left |-> left]
          /\ pausedRemaining' = None
      BY <1>6, <2>2 DEF ResumeGame, Spawn, ForgetPause
    <3>. HIDE DEF left
    <3>3. round' \in Round
      <4>1. left \in -1 .. RoundTicks
        BY <3>1, TimeAssumption DEF Remaining
      <4>2. round \in Round
        BY <2>2 DEF TypeOK
      <4>. QED
        BY <3>2, <4>1, <4>2 DEF Round
    <3>4. armed' \in Timer
      BY <2>2, <3>1, <3>2 DEF TypeOK, Round, Timer
    <3>. QED
      BY <1>6, <3>2, <3>3, <3>4 DEF ResumeGame, TypeOK, membership, scores, budget
  <2>. QED
    BY <2>1, <2>2
<1>7. ASSUME NEW u \in User, NextQuestion(u) PROVE TypeOK'
  <2>1. ProgressType
    <3>1. /\ round \in Round
          /\ score \in [Player -> 0 .. MaxScore]
          /\ teamScore \in [Team -> 0 .. MaxScore]
          /\ <<>> \in Seq(RoomEvent)
          /\ CloseRoundAndProgress(round, score, teamScore, <<>>)
      BY <1>7 DEF NextQuestion, TypeOK
    <3>. QED
      BY <3>1, ProgressIsTyped
  <2>. QED
    BY <1>7, <2>1 DEF NextQuestion, ProgressType, TypeOK, membership, scores, budget
<1>8. ASSUME RoundTimeout PROVE TypeOK'
  <2>1. mailbox' \in Seq(QuestionId)
    BY <1>8 DEF RoundTimeout, TypeOK
  <2>2. detached' \in [QuestionId \X Remaining -> Nat]
    BY <1>8 DEF RoundTimeout, DropHandle, TypeOK, Timer
  <2>3. /\ UNCHANGED <<membership, scores, bank, budget>>
        /\ TypeOK
    BY <1>8 DEF RoundTimeout
  <2>4. CASE TimeoutIgnored
    BY <2>1, <2>2, <2>3, <2>4 DEF TimeoutIgnored, TypeOK, membership, scores, budget
  <2>5. CASE TimeoutEarly
    <3>1. armed' \in Timer
      BY <2>5, RemainingTimeType DEF TimeoutEarly, Spawn, TypeOK, Timer, Round
    <3>. QED
      BY <2>1, <2>2, <2>3, <2>5, <3>1 DEF TimeoutEarly, TypeOK, membership, scores, budget
  <2>6. CASE TimeoutExpired
    <3>1. ProgressType
      <4>1. /\ round \in Round
            /\ score \in [Player -> 0 .. MaxScore]
            /\ teamScore \in [Team -> 0 .. MaxScore]
            /\ <<>> \in Seq(RoomEvent)
            /\ CloseRoundAndProgress(round, score, teamScore, <<>>)
        BY <2>6 DEF TimeoutExpired, TypeOK
      <4>. QED
        BY <4>1, ProgressIsTyped
    <3>. QED
      BY <2>1, <2>2, <2>3, <3>1 DEF ProgressType, TypeOK, membership, scores, budget
  <2>. QED
    BY <1>8, <2>4, <2>5, <2>6 DEF RoundTimeout
<1>9. ASSUME NEW p \in Player, NEW q \in QuestionId, NEW correct \in BOOLEAN,
             SubmitAnswer(p, q, correct)
      PROVE  TypeOK'
  <2>. DEFINE delta == IF correct THEN ScoreDelta ELSE 0
              answered == [round EXCEPT !.locked = @ \cup {p}]
              evs == <<Event("AnswerLocked", p), Event("ScoreUpdated", p)>>
  <2>1. delta \in Nat
    BY DEF ScoreDelta
  <2>2. answered \in Round
    BY <1>9 DEF SubmitAnswer, TypeOK, Round
  <2>3. evs \in Seq(RoomEvent)
    <3>1. Event("AnswerLocked", p) \in RoomEvent /\ Event("ScoreUpdated", p) \in RoomEvent
      BY EventType DEF EventKind
    <3>. QED
      BY <3>1
  <2>4. /\ score' = [score EXCEPT ![p] = SaturatingAdd(@, delta)]
        /\ teamScore' = [teamScore EXCEPT ![round.team] = SaturatingAdd(@, delta)]
        /\ UNCHANGED <<membership, bank, detached, mailbox, budget>>
        /\ \/ CloseRoundAndProgress(answered, score', teamScore', evs)
           \/ /\ round' = answered
              /\ emitted' = evs
              /\ UNCHANGED <<lifecycle, result, pausedRemaining, armed, turns>>
    BY <1>9 DEF SubmitAnswer
  <2>. HIDE DEF delta, answered, evs
  <2>5. score' \in [Player -> 0 .. MaxScore]
    BY <2>1, <2>4, SaturatingAddType DEF TypeOK
  <2>6. teamScore' \in [Team -> 0 .. MaxScore]
    BY <2>1, <2>4, SaturatingAddType DEF TypeOK
  <2>7. CASE CloseRoundAndProgress(answered, score', teamScore', evs)
    <3>1. ProgressType
      BY <2>2, <2>3, <2>5, <2>6, <2>7, ProgressIsTyped
    <3>. QED
      BY <2>4, <2>5, <2>6, <3>1 DEF ProgressType, TypeOK, membership, budget
  <2>8. CASE /\ round' = answered
             /\ emitted' = evs
             /\ UNCHANGED <<lifecycle, result, pausedRemaining, armed, turns>>
    BY <2>2, <2>3, <2>4, <2>5, <2>6, <2>8 DEF TypeOK, membership, budget
  <2>. QED
    BY <2>4, <2>7, <2>8
<1>10. ASSUME ArmedTimerFires PROVE TypeOK'
  BY <1>10 DEF ArmedTimerFires, Timer, TypeOK, membership, scores, budget
<1>11. ASSUME NEW q \in QuestionId, DetachedTimerFires(q) PROVE TypeOK'
  <2>1. <<q, 0>> \in QuestionId \X Remaining
    BY TimeAssumption DEF Remaining
  <2>2. detached' \in [QuestionId \X Remaining -> Nat]
    BY <1>11, <2>1 DEF DetachedTimerFires, TypeOK
  <2>. QED
    BY <1>11, <2>2 DEF DetachedTimerFires, TypeOK, membership, scores, budget
<1>12. ASSUME NEW s \in ClockSteps, Tick(s) PROVE TypeOK'
  <2>1. round' \in Round \cup {None}
    <3>1. CASE round = None
      BY <1>12, <3>1 DEF Tick
    <3>2. CASE round # None
      <4>1. round \in Round
        BY <3>2 DEF TypeOK
      <4>2. PICK e \in -1 .. RoundTicks : round' = [round EXCEPT !.endsIn = e]
        <5>1. /\ round.endsIn - s \in Int
              /\ round.endsIn - s <= RoundTicks
          BY <4>1, TimeAssumption DEF Round
        <5>2. (IF round.endsIn - s < -1 THEN -1 ELSE round.endsIn - s) \in -1 .. RoundTicks
          BY <5>1, TimeAssumption
        <5>. QED
          BY <1>12, <3>2, <5>2 DEF Tick
      <4>. QED
        BY <4>1, <4>2 DEF Round
    <3>. QED
      BY <3>1, <3>2
  <2>2. armed' \in Timer \cup {None}
    BY <1>12, TimeAssumption DEF Tick, TypeOK, Timer, Remaining, NotNegative
  <2>3. detached' \in [QuestionId \X Remaining -> Nat]
    BY <1>12, TimeAssumption DEF Tick, TypeOK, Remaining
  <2>. QED
    BY <1>12, <2>1, <2>2, <2>3 DEF Tick, TypeOK, membership, scores, budget
<1>13. CASE UNCHANGED vars
  BY <1>13 DEF vars, TypeOK, membership, scores, timers, budget
<1>. QED
  BY <1>1, <1>2, <1>3, <1>4, <1>5, <1>6, <1>7, <1>8, <1>9, <1>10, <1>11, <1>12, <1>13
  DEF Next, PlayerCommand, OwnerCommand, TimerStep, Time

\* Type correctness of the actor's state.
THEOREM TypeCorrect == Spec => []TypeOK
  BY InitTyped, NextTyped, PTL DEF Spec

---------------------------------------------------------------------------
(* Phases of the game: what goes with which lifecycle state.               *)

\* What the phase properties need to be inductive: a game in play has a round
\* and a room that never started has none.
RoundMatchesPhase ==
    /\ lifecycle \in {"InProgress", "Paused"} => round # None
    /\ lifecycle = "Lobby" => round = None
    /\ round # None => round.index < Len(bank)

PhaseInv ==
    /\ RoundMatchesPhase
    /\ PauseRemembersTime
    /\ ClosedIsEmpty
    /\ FinishedHasResult

\* Closing the round of a running game.
LEMMA ProgressKeepsPhaseInv ==
    ASSUME TypeOK, PhaseInv, lifecycle = "InProgress", UNCHANGED bank,
           NEW r \in Round, r.index < Len(bank),
           NEW sc \in [Player -> 0 .. MaxScore],
           NEW ts \in [Team -> 0 .. MaxScore],
           NEW evs \in Seq(RoomEvent),
           CloseRoundAndProgress(r, sc, ts, evs)
    PROVE  PhaseInv'
<1>1. ProgressType
  BY ProgressIsTyped
<1>2. round' # None
  BY <1>1, NoneAssumption DEF ProgressType
<1>3. CASE /\ r.index + 1 >= Len(bank)
           /\ FinishGame(sc, ts)
           /\ round' = r
  <2>1. result' # None
    <3>1. PICK t \in Best(Team, ts),
               w \in IF players = {} THEN {None} ELSE Best(players, sc) :
             result' = [winner     |-> w,
                        winnerTeam |-> t,
                        scores     |-> [p \in players |-> sc[p]],
                        teamScores |-> ts]
      BY <1>3 DEF FinishGame
    <3>2. t \in Team /\ w \in Player \cup {None}
      BY DEF Best, TypeOK
    <3>3. [p \in players |-> sc[p]] \in UNION {[ps -> 0 .. MaxScore] : ps \in SUBSET Player}
      <4>1. [p \in players |-> sc[p]] \in [players -> 0 .. MaxScore]
        BY DEF TypeOK
      <4>. QED
        BY <4>1 DEF TypeOK
    <3>4. result' \in Result
      BY <3>1, <3>2, <3>3 DEF Result
    <3>. QED
      BY <3>4, NoneAssumption
  <2>2. lifecycle' = "Finished"
    BY <1>3 DEF FinishGame
  <2>. QED
    BY <1>1, <1>2, <1>3, <2>1, <2>2 DEF ProgressType, PhaseInv, RoundMatchesPhase,
       PauseRemembersTime, ClosedIsEmpty, FinishedHasResult
<1>4. CASE /\ r.index + 1 < Len(bank)
           /\ StartRound(bank, r.index + 1, OtherTeam(r.team))
           /\ UNCHANGED <<lifecycle, result>>
  <2>1. round'.index = r.index + 1
    BY <1>4 DEF StartRound, NewRound
  <2>. QED
    BY <1>1, <1>2, <1>4, <2>1 DEF ProgressType, PhaseInv, RoundMatchesPhase,
       PauseRemembersTime, ClosedIsEmpty, FinishedHasResult
<1>. QED
  BY <1>3, <1>4 DEF CloseRoundAndProgress

LEMMA InitPhase == Init => PhaseInv
  BY DEF Init, PhaseInv, RoundMatchesPhase, PauseRemembersTime, ClosedIsEmpty,
     FinishedHasResult

LEMMA NextPhase == TypeOK /\ PhaseInv /\ [Next]_vars => PhaseInv'
<1>. SUFFICES ASSUME TypeOK, PhaseInv, [Next]_vars PROVE PhaseInv'
  OBVIOUS
<1>. USE DEF PhaseInv, RoundMatchesPhase, PauseRemembersTime, ClosedIsEmpty,
             FinishedHasResult
<1>1. ASSUME NEW p \in Player, Join(p) PROVE PhaseInv'
  BY <1>1 DEF Join
<1>2. ASSUME NEW p \in Player, Leave(p) PROVE PhaseInv'
  BY <1>2 DEF Leave
<1>3. ASSUME NEW u \in User, NEW p \in Player, KickPlayer(u, p) PROVE PhaseInv'
  BY <1>3 DEF KickPlayer
<1>4. ASSUME NEW u \in User, NEW b \in Banks, StartGame(u, b) PROVE PhaseInv'
  <2>1. b \in Seq(QuestionId) /\ 0 < Len(b)
    BY <1>4, QuizAssumption DEF StartGame
  <2>2. round' \in Round /\ round'.index = 0
    BY <1>4, <2>1, NewRoundType DEF StartGame, StartRound, NewRound, Team
  <2>. QED
    BY <1>4, <2>1, <2>2, NoneAssumption DEF StartGame, ClearResult, ForgetPause
<1>5. ASSUME NEW u \in User, PauseGame(u) PROVE PhaseInv'
  <2>1. round \in Round
    BY <1>5 DEF PauseGame, TypeOK
  <2>2. pausedRemaining' \in Remaining
    BY <1>5, <2>1, RemainingTimeType, NoneAssumption DEF PauseGame
  <2>. QED
    BY <1>5, <2>2, NoneAssumption DEF PauseGame
<1>6. ASSUME NEW u \in User, ResumeGame(u) PROVE PhaseInv'
  <2>1. round \in Round
    BY <1>6 DEF ResumeGame, TypeOK
  <2>. DEFINE left == IF pausedRemaining = None THEN RemainingTime(round)
                      ELSE pausedRemaining
  <2>2. /\ round' = [round EXCEPT !.endsIn = left]
        /\ pausedRemaining' = None
        /\ lifecycle = "Paused" /\ lifecycle' = "InProgress"
        /\ UNCHANGED <<membership, bank, result>>
    BY <1>6, <2>1 DEF ResumeGame, ForgetPause
  <2>3. round' # None
    <3>1. left \in -1 .. RoundTicks
      BY <2>1, RemainingTimeType, TimeAssumption DEF TypeOK, Remaining
    <3>2. round' \in Round
      BY <2>1, <2>2, <3>1 DEF Round
    <3>. QED
      BY <3>2, NoneAssumption
  <2>4. round'.index = round.index
    BY <2>1, <2>2 DEF Round
  <2>. QED
    BY <2>1, <2>2, <2>3, <2>4 DEF membership
<1>7. ASSUME NEW u \in User, NextQuestion(u) PROVE PhaseInv'
  <2>1. /\ round \in Round /\ round.index < Len(bank)
        /\ score \in [Player -> 0 .. MaxScore]
        /\ teamScore \in [Team -> 0 .. MaxScore]
        /\ <<>> \in Seq(RoomEvent)
        /\ lifecycle = "InProgress"
        /\ UNCHANGED bank
        /\ CloseRoundAndProgress(round, score, teamScore, <<>>)
    BY <1>7 DEF NextQuestion, TypeOK
  <2>. QED
    BY <2>1, ProgressKeepsPhaseInv
<1>8. ASSUME RoundTimeout PROVE PhaseInv'
  <2>1. UNCHANGED <<players, bank>>
    BY <1>8 DEF RoundTimeout, membership
  <2>2. CASE TimeoutIgnored
    BY <2>1, <2>2 DEF TimeoutIgnored
  <2>3. CASE TimeoutEarly
    BY <2>1, <2>3 DEF TimeoutEarly
  <2>4. CASE TimeoutExpired
    <3>1. /\ round \in Round /\ round.index < Len(bank)
          /\ score \in [Player -> 0 .. MaxScore]
          /\ teamScore \in [Team -> 0 .. MaxScore]
          /\ <<>> \in Seq(RoomEvent)
          /\ lifecycle = "InProgress"
          /\ CloseRoundAndProgress(round, score, teamScore, <<>>)
      BY <2>4 DEF TimeoutExpired, TypeOK
    <3>. QED
      BY <2>1, <3>1, ProgressKeepsPhaseInv
  <2>. QED
    BY <1>8, <2>2, <2>3, <2>4 DEF RoundTimeout
<1>9. ASSUME NEW p \in Player, NEW q \in QuestionId, NEW correct \in BOOLEAN,
             SubmitAnswer(p, q, correct)
      PROVE  PhaseInv'
  <2>. DEFINE delta == IF correct THEN ScoreDelta ELSE 0
              answered == [round EXCEPT !.locked = @ \cup {p}]
              evs == <<Event("AnswerLocked", p), Event("ScoreUpdated", p)>>
  <2>1. round \in Round /\ round.index < Len(bank) /\ lifecycle = "InProgress"
    BY <1>9 DEF SubmitAnswer, TypeOK
  <2>2. answered \in Round /\ answered.index = round.index
    BY <2>1 DEF Round
  <2>3. evs \in Seq(RoomEvent)
    <3>1. Event("AnswerLocked", p) \in RoomEvent /\ Event("ScoreUpdated", p) \in RoomEvent
      BY EventType DEF EventKind
    <3>. QED
      BY <3>1
  <2>4. delta \in Nat
    BY DEF ScoreDelta
  <2>5. /\ score' = [score EXCEPT ![p] = SaturatingAdd(@, delta)]
        /\ teamScore' = [teamScore EXCEPT ![round.team] = SaturatingAdd(@, delta)]
        /\ UNCHANGED <<players, bank>>
        /\ \/ CloseRoundAndProgress(answered, score', teamScore', evs)
           \/ /\ round' = answered
              /\ UNCHANGED <<lifecycle, result, pausedRemaining>>
    BY <1>9 DEF SubmitAnswer, membership
  <2>. HIDE DEF delta, answered, evs
  <2>6. /\ score' \in [Player -> 0 .. MaxScore]
        /\ teamScore' \in [Team -> 0 .. MaxScore]
    BY <2>4, <2>5, SaturatingAddType DEF TypeOK
  <2>7. CASE CloseRoundAndProgress(answered, score', teamScore', evs)
    BY <2>1, <2>2, <2>3, <2>5, <2>6, <2>7, ProgressKeepsPhaseInv
  <2>8. CASE round' = answered /\ UNCHANGED <<lifecycle, result, pausedRemaining>>
    BY <2>1, <2>2, <2>5, <2>8, NoneAssumption
  <2>. QED
    BY <2>5, <2>7, <2>8
<1>10. ASSUME ArmedTimerFires PROVE PhaseInv'
  BY <1>10 DEF ArmedTimerFires, membership
<1>11. ASSUME NEW q \in QuestionId, DetachedTimerFires(q) PROVE PhaseInv'
  BY <1>11 DEF DetachedTimerFires, membership
<1>12. ASSUME NEW s \in ClockSteps, Tick(s) PROVE PhaseInv'
  <2>1. CASE round = None
    BY <1>12, <2>1 DEF Tick, membership
  <2>2. CASE round # None
    <3>1. round \in Round
      BY <2>2 DEF TypeOK
    <3>2. round' # None
      BY <1>12, <2>2, NextTyped, NoneAssumption, <3>1, TimeAssumption DEF Tick, Round
    <3>3. round'.index = round.index
      BY <1>12, <2>2, <3>1 DEF Tick, Round
    <3>. QED
      BY <1>12, <2>2, <3>2, <3>3 DEF Tick, membership
  <2>. QED
    BY <2>1, <2>2
<1>13. CASE UNCHANGED vars
  BY <1>13 DEF vars, membership
<1>. QED
  BY <1>1, <1>2, <1>3, <1>4, <1>5, <1>6, <1>7, <1>8, <1>9, <1>10, <1>11, <1>12, <1>13
  DEF Next, PlayerCommand, OwnerCommand, TimerStep, Time

\* The phase properties together, with what makes them inductive.
THEOREM PhaseInvHolds == Spec => []PhaseInv
  BY InitTyped, NextTyped, InitPhase, NextPhase, PTL DEF Spec

\* A remainder is stored exactly while the game is paused.
THEOREM PauseRemembers == Spec => []PauseRemembersTime
  BY PhaseInvHolds, PTL DEF PhaseInv

\* A closed room is empty and never had a round.
THEOREM ClosedEmpty == Spec => []ClosedIsEmpty
  BY PhaseInvHolds, PTL DEF PhaseInv

\* A room has a result exactly while its game is finished.
THEOREM FinishedResult == Spec => []FinishedHasResult
  BY PhaseInvHolds, PTL DEF PhaseInv

---------------------------------------------------------------------------
(* Timers.                                                                 *)

\* The timeout for one question stays on its way, whatever wakes up and
\* whatever message about another question is handled.
LEMMA PendingOnFire ==
    ASSUME TypeOK, NEW q \in QuestionId, NEW d \in Remaining, TimeoutPending(q, d),
           \/ ArmedTimerFires
           \/ \E x \in QuestionId : DetachedTimerFires(x)
    PROVE  TimeoutPending(q, d)'
<1>1. ASSUME NEW x \in QuestionId, mailbox' = Append(mailbox, x)
      PROVE  /\ x = q => TimeoutPending(q, d)'
             /\ (\E i \in DOMAIN mailbox : mailbox[i] = q) => TimeoutPending(q, d)'
  <2>1. /\ DOMAIN mailbox = 1 .. Len(mailbox) /\ Len(mailbox) \in Nat
        /\ DOMAIN mailbox' = 1 .. Len(mailbox) + 1
        /\ mailbox'[Len(mailbox) + 1] = x
        /\ \A i \in 1 .. Len(mailbox) : mailbox'[i] = mailbox[i]
    BY <1>1 DEF TypeOK
  <2>2. ASSUME x = q PROVE TimeoutPending(q, d)'
    BY <2>1, <2>2 DEF TimeoutPending
  <2>3. ASSUME NEW i \in DOMAIN mailbox, mailbox[i] = q PROVE TimeoutPending(q, d)'
    BY <2>1, <2>3 DEF TimeoutPending
  <2>. QED
    BY <2>2, <2>3
<1>2. CASE ArmedTimerFires
  <2>1. armed.qid \in QuestionId
    BY <1>2 DEF ArmedTimerFires, TypeOK, Timer
  <2>. QED
    BY <1>1, <1>2, <2>1 DEF ArmedTimerFires, TimeoutPending
<1>3. ASSUME NEW x \in QuestionId, DetachedTimerFires(x) PROVE TimeoutPending(q, d)'
  <2>1. CASE \E i \in DOMAIN mailbox : mailbox[i] = q
    BY <1>1, <1>3, <2>1 DEF DetachedTimerFires
  <2>2. CASE armed # None /\ armed.qid = q /\ armed.left <= d
    BY <1>3, <2>2 DEF DetachedTimerFires, TimeoutPending
  <2>3. ASSUME NEW k \in 0 .. d, detached[<<q, k>>] > 0 PROVE TimeoutPending(q, d)'
    <3>1. CASE x = q
      BY <1>1, <1>3, <3>1 DEF DetachedTimerFires
    <3>2. CASE x # q
      <4>1. <<q, k>> \in QuestionId \X Remaining /\ <<q, k>> # <<x, 0>>
        BY <3>2, TimeAssumption DEF Remaining
      <4>2. detached'[<<q, k>>] = detached[<<q, k>>]
        BY <1>3, <4>1 DEF DetachedTimerFires, TypeOK
      <4>. QED
        BY <2>3, <4>2 DEF TimeoutPending
    <3>. QED
      BY <3>1, <3>2
  <2>. QED
    BY <2>1, <2>2, <2>3 DEF TimeoutPending
<1>. QED
  BY <1>2, <1>3

LEMMA PendingOnTimeout ==
    ASSUME TypeOK, NEW q \in QuestionId, NEW d \in Remaining, TimeoutPending(q, d),
           RoundTimeout, Head(mailbox) # q
    PROVE  TimeoutPending(q, d)'
<1>1. CASE armed # None /\ armed.qid = q /\ armed.left <= d
  <2>1. <<q, armed.left>> \in QuestionId \X Remaining /\ armed.left \in 0 .. d
    BY <1>1 DEF TypeOK, Timer, Remaining
  <2>2. detached'[<<q, armed.left>>] = detached[<<q, armed.left>>] + 1
    BY <1>1, <2>1 DEF RoundTimeout, DropHandle, TypeOK
  <2>3. detached[<<q, armed.left>>] \in Nat
    BY <2>1 DEF TypeOK
  <2>. QED
    BY <2>1, <2>2, <2>3 DEF TimeoutPending
<1>2. ASSUME NEW k \in 0 .. d, detached[<<q, k>>] > 0 PROVE TimeoutPending(q, d)'
  <2>1. <<q, k>> \in QuestionId \X Remaining
    BY TimeAssumption DEF Remaining
  <2>2. detached'[<<q, k>>] >= detached[<<q, k>>]
    <3>1. CASE armed = None
      BY <3>1, <2>1 DEF RoundTimeout, DropHandle, TypeOK
    <3>2. CASE armed # None
      <4>1. detached' = [detached EXCEPT ![<<armed.qid, armed.left>>] = @ + 1]
        BY <3>2 DEF RoundTimeout, DropHandle
      <4>2. /\ detached \in [QuestionId \X Remaining -> Nat]
            /\ <<armed.qid, armed.left>> \in QuestionId \X Remaining
        BY <3>2 DEF TypeOK, Timer
      <4>3. detached[<<q, k>>] \in Nat
        BY <4>2, <2>1
      <4>4. CASE <<armed.qid, armed.left>> = <<q, k>>
        BY <4>1, <4>2, <4>3, <4>4
      <4>5. CASE <<armed.qid, armed.left>> # <<q, k>>
        BY <2>1, <4>1, <4>2, <4>3, <4>5
      <4>. QED
        BY <4>4, <4>5
    <3>. QED
      BY <3>1, <3>2
  <2>3. detached[<<q, k>>] \in Nat /\ detached'[<<q, k>>] > 0
    BY <1>2, <2>1, <2>2, NextTyped DEF TypeOK, Next
  <2>. QED
    BY <2>3 DEF TimeoutPending
<1>3. ASSUME NEW i \in DOMAIN mailbox, mailbox[i] = q PROVE TimeoutPending(q, d)'
  <2>1. /\ mailbox \in Seq(QuestionId) /\ mailbox # <<>>
        /\ mailbox' = Tail(mailbox)
        /\ i \in 1 .. Len(mailbox)
        /\ Head(mailbox) = mailbox[1]
    BY DEF RoundTimeout, TypeOK
  <2>2. i # 1
    BY <1>3, <2>1
  <2>3. i - 1 \in DOMAIN mailbox' /\ mailbox'[i - 1] = q
    BY <1>3, <2>1, <2>2
  <2>. QED
    BY <2>3 DEF TimeoutPending
<1>. QED
  BY <1>1, <1>2, <1>3 DEF TimeoutPending

\* A tick brings it nearer.
LEMMA PendingOnTick ==
    ASSUME TypeOK, NEW q \in QuestionId, NEW d \in Remaining, TimeoutPending(q, d),
           NEW s \in ClockSteps, Tick(s)
    PROVE  TimeoutPending(q, NotNegative(d - 1))'
<1>. DEFINE e == NotNegative(d - 1)
<1>0. /\ e \in Nat /\ e <= RoundTicks /\ d \in Nat /\ d <= RoundTicks
      /\ d = 0 => e = 0
      /\ d > 0 => e = d - 1
  BY TimeAssumption DEF NotNegative, Remaining
<1>. HIDE DEF e
<1>1. CASE armed # None /\ armed.qid = q /\ armed.left <= d
  <2>1. armed \in Timer
    BY <1>1 DEF TypeOK
  <2>2. armed' = [armed EXCEPT !.left = NotNegative(armed.left - 1)]
    BY <1>1 DEF Tick
  <2>3. /\ armed'.qid = q
        /\ armed'.left = NotNegative(armed.left - 1)
        /\ armed' \in Timer
    BY <1>1, <2>1, <2>2, TimeAssumption DEF Timer, NotNegative, Remaining
  <2>4. NotNegative(armed.left - 1) <= e
    BY <1>0, <1>1, <2>1, TimeAssumption DEF Timer, NotNegative, Remaining
  <2>. QED
    BY <2>3, <2>4, NoneAssumption DEF TimeoutPending, e
<1>2. ASSUME NEW k \in 0 .. d, detached[<<q, k>>] > 0
      PROVE  TimeoutPending(q, e)'
  <2>1. k \in Remaining /\ k \in Nat /\ k <= d
    BY TimeAssumption DEF Remaining
  <2>2. \A t \in QuestionId \X Remaining : detached[t] \in Nat
    BY DEF TypeOK
  <2>3. CASE k = 0
    <3>1. <<q, 0>> \in QuestionId \X Remaining
      BY <2>1, <2>3
    <3>2. detached'[<<q, 0>>] =
              (IF 0 = 0 THEN detached[<<q, 0>>] ELSE 0)
              + (IF 0 < RoundTicks THEN detached[<<q, 0 + 1>>] ELSE 0)
      BY <3>1 DEF Tick
    <3>3. 0 < RoundTicks => detached[<<q, 0 + 1>>] \in Nat
      BY <2>2, TimeAssumption DEF Remaining
    <3>4. detached'[<<q, 0>>] > 0
      BY <1>2, <2>2, <2>3, <3>1, <3>2, <3>3, TimeAssumption
    <3>5. 0 \in 0 .. e
      BY <1>0
    <3>. QED
      BY <3>4, <3>5 DEF TimeoutPending
  <2>4. CASE k > 0
    <3>1. /\ <<q, k - 1>> \in QuestionId \X Remaining
          /\ k - 1 < RoundTicks
          /\ k - 1 \in 0 .. e
      BY <1>0, <2>1, <2>4, TimeAssumption DEF Remaining
    <3>2. detached'[<<q, k - 1>>] =
              (IF k - 1 = 0 THEN detached[<<q, k - 1>>] ELSE 0)
              + detached[<<q, k - 1 + 1>>]
      BY <3>1 DEF Tick
    <3>3. k - 1 + 1 = k
      BY <2>1
    <3>4. detached'[<<q, k - 1>>] > 0
      BY <1>2, <2>1, <2>2, <3>1, <3>2, <3>3
    <3>. QED
      BY <3>1, <3>4 DEF TimeoutPending
  <2>. QED
    BY <2>1, <2>3, <2>4
<1>3. ASSUME NEW i \in DOMAIN mailbox, mailbox[i] = q PROVE TimeoutPending(q, e)'
  BY <1>3 DEF Tick, TimeoutPending
<1>. QED
  BY <1>1, <1>2, <1>3 DEF TimeoutPending, e

\* The timer armed for the current round.
ArmedForRound ==
    /\ armed # None
    /\ armed.qid = round.qid
    /\ armed.left = RemainingTime(round)

LEMMA ProgressArms ==
    ASSUME TypeOK,
           NEW r \in Round,
           NEW sc \in [Player -> 0 .. MaxScore],
           NEW ts \in [Team -> 0 .. MaxScore],
           NEW evs \in Seq(RoomEvent),
           CloseRoundAndProgress(r, sc, ts, evs)
    PROVE  ArmedForRound'
<1>1. armed' \in Timer
  BY ProgressIsTyped DEF ProgressType
<1>2. armed' = [qid |-> round'.qid, left |-> RemainingTime(round')]
  BY DEF CloseRoundAndProgress, Spawn
<1>. QED
  BY <1>1, <1>2, NoneAssumption DEF ArmedForRound

\* How a step leaves the timeout of the round that runs afterwards: freshly
\* armed, or as near as it was, or one tick nearer.
LEMMA TimedStep ==
    ASSUME TypeOK, PhaseInv, Next, lifecycle' = "InProgress",
           NEW q \in QuestionId, NEW d \in Remaining,
           lifecycle = "InProgress" => round.qid = q /\ TimeoutPending(q, d)
    PROVE  \/ ArmedForRound'
           \/ /\ lifecycle = "InProgress"
              /\ round'.qid = q
              /\ round'.endsIn = round.endsIn
              /\ TimeoutPending(q, d)'
           \/ /\ lifecycle = "InProgress"
              /\ round'.qid = q
              /\ \E s \in ClockSteps : Tick(s)
<1>. DEFINE Goal == \/ ArmedForRound'
                    \/ /\ lifecycle = "InProgress"
                       /\ round'.qid = q
                       /\ round'.endsIn = round.endsIn
                       /\ TimeoutPending(q, d)'
                    \/ /\ lifecycle = "InProgress"
                       /\ round'.qid = q
                       /\ \E s \in ClockSteps : Tick(s)
<1>0. /\ score \in [Player -> 0 .. MaxScore]
      /\ teamScore \in [Team -> 0 .. MaxScore]
      /\ <<>> \in Seq(RoomEvent)
      /\ lifecycle = "InProgress" => round \in Round
  BY DEF TypeOK, PhaseInv, RoundMatchesPhase
\* Steps that touch neither the round nor the timers of a running game.
<1>1. ASSUME lifecycle = "InProgress", UNCHANGED <<round, timers>> PROVE Goal
  BY <1>1 DEF TimeoutPending, timers
<1>2. ASSUME NEW p \in Player, Join(p) \/ Leave(p) PROVE Goal
  <2>1. lifecycle = "InProgress" /\ UNCHANGED <<round, timers>>
    BY <1>2 DEF Join, Leave
  <2>. QED
    BY <1>1, <2>1
<1>3. ASSUME NEW u \in User, NEW p \in Player, KickPlayer(u, p) PROVE Goal
  BY <1>1, <1>3 DEF KickPlayer
<1>4. ASSUME NEW u \in User, NEW b \in Banks, StartGame(u, b) PROVE Goal
  <2>1. /\ armed' = [qid |-> b[1], left |-> RoundTicks]
        /\ round' = [index |-> 0, qid |-> b[0 + 1], team |-> "A", locked |-> {},
                     endsIn |-> RoundTicks]
        /\ armed' \in Timer
    BY <1>4, QuizAssumption, TimeAssumption
    DEF StartGame, StartRound, NewRound, Spawn, Timer, Remaining
  <2>. QED
    BY <2>1, TimeAssumption, NoneAssumption DEF ArmedForRound, RemainingTime, NotNegative
<1>5. ASSUME NEW u \in User, PauseGame(u) PROVE Goal
  BY <1>5 DEF PauseGame
<1>6. ASSUME NEW u \in User, ResumeGame(u) PROVE Goal
  <2>1. round \in Round
    BY <1>6 DEF ResumeGame, TypeOK, PhaseInv, RoundMatchesPhase
  <2>. DEFINE left == IF pausedRemaining = None THEN RemainingTime(round)
                      ELSE pausedRemaining
  <2>2. left \in Remaining
    BY <2>1, RemainingTimeType DEF TypeOK
  <2>3. /\ round' = [round EXCEPT !.endsIn = left]
        /\ armed' = [qid |-> round.qid, left |-> left]
    BY <1>6, <2>1, NoneAssumption DEF ResumeGame, Spawn
  <2>. HIDE DEF left
  <2>4. RemainingTime(round') = left /\ round'.qid = round.qid
    BY <2>1, <2>2, <2>3, TimeAssumption DEF RemainingTime, NotNegative, Round, Remaining
  <2>5. armed' \in Timer
    BY <2>1, <2>2, <2>3 DEF Round, Timer
  <2>. QED
    BY <2>3, <2>4, <2>5, NoneAssumption DEF ArmedForRound
<1>7. ASSUME NEW u \in User, NextQuestion(u) PROVE Goal
  BY <1>0, <1>7, ProgressArms DEF NextQuestion
<1>8. ASSUME RoundTimeout PROVE Goal
  <2>1. CASE TimeoutIgnored
    <3>1. lifecycle = "InProgress" /\ round # None /\ UNCHANGED round
      BY <2>1 DEF TimeoutIgnored, PhaseInv, RoundMatchesPhase
    <3>2. Head(mailbox) # q
      BY <2>1, <3>1 DEF TimeoutIgnored
    <3>. QED
      BY <1>8, <3>1, <3>2, PendingOnTimeout
  <2>2. CASE TimeoutEarly
    <3>1. /\ round \in Round
          /\ armed' = [qid |-> round.qid, left |-> RemainingTime(round)]
          /\ UNCHANGED round
      BY <1>0, <2>2 DEF TimeoutEarly, Spawn
    <3>2. armed' \in Timer
      BY <3>1, RemainingTimeType DEF Timer, Round
    <3>. QED
      BY <3>1, <3>2, NoneAssumption DEF ArmedForRound
  <2>3. CASE TimeoutExpired
    BY <1>0, <2>3, ProgressArms DEF TimeoutExpired
  <2>. QED
    BY <1>8, <2>1, <2>2, <2>3 DEF RoundTimeout
<1>9. ASSUME NEW p \in Player, NEW x \in QuestionId, NEW correct \in BOOLEAN,
             SubmitAnswer(p, x, correct)
      PROVE  Goal
  <2>. DEFINE delta == IF correct THEN ScoreDelta ELSE 0
              answered == [round EXCEPT !.locked = @ \cup {p}]
              evs == <<Event("AnswerLocked", p), Event("ScoreUpdated", p)>>
  <2>1. round \in Round /\ lifecycle = "InProgress"
    BY <1>0, <1>9 DEF SubmitAnswer
  <2>2. answered \in Round /\ answered.qid = round.qid /\ answered.endsIn = round.endsIn
    BY <2>1 DEF Round
  <2>3. evs \in Seq(RoomEvent)
    <3>1. Event("AnswerLocked", p) \in RoomEvent /\ Event("ScoreUpdated", p) \in RoomEvent
      BY EventType DEF EventKind
    <3>. QED
      BY <3>1
  <2>4. delta \in Nat
    BY DEF ScoreDelta
  <2>5. /\ score' = [score EXCEPT ![p] = SaturatingAdd(@, delta)]
        /\ teamScore' = [teamScore EXCEPT ![round.team] = SaturatingAdd(@, delta)]
        /\ UNCHANGED <<detached, mailbox>>
        /\ \/ CloseRoundAndProgress(answered, score', teamScore', evs)
           \/ round' = answered /\ UNCHANGED armed
    BY <1>9 DEF SubmitAnswer
  <2>. HIDE DEF delta, answered, evs
  <2>6. /\ score' \in [Player -> 0 .. MaxScore]
        /\ teamScore' \in [Team -> 0 .. MaxScore]
    BY <2>4, <2>5, SaturatingAddType DEF TypeOK
  <2>7. CASE CloseRoundAndProgress(answered, score', teamScore', evs)
    BY <2>2, <2>3, <2>6, <2>7, ProgressArms
  <2>8. CASE round' = answered /\ UNCHANGED armed
    BY <2>1, <2>2, <2>5, <2>8 DEF TimeoutPending
  <2>. QED
    BY <2>5, <2>7, <2>8
<1>10. ASSUME \/ ArmedTimerFires
              \/ \E x \in QuestionId : DetachedTimerFires(x)
       PROVE  Goal
  <2>1. lifecycle = "InProgress" /\ UNCHANGED round
    BY <1>10 DEF ArmedTimerFires, DetachedTimerFires
  <2>. QED
    BY <1>10, <2>1, PendingOnFire
<1>11. ASSUME NEW s \in ClockSteps, Tick(s) PROVE Goal
  <2>1. lifecycle = "InProgress" /\ round \in Round
    BY <1>0, <1>11 DEF Tick
  <2>2. round'.qid = q
    BY <1>11, <2>1, NoneAssumption DEF Tick, Round
  <2>. QED
    BY <1>11, <2>1, <2>2
<1>. QED
  BY <1>2, <1>3, <1>4, <1>5, <1>6, <1>7, <1>8, <1>9, <1>10, <1>11
  DEF Next, PlayerCommand, OwnerCommand, TimerStep, Time

LEMMA NextTimed ==
    TypeOK /\ PhaseInv /\ RunningRoundIsTimed /\ [Next]_vars => RunningRoundIsTimed'
<1>. SUFFICES ASSUME TypeOK, PhaseInv, RunningRoundIsTimed, [Next]_vars,
                     lifecycle' = "InProgress"
              PROVE  round' # None /\ TimeoutPending(round.qid, RoundTicks)'
  BY DEF RunningRoundIsTimed
<1>1. TypeOK' /\ PhaseInv'
  BY NextTyped, NextPhase
<1>2. round' \in Round /\ round' # None
  BY <1>1 DEF TypeOK, PhaseInv, RoundMatchesPhase
<1>3. CASE UNCHANGED vars
  BY <1>2, <1>3 DEF vars, timers, RunningRoundIsTimed, TimeoutPending
<1>4. CASE Next
  <2>1. PICK q \in QuestionId : q = (IF lifecycle = "InProgress" THEN round.qid ELSE round'.qid)
    BY <1>2 DEF TypeOK, PhaseInv, RoundMatchesPhase, Round
  <2>2. RoundTicks \in Remaining
    BY TimeAssumption DEF Remaining
  <2>3. lifecycle = "InProgress" => round.qid = q /\ TimeoutPending(q, RoundTicks)
    BY <2>1 DEF RunningRoundIsTimed
  <2>4. \/ ArmedForRound'
        \/ round'.qid = q /\ TimeoutPending(q, RoundTicks)'
        \/ /\ lifecycle = "InProgress"
           /\ round'.qid = q
           /\ \E s \in ClockSteps : Tick(s)
    BY <1>4, <2>2, <2>3, TimedStep
  <2>5. CASE ArmedForRound'
    <3>1. RemainingTime(round') <= RoundTicks
      BY <1>2, RemainingTimeType, TimeAssumption DEF Remaining
    <3>. QED
      BY <1>2, <2>5, <3>1 DEF ArmedForRound, TimeoutPending
  <2>6. CASE round'.qid = q /\ TimeoutPending(q, RoundTicks)'
    BY <1>2, <2>6 DEF TimeoutPending
  <2>7. ASSUME lifecycle = "InProgress", round'.qid = q,
               NEW s \in ClockSteps, Tick(s)
        PROVE  TimeoutPending(round.qid, RoundTicks)'
    <3>1. TimeoutPending(q, NotNegative(RoundTicks - 1))'
      BY <2>2, <2>3, <2>7, PendingOnTick
    <3>2. /\ NotNegative(RoundTicks - 1) \in Nat
          /\ NotNegative(RoundTicks - 1) <= RoundTicks
      BY TimeAssumption DEF NotNegative
    <3>3. armed' # None => armed'.left \in Nat
      BY <1>1, TimeAssumption DEF TypeOK, Timer, Remaining
    <3>. QED
      BY <2>7, <3>1, <3>2, <3>3, TimeAssumption DEF TimeoutPending
  <2>. QED
    BY <1>2, <2>4, <2>5, <2>6, <2>7
<1>. QED
  BY <1>3, <1>4

\* Whatever handles were dropped and whatever stale messages were handled, a
\* running round has a timeout on its way: the room is never stuck.
THEOREM RunningRoundTimed == Spec => []RunningRoundIsTimed
<1>1. Init => RunningRoundIsTimed
  BY DEF Init, RunningRoundIsTimed
<1>. QED
  BY <1>1, NextTimed, TypeCorrect, PhaseInvHolds, PTL DEF Spec

LEMMA NextDue ==
    ASSUME ClockSteps \subseteq {0, 1}
    PROVE  TypeOK /\ PhaseInv /\ TimeoutDueByDeadline /\ [Next]_vars => TimeoutDueByDeadline'
<1>. SUFFICES ASSUME TypeOK, PhaseInv, TimeoutDueByDeadline, [Next]_vars,
                     lifecycle' = "InProgress"
              PROVE  round' # None /\ TimeoutPending(round.qid, RemainingTime(round))'
  BY DEF TimeoutDueByDeadline
<1>1. TypeOK' /\ PhaseInv'
  BY NextTyped, NextPhase
<1>2. round' \in Round /\ round' # None
  BY <1>1 DEF TypeOK, PhaseInv, RoundMatchesPhase
<1>3. lifecycle = "InProgress" => round \in Round
  BY DEF TypeOK, PhaseInv, RoundMatchesPhase
<1>4. CASE UNCHANGED vars
  BY <1>2, <1>4 DEF vars, timers, TimeoutDueByDeadline, TimeoutPending
<1>5. CASE Next
  <2>1. PICK q \in QuestionId, d \in Remaining :
           lifecycle = "InProgress" => q = round.qid /\ d = RemainingTime(round)
    <3>1. RoundTicks \in Remaining /\ round'.qid \in QuestionId
      BY <1>2, TimeAssumption DEF Remaining, Round
    <3>2. CASE lifecycle = "InProgress"
      BY <1>3, <3>2, RemainingTimeType DEF Round
    <3>. QED
      BY <3>1, <3>2
  <2>2. lifecycle = "InProgress" => round.qid = q /\ TimeoutPending(q, d)
    BY <2>1 DEF TimeoutDueByDeadline
  <2>3. \/ ArmedForRound'
        \/ /\ lifecycle = "InProgress"
           /\ round'.qid = q
           /\ round'.endsIn = round.endsIn
           /\ TimeoutPending(q, d)'
        \/ /\ lifecycle = "InProgress"
           /\ round'.qid = q
           /\ \E s \in ClockSteps : Tick(s)
    BY <1>5, <2>2, TimedStep
  <2>4. CASE ArmedForRound'
    <3>1. RemainingTime(round') \in Nat
      BY <1>2, RemainingTimeType, TimeAssumption DEF Remaining
    <3>. QED
      BY <1>2, <2>4, <3>1 DEF ArmedForRound, TimeoutPending
  <2>5. CASE /\ lifecycle = "InProgress"
             /\ round'.qid = q
             /\ round'.endsIn = round.endsIn
             /\ TimeoutPending(q, d)'
    <3>1. RemainingTime(round') = d
      BY <2>1, <2>5 DEF RemainingTime
    <3>. QED
      BY <1>2, <2>5, <3>1 DEF TimeoutPending
  <2>6. ASSUME lifecycle = "InProgress", round'.qid = q,
               NEW s \in ClockSteps, Tick(s)
        PROVE  TimeoutPending(round.qid, RemainingTime(round))'
    <3>1. TimeoutPending(q, NotNegative(d - 1))'
      BY <2>2, <2>6, PendingOnTick
    <3>2. round \in Round /\ d = RemainingTime(round) /\ s \in {0, 1}
      BY <1>3, <2>1, <2>6
    <3>3. round' = [round EXCEPT !.endsIn = IF round.endsIn - s < -1 THEN -1 ELSE round.endsIn - s]
      BY <2>6, <3>2, NoneAssumption DEF Tick
    <3>4. round'.endsIn = IF round.endsIn - s < -1 THEN -1 ELSE round.endsIn - s
      BY <3>2, <3>3 DEF Round
    <3>5. /\ NotNegative(d - 1) \in Nat
          /\ RemainingTime(round') \in Nat
          /\ NotNegative(d - 1) <= RemainingTime(round')
      BY <3>2, <3>4, TimeAssumption DEF RemainingTime, NotNegative, Round
    <3>6. armed' # None => armed'.left \in Nat
      BY <1>1, TimeAssumption DEF TypeOK, Timer, Remaining
    <3>. QED
      BY <2>6, <3>1, <3>5, <3>6 DEF TimeoutPending
  <2>. QED
    BY <1>2, <2>3, <2>4, <2>5, <2>6
<1>. QED
  BY <1>4, <1>5

\* While the wall clock never runs ahead of the timers, the timeout of a
\* running round is due by the round's deadline.
THEOREM TimeoutDue ==
    ASSUME ClockSteps \subseteq {0, 1}
    PROVE  Spec => []TimeoutDueByDeadline
<1>1. Init => TimeoutDueByDeadline
  BY DEF Init, TimeoutDueByDeadline
<1>2. TypeOK /\ PhaseInv /\ TimeoutDueByDeadline /\ [Next]_vars => TimeoutDueByDeadline'
  BY NextDue
<1>. QED
  BY <1>1, <1>2, TypeCorrect, PhaseInvHolds, PTL DEF Spec

---------------------------------------------------------------------------
(* Steps.                                                                  *)

\* A closed room stays closed, although StartGame does not ask for the state.
THEOREM ClosedFinal == Spec => ClosedIsFinal
<1>1. PhaseInv /\ [Next]_vars => [lifecycle = "Closed" => lifecycle' = "Closed"]_vars
  <2>. SUFFICES ASSUME PhaseInv, Next, lifecycle = "Closed" PROVE lifecycle' = "Closed"
    OBVIOUS
  <2>1. players = {} /\ round = None
    BY DEF PhaseInv, ClosedIsEmpty
  <2>. QED
    BY <2>1 DEF Next, PlayerCommand, OwnerCommand, TimerStep, Time, Join, Leave,
       KickPlayer, StartGame, PauseGame, ResumeGame, NextQuestion, SubmitAnswer,
       RoundTimeout, TimeoutIgnored, TimeoutEarly, TimeoutExpired,
       ArmedTimerFires, DetachedTimerFires, Tick
<1>. QED
  BY <1>1, PhaseInvHolds, PTL DEF Spec, ClosedIsFinal

\* A timeout handled before the deadline of the current round, of whatever
\* round it was sent for, leaves the game as it is.
THEOREM StaleTimeouts == Spec => StaleTimeoutHarmless
<1>. DEFINE Early == /\ Len(mailbox') < Len(mailbox)
                     /\ round # None
                     /\ round.endsIn > 0
            Harmless == Early => UNCHANGED <<lifecycle, round, scores, result, turns>>
<1>1. TypeOK /\ [Next]_vars => [Harmless]_vars
  <2>. SUFFICES ASSUME TypeOK, Next, Early
                PROVE  UNCHANGED <<lifecycle, round, scores, result, turns>>
    OBVIOUS
  <2>1. CASE RoundTimeout
    <3>1. ~ (RemainingTime(round) = 0)
      BY DEF RemainingTime, NotNegative, TypeOK, Round
    <3>2. TimeoutIgnored \/ TimeoutEarly
      BY <2>1, <3>1 DEF RoundTimeout, TimeoutExpired
    <3>. QED
      BY <2>1, <3>2 DEF RoundTimeout, TimeoutIgnored, TimeoutEarly
  <2>2. ASSUME UNCHANGED mailbox PROVE FALSE
    BY <2>2 DEF TypeOK
  <2>3. ASSUME NEW x \in QuestionId, mailbox' = Append(mailbox, x) PROVE FALSE
    BY <2>3 DEF TypeOK
  <2>4. \/ RoundTimeout
        \/ UNCHANGED mailbox
        \/ \E x \in QuestionId : mailbox' = Append(mailbox, x)
    <3>1. CASE ArmedTimerFires
      BY <3>1 DEF ArmedTimerFires, TypeOK, Timer
    <3>2. CASE PlayerCommand
      BY <3>2 DEF PlayerCommand, Join, Leave, SubmitAnswer, timers
    <3>3. CASE OwnerCommand
      BY <3>3 DEF OwnerCommand, KickPlayer, StartGame, PauseGame, ResumeGame,
         NextQuestion, timers
    <3>. QED
      BY <3>1, <3>2, <3>3 DEF Next, TimerStep, Time, DetachedTimerFires, Tick
  <2>. QED
    BY <2>1, <2>2, <2>3, <2>4
<1>. QED
  BY <1>1, TypeCorrect, PTL DEF Spec, StaleTimeoutHarmless

\* A published result is never revised, only dropped by a new game.
THEOREM ResultFrozen == Spec => ResultIsFrozen
<1>1. PhaseInv /\ [Next]_vars => [result # None /\ result' # None => result' = result]_vars
  <2>. SUFFICES ASSUME PhaseInv, Next, result # None, result' # None PROVE result' = result
    OBVIOUS
  <2>1. lifecycle = "Finished"
    BY DEF PhaseInv, FinishedHasResult
  <2>. QED
    BY <2>1 DEF Next, PlayerCommand, OwnerCommand, TimerStep, Time, Join, Leave,
       KickPlayer, StartGame, ClearResult, PauseGame, ResumeGame, NextQuestion,
       SubmitAnswer, RoundTimeout, TimeoutIgnored, TimeoutEarly, TimeoutExpired,
       ArmedTimerFires, DetachedTimerFires, Tick
<1>. QED
  BY <1>1, PhaseInvHolds, PTL DEF Spec, ResultIsFrozen

\* While a game stays paused its scores, its question, the answers given and
\* the time that is left stay as they are.
THEOREM PauseFreezes == Spec => PauseFreezesGame
<1>. DEFINE Frozen == /\ UNCHANGED <<scores, turns, bank, pausedRemaining>>
                      /\ round'.index = round.index
                      /\ round'.locked = round.locked
<1>1. TypeOK /\ PhaseInv /\ [Next]_vars
      => [lifecycle = "Paused" /\ lifecycle' = "Paused" => Frozen]_vars
  <2>. SUFFICES ASSUME TypeOK, PhaseInv, Next, lifecycle = "Paused", lifecycle' = "Paused"
                PROVE  Frozen
    OBVIOUS
  <2>1. round \in Round /\ round # None
    BY DEF TypeOK, PhaseInv, RoundMatchesPhase
  <2>2. CASE PlayerCommand
    BY <2>2 DEF PlayerCommand, Join, Leave, SubmitAnswer
  <2>3. CASE OwnerCommand
    BY <2>3 DEF OwnerCommand, KickPlayer, StartGame, PauseGame, ResumeGame, NextQuestion
  <2>4. CASE RoundTimeout
    <3>1. TimeoutIgnored
      BY <2>4 DEF RoundTimeout, TimeoutEarly, TimeoutExpired
    <3>. QED
      BY <2>4, <3>1 DEF RoundTimeout, TimeoutIgnored
  <2>5. CASE TimerStep
    BY <2>5 DEF TimerStep, ArmedTimerFires, DetachedTimerFires
  <2>6. ASSUME NEW s \in ClockSteps, Tick(s) PROVE Frozen
    BY <2>1, <2>6 DEF Tick, Round
  <2>. QED
    BY <2>2, <2>3, <2>4, <2>5, <2>6 DEF Next, Time
<1>. QED
  BY <1>1, TypeCorrect, PhaseInvHolds, PTL DEF Spec, PauseFreezesGame

---------------------------------------------------------------------------
(* The actor implements GameLifecycle.                                     *)

LEMMA ProgressImplements ==
    ASSUME TypeOK, lifecycle = "InProgress", round \in Round, round.index < Len(bank),
           round # None, round' # None, UNCHANGED bank,
           NEW r \in Round, r.index = round.index, r.team = round.team,
           NEW sc, NEW ts, NEW evs,
           CloseRoundAndProgress(r, sc, ts, evs)
    PROVE  Lifecycle!Advance \/ Lifecycle!End
<1>0. /\ Len(bank) \in Nat /\ round.index \in Nat
      /\ round.team \in Team
  BY DEF TypeOK, Round
<1>1. CASE r.index + 1 >= Len(bank) /\ FinishGame(sc, ts) /\ round' = r
  <2>1. round.index + 1 = Len(bank)
    BY <1>0, <1>1
  <2>. QED
    BY <1>1, <2>1 DEF FinishGame, Lifecycle!End
<1>2. CASE /\ r.index + 1 < Len(bank)
           /\ StartRound(bank, r.index + 1, OtherTeam(r.team))
           /\ UNCHANGED <<lifecycle, result>>
  <2>1. round'.index = round.index + 1 /\ round'.team = OtherTeam(round.team)
    BY <1>2 DEF StartRound, NewRound
  <2>2. round'.index + 1 = round.index + 1 + 1
    BY <1>0, <2>1
  <2>. QED
    BY <1>0, <1>2, <2>1, <2>2 DEF Lifecycle!Advance, OtherTeam
<1>. QED
  BY <1>1, <1>2 DEF CloseRoundAndProgress

LEMMA StepImplements ==
    TypeOK /\ PhaseInv /\ TypeOK' /\ PhaseInv' /\ [Next]_vars
    => [Lifecycle!Next]_(Lifecycle!lifecycleVars)
<1>. SUFFICES ASSUME TypeOK, PhaseInv, TypeOK', PhaseInv', [Next]_vars
              PROVE  Lifecycle!Next \/ UNCHANGED Lifecycle!lifecycleVars
  OBVIOUS
<1>1. ASSUME UNCHANGED <<lifecycle, bank, round>> PROVE UNCHANGED Lifecycle!lifecycleVars
  BY <1>1 DEF Lifecycle!lifecycleVars
<1>2. ASSUME NEW p \in Player, Join(p) PROVE UNCHANGED Lifecycle!lifecycleVars
  BY <1>1, <1>2 DEF Join
<1>3. ASSUME NEW p \in Player, Leave(p)
      PROVE  Lifecycle!Next \/ UNCHANGED Lifecycle!lifecycleVars
  <2>1. CASE UNCHANGED lifecycle
    BY <1>1, <1>3, <2>1 DEF Leave
  <2>2. CASE lifecycle = "Lobby" /\ lifecycle' = "Closed"
    BY <1>3, <2>2 DEF Leave, Lifecycle!Next, Lifecycle!Close
  <2>. QED
    BY <1>3, <2>1, <2>2 DEF Leave
<1>4. ASSUME NEW u \in User, NEW p \in Player, KickPlayer(u, p)
      PROVE  UNCHANGED Lifecycle!lifecycleVars
  BY <1>1, <1>4 DEF KickPlayer
<1>5. ASSUME NEW u \in User, NEW b \in Banks, StartGame(u, b) PROVE Lifecycle!Begin
  <2>1. lifecycle # "Closed"
    BY <1>5 DEF StartGame, PhaseInv, ClosedIsEmpty
  <2>2. Len(b) \in Nat \ {0}
    BY <1>5, QuizAssumption DEF StartGame
  <2>3. round' # None
    BY <1>5 DEF StartGame, PhaseInv, RoundMatchesPhase
  <2>4. round'.index = 0 /\ round'.team = "A"
    BY <1>5 DEF StartGame, StartRound, NewRound
  <2>. QED
    BY <1>5, <2>1, <2>2, <2>3, <2>4 DEF StartGame, Lifecycle!Begin
<1>6. ASSUME NEW u \in User, PauseGame(u) PROVE Lifecycle!Suspend
  BY <1>6 DEF PauseGame, Lifecycle!Suspend
<1>7. ASSUME NEW u \in User, ResumeGame(u) PROVE Lifecycle!Continue
  <2>1. /\ round \in Round /\ round # None /\ round' # None
        /\ \E left : round' = [round EXCEPT !.endsIn = left]
    BY <1>7 DEF ResumeGame, TypeOK, PhaseInv, RoundMatchesPhase
  <2>2. round'.index = round.index /\ round'.team = round.team
    BY <2>1 DEF Round
  <2>. QED
    BY <1>7, <2>1, <2>2 DEF ResumeGame, Lifecycle!Continue
<1>8. ASSUME lifecycle = "InProgress", UNCHANGED bank,
             NEW r \in Round, r.index = round.index, r.team = round.team,
             NEW sc \in [Player -> 0 .. MaxScore], NEW ts \in [Team -> 0 .. MaxScore],
             NEW evs \in Seq(RoomEvent),
             CloseRoundAndProgress(r, sc, ts, evs)
      PROVE  Lifecycle!Next
  <2>1. round \in Round /\ round # None /\ round.index < Len(bank)
    BY <1>8 DEF TypeOK, PhaseInv, RoundMatchesPhase
  <2>2. round' # None
    BY <1>8, ProgressIsTyped, NoneAssumption DEF ProgressType
  <2>. QED
    BY <1>8, <2>1, <2>2, ProgressImplements DEF Lifecycle!Next
<1>9. ASSUME NEW u \in User, NextQuestion(u) PROVE Lifecycle!Next
  <2>1. /\ round \in Round /\ lifecycle = "InProgress" /\ UNCHANGED bank
        /\ score \in [Player -> 0 .. MaxScore]
        /\ teamScore \in [Team -> 0 .. MaxScore]
        /\ <<>> \in Seq(RoomEvent)
        /\ CloseRoundAndProgress(round, score, teamScore, <<>>)
    BY <1>9 DEF NextQuestion, TypeOK
  <2>. QED
    BY <1>8, <2>1
<1>10. ASSUME RoundTimeout PROVE Lifecycle!Next \/ UNCHANGED Lifecycle!lifecycleVars
  <2>1. CASE TimeoutIgnored \/ TimeoutEarly
    BY <1>1, <1>10, <2>1 DEF RoundTimeout, TimeoutIgnored, TimeoutEarly
  <2>2. CASE TimeoutExpired
    <3>1. /\ round \in Round /\ lifecycle = "InProgress" /\ UNCHANGED bank
          /\ score \in [Player -> 0 .. MaxScore]
          /\ teamScore \in [Team -> 0 .. MaxScore]
          /\ <<>> \in Seq(RoomEvent)
          /\ CloseRoundAndProgress(round, score, teamScore, <<>>)
      BY <1>10, <2>2 DEF RoundTimeout, TimeoutExpired, TypeOK
    <3>. QED
      BY <1>8, <3>1
  <2>. QED
    BY <1>10, <2>1, <2>2 DEF RoundTimeout
<1>11. ASSUME NEW p \in Player, NEW q \in QuestionId, NEW correct \in BOOLEAN,
              SubmitAnswer(p, q, correct)
       PROVE  Lifecycle!Next \/ UNCHANGED Lifecycle!lifecycleVars
  <2>. DEFINE answered == [round EXCEPT !.locked = @ \cup {p}]
              evs == <<Event("AnswerLocked", p), Event("ScoreUpdated", p)>>
  <2>1. round \in Round /\ round # None /\ lifecycle = "InProgress" /\ UNCHANGED bank
    BY <1>11 DEF SubmitAnswer, TypeOK
  <2>2. /\ answered \in Round /\ answered.index = round.index
        /\ answered.team = round.team
    BY <2>1 DEF Round
  <2>3. evs \in Seq(RoomEvent)
    <3>1. Event("AnswerLocked", p) \in RoomEvent /\ Event("ScoreUpdated", p) \in RoomEvent
      BY EventType DEF EventKind
    <3>. QED
      BY <3>1
  <2>4. \/ CloseRoundAndProgress(answered, score', teamScore', evs)
        \/ round' = answered /\ UNCHANGED lifecycle
    BY <1>11 DEF SubmitAnswer
  <2>. HIDE DEF answered, evs
  <2>5. /\ score' \in [Player -> 0 .. MaxScore]
        /\ teamScore' \in [Team -> 0 .. MaxScore]
    BY DEF TypeOK
  <2>6. CASE CloseRoundAndProgress(answered, score', teamScore', evs)
    BY <1>8, <2>1, <2>2, <2>3, <2>5, <2>6
  <2>7. CASE round' = answered /\ UNCHANGED lifecycle
    <3>1. round' # None
      BY <2>1, <2>7 DEF PhaseInv, RoundMatchesPhase
    <3>. QED
      BY <2>1, <2>2, <2>7, <3>1 DEF Lifecycle!lifecycleVars
  <2>. QED
    BY <2>4, <2>6, <2>7
<1>12. CASE TimerStep
  BY <1>1, <1>12 DEF TimerStep, ArmedTimerFires, DetachedTimerFires
<1>13. ASSUME NEW s \in ClockSteps, Tick(s) PROVE UNCHANGED Lifecycle!lifecycleVars
  <2>1. CASE round = None
    BY <1>1, <1>13, <2>1 DEF Tick
  <2>2. CASE round # None
    <3>1. round \in Round
      BY <2>2 DEF TypeOK
    <3>2. round' = [round EXCEPT !.endsIn =
                        IF round.endsIn - s < -1 THEN -1 ELSE round.endsIn - s]
      BY <1>13, <2>2 DEF Tick
    <3>3. round'.index = round.index /\ round'.team = round.team
      BY <3>1, <3>2 DEF Round
    <3>4. round' # None
      <4>1. (IF round.endsIn - s < -1 THEN -1 ELSE round.endsIn - s) \in -1 .. RoundTicks
        BY <3>1, TimeAssumption DEF Round
      <4>2. round' \in Round
        BY <3>1, <3>2, <4>1 DEF Round
      <4>. QED
        BY <4>2, NoneAssumption
    <3>. QED
      BY <1>13, <2>2, <3>3, <3>4 DEF Tick, Lifecycle!lifecycleVars
  <2>. QED
    BY <2>1, <2>2
<1>14. CASE UNCHANGED vars
  BY <1>1, <1>14 DEF vars
<1>. QED
  BY <1>2, <1>3, <1>4, <1>5, <1>6, <1>7, <1>9, <1>10, <1>11, <1>12, <1>13, <1>14
  DEF Next, PlayerCommand, OwnerCommand, Time, Lifecycle!Next

\* No timeout, answer or owner command, however late or repeated, skips or
\* repeats a question or ends a game before its last one.
THEOREM Implementation == Spec => ImplementsLifecycle
<1>1. Init => Lifecycle!Init
  BY DEF Init, Lifecycle!Init
<1>. QED
  BY <1>1, StepImplements, TypeCorrect, PhaseInvHolds, PTL
  DEF Spec, ImplementsLifecycle, Lifecycle!Spec

---------------------------------------------------------------------------
(* Points.                                                                 *)

\* Somebody who has not answered in this turn still has the turn to spend.
TurnUnspent ==
    round # None =>
        \A p \in Player : teamOf[p] = round.team /\ p \notin round.locked
            => score[p] + ScoreDelta <= ScoreDelta * turns[round.team]

ScoreInv ==
    /\ \A p \in Player : teamOf[p] = None => score[p] = 0
    /\ OneScorePerTurn
    /\ TurnUnspent

\* Closing a round, with an answer (sc # score) or without.
LEMMA ProgressKeepsScoreInv ==
    ASSUME TypeOK, NEW r \in Round,
           NEW sc \in [Player -> 0 .. MaxScore], NEW ts \in [Team -> 0 .. MaxScore],
           NEW evs \in Seq(RoomEvent),
           CloseRoundAndProgress(r, sc, ts, evs),
           score' = sc, UNCHANGED membership,
           \A p \in Player : teamOf[p] = None => sc[p] = 0,
           \A p \in Player : teamOf[p] # None => sc[p] <= ScoreDelta * turns[teamOf[p]],
           \A p \in Player : teamOf[p] = r.team /\ p \notin r.locked
               => sc[p] + ScoreDelta <= ScoreDelta * turns[r.team]
    PROVE  ScoreInv'
<1>0. /\ teamOf \in [Player -> Team \cup {None}]
      /\ turns \in [Team -> Nat]
      /\ UNCHANGED teamOf
      /\ \A p \in Player : sc[p] \in Nat
  BY ScoreAssumption DEF TypeOK, membership
<1>1. CASE round' = r /\ UNCHANGED turns
  BY <1>0, <1>1 DEF ScoreInv, OneScorePerTurn, TurnUnspent
<1>2. CASE StartRound(bank, r.index + 1, OtherTeam(r.team))
  <2>. DEFINE t == OtherTeam(r.team)
  <2>1. /\ t \in Team
        /\ round'.team = t /\ round'.locked = {}
        /\ turns' = [turns EXCEPT ![t] = turns[t] + 1]
    BY <1>2 DEF StartRound, NewRound, OtherTeam, Team
  <2>. HIDE DEF t
  <2>2. \A x \in Team : turns'[x] \in Nat /\ turns'[x] >= turns[x]
    BY <1>0, <2>1
  <2>3. turns'[t] = turns[t] + 1
    BY <1>0, <2>1
  <2>4. ASSUME NEW p \in Player, teamOf[p] # None
        PROVE  sc[p] <= ScoreDelta * turns'[teamOf[p]]
    BY <1>0, <2>2, <2>4 DEF ScoreDelta
  <2>5. ASSUME NEW p \in Player, teamOf[p] = t
        PROVE  sc[p] + ScoreDelta <= ScoreDelta * turns'[t]
    <3>1. sc[p] <= 100 * turns[t] /\ turns[t] \in Nat /\ sc[p] \in Nat
      BY <1>0, <2>1, <2>5, NoneAssumption DEF ScoreDelta
    <3>. QED
      BY <2>3, <3>1 DEF ScoreDelta
  <2>. QED
    BY <1>0, <2>1, <2>4, <2>5 DEF ScoreInv, OneScorePerTurn, TurnUnspent
<1>. QED
  BY <1>1, <1>2 DEF CloseRoundAndProgress

LEMMA InitScores == Init => ScoreInv
  BY NoneAssumption DEF Init, ScoreInv, OneScorePerTurn, TurnUnspent, ScoreDelta

LEMMA NextScores == TypeOK /\ PhaseInv /\ ScoreInv /\ [Next]_vars => ScoreInv'
<1>. SUFFICES ASSUME TypeOK, PhaseInv, ScoreInv, [Next]_vars PROVE ScoreInv'
  OBVIOUS
<1>0. /\ teamOf \in [Player -> Team \cup {None}]
      /\ turns \in [Team -> Nat]
      /\ score \in [Player -> 0 .. MaxScore]
      /\ \A p \in Player : score[p] \in Nat
      /\ teamScore \in [Team -> 0 .. MaxScore]
      /\ <<>> \in Seq(RoomEvent)
  BY ScoreAssumption DEF TypeOK
\* Steps that leave membership, points, turns and the round alone.
<1>1. ASSUME UNCHANGED <<teamOf, score, turns>>,
             \/ UNCHANGED round
             \/ /\ round # None
                /\ round'.team = round.team
                /\ round'.locked = round.locked
      PROVE  ScoreInv'
  BY <1>1 DEF ScoreInv, OneScorePerTurn, TurnUnspent
<1>2. ASSUME NEW p \in Player, Join(p) PROVE ScoreInv'
  <2>1. round' = None /\ UNCHANGED <<score, turns>>
    BY <1>2 DEF Join, PhaseInv, RoundMatchesPhase, scores
  <2>2. /\ teamOf' \in [Player -> Team \cup {None}]
        /\ \A x \in Player : x # p => teamOf'[x] = teamOf[x]
        /\ teamOf'[p] # None /\ score[p] = 0
    BY <1>0, <1>2, NoneAssumption DEF Join, PickTeam, Team, ScoreInv
  <2>3. ASSUME NEW x \in Player, teamOf'[x] # None
        PROVE  score[x] <= ScoreDelta * turns[teamOf'[x]]
    <3>1. CASE x = p
      <4>1. turns[teamOf'[p]] \in Nat /\ score[p] = 0
        BY <1>0, <2>2
      <4>. QED
        BY <3>1, <4>1 DEF ScoreDelta
    <3>2. CASE x # p
      BY <2>2, <2>3, <3>2 DEF ScoreInv, OneScorePerTurn
    <3>. QED
      BY <3>1, <3>2
  <2>. QED
    BY <2>1, <2>2, <2>3 DEF ScoreInv, OneScorePerTurn, TurnUnspent
<1>3. ASSUME NEW p \in Player, Leave(p) PROVE ScoreInv'
  BY <1>1, <1>3 DEF Leave, scores
<1>4. ASSUME NEW u \in User, NEW p \in Player, KickPlayer(u, p) PROVE ScoreInv'
  BY <1>1, <1>4 DEF KickPlayer, scores
<1>5. ASSUME NEW u \in User, NEW b \in Banks, StartGame(u, b) PROVE ScoreInv'
  <2>1. /\ "A" \in Team
        /\ round'.team = "A" /\ round'.locked = {}
        /\ turns' = [turns EXCEPT !["A"] = turns["A"] + 1]
        /\ UNCHANGED <<teamOf, score>>
    BY <1>5 DEF StartGame, StartRound, NewRound, Team, membership, scores
  <2>2. /\ turns'["A"] = turns["A"] + 1
        /\ \A x \in Team : turns'[x] \in Nat /\ turns'[x] >= turns[x]
    BY <1>0, <2>1
  <2>3. ASSUME NEW p \in Player, teamOf[p] # None
        PROVE  score[p] <= ScoreDelta * turns'[teamOf[p]]
    <3>1. score[p] <= ScoreDelta * turns[teamOf[p]] /\ teamOf[p] \in Team
      BY <1>0, <2>3 DEF ScoreInv, OneScorePerTurn
    <3>. QED
      BY <1>0, <2>2, <3>1 DEF ScoreDelta
  <2>4. ASSUME NEW p \in Player, teamOf[p] = "A"
        PROVE  score[p] + ScoreDelta <= ScoreDelta * turns'["A"]
    <3>1. score[p] <= 100 * turns["A"] /\ turns["A"] \in Nat /\ score[p] \in Nat
      BY <1>0, <2>1, <2>4, NoneAssumption DEF ScoreInv, OneScorePerTurn, ScoreDelta
    <3>. QED
      BY <2>2, <3>1 DEF ScoreDelta
  <2>. QED
    BY <2>1, <2>3, <2>4 DEF ScoreInv, OneScorePerTurn, TurnUnspent
<1>6. ASSUME NEW u \in User, PauseGame(u) PROVE ScoreInv'
  BY <1>1, <1>6 DEF PauseGame, membership, scores
<1>7. ASSUME NEW u \in User, ResumeGame(u) PROVE ScoreInv'
  <2>1. /\ round \in Round /\ round # None
        /\ \E left : round' = [round EXCEPT !.endsIn = left]
    BY <1>7 DEF ResumeGame, TypeOK, PhaseInv, RoundMatchesPhase
  <2>2. round'.team = round.team /\ round'.locked = round.locked
    BY <2>1 DEF Round
  <2>. QED
    BY <1>1, <1>7, <2>1, <2>2 DEF ResumeGame, membership, scores
<1>8. ASSUME round \in Round, round # None, UNCHANGED <<membership, score>>,
             CloseRoundAndProgress(round, score, teamScore, <<>>)
      PROVE  ScoreInv'
  BY <1>0, <1>8, ProgressKeepsScoreInv DEF ScoreInv, OneScorePerTurn, TurnUnspent
<1>9. ASSUME NEW u \in User, NextQuestion(u) PROVE ScoreInv'
  BY <1>8, <1>9 DEF NextQuestion, TypeOK, scores
<1>10. ASSUME RoundTimeout PROVE ScoreInv'
  <2>1. CASE TimeoutIgnored \/ TimeoutEarly
    BY <1>1, <1>10, <2>1 DEF RoundTimeout, TimeoutIgnored, TimeoutEarly, membership, scores
  <2>2. CASE TimeoutExpired
    BY <1>8, <1>10, <2>2 DEF RoundTimeout, TimeoutExpired, TypeOK, scores
  <2>. QED
    BY <1>10, <2>1, <2>2 DEF RoundTimeout
<1>11. ASSUME NEW p \in Player, NEW q \in QuestionId, NEW correct \in BOOLEAN,
              SubmitAnswer(p, q, correct)
       PROVE  ScoreInv'
  <2>. DEFINE delta == IF correct THEN ScoreDelta ELSE 0
              answered == [round EXCEPT !.locked = @ \cup {p}]
              evs == <<Event("AnswerLocked", p), Event("ScoreUpdated", p)>>
  <2>1. /\ round \in Round /\ round # None /\ round.team \in Team
        /\ teamOf[p] = round.team /\ p \notin round.locked
        /\ UNCHANGED membership
    BY <1>11 DEF SubmitAnswer, NotYetAnswered, TypeOK, Round
  <2>2. /\ answered \in Round
        /\ answered.team = round.team
        /\ answered.locked = round.locked \cup {p}
    BY <2>1 DEF Round
  <2>3. evs \in Seq(RoomEvent)
    <3>1. Event("AnswerLocked", p) \in RoomEvent /\ Event("ScoreUpdated", p) \in RoomEvent
      BY EventType DEF EventKind
    <3>. QED
      BY <3>1
  <2>4. delta \in Nat /\ delta <= ScoreDelta
    BY DEF ScoreDelta
  <2>5. /\ score' = [score EXCEPT ![p] = SaturatingAdd(score[p], delta)]
        /\ \/ CloseRoundAndProgress(answered, score', teamScore', evs)
           \/ round' = answered /\ UNCHANGED turns
    BY <1>11 DEF SubmitAnswer
  <2>. HIDE DEF delta, answered, evs
  <2>6. /\ score'[p] = SaturatingAdd(score[p], delta)
        /\ \A x \in Player : x # p => score'[x] = score[x]
    BY <1>0, <2>5
  <2>7. SaturatingAdd(score[p], delta) <= score[p] + ScoreDelta
    <3>1. score[p] \in Nat /\ delta \in Nat /\ delta <= ScoreDelta
      BY <1>0, <2>4
    <3>. QED
      BY <3>1, ScoreAssumption DEF SaturatingAdd, ScoreDelta
  <2>8. TypeOK'
    BY NextTyped
  <2>9. /\ score' \in [Player -> 0 .. MaxScore]
        /\ teamScore' \in [Team -> 0 .. MaxScore]
        /\ \A x \in Player : score'[x] \in Nat
    BY <2>8, ScoreAssumption DEF TypeOK
  <2>10. \A x \in Player : teamOf[x] = None => score'[x] = 0
    BY <2>1, <2>6, NoneAssumption DEF ScoreInv
  <2>11. ASSUME NEW x \in Player, teamOf[x] # None
         PROVE  score'[x] <= ScoreDelta * turns[teamOf[x]]
    <3>1. CASE x = p
      <4>1. score[p] + ScoreDelta <= ScoreDelta * turns[round.team]
        BY <2>1 DEF ScoreInv, TurnUnspent
      <4>2. /\ turns[round.team] \in Nat /\ score[p] \in Nat /\ score'[p] \in Nat
            /\ score'[p] <= score[p] + ScoreDelta
        BY <1>0, <2>1, <2>6, <2>7, <2>9
      <4>. QED
        BY <2>1, <3>1, <4>1, <4>2 DEF ScoreDelta
    <3>2. CASE x # p
      BY <2>6, <2>11, <3>2 DEF ScoreInv, OneScorePerTurn
    <3>. QED
      BY <3>1, <3>2
  <2>12. ASSUME NEW x \in Player, teamOf[x] = answered.team, x \notin answered.locked
         PROVE  score'[x] + ScoreDelta <= ScoreDelta * turns[answered.team]
    BY <2>1, <2>2, <2>6, <2>12 DEF ScoreInv, TurnUnspent
  <2>13. CASE CloseRoundAndProgress(answered, score', teamScore', evs)
    BY <2>1, <2>2, <2>3, <2>9, <2>10, <2>11, <2>12, <2>13, ProgressKeepsScoreInv
  <2>14. CASE round' = answered /\ UNCHANGED turns
    BY <2>1, <2>10, <2>11, <2>12, <2>14 DEF ScoreInv, OneScorePerTurn, TurnUnspent, membership
  <2>. QED
    BY <2>5, <2>13, <2>14
<1>12. CASE TimerStep
  BY <1>1, <1>12 DEF TimerStep, ArmedTimerFires, DetachedTimerFires, membership, scores
<1>13. ASSUME NEW s \in ClockSteps, Tick(s) PROVE ScoreInv'
  <2>1. CASE round = None
    BY <1>1, <1>13, <2>1 DEF Tick, membership, scores
  <2>2. CASE round # None
    <3>1. round \in Round
      BY <2>2 DEF TypeOK
    <3>2. round'.team = round.team /\ round'.locked = round.locked
      BY <1>13, <2>2, <3>1 DEF Tick, Round
    <3>. QED
      BY <1>1, <1>13, <2>2, <3>2 DEF Tick, membership, scores
  <2>. QED
    BY <2>1, <2>2
<1>14. CASE UNCHANGED vars
  BY <1>1, <1>14 DEF vars, membership, scores
<1>. QED
  BY <1>2, <1>3, <1>4, <1>5, <1>6, <1>7, <1>9, <1>10, <1>11, <1>12, <1>13, <1>14
  DEF Next, PlayerCommand, OwnerCommand, Time

\* Over all pauses, stale timeouts and restarts a player scores at most once
\* in each turn its team was given.
THEOREM ScorePerTurn == Spec => []OneScorePerTurn
<1>1. ScoreInv => OneScorePerTurn
  BY DEF ScoreInv
<1>. QED
  BY <1>1, InitScores, NextScores, TypeCorrect, PhaseInvHolds, PTL DEF Spec

---------------------------------------------------------------------------
(* Answers are counted, and players leave.                                 *)

\* Everybody present in the active team has answered, yet the round runs:
\* then a member who had not answered has left.
RoundWaits ==
    Members(round.team) # {} /\ Members(round.team) \subseteq round.locked
    => \E p \in Player \ players : teamOf[p] = round.team /\ p \notin round.locked

\* The answers that are counted are those of the active team, and a paused
\* round waits for the same reason as a running one.
AnswersInv ==
    /\ IsFiniteSet(players)
    /\ round # None => /\ IsFiniteSet(round.locked)
                       /\ \A p \in round.locked : teamOf[p] = round.team
    /\ lifecycle \in {"InProgress", "Paused"} => RoundWaits

\* Counting decides as inclusion does between two sets one of which contains
\* the other.
LEMMA CountedAll ==
    ASSUME NEW S, NEW T, IsFiniteSet(S), IsFiniteSet(T), S # {}
    PROVE  /\ S \subseteq T => AllAnswered(T, Cardinality(S))
           /\ T \subseteq S /\ AllAnswered(T, Cardinality(S)) => S = T
<1>1. Cardinality(S) \in Nat /\ Cardinality(T) \in Nat /\ Cardinality(S) # 0
  BY FS_CardinalityType, FS_EmptySet
<1>2. S \subseteq T => Cardinality(S) <= Cardinality(T)
  BY FS_Subset
<1>3. T \subseteq S => Cardinality(T) <= Cardinality(S) /\ (Cardinality(S) = Cardinality(T) => S = T)
  BY FS_Subset
<1>. QED
  BY <1>1, <1>2, <1>3 DEF AllAnswered

\* Whoever closes the round: the next one, if there is one, has no answers.
LEMMA ProgressKeepsAnswers ==
    ASSUME TypeOK, AnswersInv, UNCHANGED membership,
           NEW r \in Round, NEW sc, NEW ts, NEW evs,
           IsFiniteSet(r.locked), \A p \in r.locked : teamOf[p] = r.team,
           CloseRoundAndProgress(r, sc, ts, evs)
    PROVE  AnswersInv'
<1>1. CASE round' = r /\ FinishGame(sc, ts)
  BY <1>1 DEF AnswersInv, FinishGame, membership
<1>2. CASE StartRound(bank, r.index + 1, OtherTeam(r.team))
  <2>1. round'.locked = {}
    BY <1>2 DEF StartRound, NewRound
  <2>2. RoundWaits'
    BY <2>1 DEF RoundWaits
  <2>. QED
    BY <2>1, <2>2, FS_EmptySet DEF AnswersInv, membership
<1>. QED
  BY <1>1, <1>2 DEF CloseRoundAndProgress

LEMMA InitAnswers == Init => AnswersInv
  BY FS_EmptySet DEF Init, AnswersInv

\* A player who leaves either had answered, and the round waits for the same
\* member as before, or is a departed member who had not.
LEMMA DepartureKeepsAnswers ==
    ASSUME TypeOK, PhaseInv, AnswersInv, NEW p \in Player,
           p \in players, players' = players \ {p}, UNCHANGED <<teamOf, round>>,
           lifecycle' \in {"InProgress", "Paused"} => lifecycle' = lifecycle
    PROVE  AnswersInv'
<1>1. IsFiniteSet(players')
  BY FS_RemoveElement DEF AnswersInv
<1>2. ASSUME lifecycle' \in {"InProgress", "Paused"},
             Members(round.team)' # {}, Members(round.team)' \subseteq round.locked
      PROVE  \E x \in Player \ players' : teamOf[x] = round.team /\ x \notin round.locked
  <2>1. \A x : x \in Members(round.team)' <=> x \in Members(round.team) /\ x # p
    BY DEF Members
  <2>2. CASE teamOf[p] = round.team /\ p \notin round.locked
    BY <2>2
  <2>3. CASE ~ (teamOf[p] = round.team /\ p \notin round.locked)
    <3>1. Members(round.team) # {} /\ Members(round.team) \subseteq round.locked
      BY <1>2, <2>1, <2>3 DEF Members
    <3>. QED
      BY <1>2, <3>1 DEF AnswersInv, RoundWaits
  <2>. QED
    BY <2>2, <2>3
<1>. QED
  BY <1>1, <1>2 DEF AnswersInv, RoundWaits
LEMMA NextAnswers == TypeOK /\ PhaseInv /\ AnswersInv /\ [Next]_vars => AnswersInv'
<1>. SUFFICES ASSUME TypeOK, PhaseInv, AnswersInv, [Next]_vars PROVE AnswersInv'
  OBVIOUS
<1>0. /\ round \in Round \cup {None}
      /\ lifecycle \in {"InProgress", "Paused"} => round # None
      /\ lifecycle = "Lobby" => round = None
  BY DEF TypeOK, PhaseInv, RoundMatchesPhase
\* Steps that leave membership, the answers and the phase alone.
<1>1. ASSUME UNCHANGED membership,
             lifecycle' \in {"InProgress", "Paused"} => lifecycle \in {"InProgress", "Paused"},
             \/ UNCHANGED round
             \/ /\ round # None
                /\ round'.team = round.team
                /\ round'.locked = round.locked
      PROVE  AnswersInv'
  <2>1. Members(round.team)' = {p \in players : teamOf[p] = round'.team}
    BY <1>1 DEF Members, membership
  <2>. QED
    BY <1>0, <1>1, <2>1 DEF AnswersInv, RoundWaits, Members, membership
<1>2. ASSUME NEW p \in Player, Join(p) PROVE AnswersInv'
  <2>1. round' = None /\ lifecycle' = "Lobby" /\ players' = players \cup {p}
    BY <1>0, <1>2 DEF Join
  <2>2. IsFiniteSet(players')
    BY <2>1, FS_AddElement DEF AnswersInv
  <2>. QED
    BY <2>1, <2>2 DEF AnswersInv
<1>3. ASSUME NEW p \in Player, Leave(p) PROVE AnswersInv'
  BY <1>3, DepartureKeepsAnswers DEF Leave
<1>4. ASSUME NEW u \in User, NEW p \in Player, KickPlayer(u, p) PROVE AnswersInv'
  BY <1>4, DepartureKeepsAnswers DEF KickPlayer
<1>5. ASSUME NEW u \in User, NEW b \in Banks, StartGame(u, b) PROVE AnswersInv'
  <2>1. round'.locked = {} /\ UNCHANGED membership
    BY <1>5 DEF StartGame, StartRound, NewRound
  <2>2. RoundWaits'
    BY <2>1 DEF RoundWaits
  <2>. QED
    BY <2>1, <2>2, FS_EmptySet DEF AnswersInv, membership
<1>6. ASSUME NEW u \in User, PauseGame(u) PROVE AnswersInv'
  BY <1>1, <1>6 DEF PauseGame
<1>7. ASSUME NEW u \in User, ResumeGame(u) PROVE AnswersInv'
  <2>1. /\ round \in Round /\ round # None
        /\ \E left : round' = [round EXCEPT !.endsIn = left]
    BY <1>0, <1>7 DEF ResumeGame
  <2>2. round'.team = round.team /\ round'.locked = round.locked
    BY <2>1 DEF Round
  <2>. QED
    BY <1>1, <1>7, <2>1, <2>2 DEF ResumeGame
<1>8. ASSUME round # None, UNCHANGED membership,
             CloseRoundAndProgress(round, score, teamScore, <<>>)
      PROVE  AnswersInv'
  BY <1>0, <1>8, ProgressKeepsAnswers DEF AnswersInv
<1>9. ASSUME NEW u \in User, NextQuestion(u) PROVE AnswersInv'
  BY <1>8, <1>9 DEF NextQuestion
<1>10. ASSUME RoundTimeout PROVE AnswersInv'
  <2>1. CASE TimeoutIgnored \/ TimeoutEarly
    BY <1>1, <1>10, <2>1 DEF RoundTimeout, TimeoutIgnored, TimeoutEarly
  <2>2. CASE TimeoutExpired
    BY <1>8, <1>10, <2>2 DEF RoundTimeout, TimeoutExpired
  <2>. QED
    BY <1>10, <2>1, <2>2 DEF RoundTimeout
<1>11. ASSUME NEW p \in Player, NEW q \in QuestionId, NEW correct \in BOOLEAN,
              SubmitAnswer(p, q, correct)
       PROVE  AnswersInv'
  <2>. DEFINE answered == [round EXCEPT !.locked = round.locked \cup {p}]
              evs == <<Event("AnswerLocked", p), Event("ScoreUpdated", p)>>
  <2>1. /\ round \in Round /\ round # None
        /\ p \in players /\ teamOf[p] = round.team
        /\ UNCHANGED membership
    BY <1>0, <1>11 DEF SubmitAnswer
  <2>2. /\ answered \in Round
        /\ answered.team = round.team
        /\ answered.locked = round.locked \cup {p}
    BY <2>1 DEF Round
  <2>3. /\ IsFiniteSet(answered.locked)
        /\ \A x \in answered.locked : teamOf[x] = answered.team
    BY <2>1, <2>2, FS_AddElement DEF AnswersInv
  <2>4. CASE CloseRoundAndProgress(answered, score', teamScore', evs)
    BY <2>1, <2>2, <2>3, <2>4, ProgressKeepsAnswers
  <2>5. CASE /\ ~ AllAnswered(answered.locked, Cardinality(Members(round.team)))
             /\ round' = answered
    <3>1. IsFiniteSet(Members(round.team))
      BY FS_Subset DEF Members, AnswersInv
    <3>2. ~ (Members(round.team) \subseteq answered.locked)
      BY <2>1, <2>3, <2>5, <3>1, CountedAll DEF Members
    <3>3. Members(round.team)' = Members(round.team)
      BY <2>1, <2>2, <2>5 DEF Members, membership
    <3>. QED
      BY <2>1, <2>3, <2>5, <3>2, <3>3 DEF AnswersInv, RoundWaits, membership
  <2>. QED
    BY <1>11, <2>4, <2>5 DEF SubmitAnswer
<1>12. CASE TimerStep
  BY <1>1, <1>12 DEF TimerStep, ArmedTimerFires, DetachedTimerFires
<1>13. ASSUME NEW s \in ClockSteps, Tick(s) PROVE AnswersInv'
  <2>1. CASE round = None
    BY <1>1, <1>13, <2>1 DEF Tick
  <2>2. CASE round # None
    <3>1. round'.team = round.team /\ round'.locked = round.locked
      BY <1>0, <1>13, <2>2 DEF Tick, Round
    <3>. QED
      BY <1>1, <1>13, <2>2, <3>1 DEF Tick
  <2>. QED
    BY <2>1, <2>2
<1>14. CASE UNCHANGED vars
  BY <1>1, <1>14 DEF vars
<1>. QED
  BY <1>2, <1>3, <1>4, <1>5, <1>6, <1>7, <1>9, <1>10, <1>11, <1>12, <1>13, <1>14
  DEF Next, PlayerCommand, OwnerCommand, Time

THEOREM AnswersInvHolds == Spec => []AnswersInv
  BY InitAnswers, NextAnswers, TypeCorrect, PhaseInvHolds, PTL DEF Spec

\* A running round that everybody present in the active team has answered
\* has lost a member who had not: nothing but a departure leaves it open.
THEOREM AnsweredRoundWaits == Spec => []AnsweredRoundWaitsForDeparted
<1>1. AnswersInv => AnsweredRoundWaitsForDeparted
  BY DEF AnswersInv, RoundWaits, AnsweredRoundWaitsForDeparted
<1>. QED
  BY <1>1, AnswersInvHolds, PTL

\* An answer ends the round over somebody's head only where an answer of a
\* departed member was counted.
THEOREM AnswerCloses == Spec => AnswerClosesForAll
<1>. DEFINE Closes(p) ==
              /\ emitted' # <<>> /\ emitted'[1] = Event("AnswerLocked", p)
              /\ turns' # turns \/ lifecycle' = "Finished"
              /\ ~ (Members(round.team) \subseteq round.locked \cup {p})
            ForAll == \A p \in Player : Closes(p) => ~ (round.locked \subseteq players)
<1>1. TypeOK /\ PhaseInv /\ AnswersInv /\ [Next]_vars => [ForAll]_vars
  <2>. SUFFICES ASSUME TypeOK, PhaseInv, AnswersInv, Next, NEW p \in Player, Closes(p),
                       round.locked \subseteq players
                PROVE  FALSE
    OBVIOUS
  <2>1. ASSUME NEW q \in QuestionId, NEW correct \in BOOLEAN, NEW x \in Player,
               SubmitAnswer(x, q, correct)
        PROVE  FALSE
    <3>. DEFINE answered == [round EXCEPT !.locked = round.locked \cup {x}]
                evs == <<Event("AnswerLocked", x), Event("ScoreUpdated", x)>>
    <3>1. /\ round \in Round /\ round # None
          /\ x \in players /\ teamOf[x] = round.team /\ lifecycle = "InProgress"
      BY <2>1 DEF SubmitAnswer, TypeOK
    <3>2. answered.locked = round.locked \cup {x}
      BY <3>1 DEF Round
    <3>3. emitted'[1] = Event("AnswerLocked", x)
      <4>1. evs \in Seq(RoomEvent)
        BY EventType DEF EventKind
      <4>2. \/ emitted' = evs
            \/ \E tail \in Seq(RoomEvent) : emitted' = evs \o tail
        <5>1. CASE CloseRoundAndProgress(answered, score', teamScore', evs)
          <6>1. answered \in Round /\ answered.qid \in QuestionId
            BY <3>1 DEF Round
          <6>2. bank \in Seq(QuestionId) /\ answered.index \in Nat
            BY <6>1 DEF TypeOK, Round
          <6>3. \A about \in QuestionId \cup {None}, kind \in EventKind :
                   Event(kind, about) \in RoomEvent
            BY EventType
          <6>4. answered.index + 1 < Len(bank) => bank[answered.index + 2] \in QuestionId
            BY <6>2
          <6>5. <<Event("RoundEnded", answered.qid), Event("GameEnded", None)>> \in Seq(RoomEvent)
            BY <6>1, <6>3 DEF EventKind
          <6>6. answered.index + 1 < Len(bank) =>
                  <<Event("RoundEnded", answered.qid),
                    Event("QuestionStarted", bank[answered.index + 2])>> \in Seq(RoomEvent)
            BY <6>1, <6>3, <6>4 DEF EventKind
          <6>. QED
            BY <5>1, <6>5, <6>6 DEF CloseRoundAndProgress
        <5>2. CASE emitted' = evs
          BY <5>2
        <5>. QED
          BY <2>1, <5>1, <5>2 DEF SubmitAnswer
      <4>. QED
        BY <4>1, <4>2
    <3>4. x = p
      BY <3>3 DEF Event
    <3>5. AllAnswered(answered.locked, Cardinality(Members(round.team)))
      BY <2>1, <3>1 DEF SubmitAnswer
    <3>6. answered.locked \subseteq Members(round.team)
      BY <3>1, <3>2 DEF Members, AnswersInv
    <3>7. IsFiniteSet(Members(round.team)) /\ IsFiniteSet(answered.locked)
      BY <3>1, <3>2, FS_Subset, FS_AddElement DEF Members, AnswersInv
    <3>8. Members(round.team) = answered.locked
      BY <3>1, <3>5, <3>6, <3>7, CountedAll DEF Members
    <3>. QED
      BY <3>2, <3>4, <3>8
  <2>2. ASSUME emitted' = <<>> PROVE FALSE
    BY <2>2
  <2>3. ASSUME NEW kind, NEW about, kind # "AnswerLocked", emitted'[1] = Event(kind, about)
        PROVE  FALSE
    BY <2>3 DEF Event
  <2>4. CASE PlayerCommand
    <3>1. ASSUME NEW x \in Player, Join(x) PROVE FALSE
      BY <2>3, <3>1 DEF Join
    <3>2. ASSUME NEW x \in Player, Leave(x) PROVE FALSE
      BY <2>3, <3>2 DEF Leave
    <3>. QED
      BY <2>1, <2>4, <3>1, <3>2 DEF PlayerCommand
  <2>5. ASSUME NEW r, CloseRoundAndProgress(r, score, teamScore, <<>>)
        PROVE  FALSE
    <3>1. emitted'[1] = Event("RoundEnded", r.qid)
      BY <2>5 DEF CloseRoundAndProgress
    <3>. QED
      BY <2>3, <3>1
  <2>6. CASE OwnerCommand
    <3>1. ASSUME NEW u \in User, NEW x \in Player, KickPlayer(u, x) PROVE FALSE
      BY <2>3, <3>1 DEF KickPlayer
    <3>2. ASSUME NEW u \in User, NEW b \in Banks, StartGame(u, b) PROVE FALSE
      BY <2>3, <3>2 DEF StartGame
    <3>. QED
      BY <2>2, <2>5, <2>6, <3>1, <3>2 DEF OwnerCommand, PauseGame, ResumeGame, NextQuestion
  <2>7. CASE RoundTimeout
    BY <2>2, <2>5, <2>7 DEF RoundTimeout, TimeoutIgnored, TimeoutEarly, TimeoutExpired
  <2>8. CASE TimerStep \/ Time
    BY <2>2, <2>8 DEF TimerStep, Time, ArmedTimerFires, DetachedTimerFires, Tick
  <2>. QED
    BY <2>4, <2>6, <2>7, <2>8 DEF Next
<1>. QED
  BY <1>1, TypeCorrect, PhaseInvHolds, AnswersInvHolds, PTL DEF Spec, AnswerClosesForAll

---------------------------------------------------------------------------
(* Sums over finite sets, which the library only defines.                  *)

\* Induction over the subsets of a finite set: what holds of a subset whenever
\* it holds of all smaller ones holds of them all, since a smallest
\* counterexample would be one.
LEMMA SmallestBadSubset ==
    ASSUME NEW S, IsFiniteSet(S), NEW Good,
           \A T \in SUBSET S :
              (\A U \in SUBSET T : U # T => U \in Good) => T \in Good
    PROVE  SUBSET S \subseteq Good
<1>. DEFINE Bad == (SUBSET S) \ Good
<1>. SUFFICES ASSUME Bad # {} PROVE FALSE
  OBVIOUS
<1>1. IsWellFoundedOn(StrictSubsetOrdering(S), SUBSET S)
  <2>1. IsWellFoundedOn(StrictSubsetOrdering(S), FiniteSubsetsOf(S))
    BY FS_StrictSubsetOrderingWellFounded
  <2>2. FiniteSubsetsOf(S) = SUBSET S
    BY FS_FiniteSubsetsOfFinite
  <2>. QED
    BY <2>1, <2>2
<1>2. PICK T \in Bad : \A U \in Bad : <<U, T>> \notin StrictSubsetOrdering(S)
  <2>. HIDE DEF Bad
  <2>1. Bad \subseteq SUBSET S
    BY DEF Bad
  <2>. QED
    BY <1>1, <2>1, WFMin
<1>3. ASSUME NEW U \in SUBSET T, U # T PROVE U \in Good
  <2>1. <<U, T>> \in StrictSubsetOrdering(S) /\ U \in SUBSET S
    BY <1>3 DEF StrictSubsetOrdering
  <2>. QED
    BY <1>2, <2>1
<1>4. T \in SUBSET S /\ T \notin Good
  BY <1>2
<1>5. T \in Good
  <2>. HIDE DEF Bad
  <2>. QED
    BY <1>3, <1>4
<1>. QED
  BY <1>4, <1>5

\* The recursive function behind MapThenSumSet, for a function f: it takes the
\* elements out of a set in the order CHOOSE takes them.
First(s) == CHOOSE x \in s : TRUE
Sums(g, S, f) ==
    g = [s \in SUBSET S |-> IF s = {} THEN 0 ELSE f[First(s)] + g[s \ {First(s)}]]
TotalOf(f, S) == MapThenSumSet(LAMBDA x : f[x], S)

\* What is taken out of a set was in it.
LEMMA FirstIn == ASSUME NEW s, s # {} PROVE First(s) \in s
  BY DEF First

\* The recursion, one step.
LEMMA SumsStep ==
    ASSUME NEW g, NEW S, NEW f, Sums(g, S, f), NEW s \in SUBSET S
    PROVE  /\ s = {} => g[s] = 0
           /\ s # {} => /\ First(s) \in s /\ s \ {First(s)} \in SUBSET S
                        /\ g[s] = f[First(s)] + g[s \ {First(s)}]
<1>. HIDE DEF First
<1>1. g[s] = IF s = {} THEN 0 ELSE f[First(s)] + g[s \ {First(s)}]
  BY DEF Sums
<1>. QED
  BY <1>1, FirstIn

\* The recursive functions of two sets agree where both are defined.
LEMMA SumsUnique ==
    ASSUME NEW g, NEW h, NEW S, NEW T, NEW f, IsFiniteSet(S), S \subseteq T,
           Sums(g, S, f), Sums(h, T, f)
    PROVE  g[S] = h[S]
<1>. DEFINE Same == {s \in SUBSET S : g[s] = h[s]}
<1>1. ASSUME NEW s \in SUBSET S, \A U \in SUBSET s : U # s => U \in Same
      PROVE  s \in Same
  <2>1. CASE s = {}
    BY <2>1, SumsStep
  <2>2. CASE s # {}
    <3>1. /\ First(s) \in s
          /\ g[s] = f[First(s)] + g[s \ {First(s)}]
          /\ h[s] = f[First(s)] + h[s \ {First(s)}]
      BY <2>2, SumsStep
    <3>2. s \ {First(s)} \in Same
      BY <1>1, <3>1
    <3>. QED
      BY <3>1, <3>2
  <2>. QED
    BY <2>1, <2>2
<1>. HIDE DEF Same
<1>2. SUBSET S \subseteq Same
  BY <1>1, SmallestBadSubset
<1>. QED
  BY <1>2 DEF Same

\* The recursion has a solution on every finite set.
LEMMA SumsExist ==
    ASSUME NEW S, NEW f, IsFiniteSet(S)
    PROVE  \E g : Sums(g, S, f)
<1>. DEFINE Good == {T \in SUBSET S : \E g : Sums(g, T, f)}
            Val(s) == (CHOOSE h : Sums(h, s, f))[s]
<1>1. ASSUME NEW T \in SUBSET S, \A U \in SUBSET T : U # T => U \in Good
      PROVE  T \in Good
  <2>. DEFINE g == [s \in SUBSET T |-> IF s = {} THEN 0
                     ELSE f[First(s)] + Val(s \ {First(s)})]
  <2>1. ASSUME NEW s \in SUBSET T, s # T PROVE g[s] = Val(s)
    <3>. DEFINE h == CHOOSE h : Sums(h, s, f)
    <3>1. Sums(h, s, f)
      <4>1. s \in Good
        BY <1>1, <2>1
      <4>. QED
        BY <4>1
    <3>2. CASE s = {}
      <4>1. h[s] = 0
        <5>. HIDE DEF h
        <5>. QED
          BY <3>1, <3>2, SumsStep
      <4>. QED
        BY <3>2, <4>1
    <3>3. CASE s # {}
      <4>. DEFINE r == s \ {First(s)}
                  k == CHOOSE k : Sums(k, r, f)
      <4>1. r \in SUBSET s /\ r # s /\ r \in SUBSET T /\ r # T
        BY <3>3, FirstIn
      <4>2. Sums(k, r, f)
        <5>1. r \in Good
          BY <1>1, <4>1
        <5>. QED
          BY <5>1
      <4>3. IsFiniteSet(r)
        BY <4>1, FS_Subset
      <4>4. k[r] = h[r]
        <5>. HIDE DEF k, h, r
        <5>. QED
          BY <3>1, <4>1, <4>2, <4>3, SumsUnique
      <4>5. h[s] = f[First(s)] + h[r]
        <5>. HIDE DEF h
        <5>. QED
          BY <3>1, <3>3, SumsStep
      <4>6. g[s] = f[First(s)] + k[r]
        BY <3>3
      <4>. QED
        BY <4>4, <4>5, <4>6
    <3>. QED
      BY <3>2, <3>3
  <2>2. \A s \in SUBSET T : s # {} => s \ {First(s)} # T /\ s \ {First(s)} \in SUBSET T
    BY FirstIn
  <2>3. g = [s \in SUBSET T |-> IF s = {} THEN 0 ELSE f[First(s)] + g[s \ {First(s)}]]
    <3>1. \A s \in SUBSET T : s # {} => g[s \ {First(s)}] = Val(s \ {First(s)})
      BY <2>1, <2>2
    <3>2. \A s \in SUBSET T : (IF s = {} THEN 0 ELSE f[First(s)] + Val(s \ {First(s)}))
              = (IF s = {} THEN 0 ELSE f[First(s)] + g[s \ {First(s)}])
      <4>. HIDE DEF g, Val
      <4>. QED
        BY <3>1
    <3>. HIDE DEF Val
    <3>. QED
      BY <3>2
  <2>4. Sums(g, T, f)
    BY <2>3 DEF Sums
  <2>. QED
    BY <2>4
<1>. HIDE DEF Good
<1>2. SUBSET S \subseteq Good
  BY <1>1, SmallestBadSubset
<1>. QED
  BY <1>2 DEF Good

\* MapThenSumSet is that solution.
LEMMA TotalSums ==
    ASSUME NEW S, NEW f, IsFiniteSet(S)
    PROVE  \E g : Sums(g, S, f) /\ TotalOf(f, S) = g[S]
<1>. DEFINE g == CHOOSE g : Sums(g, S, f)
<1>1. TotalOf(f, S) = g[S]
  BY DEF TotalOf, MapThenSumSet, MapThenFoldSet, Sums, First
<1>2. Sums(g, S, f)
  BY SumsExist
<1>. QED
  BY <1>1, <1>2

\* The sum over no element.
LEMMA TotalOfNone == ASSUME NEW f PROVE TotalOf(f, {}) = 0
<1>1. PICK g : Sums(g, {}, f) /\ TotalOf(f, {}) = g[{}]
  BY TotalSums, FS_EmptySet
<1>2. {} \in SUBSET {}
  OBVIOUS
<1>. QED
  BY <1>1, <1>2, SumsStep

\* The order in which a set is summed does not matter.
LEMMA SumsAnyOrder ==
    ASSUME NEW g, NEW S, NEW f, IsFiniteSet(S), Sums(g, S, f),
           NEW P, S \subseteq P, f \in [P -> Nat]
    PROVE  /\ g[S] \in Nat
           /\ \A x \in S : g[S] = f[x] + g[S \ {x}]
<1>. DEFINE Good == {s \in SUBSET S : /\ g[s] \in Nat
                                     /\ \A x \in s : g[s] = f[x] + g[s \ {x}]}
<1>0. ASSUME NEW T \in SUBSET S, \A U \in SUBSET T : U # T => U \in Good
      PROVE  T \in Good
  <2>1. CASE T = {}
    BY <2>1, SumsStep
  <2>2. CASE T # {}
    <3>. DEFINE c == First(T)
    <3>1. c \in T /\ g[T] = f[c] + g[T \ {c}] /\ T \ {c} \in Good /\ f[c] \in Nat
      BY <1>0, <2>2, SumsStep
    <3>. HIDE DEF c
    <3>2. g[T] \in Nat
      BY <3>1
    <3>3. ASSUME NEW x \in T, x # c PROVE g[T] = f[x] + g[T \ {x}]
      <4>. DEFINE r == (T \ {c}) \ {x}
      <4>1. r = (T \ {x}) \ {c}
        OBVIOUS
      <4>2. g[T \ {c}] = f[x] + g[r]
        BY <3>1, <3>3
      <4>3. T \ {x} \in Good /\ r \in Good
        BY <1>0, <3>3, <3>1
      <4>4. g[T \ {x}] = f[c] + g[r]
        BY <3>1, <3>3, <4>1, <4>3
      <4>5. f[x] \in Nat /\ g[r] \in Nat
        BY <3>3, <4>3
      <4>. HIDE DEF r, Good
      <4>. QED
        BY <3>1, <4>2, <4>4, <4>5
    <3>. QED
      BY <3>1, <3>2, <3>3
  <2>. QED
    BY <2>1, <2>2
<1>. HIDE DEF Good
<1>2. SUBSET S \subseteq Good
  BY <1>0, SmallestBadSubset
<1>. QED
  BY <1>2 DEF Good

\* A sum depends only on the values that are summed.
LEMMA SumsAgree ==
    ASSUME NEW g, NEW h, NEW S, NEW e, NEW f, IsFiniteSet(S),
           Sums(g, S, e), Sums(h, S, f), \A x \in S : e[x] = f[x]
    PROVE  g[S] = h[S]
<1>. DEFINE Same == {s \in SUBSET S : g[s] = h[s]}
<1>1. ASSUME NEW s \in SUBSET S, \A U \in SUBSET s : U # s => U \in Same
      PROVE  s \in Same
  <2>1. CASE s = {}
    <3>1. g[s] = 0 /\ h[s] = 0
      BY <2>1, SumsStep
    <3>. QED
      BY <3>1
  <2>2. CASE s # {}
    <3>1. /\ First(s) \in s
          /\ g[s] = e[First(s)] + g[s \ {First(s)}]
          /\ h[s] = f[First(s)] + h[s \ {First(s)}]
      BY <2>2, SumsStep
    <3>2. s \ {First(s)} \in Same
      BY <1>1, <3>1
    <3>. QED
      BY <3>1, <3>2
  <2>. QED
    BY <2>1, <2>2
<1>. HIDE DEF Same
<1>2. SUBSET S \subseteq Same
  BY <1>1, SmallestBadSubset
<1>. QED
  BY <1>2 DEF Same

\* The same of MapThenSumSet.
LEMMA TotalAgrees ==
    ASSUME NEW S, NEW e, NEW f, IsFiniteSet(S), \A x \in S : e[x] = f[x]
    PROVE  TotalOf(e, S) = TotalOf(f, S)
  BY TotalSums, SumsAgree

\* A sum of naturals is one element and the sum of the others.
LEMMA TotalSplits ==
    ASSUME NEW P, NEW S \in SUBSET P, NEW f \in [P -> Nat], IsFiniteSet(S)
    PROVE  /\ TotalOf(f, S) \in Nat
           /\ \A x \in S : TotalOf(f, S) = f[x] + TotalOf(f, S \ {x})
<1>1. PICK g : Sums(g, S, f) /\ TotalOf(f, S) = g[S]
  BY TotalSums
<1>2. ASSUME NEW x \in S PROVE TotalOf(f, S \ {x}) = g[S \ {x}]
  <2>1. IsFiniteSet(S \ {x})
    BY FS_RemoveElement
  <2>2. PICK h : Sums(h, S \ {x}, f) /\ TotalOf(f, S \ {x}) = h[S \ {x}]
    BY <2>1, TotalSums
  <2>3. h[S \ {x}] = g[S \ {x}]
    BY <1>1, <2>1, <2>2, SumsUnique
  <2>. QED
    BY <2>2, <2>3
<1>. QED
  BY <1>1, <1>2, SumsAnyOrder

---------------------------------------------------------------------------
(* The score of a team.                                                    *)

\* Everyone who was ever in a team.
Enrolled(t) == {p \in Player : teamOf[p] = t}

TeamSumInv ==
    /\ IsFiniteSet({p \in Player : teamOf[p] # None})
    /\ TeamScoreIsSum

LEMMA EnrolledFinite ==
    ASSUME TypeOK, TeamSumInv, NEW t \in Team
    PROVE  /\ Enrolled(t) \in SUBSET Player
           /\ IsFiniteSet(Enrolled(t))
<1>1. Enrolled(t) \in SUBSET {p \in Player : teamOf[p] # None}
  BY NoneAssumption DEF Enrolled
<1>. QED
  BY <1>1, FS_Subset DEF TeamSumInv, Enrolled

\* The score of a team in terms of the sum.
TeamTotals ==
    \A t \in Team : teamScore[t] = IF TotalOf(score, Enrolled(t)) > MaxScore
                                   THEN MaxScore ELSE TotalOf(score, Enrolled(t))

LEMMA TeamScoreTotals == TeamScoreIsSum <=> TeamTotals
  BY DEF TeamScoreIsSum, TeamTotals, TotalOf, Enrolled

LEMMA TeamScoreTotalsNext == TeamScoreIsSum' <=> TeamTotals'
  BY TeamScoreTotals, PTL

\* Saturating the points of a player and of the team separately loses the
\* sum nowhere: before the player's points are cut off, the team's are.
LEMMA SaturationCommutes ==
    ASSUME NEW s \in 0 .. MaxScore, NEW rest \in Nat, NEW d \in Nat, NEW total,
           total = s + rest
    PROVE  SaturatingAdd(IF total > MaxScore THEN MaxScore ELSE total, d)
             = IF SaturatingAdd(s, d) + rest > MaxScore
               THEN MaxScore ELSE SaturatingAdd(s, d) + rest
  BY ScoreAssumption DEF SaturatingAdd

LEMMA InitTeamSum == Init => TeamSumInv
<1>. SUFFICES ASSUME Init PROVE TeamSumInv
  OBVIOUS
<1>1. {p \in Player : teamOf[p] # None} = {}
  BY DEF Init
<1>2. \A t \in Team : Enrolled(t) = {}
  BY NoneAssumption DEF Init, Enrolled
<1>3. \A t \in Team : TotalOf(score, Enrolled(t)) = 0
  BY <1>2, TotalOfNone
<1>4. \A t \in Team : teamScore[t] = 0
  BY DEF Init
<1>5. TeamScoreIsSum
  BY <1>3, <1>4, ScoreAssumption, TeamScoreTotals DEF TeamTotals
<1>. QED
  BY <1>1, <1>5, FS_EmptySet DEF TeamSumInv

\* An answer of x, worth d points, in a step that changes no team.
LEMMA AnswerKeepsTeamSum ==
    ASSUME TypeOK, TeamSumInv, NEW x \in Player, NEW d \in Nat, teamOf[x] \in Team,
           UNCHANGED teamOf,
           score' = [score EXCEPT ![x] = SaturatingAdd(score[x], d)],
           teamScore' = [teamScore EXCEPT ![teamOf[x]] = SaturatingAdd(teamScore[teamOf[x]], d)]
    PROVE  TeamSumInv'
<1>1. /\ score \in [Player -> Nat]
      /\ score' \in [Player -> Nat]
      /\ score[x] \in 0 .. MaxScore
      /\ score'[x] = SaturatingAdd(score[x], d)
      /\ \A p \in Player : p # x => score'[p] = score[p]
      /\ \A t \in Team : t # teamOf[x] => teamScore'[t] = teamScore[t]
      /\ teamScore'[teamOf[x]] = SaturatingAdd(teamScore[teamOf[x]], d)
  <2>1. SaturatingAdd(score[x], d) \in 0 .. MaxScore
    BY SaturatingAddType DEF TypeOK
  <2>. QED
    BY <2>1, ScoreAssumption DEF TypeOK
<1>2. ASSUME NEW t \in Team
      PROVE  teamScore'[t] = IF TotalOf(score', Enrolled(t)) > MaxScore
                             THEN MaxScore ELSE TotalOf(score', Enrolled(t))
  <2>. DEFINE old == TotalOf(score, Enrolled(t))
              new == TotalOf(score', Enrolled(t))
  <2>1. teamScore[t] = IF old > MaxScore THEN MaxScore ELSE old
    BY TeamScoreTotals DEF TeamSumInv, TeamTotals
  <2>2. CASE t # teamOf[x]
    <3>1. \A p \in Enrolled(t) : score'[p] = score[p]
      BY <1>1, <2>2 DEF Enrolled
    <3>2. new = old
      BY <3>1, EnrolledFinite, TotalAgrees
    <3>. QED
      BY <1>1, <2>1, <2>2, <3>2
  <2>3. CASE t = teamOf[x]
    <3>. DEFINE others == Enrolled(t) \ {x}
                rest == TotalOf(score, others)
    <3>1. x \in Enrolled(t)
      BY <2>3 DEF Enrolled
    <3>2. others \in SUBSET Player /\ IsFiniteSet(others)
      BY EnrolledFinite, FS_RemoveElement
    <3>3. rest \in Nat
      BY <1>1, <3>2, TotalSplits
    <3>4. ASSUME NEW f \in [Player -> Nat]
          PROVE  TotalOf(f, Enrolled(t)) = f[x] + TotalOf(f, others)
      <4>1. Enrolled(t) \in SUBSET Player /\ IsFiniteSet(Enrolled(t))
        BY EnrolledFinite
      <4>2. ASSUME NEW S \in SUBSET Player, IsFiniteSet(S), x \in S
            PROVE  TotalOf(f, S) = f[x] + TotalOf(f, S \ {x})
        BY <4>2, TotalSplits
      <4>. QED
        BY <3>1, <4>1, <4>2
    <3>5. old = score[x] + rest /\ new = score'[x] + TotalOf(score', others)
      BY <1>1, <3>4
    <3>6. TotalOf(score', others) = rest
      <4>1. \A p \in others : score'[p] = score[p]
        BY <1>1, <3>2
      <4>. QED
        BY <3>2, <4>1, TotalAgrees
    <3>. HIDE DEF rest, others, old, new
    <3>7. SaturatingAdd(IF old > MaxScore THEN MaxScore ELSE old, d)
            = IF SaturatingAdd(score[x], d) + rest > MaxScore
              THEN MaxScore ELSE SaturatingAdd(score[x], d) + rest
      BY <1>1, <3>3, <3>5, SaturationCommutes
    <3>8. new = SaturatingAdd(score[x], d) + rest
      BY <1>1, <3>5, <3>6
    <3>9. teamScore'[t] = SaturatingAdd(IF old > MaxScore THEN MaxScore ELSE old, d)
      BY <1>1, <2>1, <2>3
    <3>10. teamScore'[t] = IF new > MaxScore THEN MaxScore ELSE new
      BY <3>7, <3>8, <3>9
    <3>. QED
      BY <3>10 DEF new
  <2>. QED
    BY <2>2, <2>3
<1>3. \A t \in Team : Enrolled(t)' = Enrolled(t)
  BY DEF Enrolled
<1>4. TeamScoreIsSum'
  BY <1>2, <1>3, TeamScoreTotalsNext DEF TeamTotals
<1>. QED
  BY <1>4 DEF TeamSumInv

\* A player who joins brings no points.
LEMMA JoinKeepsTeamSum ==
    ASSUME TypeOK, TeamSumInv, NEW x \in Player, NEW u \in Team,
           teamOf[x] = None, score[x] = 0,
           teamOf' = [teamOf EXCEPT ![x] = u], UNCHANGED scores
    PROVE  TeamSumInv'
<1>1. /\ score \in [Player -> Nat]
      /\ u # None
      /\ teamOf'[x] = u
      /\ \A p \in Player : p # x => teamOf'[p] = teamOf[p]
      /\ UNCHANGED <<score, teamScore>>
  BY ScoreAssumption, NoneAssumption DEF TypeOK, scores
<1>2. IsFiniteSet({p \in Player : teamOf'[p] # None})
  <2>1. {p \in Player : teamOf'[p] # None} = {p \in Player : teamOf[p] # None} \cup {x}
    BY <1>1
  <2>. QED
    BY <2>1, FS_AddElement DEF TeamSumInv
<1>3. ASSUME NEW t \in Team
      PROVE  TotalOf(score, Enrolled(t)') = TotalOf(score, Enrolled(t))
  <2>1. CASE t # u
    <3>1. Enrolled(t)' = Enrolled(t)
      BY <1>1, <2>1, NoneAssumption DEF Enrolled
    <3>. QED
      BY <3>1
  <2>2. CASE t = u
    <3>1. /\ Enrolled(t)' = Enrolled(t) \cup {x}
          /\ x \notin Enrolled(t)
      BY <1>1, <2>2, NoneAssumption DEF Enrolled
    <3>2. Enrolled(t)' \in SUBSET Player /\ IsFiniteSet(Enrolled(t)')
      BY <3>1, EnrolledFinite, FS_AddElement
    <3>3. Enrolled(t)' \ {x} = Enrolled(t)
      BY <3>1
    <3>4. ASSUME NEW S \in SUBSET Player, IsFiniteSet(S), x \in S
          PROVE  /\ TotalOf(score, S) = score[x] + TotalOf(score, S \ {x})
                 /\ TotalOf(score, S) \in Nat
      BY <1>1, <3>4, TotalSplits
    <3>5. TotalOf(score, Enrolled(t)) \in Nat
      BY <1>1, EnrolledFinite, TotalSplits
    <3>6. TotalOf(score, Enrolled(t)') = score[x] + TotalOf(score, Enrolled(t)' \ {x})
      BY <3>1, <3>2, <3>4
    <3>. QED
      BY <3>3, <3>5, <3>6
  <2>. QED
    BY <2>1, <2>2
<1>4. TeamTotals
  BY TeamScoreTotals DEF TeamSumInv
<1>5. TeamScoreIsSum'
  BY <1>1, <1>3, <1>4, TeamScoreTotalsNext DEF TeamTotals
<1>. QED
  BY <1>2, <1>5 DEF TeamSumInv

LEMMA NextTeamSum ==
    TypeOK /\ ScoreInv /\ TeamSumInv /\ [Next]_vars => TeamSumInv'
<1>. SUFFICES ASSUME TypeOK, ScoreInv, TeamSumInv, [Next]_vars PROVE TeamSumInv'
  OBVIOUS
<1>1. ASSUME UNCHANGED <<teamOf, scores>> PROVE TeamSumInv'
  <2>1. \A t \in Team : Enrolled(t)' = Enrolled(t)
    BY <1>1 DEF Enrolled
  <2>2. TeamTotals'
    BY <1>1, <2>1, TeamScoreTotals DEF TeamTotals, TeamSumInv, scores
  <2>. QED
    BY <1>1, <2>2, TeamScoreTotalsNext DEF TeamSumInv
<1>2. ASSUME NEW x \in Player, Join(x) PROVE TeamSumInv'
  <2>1. /\ PickTeam \in Team
        /\ teamOf[x] = None /\ score[x] = 0
        /\ teamOf' = [teamOf EXCEPT ![x] = PickTeam]
        /\ UNCHANGED scores
    BY <1>2 DEF Join, PickTeam, Team, ScoreInv
  <2>. QED
    BY <2>1, JoinKeepsTeamSum
<1>3. ASSUME NEW x \in Player, NEW q \in QuestionId, NEW correct \in BOOLEAN,
             SubmitAnswer(x, q, correct)
      PROVE  TeamSumInv'
  <2>. DEFINE d == IF correct THEN ScoreDelta ELSE 0
  <2>1. /\ d \in Nat
        /\ round \in Round /\ teamOf[x] = round.team
        /\ UNCHANGED teamOf
        /\ score' = [score EXCEPT ![x] = SaturatingAdd(score[x], d)]
        /\ teamScore' = [teamScore EXCEPT ![round.team] =
                            SaturatingAdd(teamScore[round.team], d)]
    BY <1>3 DEF SubmitAnswer, TypeOK, ScoreDelta, membership
  <2>2. teamOf[x] \in Team
    BY <2>1 DEF Round
  <2>. HIDE DEF d
  <2>. QED
    BY <2>1, <2>2, AnswerKeepsTeamSum
<1>. QED
  BY <1>1, <1>2, <1>3 DEF Next, PlayerCommand, OwnerCommand, TimerStep, Time,
     Leave, KickPlayer, StartGame, PauseGame, ResumeGame, NextQuestion,
     RoundTimeout, ArmedTimerFires, DetachedTimerFires, Tick, membership, vars

\* Departures, saturation, pauses and restarts included, the score of a team
\* is the sum of what its members scored.
THEOREM TeamSum == Spec => []TeamScoreIsSum
<1>1. TeamSumInv => TeamScoreIsSum
  BY DEF TeamSumInv
<1>. QED
  BY <1>1, InitTeamSum, NextTeamSum, InitScores, NextScores, TypeCorrect,
     PhaseInvHolds, PTL DEF Spec
===========================================================================
