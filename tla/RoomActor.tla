---------------------------- MODULE RoomActor ----------------------------
(***************************************************************************)
(* The actor that owns one game room (richcrab/services/game/src/          *)
(* room_actor.rs).  Every command is handled by one task, so a handler is  *)
(* one atomic step; what interleaves with the handlers is                  *)
(*   - the passing of time, on two clocks: tokio timers run on the         *)
(*     monotonic clock, the deadline of a round is a wall-clock instant;   *)
(*   - the round-timeout tasks, which send RoundTimeout into the mailbox   *)
(*     when they wake up.  Aborting a task cannot recall a message it has  *)
(*     already sent, so stale timeouts reach the handler.                  *)
(* Other commands need no place in the mailbox: what a handler does        *)
(* depends only on the state in which it runs.                             *)
(*                                                                         *)
(* Times are relative: round.endsIn is ends_at - now on the wall clock and *)
(* is kept at -1 once the deadline lies strictly in the past.  A player's  *)
(* entry is removed from the map when it leaves; the model remembers its   *)
(* last team and score, which only the properties read.                    *)
(***************************************************************************)
EXTENDS Integers, Sequences, FiniteSetsExt

CONSTANTS
    User,        \* user ids that send owner commands
    Owner,       \* state.owner_user_id
    Player,      \* the fresh player ids Join can hand out
    QuestionId,  \* ids of questions; the questions of one bank may share one
    Banks,       \* the question lists StartGame may bring
    RoundTicks,  \* DEFAULT_ROUND_SECONDS, in ticks
    ClockSteps,  \* wall-clock advance of one tick ({1}: the clocks agree);
                 \* it stops or runs ahead, but is never set back
    MaxScore,    \* u32::MAX, where score arithmetic saturates
    MaxStarts,   \* bound: StartGame commands of one behaviour
    MaxPauses,   \* bound: PauseGame commands of one behaviour
    None         \* Option::None

ASSUME UserAssumption == Owner \in User
ASSUME QuizAssumption == Banks \subseteq Seq(QuestionId)
ASSUME TimeAssumption ==
    /\ RoundTicks \in Nat \ {0}
    /\ ClockSteps \subseteq Nat
ASSUME ScoreAssumption == MaxScore \in Nat
ASSUME BoundAssumption == MaxStarts \in Nat /\ MaxPauses \in Nat

Team == {"A", "B"}
LifecycleState == {"Lobby", "InProgress", "Paused", "Finished", "Closed"}
Remaining == 0 .. RoundTicks
Round == [index  : Nat,
          qid    : QuestionId,
          team   : Team,
          locked : SUBSET Player,
          endsIn : -1 .. RoundTicks]
Timer == [qid : QuestionId, left : Remaining]
Result == [winner      : Player \cup {None},
           winnerTeam  : Team,
           scores      : UNION {[ps -> 0 .. MaxScore] : ps \in SUBSET Player},
           teamScores  : [Team -> 0 .. MaxScore]]

ASSUME NoneAssumption ==
    /\ None \notin Round
    /\ None \notin Timer
    /\ None \notin Result
    /\ None \notin Remaining
    /\ None \notin Team
    /\ None \notin Player

VARIABLES
    lifecycle,  \* state.state
    players,    \* keys of state.players
    teamOf,     \* team_id of a player; None: the id has not been handed out
    score,      \* score of a player (its last one, when it has left)
    teamScore,  \* state.teams
    bank,       \* ids of state.question_bank
    round,      \* state.current_question
    result,     \* state.result
    pausedRemaining, \* paused_remaining
    armed,      \* the sleeping task whose handle round_timeout_task holds
    detached,   \* sleeping tasks whose handle was dropped: how many of each
    mailbox,    \* RoundTimeout messages sent and not yet handled
    emitted,    \* events broadcast by the last step
    turns,      \* history: rounds each team has been given
    starts, pauses \* StartGame and PauseGame commands so far

membership == <<players, teamOf>>
scores == <<score, teamScore>>
timers == <<armed, detached, mailbox>>
budget == <<starts, pauses>>
vars == <<lifecycle, membership, scores, bank, round, result,
          pausedRemaining, timers, emitted, turns, budget>>

---------------------------------------------------------------------------
(* Helpers of the handlers.                                                *)

Members(t) == {p \in players : teamOf[p] = t}
OtherTeam(t) == IF t = "A" THEN "B" ELSE "A"
PickTeam ==
    IF Cardinality(Members("A")) <= Cardinality(Members("B")) THEN "A" ELSE "B"

NotNegative(n) == IF n < 0 THEN 0 ELSE n
\* Mutant: wrapping addition.
WrappingAdd(a, b) == (a + b) % (MaxScore + 1)
SaturatingAdd(a, b) == IF a + b > MaxScore THEN MaxScore ELSE a + b
ScoreDelta == 100

\* Mutant: the difference without the case of a deadline in the past.
RemainingTimeUnclamped(r) == r.endsIn

\* remaining_round_duration: zero from the deadline on.
RemainingTime(r) == NotNegative(r.endsIn)

\* An event, reduced to its kind and the player or question it is about.
EventKind == {"PlayerJoined", "TeamsAssigned", "PlayerLeft", "RoomClosed",
              "GameStarted", "QuestionStarted", "AnswerLocked",
              "ScoreUpdated", "RoundEnded", "GameEnded"}
RoomEvent == [kind : EventKind, about : Player \cup QuestionId \cup {None}]
Event(kind, about) == [kind |-> kind, about |-> about]

NewRound(b, i, t) ==
    [index |-> i, qid |-> b[i + 1], team |-> t, locked |-> {},
     endsIn |-> RoundTicks]

ForgetPause == pausedRemaining' = None

ClearResult == result' = None

Spawn(q, d) == armed' = [qid |-> q, left |-> d]

\* cancel_round_timeout: a task that has already sent its message has
\* ended, and its message stays in the mailbox.
CancelTimer == armed' = None

\* Mutant: the handler of RoundTimeout cancels the task it has a handle of.
AbortHandle == UNCHANGED detached

\* round_timeout_task = None without abort: a task still asleep lives on.
DropHandle ==
    detached' = IF armed = None THEN detached
                ELSE [detached EXCEPT ![<<armed.qid, armed.left>>] = @ + 1]

\* HashMap iteration order decides among equals.
Best(S, f) == {x \in S : \A y \in S : f[y] <= f[x]}

FinishGame(sc, ts) ==
    /\ lifecycle' = "Finished"
    /\ \E t \in Best(Team, ts),
          w \in IF players = {} THEN {None} ELSE Best(players, sc) :
          result' = [winner     |-> w,
                     winnerTeam |-> t,
                     scores     |-> [p \in players |-> sc[p]],
                     teamScores |-> ts]

StartRound(b, i, t) ==
    /\ round' = NewRound(b, i, t)
    /\ turns' = [turns EXCEPT ![t] = @ + 1]

\* close_round_and_progress, and the timer every caller arms afterwards for
\* whatever current_question then is (also when the game has just finished).
\* r is the round being closed, sc and ts the scores, evs the events so far.
CloseRoundAndProgress(r, sc, ts, evs) ==
    /\ ForgetPause
    /\ \/ /\ r.index + 1 >= Len(bank)
          /\ FinishGame(sc, ts)
          /\ round' = r
          /\ UNCHANGED turns
          /\ emitted' = evs \o <<Event("RoundEnded", r.qid),
                                 Event("GameEnded", None)>>
       \/ /\ r.index + 1 < Len(bank)
          /\ StartRound(bank, r.index + 1, OtherTeam(r.team))
          /\ UNCHANGED <<lifecycle, result>>
          /\ emitted' = evs \o <<Event("RoundEnded", r.qid),
                                 Event("QuestionStarted", bank[r.index + 2])>>
    /\ Spawn(round'.qid, RemainingTime(round'))

---------------------------------------------------------------------------
(* Command handlers.  A refused command changes nothing and is a           *)
(* stuttering step: the guards are the conditions of acceptance.           *)

\* Mutant: a player can join in any state.
JoinAnyState(p) ==
    /\ teamOf[p] = None
    /\ players' = players \cup {p}
    /\ teamOf' = [teamOf EXCEPT ![p] = PickTeam]
    /\ emitted' = <<Event("PlayerJoined", p), Event("TeamsAssigned", p)>>
    /\ UNCHANGED <<lifecycle, scores, bank, round, result, pausedRemaining,
                   timers, turns, budget>>

Join(p) ==
    /\ lifecycle = "Lobby"
    /\ teamOf[p] = None
    /\ players' = players \cup {p}
    /\ teamOf' = [teamOf EXCEPT ![p] = PickTeam]
    /\ emitted' = <<Event("PlayerJoined", p), Event("TeamsAssigned", p)>>
    /\ UNCHANGED <<lifecycle, scores, bank, round, result, pausedRemaining,
                   timers, turns, budget>>

Leave(p) ==
    /\ p \in players
    /\ players' = players \ {p}
    /\ IF players' = {} /\ lifecycle = "Lobby"
       THEN /\ lifecycle' = "Closed"
            /\ emitted' = <<Event("PlayerLeft", p), Event("RoomClosed", None)>>
       ELSE /\ UNCHANGED lifecycle
            /\ emitted' = <<Event("PlayerLeft", p)>>
    /\ UNCHANGED <<teamOf, scores, bank, round, result, pausedRemaining,
                   timers, turns, budget>>

\* Unlike Leave, a kick never closes an emptied lobby.
KickPlayer(u, p) ==
    /\ u = Owner
    /\ p \in players
    /\ players' = players \ {p}
    /\ emitted' = <<Event("PlayerLeft", p)>>
    /\ UNCHANGED <<lifecycle, teamOf, scores, bank, round, result,
                   pausedRemaining, timers, turns, budget>>

\* No condition on the lifecycle state: a running, paused or finished game
\* starts over, with the scores it had.
StartGame(u, questions) ==
    /\ u = Owner
    /\ players # {}
    /\ questions # <<>>
    /\ starts < MaxStarts
    /\ starts' = starts + 1
    /\ lifecycle' = "InProgress"
    /\ bank' = questions
    /\ ClearResult
    /\ StartRound(questions, 0, "A")
    /\ Spawn(questions[1], RoundTicks)
    /\ ForgetPause
    /\ emitted' = <<Event("GameStarted", None),
                    Event("QuestionStarted", questions[1])>>
    /\ UNCHANGED <<membership, scores, detached, mailbox, pauses>>

PauseGame(u) ==
    /\ u = Owner
    /\ lifecycle = "InProgress"
    /\ pauses < MaxPauses
    /\ pauses' = pauses + 1
    /\ pausedRemaining' = IF round = None THEN pausedRemaining
                          ELSE RemainingTime(round)
    /\ CancelTimer
    /\ lifecycle' = "Paused"
    /\ emitted' = <<>>
    /\ UNCHANGED <<membership, scores, bank, round, result, detached, mailbox,
                   turns, starts>>

ResumeGame(u) ==
    /\ u = Owner
    /\ lifecycle = "Paused"
    /\ LET left == IF pausedRemaining = None THEN RemainingTime(round)
                   ELSE pausedRemaining
       IN  IF round = None
           THEN UNCHANGED <<round, armed, pausedRemaining>>
           ELSE /\ round' = [round EXCEPT !.endsIn = left]
                /\ Spawn(round.qid, left)
                /\ ForgetPause
    /\ lifecycle' = "InProgress"
    /\ emitted' = <<>>
    /\ UNCHANGED <<membership, scores, bank, result, detached, mailbox,
                   turns, budget>>

NextQuestion(u) ==
    /\ u = Owner
    /\ lifecycle = "InProgress"
    /\ round # None
    /\ CloseRoundAndProgress(round, score, teamScore, <<>>)
    /\ UNCHANGED <<membership, scores, bank, detached, mailbox, budget>>

\* RoundTimeout, whose handle is forgotten first in every case:
\* the game does not run, or the message is about another question;
TimeoutIgnored ==
    /\ \/ lifecycle # "InProgress"
       \/ round = None
       \/ round.qid # Head(mailbox)
    /\ armed' = None
    /\ emitted' = <<>>
    /\ UNCHANGED <<lifecycle, round, result, pausedRemaining, turns>>

\* the deadline of the current round is still ahead: sleep again;
TimeoutEarly ==
    /\ lifecycle = "InProgress"
    /\ round # None
    /\ round.qid = Head(mailbox)
    /\ RemainingTime(round) > 0
    /\ Spawn(round.qid, RemainingTime(round))
    /\ emitted' = <<>>
    /\ UNCHANGED <<lifecycle, round, result, pausedRemaining, turns>>

\* Mutant: the message alone ends the round, whatever its deadline.
TimeoutExpiredAnyTime ==
    /\ lifecycle = "InProgress"
    /\ round # None
    /\ round.qid = Head(mailbox)
    /\ CloseRoundAndProgress(round, score, teamScore, <<>>)

\* Mutant: the round is closed in whatever state the game is.
TimeoutExpiredAnyState ==
    /\ round # None
    /\ round.qid = Head(mailbox)
    /\ RemainingTime(round) = 0
    /\ CloseRoundAndProgress(round, score, teamScore, <<>>)

\* the deadline has passed: the round is over.
TimeoutExpired ==
    /\ lifecycle = "InProgress"
    /\ round # None
    /\ round.qid = Head(mailbox)
    /\ RemainingTime(round) = 0
    /\ CloseRoundAndProgress(round, score, teamScore, <<>>)

RoundTimeout ==
    /\ mailbox # <<>>
    /\ mailbox' = Tail(mailbox)
    /\ DropHandle
    /\ TimeoutIgnored \/ TimeoutEarly \/ TimeoutExpired
    /\ UNCHANGED <<membership, scores, bank, budget>>

\* Mutant: nobody looks whether the player has answered.
AnswerAgain(p) == TRUE
NotYetAnswered(p) == p \notin round.locked

\* Mutants: off by one in either direction.
OneMoreThanExpected(locked, expected) ==
    expected > 0 /\ Cardinality(locked) > expected
OneLessThanExpected(locked, expected) ==
    expected > 0 /\ Cardinality(locked) + 1 >= expected
\* Answers are counted, those of members who have left since included.
AllAnswered(locked, expected) ==
    expected > 0 /\ Cardinality(locked) >= expected

\* Whether the answer is right depends on the question and the text sent.
SubmitAnswer(p, q, correct) ==
    /\ lifecycle = "InProgress"
    /\ round # None
    /\ p \in players
    /\ teamOf[p] = round.team
    /\ round.endsIn >= 0
    /\ round.qid = q
    /\ NotYetAnswered(p)
    /\ LET delta == IF correct THEN ScoreDelta ELSE 0
           answered == [round EXCEPT !.locked = @ \cup {p}]
           evs == <<Event("AnswerLocked", p), Event("ScoreUpdated", p)>>
           expected == Cardinality(Members(round.team))
       IN  /\ score' = [score EXCEPT ![p] = SaturatingAdd(@, delta)]
           /\ teamScore' =
                 [teamScore EXCEPT ![round.team] = SaturatingAdd(@, delta)]
           /\ \/ /\ AllAnswered(answered.locked, expected)
                 /\ CloseRoundAndProgress(answered, score', teamScore', evs)
              \/ /\ ~AllAnswered(answered.locked, expected)
                 /\ round' = answered
                 /\ emitted' = evs
                 /\ UNCHANGED <<lifecycle, result, pausedRemaining, armed,
                                turns>>
    /\ UNCHANGED <<membership, bank, detached, mailbox, budget>>

---------------------------------------------------------------------------
(* Timer tasks and time.                                                   *)

\* The armed task wakes up and sends; the handle now names an ended task.
ArmedTimerFires ==
    /\ armed # None
    /\ armed.left = 0
    /\ mailbox' = Append(mailbox, armed.qid)
    /\ armed' = None
    /\ emitted' = <<>>
    /\ UNCHANGED <<lifecycle, membership, scores, bank, round, result,
                   pausedRemaining, detached, turns, budget>>

DetachedTimerFires(q) ==
    /\ detached[<<q, 0>>] > 0
    /\ detached' = [detached EXCEPT ![<<q, 0>>] = @ - 1]
    /\ mailbox' = Append(mailbox, q)
    /\ emitted' = <<>>
    /\ UNCHANGED <<lifecycle, membership, scores, bank, round, result,
                   pausedRemaining, armed, turns, budget>>

\* One tick of the monotonic clock, during which the wall clock moves s.
\* A task whose time is up may be woken late.
Tick(s) ==
    /\ round' = IF round = None THEN None
                ELSE [round EXCEPT !.endsIn = IF @ - s < -1 THEN -1 ELSE @ - s]
    /\ armed' = IF armed = None THEN None
                ELSE [armed EXCEPT !.left = NotNegative(@ - 1)]
    /\ detached' =
          [t \in QuestionId \X Remaining |->
             (IF t[2] = 0 THEN detached[t] ELSE 0)
             + (IF t[2] < RoundTicks THEN detached[<<t[1], t[2] + 1>>] ELSE 0)]
    /\ emitted' = <<>>
    /\ UNCHANGED <<lifecycle, membership, scores, bank, result,
                   pausedRemaining, mailbox, turns, budget>>

---------------------------------------------------------------------------
Init ==
    /\ lifecycle = "Lobby"
    /\ players = {}
    /\ teamOf = [p \in Player |-> None]
    /\ score = [p \in Player |-> 0]
    /\ teamScore = [t \in Team |-> 0]
    /\ bank = <<>>
    /\ round = None
    /\ result = None
    /\ pausedRemaining = None
    /\ armed = None
    /\ detached = [t \in QuestionId \X Remaining |-> 0]
    /\ mailbox = <<>>
    /\ emitted = <<>>
    /\ turns = [t \in Team |-> 0]
    /\ starts = 0
    /\ pauses = 0

PlayerCommand ==
    \E p \in Player :
        \/ Join(p)
        \/ Leave(p)
        \/ \E q \in QuestionId, correct \in BOOLEAN : SubmitAnswer(p, q, correct)

OwnerCommand ==
    \E u \in User :
        \/ \E p \in Player : KickPlayer(u, p)
        \/ \E questions \in Banks : StartGame(u, questions)
        \/ PauseGame(u)
        \/ ResumeGame(u)
        \/ NextQuestion(u)

TimerStep == ArmedTimerFires \/ \E q \in QuestionId : DetachedTimerFires(q)
Time == \E s \in ClockSteps : Tick(s)

Next == PlayerCommand \/ OwnerCommand \/ RoundTimeout \/ TimerStep \/ Time

Spec == Init /\ [][Next]_vars

\* The runtime polls woken tasks, the actor keeps receiving and time passes;
\* nobody is obliged to send a command.
Fairness ==
    /\ WF_vars(Time)
    /\ WF_vars(ArmedTimerFires)
    /\ \A q \in QuestionId : WF_vars(DetachedTimerFires(q))
    /\ WF_vars(RoundTimeout)

FairSpec == Spec /\ Fairness

---------------------------------------------------------------------------
(* Properties.                                                             *)

\* Every variable has the type its declaration names.
TypeOK ==
    /\ lifecycle \in LifecycleState
    /\ players \subseteq Player
    /\ teamOf \in [Player -> Team \cup {None}]
    /\ score \in [Player -> 0 .. MaxScore]
    /\ teamScore \in [Team -> 0 .. MaxScore]
    /\ bank \in Seq(QuestionId)
    /\ round \in Round \cup {None}
    /\ result \in Result \cup {None}
    /\ pausedRemaining \in Remaining \cup {None}
    /\ armed \in Timer \cup {None}
    /\ detached \in [QuestionId \X Remaining -> Nat]
    /\ mailbox \in Seq(QuestionId)
    /\ emitted \in Seq(RoomEvent)
    /\ turns \in [Team -> Nat]
    /\ starts \in Nat
    /\ pauses \in Nat

\* A timeout for question q can still reach the handler: a task sleeps with
\* at most d ticks to go, or its message is already in the mailbox.
TimeoutPending(q, d) ==
    \/ armed # None /\ armed.qid = q /\ armed.left <= d
    \/ \E k \in 0 .. d : detached[<<q, k>>] > 0
    \/ \E i \in DOMAIN mailbox : mailbox[i] = q

\* A running round always has a timeout on its way, whatever handles were
\* dropped and whatever stale messages were handled since it started: no
\* interleaving leaves the room stuck in a round nobody answers.
RunningRoundIsTimed ==
    lifecycle = "InProgress" =>
        round # None /\ TimeoutPending(round.qid, RoundTicks)

\* Stronger, while the wall clock never runs ahead of the monotonic clock:
\* that timeout is due no later than the round's deadline.
TimeoutDueByDeadline ==
    lifecycle = "InProgress" =>
        round # None /\ TimeoutPending(round.qid, RemainingTime(round))

\* The remaining time is remembered exactly while the game is paused, so
\* ResumeGame never falls back on the deadline that went stale during the
\* pause (unwrap_or_else in ResumeGame), and no other command finds a
\* leftover of an earlier pause.
PauseRemembersTime == pausedRemaining # None <=> lifecycle = "Paused"

\* A closed room has no players and never had a round since nobody can join
\* it; StartGame, which does not look at the lifecycle state, is refused for
\* want of players only.
ClosedIsEmpty == lifecycle = "Closed" => players = {} /\ round = None

\* The result is there exactly while the game is finished.
FinishedHasResult == lifecycle = "Finished" <=> result # None

\* Closed is final, although StartGame has no guard on the lifecycle.
ClosedIsFinal == [][lifecycle = "Closed" => lifecycle' = "Closed"]_vars

\* Handling a timeout before the deadline of the current round leaves the
\* game as it is: a message that outlived an aborted timer, of an earlier
\* round or of an earlier run of the same question, cuts no round short.
StaleTimeoutHarmless ==
    [][/\ Len(mailbox') < Len(mailbox)
       /\ round # None
       /\ round.endsIn > 0
       => UNCHANGED <<lifecycle, round, scores, result, turns>>]_vars

\* While the game stays paused neither time nor timers nor late answers
\* change scores, answers, the question or the time that is left.
PauseFreezesGame ==
    [][lifecycle = "Paused" /\ lifecycle' = "Paused"
       => /\ UNCHANGED <<scores, turns, bank, pausedRemaining>>
          /\ round'.index = round.index
          /\ round'.locked = round.locked]_vars

\* A published result is not revised: players who leave afterwards, late
\* answers and timers of the last question do not touch it.
ResultIsFrozen ==
    [][result # None /\ result' # None => result' = result]_vars

\* Points come from an answer in one's own turn, at most one per turn, over
\* all pauses, stale timeouts and restarts.
OneScorePerTurn ==
    \A p \in Player : teamOf[p] # None =>
        score[p] <= ScoreDelta * turns[teamOf[p]]

\* The score of a team is the sum of what its members, those who have left
\* included, have scored, up to where it saturates: leaving takes no points
\* from the team and an answer is credited to the player and the team alike,
\* whichever of the two saturates first.
TeamScoreIsSum ==
    \A t \in Team :
        LET sum == MapThenSumSet(LAMBDA p : score[p], {p \in Player : teamOf[p] = t})
        IN  teamScore[t] = IF sum > MaxScore THEN MaxScore ELSE sum

\* When everyone present in the active team has answered and the round still
\* runs, then a member who had not answered has left meanwhile: Leave and
\* KickPlayer do not close the round, only an answer or the timeout does.
AnsweredRoundWaitsForDeparted ==
    lifecycle = "InProgress" /\ Members(round.team) # {}
        /\ Members(round.team) \subseteq round.locked
    => \E p \in Player \ players :
          teamOf[p] = round.team /\ p \notin round.locked

\* An answer ends the round while somebody present in the active team has
\* not answered only because the answers of departed members are counted.
\* (An answer is a step whose first event is AnswerLocked.)
AnswerClosesForAll ==
    [][\A p \in Player :
         /\ emitted' # <<>> /\ emitted'[1] = Event("AnswerLocked", p)
         /\ turns' # turns \/ lifecycle' = "Finished"
         /\ ~ (Members(round.team) \subseteq round.locked \cup {p})
         => ~ (round.locked \subseteq players)]_vars

\* A started game ends or is paused, without any command of any player.
RunningGameEnds == lifecycle = "InProgress" ~> lifecycle \in {"Paused", "Finished"}

\* The course of the game an observer of the room sees.
Lifecycle == INSTANCE GameLifecycle WITH
    phase <- lifecycle,
    asked <- IF round = None THEN 0 ELSE round.index + 1,
    total <- Len(bank),
    turn  <- IF round = None THEN "A" ELSE round.team

\* The actor implements GameLifecycle: no timeout, answer or owner command,
\* however late or repeated, skips or repeats a question.
ImplementsLifecycle == Lifecycle!Spec

\* With the runtime's fairness it also keeps its promise to move on.
ImplementsFairLifecycle == Lifecycle!FairSpec

===========================================================================
