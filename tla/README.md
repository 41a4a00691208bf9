# Verification of RichCrabs

TLA+ specifications of a real-time quiz platform: rooms that people join with a
pin, teams that answer timed questions, quizzes written by hand or by a model,
bots that open rooms from Telegram, and quotas per plan. The specifications are
translated from the Rust services under `src/richcrab`, which hold the state and
the concurrency of the system, and from the websocket of `src/gateway_py`, where
events of a room end; the rest of the gateways and the web client come next.

Check a configuration with `tlc -config X.cfg MCModule.tla`, a proof module with
`tlapm XProofs.tla`. `PROJECT.json` lists runs, mutants, theorems, hazards, and
for every definition the source lines it stands for.

## Inventory

| Part | State it keeps | Operations | What is hard |
|---|---|---|---|
| game: room actor (`game/src/room_actor.rs`, `domain.rs`) | one `RoomState` per room in memory, the handle of its timeout task, the remainder of a paused round | join, leave, kick, start, pause, resume, next, submit answer, round timeout | timers that cannot be recalled, two clocks, members leaving in a round, restarts of a game |
| game: room access (`application/invite.rs`, `room_lifecycle.rs`) with join (`join/src/service.rs`) and the Redis client (`shared/src/redis_client.rs`) | `rooms`, `room_pins` in memory; pins, invites, tickets in Redis | create room, regenerate invite, issue ticket by pin or invite, join room | several Redis calls per request, lost replies and retries, expiry, restarts |
| game: events, read models, chat | a broadcast channel per room; chat rows; time of the last message per author | subscribe, get state, list rooms, post and list messages | slow subscribers, an author who has left meanwhile |
| join: rate limits | counters with expiry in Redis | check per pin, name and address | a window that is not renewed, counting refused requests |
| entitlements (`entitlements/src`) and its callers | monthly counters in Postgres, plan and usage cached in Redis | check, report | check and report are separate calls, stale caches, month boundaries |
| quiz: quizzes and versions (`quiz/src/application/crud.rs`, `repository.rs`) | tables `quizzes`, `quiz_versions` | create, update, delete, publish | statements of different requests interleave |
| quiz: AI jobs (`application/ai_jobs.rs`) | table `ai_quiz_jobs`, one task per job | start, poll | a worker that ends with its process |
| bot_ingress, bot_runner | Redis stream and consumer group, idempotency marks, dead letters | webhook, read, handle, retry, bury, acknowledge | at-least-once delivery, failures at every call, two semaphores |
| bot: registry (`bot/src`) | table `bots`, webhooks at Telegram | register, remove, enable, disable, status | two stores that must agree |
| auth | tables `users`, plans, bans | register, log in, ban, roles | single statements |
| gateway_py | signed cookies, billing values in Redis | HTTP to gRPC, a websocket bridge | two-step join, read-modify-write of billing |
| defay1x9 | websocket hub, sessions, files of bots and users | HTTP to gRPC, one event stream per room | threads per room, bounded queue, last connection leaving |
| frontend | one socket with heartbeat and reconnection | connect, disconnect, send | timers of successive sockets |

How the parts interact. The gateways call the services over gRPC. `create_room`
asks the quiz service for the quiz, entitlements for the quota, reserves the pin
and writes the invite in Redis, and starts a room actor. `issue_join_ticket`
(join service) turns a pin or an invite into a ticket; `join_room` (game service)
consumes it, checks the quota and sends `Join` to the actor. All later commands
of a game reach the actor through its mailbox; its events go out through a
broadcast channel. The bot runner uses the same `create_room`. Every service
that performs a charged operation calls `check_entitlement` and `report_usage`.

What makes each part correct:

* room actor: a running round ends without anybody's help and never because of a
  timer of another round; a pause stops the clock; scores are earned once and
  add up; the course of the game is that of `GameLifecycle`.
* room access: a pin and an invite open the room they were given for and no
  other; a revoked invite stays revoked; a ticket admits one player, in time.
* entitlements: caches never show more than was used, a denial is justified, and
  charge and operation agree in the direction the callers' order promises.
* bots: one handler at a time, one success per update, nothing dropped silently.
* quizzes: versions are numbered without gaps and hold what was published; a
  published quiz does not change.
* room events: a subscriber knows when it missed something. Chat: only members
  and the owner write. AI jobs: a started job ends. Registry: a row exactly where
  a webhook is. Hub: whoever is connected hears the room. Socket client: one live
  socket or a pending attempt.

## Modules

| Module | Models | Composition |
|---|---|---|
| `GameLifecycle` | abstract: the course of a game an observer relies on | implemented by `RoomActor` |
| `RoomActor` | every command of the actor, its timeout tasks, both clocks | `Lifecycle == INSTANCE GameLifecycle WITH ...` |
| `RoomActorProofs` | theorems | extends `RoomActor`, `TLAPS` |
| `RoomAccess` | pins, invites and tickets, one action per Redis call of three handlers of the game service and two of the join service | joins the two services through Redis |
| `RoomAccessProofs` | theorems | extends `RoomAccess`, `TLAPS` |
| `Entitlements` | both RPCs call by call, caches, counters, and the order in which callers use them | service and callers together |
| `EntitlementsProofs` | theorems | extends `Entitlements`, `TLAPS` |
| `BotQueue` | webhook, stream, consumer group and `process_entry` | ingress and runner together |
| `BotQueueProofs` | theorems | extends `BotQueue`, `TLAPS` |
| `QuizNull` | the constant `None` the quiz modules share | |
| `QuizStore` | statements of the quiz handlers and the tables' constraints | |
| `QuizStoreProofs` | theorems | extends `QuizStore`, `TLAPS` |
| `QuizQuestions` | `validate_questions` and `build_quiz_from_generated_payload` as operators, and what a player relies on | |
| `AiJobs` | `ai_quiz_jobs` and the task per job, one action per statement or answer of the model | extends `QuizQuestions` |
| `QuizService` | the service: handlers and tasks over one database, and its restarts | extends `QuizStore` and `AiJobs` |
| `QuizServiceProofs` | theorems of `AiJobs` and of the service, which implements its parts | extends `QuizService`, `QuizStoreProofs`, `TLAPS` |
| `BotRegistry` | table `bots` and the webhooks at Telegram, one action per statement and per try of a call | bot service and Telegram together |
| `BotRegistryProofs` | theorems | extends `BotRegistry`, `TLAPS` |
| `EventFeed` | abstract: what a viewer of a room is promised | implemented by `RoomEvents` |
| `RoomEvents` | broadcast channel, the subscriber's task and queue, the gateway's `events_loop` with its threads | `Feed == INSTANCE EventFeed`; game service and gateway together |
| `RoomEventsProofs` | theorems | extends `RoomEvents`, `TLAPS` |
| `MCRoomActor`, `MCRoomAccess`, `MCEntitlements`, `MCBotQueue`, `MCQuizStore`, `MCQuizService`, `MCBotRegistry`, `MCRoomEvents` | instances for TLC: symmetry, question banks, quotas, replies | one per specification checked |

Operators marked "Mutant" are plausible bugs of the definition that follows
them. No specification uses one; replacing the definition by it shows that the
property it is listed with can fail.

### RoomActor

The actor handles one command at a time, so each handler is one action and
includes the helpers it calls: `CloseRoundAndProgress` stands for
`close_round_and_progress` and for the timer its callers arm afterwards. A
refused command leaves the state alone and is a stuttering step.

What interleaves is time. A timeout task is `armed` (its handle is held),
or `detached` (the handle was overwritten by `None` without abort), or has sent
its message (`mailbox`). `abort` removes a sleeping task but recalls no message.
`Tick` advances the monotonic clock, on which tasks sleep, by one and the wall
clock, in which `ends_at` is written, by a member of `ClockSteps`: it may stand
still or run ahead, but is never set back; a task whose
time is up may be woken late. Times are relative (`endsIn`), so that they stay
finite. Other commands are not queued: a handler depends only on the state in
which it runs, so a command that waited is the same command sent later.

`emitted` holds the kinds of the events of a step. `turns` is a history variable.
Score arithmetic saturates at `MaxScore`, which stands for `u32::MAX`.

The actor has no guard on the lifecycle in `StartGame`: a running, paused or
finished game starts over with the scores it has. The abstract `Begin` says so.

### RoomAccess

`step[c]` is the Redis call the request waits for, `req[c]` its locals. A call is
answered, or times out (`TimesOut`) and is repeated up to `MaxRetries` times;
when it times out it was executed, or was not, or stays on its way in `late` and
is executed at some later moment. `late` is a set: the same command waiting twice
is executed once, which only loses repetitions of idempotent commands. The
keyspaces are disjoint, so a key is the pin, token, room or ticket itself. Ids
are random and never drawn twice; pins are drawn from six characters and may
collide, so every pin can be drawn. The expiry time of a ticket's key and the
`issued_at` check in it are the same `TICKET_TTL`; `TicketAges` is that moment.
`RestartGame` and `RestartJoin` end all requests of a process at once, in
memory state is lost, Redis stays. A client that disconnects drops its handler,
which is a subset of what a failure does at the same step.

The histories `faults`, `tidy` and `revoked` state under which circumstances
the promises hold. They matter: once replies are lost, a repeated write of
`room_invite_token` may overtake another regeneration and leave a room that
names a dead invite; once commands given up are executed late, a ticket stored
again admits a second player within its time. The properties exclude exactly
those cases, and nothing else.

### Entitlements

One user: counters and caches of different users share nothing. `Check` to
`Answer` is `check_entitlement`; `Increment` to `Reported` is `report_usage`.
`began` is the month in which the RPC began and `month` the one `resolve_usage`
computed, which differ when a month ends in between. Errors of cache writes are
swallowed as in the code, all others end the request (`Fail`). Cache entries
expire at any moment (`Expire`), which is weaker than 15 minutes. Counters are
`i32`: `Fits` is the overflow error of the database. `performed` and `reported`
are histories.

### BotQueue

`stream` is append-only and an entry carries the step of its task. Each process
reads with `XREADGROUP >`, spawns a task per entry, and each task takes a global
permit and then one of its bot. `Faults` adds calls that fail, executed or not,
and processes that end; nobody claims pending entries, so those are lost and
`faulty` remembers it. The webhook may fail after adding the entry, so Telegram
sends again. The mark lives for a day, longer than any behaviour. `MAXLEN`
trimming of about 100 000 entries is out of reach of small bounds and left out;
a trimmed entry behaves like one skipped by the group. Partitions are
independent: an update always goes to the partition of its bot.

### QuizStore

`requests[r]` is the row a handler has read and the content it will write. The
publication is one transaction and so one step, with the constraints of
migration `0006`. `MayEdit` is checked on the row that was read, as in the code.
Contents are model values that passed validation. `EndHandlers` drops every
handler at once: the process ended. A reply that is lost changes nothing the
model can see, since nobody repeats a quiz request.

### QuizQuestions and AiJobs

The text of an option stands for all that differ from it in white space at the
ends, which the code trims; `Long` is what `validate_questions` refuses, `Lower`
is `to_lowercase`.
`ValidQuestions` and `Built` are the code's; `Follows` is written independently
of both and says what a reader of the answer would expect.

A row and its task are separate: `jobs` survives, `workers` does not. Every
statement that fails may have been executed, so `StoreJob` has three outcomes and
`SetRunning` three; it is executed before the next statement of the task or
never, so a result stored after the failure was recorded is not modelled.
`AskModel` covers every way an attempt can end: a usable
answer, one more try, or the last. `TakeFallback` is a service configured
without a model. `unsure` and `stranded` name the circumstances under which less
is promised, and only those.

`QuizService` joins both in one process: `Restart` ends all handlers and all
tasks at once. Requests on quizzes and jobs touch different tables.

### BotRegistry

`requests[r]` is the next step of a handler with the values it has read.
`SetWebhook` and `DeleteWebhook` are one try each of `send_with_retry`; a try is
executed, refused, or not answered, and a call that was not answered may be
executed then, later (`Arrives`) or never. `Delete` is both the last statement of
a removal and the rollback of a registration, with the owner in its condition.
`Abandon` drops a handler before its next step. The address and the secret of a
webhook are drawn with the row's id, so the id stands for all three and
`webhook[t] = i` says that updates reach row `i`.

`disturbed` collects the bots for which the promises lapse: two requests worked
on the bot at a time, one was cut short after it had written or read its row, or
a call was given up that may still be executed. `unanswered` collects those one
of whose calls failed; a removal that ignored such a failure leaves a webhook.

### RoomEvents

An event is its number in its room; `log` counts those published. `cursor` is
the position of the broadcast receiver, `held` the item its task is about to put
into the queue, `frame` the item `events_loop` is sending. An item is an event or
the error event of a receiver that lagged, with the number it skipped. `queue`
holds what is between `tx.send` and `next()`: the channel of 32 and what the
transport has taken in.

`next()` blocks a thread of the pool of `asyncio.to_thread`. `pool` holds the
readers that wait for one. Cancelling `events_loop` withdraws a call that waits
and leaves one that runs, which comes back with the next event and finds nobody
(`NextReturns` with a closed socket). A call breaks at any time (`Break`): the
gateway sends the error and reads no more, the websocket stays open.

## Runs

| Run | Module, cfg | Shows | States |
|---|---|---|---|
| `room_timers` | `MCRoomActor`, `RoomTimers.cfg` | With equal clocks a running round's timeout is due by its deadline, stale timeouts change nothing, a pause freezes the game, and under `FairSpec` a running game ends and the fair `GameLifecycle` is implemented | 2 ticks per round, 2 starts, 2 pauses, questions that share an id |
| `room_scores` | `MCRoomActor`, `RoomScores.cfg` | With a wall clock that may run twice as fast, three players who join, leave, are kicked and answer: scores add up, one score per turn, rounds close exactly when the count of answers says so, closed rooms stay closed, a running round stays timed | 3 players, 2 questions, 2 starts |
| `access_rooms` | `MCRoomAccess`, `AccessRooms.cfg` | Creation and regeneration under lost replies, retries, late commands and restarts: pins and invites open their rooms | 2 clients, 2 rooms, 2 pins, 3 tokens, 3 requests, 1 retry |
| `access_tickets` | `MCRoomAccess`, `AccessTickets.cfg` | A ticket admits once and in time, under the same faults and with expiring keys | 2 clients, 1 ticket, 5 requests |
| `access_lifetime` | `MCRoomAccess`, `AccessLifetime.cfg` | Counterexample: a pin outlived by its room | 1 client |
| `entitlements_quota` | `MCEntitlements`, `EntitlementsQuota.cfg` | Caches below counters, just denials, charges matching operations, with failing calls and a change of month | 2 callers, 2 features, 2 plans, 3 requests |
| `entitlements_stale` | `MCEntitlements`, `EntitlementsStale.cfg` | Counterexample: a check that ignores the counter because reports keep an old cached usage alive | 1 caller |
| `bot_queue` | `MCBotQueue`, `BotQueue.cfg` | One handler at a time, one success, dead letters tried often enough, nothing forgotten, and under `FairSpec` every accepted update settled | 1 update sent twice, 2 runners, 2 attempts, limits 2 and 1 |
| `quiz_concurrent` | `MCQuizService`, `QuizConcurrent.cfg` | Two concurrent requests, a job and restarts: versions consecutive and holding what was published, a quiz nobody else worked on says what its publisher was shown; an unfinished job has a task, a finished one stays finished, its quiz counts the option that was meant | 1 quiz, 2 users, 2 contents, 2 versions, 1 job, 81 answers of a model, 3 banks |
| `quiz_immutable` | `MCQuizStore`, `QuizImmutable.cfg` | Counterexample: an edit that undoes a publication | 2 requests |
| `bot_registry` | `MCBotRegistry`, `BotRegistry.cfg` | Registrations, removals and changes of status with calls to Telegram refused, lost, repeated and late: an undisturbed bot with a row has its webhook and the reverse, rows belong to their owners | 1 bot, 2 ids, 2 users, 3 requests, 2 tries |
| `room_events` | `MCRoomEvents`, `RoomEvents.cfg` | `EventFeed` is implemented, and under `FairSpec` a browser that is not hindered catches up | 2 websockets in a room, buffer 2, queue 1, 1 thread, 3 events |

Why the bounds are enough. Stale timers need a start, a pause or a close to
outlive and a later round to meet: two starts, two questions with one id and two
pauses give every such pair. Members leaving in a round need three players (two
in one team). Races of Redis calls are between pairs of requests, with a third
to see their outcome; one retry gives both the first and the last attempt. A
second feature in `entitlements_quota` is counted in the same column, which is
where features meet; a counter limit of 2 reaches both the quota and the
overflow. Two entries of one update that race in two processes, each retried,
are all the ways the mark can be taken, left and removed. Two requests on one
quiz race; their slots are taken up again by the requests that see the result,
and the theorems cover any number. One job is enough, since jobs share nothing.
A bot that is registered, removed and registered again needs two ids, the third
request overlaps both; two tries are a first and a last. With a channel of two
and a queue of one, three events overtake a receiver and leave newer ones to
follow the announcement; with one thread, a closed websocket whose thread is
still inside `next()` keeps the other waiting.

Deadlock is checked wherever the system does not stop. `BotQueue` stops when
Telegram sends nothing more and everything is settled, `QuizStore` when its bound
on ids is used up and the quiz is deleted, `RoomEvents` when no more events are
published and all were shown: their configurations say `CHECK_DEADLOCK FALSE`. The room actor, with time, and the others never stop.

The bounds `MaxStarts`, `MaxPauses`, `MaxRequests`, `MaxMonth`, `MaxSends`,
`MaxVersion`, `MaxEvents` are guards that end growth and nothing the code has; `MaxAttempts`,
`MaxRetries`, the limits and the quotas are parameters of the code.

### Fairness

`RoomActor!Fairness`: the runtime polls timers and woken tasks and the actor
takes its next message, so time, firing tasks and `RoundTimeout` are weakly
fair. No player or owner is obliged to act. `BotQueue!Fairness`: the reading loop
and every spawned task run on; tokio's semaphores serve waiters in order, so a
task that waits for a permit gets it once one is free (weak fairness of the
task's step, because a released permit stays free until a waiter takes it). No
fairness of Telegram, of failures or of process ends. `RoomEvents!Fairness`: tasks
of the game service run, a waiting `next()` is given a free thread, and each
`events_loop` goes on with what it has, so browsers take what they are sent;
nothing makes anybody publish, connect or close, and nothing keeps calls from
breaking. A browser is hindered when it left, its call broke, or every thread is
blocked on a call with nothing to deliver: threads are held by silent rooms, and
that is the code's own limit (32 threads or fewer, one per open websocket).

## Disagreements found

* `quiz_immutable`: `update_quiz` checks the status it read and later writes
  content and that status back. When `publish_snapshot` commits in between, a
  published quiz is edited and is a draft again, although `crud.rs:74` answers
  "published quiz is immutable; create new draft version".
* `access_lifetime`: `PIN_TTL_SCOPE` is "room_lifetime", but a pin lives for
  twelve hours and a room until the process ends.
* `entitlements_stale`: `docs/richcrab/services/entitlements/domain-and-application.md`
  describes checks on the basis of plan and counters; a report refreshes the
  cached usage from the cache itself, so a check made right after it may allow
  what the counter forbids, and does so again as long as reports keep coming.
* `quiz_concurrent`, a passing run: the test `ai_job_lifecycle_integration`
  (`services/quiz/src/service.rs:409`) feeds a reply whose question has two
  options and asserts that the job is `done` and has a quiz (lines 501-502).
  `validate_questions` (`validation.rs:38`) refuses such a reply, so the job is
  `failed`. The test returns early without `DATABASE_URL`. What it asserts is
  that a state is reached; the run has the reply among its answers, and
  `DoneQuizIsRight` (every done job's questions have four options) shows that
  the state never is. There is no counterexample to ask TLC for.

## Proofs

TLC checks the instances above; the theorems hold for every value of the
constants that satisfies the named assumptions of the modules. They use
`Spec`, never fairness.

`RoomActorProofs` (assumptions `UserAssumption` to `NoneAssumption`: the owner is
a user, banks are sequences of ids, a round lasts at least a tick, `None` is no
value of anything else). The invariant is built in layers, each proved from the
ones below:
`TypeOK`; then `PhaseInv`, what the phase says about round, remainder and result
(`PauseRemembersTime`, `ClosedIsEmpty`, `FinishedHasResult`, `RoundMatchesPhase`),
which is inductive only together, because resuming, closing and restarting read
each other's part; then `RunningRoundIsTimed`. That one is inductive because a
pending timeout is counted in all three places: dropping a handle moves it to
`detached`, firing moves it to the mailbox, and every handler that forgets a
handle in a running round has just armed one or is about to. `TimeoutDue` is the
same argument with the time left, under the assumption that the wall clock is
never ahead. `ScorePerTurn` rests on `ScoreInv`: a player who may still answer in
the current round has not yet scored for the turn counted last. `Implementation`
is step simulation of `GameLifecycle!Spec` from `PhaseInv`.

`AnswersInv` carries the two theorems about who ends a round: answers that count
are those of the active team, the sets are finite because players join one at a
time, and a paused round waits for the same departed member as a running one.
Then counting decides as inclusion does (`CountedAll`): an answer that reaches
the number of members present, all answers being of people present, is the
answer of the last of them.

`TeamSum` is induction over data. `MapThenSumSet` takes the elements of a set in
the order `CHOOSE` picks them, so the proof first shows that its recursion has a
solution on every finite set (`SumsExist`), that the solution does not depend on
the set it is restricted from (`SumsUnique`) or on the order (`SumsAnyOrder`).
Each is proved from a smallest counterexample (`SmallestBadSubset`, from the
library's fact that strict inclusion of finite sets is well founded), which
needs no induction theorem over an operator. `SaturationCommutes` is the
arithmetic: the points of a player are never cut off before those of the team.

`RoomAccessProofs` (the keyspaces are disjoint, any number of requests, retries,
rooms and tokens, every combination of the fault switches). The invariants speak
of commands that are still on their way as well as of those a request waits for.
`Tickets`: a ticket is stored, held by the one request that consumed it, or
spent, and what is old stays old; `TicketAdmitsOnce` and `OldTicketStaysOut`
follow, keys expiring or not. `Tokens`: a token is drawn by one request and
unknown to Redis and to every room before that request writes it, its invite is
written before its room names it, and a revoked one stays deleted unless a
command was executed after it had been given up. `PinReserved`: `SET NX`, even
executed late, never overwrites the room a pin names. `NamesOpen`: what a room
names opens it, and what is about to be deleted is named by no room. `Tidy`
describes each phase of the sole writer of a room's invites, from which
`OneInvite` follows; it needs `Bound` (an invite opens the room it was drawn for
or nothing) and `Created` (invites belong to rooms that were drawn). `PinsOpenTheirRooms`,
`RoomTokensOpen` and `OneInviteOnly` assume `~ KeysExpire`: they hold during the
twelve hours the keys live, and `access_lifetime` shows what happens to pins
after them.

`BotQueueProofs` (any number of updates, runners and entries, any limits, with
and without faults). At most one entry of an update is between the `SET NX` that
marked it and the `DEL` that unmarks it (`OneHolder`), and the mark is there
meanwhile; a copy that finds the mark is acknowledged without being handled, so
a handled update stays marked and is handled once (`Counted`). An entry's attempt
number counts the failures of its update (`Tried`), which bounds dead letters
from below. While nothing fails a marked update that was not handled has a
holder (`MarkIsHeld`), hence nothing is forgotten.

`EntitlementsProofs` (plans, features, finitely many callers). `NotOverstated`
needs more than the cache: a caller that has read a usage and not yet written it
also holds a number that must not exceed the counter of the month it will write
(`UsageInv`); counters only grow, so what was true when it was read stays true.
`DenialsJust` adds that the plan is known when the answer is given. `ChargesMatch`
counts the requests between operation and charge: performed plus those that still
owe one is at most the other side (`ChargeInv`).

`QuizStoreProofs` (finitely many requests). `IInv` says that what a request has
read is the past: its row's version number is at most the current one, so that an
insertion either takes the next free number or meets the unique constraint, and
that a committed publication still holds its content. `PublishedAsShown` adds
what a handler of a quiz that nobody else works on has read: the row as it is.

`QuizServiceProofs` first proves `AiJobs` (no assumption but those of
`QuizQuestions` and `AiJobs`): a task at a step has a row in the status of that
step, and one that is about to store has a quiz that follows what was said. The latter is the
lemma that does the work: a `Usable` reply, built, `Follows` it, for every
alphabet, every `Lower` and any number of questions. It then shows that steps of
the service, restarts included, are steps of each part or leave it alone, which
carries the theorems of both over to it (`ServiceKeepsInvariants`).

`BotRegistryProofs`. Inductive is a statement about undisturbed bots: at most one
request works on such a bot (`Alone`), its row is as that request left or read it
(`WorkedOn`), and while Telegram answers its webhook names the row until a
removal takes it off (`Named`). It rests on `UNIQUE (telegram_bot_id)` (two rows
never name the same bot), on ids being drawn once (`Fresh`), and on `late`
holding calls of disturbed bots only (`Surprises`).

`RoomEventsProofs` (finitely many websockets). What is on its way to a browser is
a line: frame, queue and held item each start where the one before ends, the
first at `from + seen`, and while the call is open the last ends at `cursor`
(`Line`). Every item says the truth about where it starts (`Fits`), and a longer
log keeps it true. Hence the frame that is sent is the event due, or announces
events that `Buffer` newer ones have pushed out, which is a step of `EventFeed`;
all other steps stutter there.

Every type invariant, safety invariant, action property and refinement without
fairness that a passing run checks is the statement of a theorem. Only
model-checked are the properties that need fairness, whose proofs would have to
reason about `ENABLED`: `RunningGameEnds`, `ImplementsFairLifecycle`,
`AcceptedIsSettled` and `BrowserCatchesUp`. `RunningRoundIsTimed`, `MarkIsHeld`,
`NothingForgotten` and `Line` are the proved halves of them: something that will
move the system on is always under way.

## Not modelled

Authentication and the gateways' mapping, pages of the client, deployment, text
(names, chat bodies, commands, SVG, JSON), metrics and logs. Postgres and Redis
are taken to execute one statement, command or transaction atomically. Timers of
Redis keys are nondeterministic. The model provider and Telegram are outside.
Components in `PROJECT.json` give the reason for each part that is left out.

Hazards without a property have a note there. Those of modelled parts are losses
the code accepts: quota races between check and report, entries pending when a
process ends, a room token written again by a late repetition. A ticket whose
consumption was executed but not answered is lost as well; the player asks for
another one.

`bot/src/service.rs` is an older copy of the bot service's handlers that no
module declares, so it is not compiled; `BotRegistry` follows the modules that
are. `defay1x9` is built but no service of `docker-compose` starts it.

One observation without a counterexample of its own: `validate_questions` measures
160 with `len()`, which counts bytes, while the message says characters, so a
text in Cyrillic is refused from its 81st letter on. `Long` is what the code
refuses.

## Plan

In order of weight:

1. `JoinLimiter`: windows per key with `INCR` and `EXPIRE`, repeated increments;
   composed with the ticket handlers of `RoomAccess`.
2. `WsHub`: rooms, connections, stream and dispatch threads, the queue of 256,
   `AcquireRoomEntry` against `StopRoomIfEmpty`; with liveness, and as a second
   implementation of `EventFeed`.
3. `ClientSocket`: heartbeat, close and reconnection of successive sockets, with
   liveness; later composed with `RoomEvents`.
4. Chat: membership and the time of the last message of an author.
5. Gateway actions over `RoomAccess` and `RoomActor`: two-step join, host actions
   with a session of another room.

Theorems to prove next: that a request of `RoomAccess` which is answered found or
left what its answer says, and for `Entitlements` a bound on how far the charges
of concurrent requests pass a quota. Each module of the list above comes with its
inductive invariant.
