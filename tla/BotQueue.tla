----------------------------- MODULE BotQueue -----------------------------
(***************************************************************************)
(* Telegram updates on their way through bot_ingress, a partition of the   *)
(* Redis stream and the processes of bot_runner.                           *)
(*                                                                         *)
(* Telegram sends an update until the webhook answered 200, and sometimes  *)
(* again.  A runner reads new entries as one consumer of a group and       *)
(* spawns a task for each.  The task takes a permit of its process and one *)
(* of its bot, marks the update as handled, handles it, and acknowledges   *)
(* the entry; when handling fails it takes the mark off, sleeps, adds the  *)
(* update again with one attempt more, or gives it to the dead letters.    *)
(*                                                                         *)
(* Each call is a step of its own.  With Faults a call may fail, executed  *)
(* or not, and a process may end at any step; nobody claims the entries it *)
(* had pending.  The mark's day is longer than any behaviour here.         *)
(***************************************************************************)
EXTENDS Naturals, Sequences, FiniteSets

CONSTANTS
    Update,      \* updates, a bot and an update_id each
    Bot,
    BotOf,       \* the bot of each update
    Runner,      \* bot_runner processes, consumers of the group
    MaxAttempts, \* BOT_QUEUE_MAX_ATTEMPTS
    GlobalLimit, \* BOT_RUNNER_GLOBAL_LIMIT
    PerBotLimit, \* BOT_RUNNER_PER_BOT_LIMIT
    Batch,       \* COUNT of XREADGROUP
    Faults,      \* whether calls to Redis fail and processes end
    MaxSends,    \* bound: how often Telegram sends an update
    None         \* no process

ASSUME UpdateAssumption == BotOf \in [Update -> Bot] /\ None \notin Runner
ASSUME LimitAssumption ==
    /\ MaxAttempts \in Nat \ {0} /\ Batch \in Nat \ {0}
    /\ GlobalLimit \in Nat /\ PerBotLimit \in Nat /\ MaxSends \in Nat
    /\ Faults \in BOOLEAN

VARIABLES
    stream,   \* the entries ever added, each with the state of its task
    group,    \* whether the consumer group exists
    skipped,  \* entries that were there before the group
    read,     \* entries delivered to the group
    marks,    \* updates whose idempotency key exists
    dead,     \* updates in the dead-letter stream
    sends,    \* how often Telegram sent each update
    accepted, \* updates the webhook answered with 200
    failures, \* history: how often handling an update failed
    handled,  \* history: how often it succeeded
    rooms,    \* history: rooms created for it
    faulty    \* history: whether a call of a runner failed or a process ended

telegram == <<sends, accepted>>
consumers == <<group, skipped, read>>
history == <<failures, handled, rooms>>
vars == <<stream, consumers, marks, dead, telegram, history, faulty>>

\* queued: in the stream; gone: delivered, its task over, not acknowledged.
TaskStep == {"queued", "spawned", "global", "mark", "handle", "reply", "unmark",
             "backoff", "bury", "ack", "acked", "gone"}
Entry == [update : Update, attempt : Nat, step : TaskStep, runner : Runner \cup {None}]
NewEntry(u, n) == [update |-> u, attempt |-> n, step |-> "queued", runner |-> None]

Init ==
    /\ stream = <<>>
    /\ group = FALSE /\ skipped = 0 /\ read = 0
    /\ marks = {} /\ dead = {}
    /\ sends = [u \in Update |-> 0] /\ accepted = {}
    /\ failures = [u \in Update |-> 0]
    /\ handled = [u \in Update |-> 0]
    /\ rooms = [u \in Update |-> 0]
    /\ faulty = FALSE

---------------------------------------------------------------------------
(* bot_ingress: handle_webhook.                                            *)

Webhook(u) ==
    /\ sends[u] < MaxSends
    /\ sends' = [sends EXCEPT ![u] = @ + 1]
    /\ \/ stream' = Append(stream, NewEntry(u, 0)) /\ accepted' = accepted \cup {u}
       \/ /\ Faults
          /\ \/ stream' = Append(stream, NewEntry(u, 0))
             \/ UNCHANGED stream
          /\ UNCHANGED accepted
    /\ UNCHANGED <<consumers, marks, dead, history, faulty>>

---------------------------------------------------------------------------
(* bot_runner: ensure_consumer_groups, run_loop.                           *)

\* XGROUP CREATE ... $: the group begins behind the last entry.
CreateGroup ==
    /\ ~ group
    /\ group' = TRUE
    /\ skipped' = Len(stream) /\ read' = Len(stream)
    /\ UNCHANGED <<stream, marks, dead, telegram, history, faulty>>

HoldsGlobal == {"global", "mark", "handle", "reply", "unmark", "backoff", "bury", "ack"}
HoldsBot == HoldsGlobal \ {"global"}
TasksOf(r, steps) ==
    {i \in 1 .. Len(stream) : stream[i].runner = r /\ stream[i].step \in steps}

\* Mutant: a full batch is taken for granted.
FullBatch == read + Batch
\* The last entry that XREADGROUP ... COUNT delivers.
LastRead == IF read + Batch < Len(stream) THEN read + Batch ELSE Len(stream)

\* The process of the tasks I ends.
End(I) == stream' = [i \in 1 .. Len(stream) |->
                        IF i \in I THEN [stream[i] EXCEPT !.step = "gone", !.runner = None]
                        ELSE stream[i]]

\* The tasks spawned before are not counted until they have their permit.
\* An error of the read ends the process, the entries it delivered with it.
ReadEntries(r) ==
    LET batch == read + 1 .. LastRead
    IN  /\ group /\ read < Len(stream)
        /\ Cardinality(TasksOf(r, HoldsGlobal)) < GlobalLimit
        /\ read' = LastRead
        /\ \/ /\ stream' = [i \in 1 .. Len(stream) |->
                            IF i \in batch
                            THEN [stream[i] EXCEPT !.step = "spawned", !.runner = r]
                            ELSE stream[i]]
              /\ UNCHANGED faulty
           \/ Faults /\ faulty' = TRUE /\ End(batch \cup TasksOf(r, TaskStep))
        /\ UNCHANGED <<group, skipped, marks, dead, telegram, history>>

---------------------------------------------------------------------------
(* bot_runner: process_entry.                                              *)

UpdateOf(i) == stream[i].update
At(i, s) == stream[i].step = s
Goto(i, s) == stream' = [stream EXCEPT ![i].step = s]
Leave(i, s) == stream' = [stream EXCEPT ![i].step = s, ![i].runner = None]

TakeGlobal(i) ==
    /\ At(i, "spawned")
    /\ Cardinality(TasksOf(stream[i].runner, HoldsGlobal)) < GlobalLimit
    /\ Goto(i, "global")
    /\ UNCHANGED <<consumers, marks, dead, telegram, history, faulty>>

TakeBot(i) ==
    /\ At(i, "global")
    /\ Cardinality({j \in TasksOf(stream[i].runner, HoldsBot) :
                       BotOf[UpdateOf(j)] = BotOf[UpdateOf(i)]}) < PerBotLimit
    /\ Goto(i, "mark")
    /\ UNCHANGED <<consumers, marks, dead, telegram, history, faulty>>

\* Mutant: the answer of set_once is not looked at.
MarkAgain(u) == TRUE
\* SET NX
Unmarked(u) == u \notin marks

\* An update that is marked is somebody else's: the entry is dropped.
Mark(i) ==
    /\ At(i, "mark")
    /\ \/ Unmarked(UpdateOf(i)) /\ marks' = marks \cup {UpdateOf(i)} /\ Goto(i, "handle")
       \/ ~ Unmarked(UpdateOf(i)) /\ Goto(i, "ack") /\ UNCHANGED marks
    /\ UNCHANGED <<consumers, dead, telegram, history, faulty>>

Succeeds(i) ==
    /\ handled' = [handled EXCEPT ![UpdateOf(i)] = @ + 1]
    /\ Goto(i, "ack")
    /\ UNCHANGED failures
Fails(i) ==
    /\ failures' = [failures EXCEPT ![UpdateOf(i)] = @ + 1]
    /\ Goto(i, "unmark")
    /\ UNCHANGED handled

\* handle_update up to create_room: an update without a command, for a bot
\* that is gone or disabled counts as handled; a create_room that failed may
\* have created the room all the same.
Handle(i) ==
    /\ At(i, "handle")
    /\ \/ /\ rooms' = [rooms EXCEPT ![UpdateOf(i)] = @ + 1]
          /\ Goto(i, "reply")
          /\ UNCHANGED <<failures, handled>>
       \/ Goto(i, "reply") /\ UNCHANGED history
       \/ Succeeds(i) /\ UNCHANGED rooms
       \/ Fails(i) /\ rooms' \in {rooms, [rooms EXCEPT ![UpdateOf(i)] = @ + 1]}
    /\ UNCHANGED <<consumers, marks, dead, telegram, faulty>>

\* store_last_room, get_last_room and send_telegram_reply
Reply(i) ==
    /\ At(i, "reply")
    /\ Succeeds(i) \/ Fails(i)
    /\ UNCHANGED <<consumers, marks, dead, telegram, rooms, faulty>>

\* Mutant: the mark of a failed update stays.
KeepMark(u) == marks
WithoutMark(u) == marks \ {u}

\* Mutant: one attempt is forgotten.
LastTooEarly(i) == stream[i].attempt + 2 >= MaxAttempts
LastAttempt(i) == stream[i].attempt + 1 >= MaxAttempts

Unmark(i) ==
    /\ At(i, "unmark")
    /\ marks' = WithoutMark(UpdateOf(i))
    /\ Goto(i, IF LastAttempt(i) THEN "bury" ELSE "backoff")
    /\ UNCHANGED <<consumers, dead, telegram, history, faulty>>

\* The sleep is over.
Requeue(i) ==
    /\ At(i, "backoff")
    /\ stream' = Append([stream EXCEPT ![i].step = "ack"],
                        NewEntry(UpdateOf(i), stream[i].attempt + 1))
    /\ UNCHANGED <<consumers, marks, dead, telegram, history, faulty>>

Bury(i) ==
    /\ At(i, "bury")
    /\ dead' = dead \cup {UpdateOf(i)}
    /\ Goto(i, "ack")
    /\ UNCHANGED <<consumers, marks, telegram, history, faulty>>

Ack(i) ==
    /\ At(i, "ack")
    /\ Leave(i, "acked")
    /\ UNCHANGED <<consumers, marks, dead, telegram, history, faulty>>

---------------------------------------------------------------------------
(* Faults.                                                                 *)

\* A call of process_entry fails, executed or not; its error is logged.
CallFails(i) ==
    /\ Faults /\ faulty' = TRUE
    /\ \/ /\ At(i, "mark") /\ Leave(i, "gone")
          /\ marks' \in {marks, marks \cup {UpdateOf(i)}}
          /\ UNCHANGED dead
       \/ /\ At(i, "unmark") /\ Leave(i, "gone")
          /\ marks' \in {marks, marks \ {UpdateOf(i)}}
          /\ UNCHANGED dead
       \/ /\ At(i, "backoff")
          /\ \/ Leave(i, "gone")
             \/ stream' = Append([stream EXCEPT ![i].step = "gone", ![i].runner = None],
                                 NewEntry(UpdateOf(i), stream[i].attempt + 1))
          /\ UNCHANGED <<marks, dead>>
       \/ /\ At(i, "bury") /\ Leave(i, "gone")
          /\ dead' \in {dead, dead \cup {UpdateOf(i)}}
          /\ UNCHANGED marks
       \/ /\ At(i, "ack") /\ (Leave(i, "gone") \/ Leave(i, "acked"))
          /\ UNCHANGED <<marks, dead>>
    /\ UNCHANGED <<consumers, telegram, history>>

\* A process ends; the one that takes its place has another consumer name.
Crash(r) ==
    /\ Faults /\ faulty' = TRUE
    /\ End(TasksOf(r, TaskStep))
    /\ UNCHANGED <<consumers, marks, dead, telegram, history>>

---------------------------------------------------------------------------
Task(i) ==
    \/ TakeGlobal(i) \/ TakeBot(i) \/ Mark(i) \/ Handle(i) \/ Reply(i)
    \/ Unmark(i) \/ Requeue(i) \/ Bury(i) \/ Ack(i)

Next ==
    \/ \E u \in Update : Webhook(u)
    \/ CreateGroup
    \/ \E r \in Runner : ReadEntries(r) \/ Crash(r)
    \/ \E i \in 1 .. Len(stream) : Task(i) \/ CallFails(i)

Spec == Init /\ [][Next]_vars

\* Most entries the sends and attempts can make.
MaxEntries == Cardinality(Update) * MaxSends * MaxAttempts
\* Loops and tasks are scheduled; the semaphores serve their waiters in order.
Fairness ==
    /\ WF_vars(CreateGroup)
    /\ WF_vars(\E r \in Runner : ReadEntries(r))
    /\ \A i \in 1 .. MaxEntries : WF_vars(i <= Len(stream) /\ Task(i))
FairSpec == Spec /\ Fairness

---------------------------------------------------------------------------
(* Properties.                                                             *)

TypeOK ==
    /\ stream \in Seq(Entry)
    /\ group \in BOOLEAN
    /\ skipped \in Nat /\ read \in 0 .. Len(stream)
    /\ marks \subseteq Update /\ dead \subseteq Update
    /\ sends \in [Update -> Nat] /\ accepted \subseteq Update
    /\ failures \in [Update -> Nat]
    /\ handled \in [Update -> Nat]
    /\ rooms \in [Update -> Nat]
    /\ faulty \in BOOLEAN

\* An update is handled by one task at a time, though Telegram may send it
\* several times, several processes read it and it is added again.
OneHandlerAtATime ==
    \A i, j \in 1 .. Len(stream) :
        /\ stream[i].step \in {"handle", "reply"} /\ stream[j].step \in {"handle", "reply"}
        /\ UpdateOf(i) = UpdateOf(j)
        => i = j

\* It is handled successfully at most once, and each further room created
\* for it was preceded by a failure: duplicates alone create none.
HandledOnce ==
    \A u \in Update : handled[u] <= 1 /\ rooms[u] <= failures[u] + 1

\* What is a dead letter failed as often as it was to be tried.
DeadMeansTried == \A u \in dead : failures[u] >= MaxAttempts

Alive == TaskStep \ {"ack", "acked", "gone"}
Pending(u) == \E i \in skipped + 1 .. Len(stream) : UpdateOf(i) = u /\ stream[i].step \in Alive
Settled(u) == handled[u] > 0 \/ u \in dead
Skipped(u) == \E i \in 1 .. skipped : UpdateOf(i) = u

\* While no call failed and no process ended, an update the webhook accepted
\* is never dropped: it is settled or an entry will still handle it, even
\* though entries of a marked update are dropped and marks are taken off
\* again.  Updates added before the first runner made the group are lost.
NothingForgotten ==
    faulty \/ \A u \in accepted : Settled(u) \/ Skipped(u) \/ Pending(u)

\* And it is settled in the end, unless a call fails or a process ends.
AcceptedIsSettled ==
    \A u \in Update : u \in accepted ~> Settled(u) \/ Skipped(u) \/ faulty

===========================================================================
